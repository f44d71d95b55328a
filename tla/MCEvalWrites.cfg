SPECIFICATION Spec
CONSTANTS
  Paths = {1}
  Procs = {p1, p2}
  NoProc = NoProc
  NoJob = NoJob
  Jobs <- WriteJobs
  References <- MCReferences
  OutLinks = {}
  InterruptHitsCommit = FALSE
INVARIANT ValidHasTree
