SPECIFICATION Spec
CONSTANTS
  Paths = {1}
  Procs = {p1}
  NoProc = NoProc
  NoJob = NoJob
  Jobs <- BuildJobs
  References <- MCReferences
  OutLinks = {}
  InterruptHitsCommit = TRUE
INVARIANT ValidHasTree
