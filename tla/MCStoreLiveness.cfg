SPECIFICATION FairSpec
CONSTANTS
  Paths = {1, 2}
  Procs = {p1, p2}
  NoProc = NoProc
  NoJob = NoJob
  Jobs <- LivenessJobs
  References <- MCReferences
  OutLinks = {}
  InterruptHitsCommit = FALSE
PROPERTIES
  JobEnds
