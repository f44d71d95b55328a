SPECIFICATION Spec
CONSTANTS
  Paths = {1, 2, 3}
  Procs = {p1, p2}
  NoProc = NoProc
  NoJob = NoJob
  Jobs <- SafetyJobs
  References <- MCReferences
  OutLinks = {1, 2}
  InterruptHitsCommit = FALSE
INVARIANTS
  StoreInv
  ValidHasTree
  ReliedStaysValid
PROPERTIES
  RootedSurvives
  LockedTreeIsPrivate
