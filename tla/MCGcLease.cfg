SPECIFICATION FairSpec
CONSTANTS
  Procs = {p1, p2, p3}
  NoProc = NoProc
INVARIANTS
  LeaseInv
  CollectionRunsAlone
  DoneHoldsNothing
PROPERTIES
  WaitingCollectorMovesOn
  OpenerGetsIn
  ImplementsPromise
