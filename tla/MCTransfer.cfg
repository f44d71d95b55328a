SPECIFICATION FairSpec
CONSTANTS
  Procs = {p1, p2}
  NoProc = NoProc
  Priority <- MCPriority
  BadKeys = {3}
  nar1 = nar1
  nar2 = nar2
  Nars = {nar1, nar2}
  Signed <- MCSigned
  Attempts = 2
  NoOffer = NoOffer
  RemovalCanFail = TRUE
INVARIANTS
  TransferInv
  RowDescribesTree
  ReportMatchesScan
PROPERTIES
  EveryTransferEnds
  ImplementsPromise
