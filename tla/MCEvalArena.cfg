SPECIFICATION Spec
CONSTANTS
  MaxUInt = 15
  Strings <- MCStrings
  fnv1a <- MCfnv1a
  SymbolCapacity = 2
  LoadPercent = 75
  ArenaInitial = 2
  Exprs <- MCExprs
  OpCapacity = 5
  DataCapacity = 1
  Spilled = 2
  PageWords = 9
  MaxWords = 15
  SlotCounts = {2, 15}
  MaxPages = 2
  MaxMade = 4
  TrackCapacity = 1
  ListLengths = {1, 2}
  EntryCounts = {0, 1}
  MaxObjects = 4
  Uses <- MCUses
  None = None
  Junk = Junk
INVARIANTS
  FoundAgain
  CodeDecodes
  ReadsBack
  HeapAccounted
PROPERTIES
  TextsKept
CHECK_DEADLOCK FALSE
