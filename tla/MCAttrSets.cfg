SPECIFICATION Spec
CONSTANTS
  Keys <- MCKeys
  MaxEntries = 3
  DefaultCapacity = 1
  SmallSort = 2
  Lookups <- MCLookups
  Removals <- MCRemovals
  Capacities <- MCCapacities
  MaxSets = 3
  MaxWrites = 4
  Junk = Junk
  Absent = Absent
INVARIANTS
  SetsInv
PROPERTIES
  ImplementsPromise
CHECK_DEADLOCK FALSE
