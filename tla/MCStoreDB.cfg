SPECIFICATION HistorySpec
CONSTANTS
  Paths = {p1, p2, p3}
  MaxBatch = 2
SYMMETRY PathSymmetry
INVARIANTS
  RefsClosed
  EdgesAsDeclared
