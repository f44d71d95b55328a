SPECIFICATION Spec
CONSTANTS
  Procs = {1, 2, 3}
  Links = {1}
  LinkOf <- OneLink
  Targets = {path}
  Absent = Absent
  Foreign = Foreign
  Listing = TRUE
INVARIANTS
  UndisturbedKeepsRecord
  CollectionSpares
PROPERTY
  TornMeansDoubled
