--------------------------- MODULE StoreDBHistory ---------------------------
(***************************************************************************)
(* The database run on its own: any sequence of the transactions of        *)
(* StoreDB, over any batch, with a history of what was last declared.      *)
(*                                                                         *)
(* The hazards are those of long sequences of legal calls: a path          *)
(* registered again with other references, a path removed and registered   *)
(* anew, cycles of references between the outputs of one derivation, a     *)
(* batch refused after some of its rows were inserted.                     *)
(***************************************************************************)
EXTENDS StoreDB

CONSTANT MaxBatch  \* Bound: registrations in one batch.
ASSUME MaxBatchAssumption == MaxBatch \in Nat

\* History, not code: for each path, the references of the last batch that
\* was accepted for it, and {} while it has no row.
VARIABLE declared

historyVars == <<validPaths, refsTable, declared>>

Batches == UNION {[1 .. n -> PathRegistration] : n \in 0 .. MaxBatch}

HistoryTypeOK ==
  /\ DBTypeOK
  /\ declared \in [Paths -> SUBSET Paths]

HistoryInit == openStoreDB /\ declared = [path \in Paths |-> {}]

Register(batch) ==
  /\ registerPaths(batch)
  /\ declared' = [path \in Paths |->
       IF path \in BatchPaths(batch) THEN EdgesOf(path, batch) ELSE declared[path]]

RefuseBatch(batch) == registerPathsRefused(batch) /\ UNCHANGED declared

Forget(paths) ==
  declared' = [path \in Paths |-> IF path \in paths THEN {} ELSE declared[path]]

UnregisterRow(path) == unregisterPathRow(path) /\ Forget({path})

UnregisterRowRefused(path) == unregisterPathRowRefused(path) /\ UNCHANGED declared

UnregisterRows(paths) == unregisterPathRows(paths) /\ Forget(paths)

UnregisterRowsRefused(paths) == unregisterPathRowsRefused(paths) /\ UNCHANGED declared

HistoryNext ==
  \/ \E batch \in Batches : Register(batch)
  \/ \E batch \in Batches : RefuseBatch(batch)
  \/ \E path \in Paths : UnregisterRow(path)
  \/ \E path \in Paths : UnregisterRowRefused(path)
  \/ \E paths \in SUBSET Paths : UnregisterRows(paths)
  \/ \E paths \in SUBSET Paths : UnregisterRowsRefused(paths)

HistorySpec == HistoryInit /\ [][HistoryNext]_historyVars

-----------------------------------------------------------------------------
(* The edges of a row are exactly the references its last accepted         *)
(* registration declared: a second registration replaces the edges and     *)
(* never unites them, a removed path leaves no edge for its successor to   *)
(* inherit, and a refused batch leaves the earlier edges alone             *)
(* (insertPathRefs in DB.hs).                                              *)
EdgesAsDeclared == \A path \in Paths : queryReferences(path) = declared[path]
=============================================================================
