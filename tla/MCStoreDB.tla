----------------------------- MODULE MCStoreDB -----------------------------
(***************************************************************************)
(* Instance of StoreDBHistory: three paths, so that a cycle, a chain and a *)
(* bystander fit, and batches of up to two registrations, so that a batch  *)
(* can name one path twice and can refer forward.  Nothing in the module   *)
(* tells one path from another, so the paths are a symmetry set.           *)
(***************************************************************************)
EXTENDS StoreDBHistory, TLC

PathSymmetry == Permutations(Paths)
=============================================================================
