----------------------------- MODULE MCGcRoots -----------------------------
(***************************************************************************)
(* An instance of GcRoots: three processes that add one link to one target. *)
(***************************************************************************)
EXTENDS GcRoots

OneLink == [p \in Procs |-> CHOOSE l \in Links : TRUE]
=============================================================================
