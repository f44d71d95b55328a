------------------------- MODULE CollectorExclusion -------------------------
(***************************************************************************)
(* What the store-wide garbage-collector lock promises (header of          *)
(* Nix.Store.Handle): processes use the store together, a collection runs  *)
(* alone, and a process that comes while one runs waits until it is over.  *)
(* How leases, descriptors and the database connection bring this about is *)
(* the matter of GcLease, which implements this module.                    *)
(***************************************************************************)
CONSTANTS Procs, NoProc

VARIABLES
  using,        \* The processes that may read and write the store.
  collector     \* The process whose collection runs, or NoProc.

vars == <<using, collector>>

Init == using = {} /\ collector = NoProc

Enter(p) ==
  /\ collector = NoProc
  /\ using' = using \cup {p}
  /\ UNCHANGED collector

Leave(p) == using' = using \ {p} /\ UNCHANGED collector

Begin(p) ==
  /\ using = {}
  /\ collector = NoProc
  /\ collector' = p
  /\ UNCHANGED using

\* A collection ends; a process that dies collecting ends it too.
End(p) ==
  /\ collector = p
  /\ collector' = NoProc
  /\ UNCHANGED using

Next == \E p \in Procs : Enter(p) \/ Leave(p) \/ Begin(p) \/ End(p)

Spec == Init /\ [][Next]_vars
=============================================================================
