---------------------------- MODULE WholeOrGone -----------------------------
(***************************************************************************)
(* What a transfer promises the rest of the store about its path (comments *)
(* on SubstSuccess, trySubstitute and materializeNarFromSource in          *)
(* Nix.Substituter): the tree at a store path that is not valid belongs to *)
(* the process that holds the path's lock; nobody else ever meets a tree   *)
(* that is being written; only a whole tree becomes valid, while its lock  *)
(* is still held; a valid path is left alone.  StorePaths takes its        *)
(* transfers to behave like this, Transfer says how they come to.          *)
(***************************************************************************)
CONSTANTS Procs, NoProc

VARIABLES
  tree,     \* "absent", "leftover", "unfinished" or "whole".
  valid,    \* Whether the path has its row.
  holder    \* The process that holds the path's lock, or NoProc.

vars == <<tree, valid, holder>>

Settled == {"absent", "leftover", "whole"}

Init ==
  /\ tree \in Settled
  /\ valid = FALSE
  /\ holder = NoProc

Take(p) == holder = NoProc /\ holder' = p /\ UNCHANGED <<tree, valid>>

Write(p) ==
  /\ holder = p /\ ~valid
  /\ tree' \in Settled \cup {"unfinished"}
  /\ UNCHANGED <<valid, holder>>

\* The lock goes with whatever the last step left, which is never a tree
\* that was being written.
Release(p) ==
  /\ holder = p /\ holder' = NoProc
  /\ tree' \in Settled
  /\ valid => UNCHANGED tree
  /\ UNCHANGED valid

Register(p) ==
  /\ holder = p /\ holder' = NoProc
  /\ tree = "whole" /\ UNCHANGED tree
  /\ valid' = TRUE

Next == \E p \in Procs : Take(p) \/ Write(p) \/ Release(p) \/ Register(p)

Spec == Init /\ [][Next]_vars
=============================================================================
