----------------------------- MODULE MCTransfer -----------------------------
(* Instances of Transfer: three caches, the second of the highest priority *)
(* and the others as they are configured.  Different archives are signed   *)
(* for the first and the second, and the keys of the third do not parse.   *)
EXTENDS Transfer

CONSTANTS nar1, nar2

MCPriority == <<40, 30, 40>>

MCSigned == <<{nar1, nar2}, {nar2}, {nar1}>>
=============================================================================
