------------------------------ MODULE MCRealise ------------------------------
(***************************************************************************)
(* Realise over the graph 3 -> 1, 2 and 2 -> 1.  Derivation 2 has the      *)
(* outputs 2 and 3, derivation 3 the outputs 4 and 5; path 6 is nobody's   *)
(* output, a hole only a cache fills.  The two caches disagree about       *)
(* references.  What the second declares goes from an output of derivation *)
(* 3 through the hole to its other output; with what the first declares of *)
(* that output it is a cycle.                                              *)
(***************************************************************************)
EXTENDS Realise

MCOutputs == <<{1}, {2, 3}, {4, 5}>>
MCDeps == <<{}, {1}, {1, 2}>>
MCEmbeds == <<{}, {1}, {2}, {3}, {1, 4}, {}>>
MCDeclares == << <<{}, {1}, {2}, {3, 6}, {4}, {}>>,
                 <<{}, {1}, {2}, {6}, {}, {5}>> >>

\* Each cache holds one of a few selections; the first input, or one output
\* of each of the other derivations as well, may be valid already.
MCWorlds ==
  [valid : {{}, {1, 2}, {1, 2, 3, 4}},
   holds : [Caches -> {{}, {4, 6}, {2, 3, 4, 5}, Paths}]]
=============================================================================
