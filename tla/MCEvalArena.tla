---------------------------- MODULE MCEvalArena ----------------------------
EXTENDS EvalArena

MCStrings == {<< >>, <<1>>, <<2>>, <<1, 2>>, <<2, 1>>, <<1, 1, 1, 1, 1, 1, 1, 1>>}
MCfnv1a ==
  [s \in MCStrings |-> CASE s = << >> -> 3 [] s \in {<<1>>, <<2, 1>>} -> 3
                         [] s = <<2>> -> 15 [] Len(s) = 8 -> 7 [] OTHER -> 0]

MCExprs == LET v == Var(0, 1)  w == Var(1, 0)
           IN  {v, w, List(<< >>), List(<<v, w>>), App("app", v, w), List(<<w>>), List(<<List(<<w>>), v>>)}

MCUses == {{"symbols"}, {"code"}, {"envs"}, {"objects"}}
=============================================================================
