----------------------------- MODULE MCAttrSets -----------------------------
(* Four insertions of four keys into three sets of at most three entries: a  *)
(* set has room for one, doubles to two and then only reaches three, a union *)
(* of four keys is refused, and qsort sorts from three entries on.           *)
EXTENDS AttrSets

MCKeys       == 1 .. 4
MCCapacities == {0}
MCRemovals   == {{1, 3}}
MCLookups    == {3}

=============================================================================
