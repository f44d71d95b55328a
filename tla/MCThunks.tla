------------------------------ MODULE MCThunks ------------------------------
(* An arena of four thunks in two blocks, one inline, one shared and one     *)
(* boxed value, three StablePtrs, and stacks of four frames under a ceiling  *)
(* that the second call exceeds.                                             *)
EXTENDS Thunks

=============================================================================
