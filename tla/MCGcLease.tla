----------------------------- MODULE MCGcLease -----------------------------
(***************************************************************************)
(* Instance of GcLease: three processes, the fewest for which two wait to  *)
(* collect while a third still uses the store.                             *)
(***************************************************************************)
EXTENDS GcLease
=============================================================================
