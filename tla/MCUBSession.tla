----------------------------- MODULE MCUBSession -----------------------------
(* Model checking of UBSession: see the .cfg files for the bounds.         *)
EXTENDS UBSession
=============================================================================
