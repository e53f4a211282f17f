---------------------------- MODULE MCUBParameters ----------------------------
(* Model checking of UBParameters: an autopilot and a gimbal.               *)
EXTENDS UBParameters
MCParameters == <<<<1, 0>>, <<1, 1>>, <<154, 0>>>>
=============================================================================
