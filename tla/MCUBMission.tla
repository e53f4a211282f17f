----------------------------- MODULE MCUBMission -----------------------------
(* Model checking of UBMission: the missions of UBMission.cfg.              *)
EXTENDS UBMission
I(cmd, n) == [cmd |-> cmd, n |-> n]
MCMissions ==
  {<<>>, <<I("home", 0), I("wp", 1)>>,
   <<I("home", 0), I("roi", 1), I("camera", 2), I("roi", 3), I("wp", 4), I("shots", 5), I("wp", 6), I("wp", 7)>>}
=============================================================================
