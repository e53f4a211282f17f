---------------------------- MODULE MCUBPlanSync ----------------------------
(* Model checking of UBPlanSync: the totals of UBPlanSync.cfg and           *)
(* UBPlanSyncSignals.cfg.                                                   *)
EXTENDS UBPlanSync
T(fence, rally) == [fence |-> fence, rally |-> rally]
\* A polygon and a rally point; a fence that is too small; a vehicle without either.
MCTotals == {T(5, 1), T(3, 0), T(Unsupported, Unsupported)}
\* The user has removed the fence and keeps one rally point.
MCPlans == {T(0, 1)}
MCUnsupported == {T(Unsupported, Unsupported)}
=============================================================================
