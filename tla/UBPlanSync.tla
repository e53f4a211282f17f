------------------------------ MODULE UBPlanSync ------------------------------
(***************************************************************************)
(* The plan of a vehicle: its mission, fence and rally points, which are       *)
(* transferred one after the other, each when the one before it is signalled   *)
(* complete.  Two chains listen to the same signals of the same managers:      *)
(* the Vehicle's, which loads the plan once its parameters and capabilities    *)
(* are known (UBCommands), and the plan view's PlanMasterController, which     *)
(* loads and sends it when the user asks.  The fly view clears the plan, and   *)
(* writes to the mission (goto, resume).                                    *)
(*                                                                         *)
(* A transfer of the mission always ends (UBMission).  The fence and the rally *)
(* points are ArduPilot's: each is as many points as a parameter says, fetched *)
(* one by one without a timer, and sent without an acknowledgement.           *)
(***************************************************************************)
EXTENDS UBCommands, Integers

CONSTANTS Totals,       \* what the vehicle's parameters may say of how many points it has
          Plans,        \* how many points the user's plan may have
          MaxRequests   \* bound: what the user asks of the plan and fly views

Managers == {"fence", "rally"}
Unsupported == -1       \* the vehicle has no such parameter
Point == [of : Managers, index : Nat]

ASSUME PlanAssumption ==
  /\ Totals \subseteq [Managers -> Nat \cup {Unsupported}] /\ Plans \subseteq [Managers -> Nat]
  /\ MaxRequests \in Nat

VARIABLES
  total,                \* per manager, the vehicle's parameter
  drawn,                \* per manager, what the plan view has, as it was last sent
  mission,              \* what MissionManager does
  requested,            \* the Vehicle's _*ManagerInitialRequestSent
  planComplete,         \* _initialPlanRequestComplete
  pending,              \* PlanMasterController's flags: the step to take at the next signal
  syncInProgress,
  reading, count, current,       \* per manager: _readTransactionInProgress, _cRead*Points,
                        \* _current*Point
  fetches, replies,     \* the points asked for and sent, on their way
  requests              \* how much the user has asked for

state == <<total, mission, requested, planComplete, pending, syncInProgress, reading, count, current>>
transfer == <<state, drawn, fetches, replies, requests>>

PlanTypeOK ==
  /\ TypeOK
  /\ total \in [Managers -> Nat \cup {Unsupported}] /\ drawn \in [Managers -> Nat]
  /\ count \in [Managers -> Nat] /\ current \in [Managers -> Nat]
  /\ mission \in {"idle", "read", "write", "remove"} /\ planComplete \in BOOLEAN /\ syncInProgress \in BOOLEAN
  /\ requested \subseteq {"mission", "fence", "rally"} /\ reading \subseteq Managers
  /\ pending \subseteq {"loadFence", "loadRally", "sendFence", "sendRally"}
  /\ fetches \cup replies \subseteq Point
  /\ requests \in 0..MaxRequests

PlanInit ==
  /\ Init
  /\ total \in Totals /\ drawn = [m \in Managers |-> 0]
  /\ mission = "idle" /\ requested = {} /\ planComplete = FALSE
  /\ pending = {} /\ syncInProgress = FALSE
  /\ reading = {} /\ count = [m \in Managers |-> 0] /\ current = [m \in Managers |-> 0]
  /\ fetches = {} /\ replies = {} /\ requests = 0

-----------------------------------------------------------------------------
(* The signals and their slots, as functions of the state they change: the     *)
(* Vehicle's slot runs before the PlanMasterController's.                      *)

Now == [total |-> total, mission |-> mission, requested |-> requested, complete |-> planComplete,
        pending |-> pending, sync |-> syncInProgress, reading |-> reading, count |-> count,
        current |-> current, fetched |-> {}]
Becomes(s) ==
  /\ total' = s.total /\ mission' = s.mission /\ requested' = s.requested /\ planComplete' = s.complete
  /\ pending' = s.pending /\ syncInProgress' = s.sync
  /\ reading' = s.reading /\ count' = s.count /\ current' = s.current
  /\ fetches' = fetches \cup s.fetched

Fetch(s, m, i) ==
  [s EXCEPT !.reading = @ \cup {m}, !.current[m] = i, !.fetched = @ \cup {[of |-> m, index |-> i]}]
Take(s, flag, next) == [s EXCEPT !.pending = (@ \ {flag}) \cup next]

RallyLoaded(s) == [s EXCEPT !.complete = TRUE, !.sync = FALSE]
LoadRally(s) ==
  IF "rally" \in s.reading THEN s
  ELSE IF s.total["rally"] = Unsupported THEN RallyLoaded(s)
  ELSE LET counted == [s EXCEPT !.count["rally"] = s.total["rally"]]
       IN IF counted.count["rally"] = 0 THEN RallyLoaded(counted) ELSE Fetch(counted, "rally", 0)

\* The plan view's step comes last; a manager that is reading refuses it.
FenceLoaded(s) ==
  LET v == IF "rally" \in s.requested THEN s ELSE LoadRally([s EXCEPT !.requested = @ \cup {"rally"}])
  IN IF "loadRally" \in v.pending THEN LoadRally(Take(v, "loadRally", {})) ELSE v
\* Fewer points than a polygon has are an error, and no signal.
TooFew(t) == t["fence"] \in 1..4
LoadFence(s) ==
  IF "fence" \in s.reading THEN s
  ELSE IF s.total["fence"] <= 0 THEN FenceLoaded(s)
  ELSE IF TooFew(s.total) THEN s
  ELSE Fetch([s EXCEPT !.count["fence"] = s.total["fence"]], "fence", 0)

MissionLoaded(s) ==
  LET v == IF "fence" \in s.requested THEN s ELSE LoadFence([s EXCEPT !.requested = @ \cup {"fence"}])
  IN IF "loadFence" \in v.pending THEN LoadFence(Take(v, "loadFence", {"loadRally"})) ELSE v

\* n points are sent, and the parameter set to their number.  A manager that is reading,
\* or whose vehicle has no such points, signals nothing.
Refuses(s, m) == m \in s.reading \/ s.total[m] = Unsupported
SendRally(s, n) ==
  IF Refuses(s, "rally") THEN s ELSE [s EXCEPT !.total["rally"] = n, !.sync = FALSE]
FenceSent(s) ==
  IF "sendRally" \in s.pending THEN SendRally(Take(s, "sendRally", {}), drawn["rally"]) ELSE s
SendFence(s, n) ==
  IF Refuses(s, "fence") THEN s ELSE FenceSent([s EXCEPT !.total["fence"] = n])
MissionSent(s) ==
  IF "sendFence" \in s.pending
  THEN SendFence(Take(s, "sendFence", {"sendRally"}), drawn["fence"]) ELSE s

\* MissionManager refuses while it is busy.
Begin(s, kind) == IF s.mission = "idle" THEN [s EXCEPT !.mission = kind] ELSE s

-----------------------------------------------------------------------------
\* The Vehicle's chain starts within the handler that makes it possible.
StartOfPlan ==
  IF planRequested' /\ "mission" \notin requested
  THEN /\ Becomes(Begin([Now EXCEPT !.requested = @ \cup {"mission"}], "read"))
       /\ UNCHANGED <<drawn, replies, requests>>
  ELSE UNCHANGED transfer
CommandStep == Next /\ StartOfPlan

MissionTransferred ==
  /\ mission # "idle"
  /\ LET s == [Now EXCEPT !.mission = "idle"]
     IN Becomes(CASE mission = "read" -> MissionLoaded(s)
                  [] mission = "write" -> MissionSent(s)
                  [] OTHER -> s)
  /\ UNCHANGED <<vars, drawn, replies, requests>>

VehicleSendsPoint ==
  /\ \E p \in fetches : fetches' = fetches \ {p} /\ replies' = replies \cup {p}
  /\ UNCHANGED <<vars, state, drawn, requests>>

\* The fence's last point only closes the polygon, and is not fetched.
LastOf(m) == IF m = "fence" THEN count[m] - 2 ELSE count[m] - 1
MutantCompleted(s, m) == [s EXCEPT !.reading = @ \ {m}]
Completed(s, m) ==
  LET done == [s EXCEPT !.reading = @ \ {m}]
  IN IF m = "fence" THEN FenceLoaded(done) ELSE RallyLoaded(done)

_mavlinkMessageReceived ==
  /\ \E p \in replies :
       /\ replies' = replies \ {p}
       /\ IF p.index # current[p.of] THEN Becomes([Now EXCEPT !.reading = @ \ {p.of}])
          ELSE IF p.index < LastOf(p.of) THEN Becomes(Fetch(Now, p.of, p.index + 1))
          ELSE Becomes(Completed(Now, p.of))
  /\ UNCHANGED <<vars, drawn, requests>>

LosePoint ==
  /\ \/ \E p \in fetches : fetches' = fetches \ {p} /\ UNCHANGED replies
     \/ \E p \in replies : replies' = replies \ {p} /\ UNCHANGED fetches
  /\ UNCHANGED <<vars, state, drawn, requests>>

-----------------------------------------------------------------------------
(* The user.                                                                *)

Request(s) ==
  requests < MaxRequests /\ requests' = requests + 1 /\ Becomes(s) /\ UNCHANGED <<vars, replies>>

loadFromVehicle ==
  /\ ~syncInProgress
  /\ Request(Begin([Now EXCEPT !.pending = @ \cup {"loadFence"}, !.sync = TRUE], "read"))
  /\ UNCHANGED drawn
sendToVehicle(new) ==
  /\ ~syncInProgress /\ drawn' = new
  /\ Request(Begin([Now EXCEPT !.pending = @ \cup {"sendFence"}, !.sync = TRUE], "write"))

\* From the fly view: a goto or a resumed mission.
WriteMission == mission = "idle" /\ Request(Begin(Now, "write")) /\ UNCHANGED drawn

\* Fence and rally points are removed by sending none.
removeAllFromVehicle ==
  Request(SendRally(SendFence(Begin(Now, "remove"), 0), 0)) /\ UNCHANGED drawn

\* The fly view shows the vehicle's plan when the vehicle becomes the active one: the
\* initial request counts as complete when nothing is going on.
_showPlanFromManagerVehicle ==
  /\ ~planComplete /\ mission = "idle" /\ reading = {}
  /\ Becomes([Now EXCEPT !.complete = TRUE])
  /\ UNCHANGED <<vars, drawn, replies, requests>>

-----------------------------------------------------------------------------
PlanNext ==
  \/ CommandStep
  \/ MissionTransferred \/ VehicleSendsPoint \/ _mavlinkMessageReceived \/ LosePoint
  \/ loadFromVehicle \/ (\E new \in Plans : sendToVehicle(new)) \/ WriteMission
  \/ removeAllFromVehicle
  \/ _showPlanFromManagerVehicle
planVars == <<vars, transfer>>
PlanSpec == PlanInit /\ [][PlanNext]_planVars
\* As in UBCommands; transfers of the mission end, and points arrive or are lost.
PlanFairSpec ==
  /\ PlanSpec
  /\ WF_planVars(Timeout /\ StartOfPlan) /\ WF_planVars(Handlers /\ StartOfPlan)
  /\ WF_planVars(Link /\ StartOfPlan) /\ WF_planVars(_parametersReady /\ StartOfPlan)
  /\ WF_planVars(MissionTransferred) /\ WF_planVars(_mavlinkMessageReceived)
  /\ WF_planVars(VehicleSendsPoint \/ LosePoint)

-----------------------------------------------------------------------------
(* Properties.                                                              *)

Lost(m) == m \in reading /\ \A p \in fetches \cup replies : p.of # m
\* A step of a chain that was refused, and that no signal will take up again.
Refused ==
  /\ mission = "idle"
  /\ \/ pending \cap {"loadFence", "sendFence"} # {}
     \/ "mission" \in requested /\ "fence" \notin requested

\* The whole of the plan is loaded once the vehicle is known, unless a point or the one
\* AUTOPILOT_VERSION is lost, the fence has too few points, or the mission was busy.
InitialPlanLoads ==
  <>("rally" \in requested \/ versionLost \/ TooFew(total) \/ Lost("fence") \/ Refused)

\* GeoFenceManager.h and RallyPointManager.h of loadFromVehicle and sendToVehicle: "Signals
\* loadComplete when done", "Signals sendComplete when done"; so that a synchronisation the
\* user asked for ends.
SyncEnds == syncInProgress ~> ~syncInProgress

\* It does if the vehicle knows fence and rally points, no point of them is lost, and no
\* manager refuses because it is busy for someone else.
SyncEndsIfPossible ==
  syncInProgress ~>
    \/ ~syncInProgress \/ Refused \/ TooFew(total)
    \/ \E m \in Managers : Lost(m) \/ total[m] = Unsupported
=============================================================================
