------------------------------ MODULE UBVehicles ------------------------------
(***************************************************************************)
(* The vehicles behind the objects.  QGroundControl's MultiVehicleManager   *)
(* creates a Vehicle at the first heartbeat of an id and deletes it in two   *)
(* phases when its links go; UBEngine tells the UBObject of that id, whose   *)
(* thread keeps the pointer in m_mav and reads the vehicle's position for    *)
(* every packet, as do the other objects' threads.                          *)
(*                                                                         *)
(* The manager and its 20 ms timers run in the main thread.  All its timers  *)
(* have the same delay, hence they fire in the order they were started.     *)
(***************************************************************************)
EXTENDS Naturals, Sequences, FiniteSets, SequencesExt

CONSTANTS Ids,         \* the ids of the objects in m_objs
          SystemIds,   \* the MAVLink ids heard of
          NVehicles,   \* bound: Vehicle objects ever created
          MaxPicks     \* bound: selections pending at once

ASSUME VehiclesAssumption ==
  /\ Ids \subseteq 1..254 /\ SystemIds \subseteq 1..255
  /\ NVehicles \in Nat /\ MaxPicks \in Nat

Vehicle == 1..NVehicles
Null == 0

VARIABLES
  born,        \* Vehicles created so far: 1..born
  id,          \* the MAVLink id of each
  deleted,     \* the Vehicles whose memory is freed
  vehicles,    \* _vehicles
  vehiclesBeingDeleted, vehicleBeingSetActive, activeVehicle,
  activeVehicleAvailable, parameterReadyVehicleAvailable,
  active,      \* the Vehicles told to be active: the joystick drives them
  ready,       \* the Vehicles whose parameters are ready
  timers,      \* the single-shot timers running, as they will fire
  queue,       \* per object: the arguments of the setMAV calls posted to it
  m_mav        \* per object

availability == <<activeVehicleAvailable, parameterReadyVehicleAvailable>>
manager == <<vehicles, vehiclesBeingDeleted, vehicleBeingSetActive, activeVehicle,
             availability, active, timers>>
vars == <<born, id, deleted, manager, ready, queue, m_mav>>

TypeOK ==
  /\ born \in 0..NVehicles /\ id \in [Vehicle -> SystemIds \cup {Null}]
  /\ deleted \subseteq 1..born /\ ready \subseteq 1..born /\ active \subseteq 1..born
  /\ vehicles \in Seq((1..born) \ deleted) /\ IsInjective(vehicles)
  /\ vehiclesBeingDeleted \in Seq((1..born) \ deleted)
  /\ vehicleBeingSetActive \in 0..born /\ activeVehicle \in 0..born
  /\ activeVehicleAvailable \in BOOLEAN /\ parameterReadyVehicleAvailable \in BOOLEAN
  /\ timers \in Seq({"delete", "activate"})
  /\ queue \in [Ids -> Seq(0..born)] /\ m_mav \in [Ids -> 0..born]

Init ==
  /\ born = 0 /\ id = [v \in Vehicle |-> Null] /\ deleted = {} /\ ready = {} /\ active = {}
  /\ vehicles = <<>> /\ vehiclesBeingDeleted = <<>>
  /\ vehicleBeingSetActive = Null /\ activeVehicle = Null
  /\ activeVehicleAvailable = FALSE /\ parameterReadyVehicleAvailable = FALSE
  /\ timers = <<>>
  /\ queue = [i \in Ids |-> <<>>] /\ m_mav = [i \in Ids |-> Null]

-----------------------------------------------------------------------------
\* UBEngine: a call posted to the object of that id, if there is one.
Posted(q, v) == Append(q, v)
PostSetMAV(i, v) ==
  queue' = IF i \in Ids THEN [queue EXCEPT ![i] = Posted(@, v)] ELSE queue
vehicleAddedEvent(i, v) == PostSetMAV(i, v)
MutantRemovedEvent(i) == UNCHANGED queue         \* the removal is not passed on
vehicleRemovedEvent(i) == PostSetMAV(i, Null)

\* MultiVehicleManager.
Started(timer) == Append(timers, timer)

setActiveVehicle(v) ==
  /\ vehicleBeingSetActive' = v
  /\ timers' = Started("activate")
  /\ active' = active \ {activeVehicle}
  /\ IF activeVehicle = Null THEN UNCHANGED availability
     ELSE activeVehicleAvailable' = FALSE /\ parameterReadyVehicleAvailable' = FALSE
  /\ UNCHANGED activeVehicle

IsKnown(i) == \E k \in DOMAIN vehicles : id[vehicles[k]] = i

vehicleHeartbeatInfo(i) ==
  LET v == born + 1 IN
  /\ v \in Vehicle /\ ~IsKnown(i)
  /\ born' = v /\ id' = [id EXCEPT ![v] = i]
  /\ vehicles' = Append(vehicles, v)
  /\ vehicleAddedEvent(i, v)
  /\ IF vehicles = <<>> THEN setActiveVehicle(v)
     ELSE UNCHANGED <<vehicleBeingSetActive, activeVehicle, availability, active, timers>>
  /\ UNCHANGED <<deleted, ready, vehiclesBeingDeleted, m_mav>>

\* The user picks a vehicle of the list.
SelectVehicle(v) ==
  /\ v \in Range(vehicles) /\ v # activeVehicle
  /\ Len(SelectSeq(timers, LAMBDA t : t = "activate")) < MaxPicks
  /\ setActiveVehicle(v)
  /\ UNCHANGED <<born, id, deleted, ready, vehicles, vehiclesBeingDeleted, queue, m_mav>>

setActiveVehiclePhase2 ==
  /\ timers # <<>> /\ Head(timers) = "activate" /\ timers' = Tail(timers)
  /\ activeVehicle' = vehicleBeingSetActive
  /\ active' = active \cup ({activeVehicle'} \cap Vehicle)
  /\ IF activeVehicle' = Null THEN UNCHANGED availability
     ELSE /\ activeVehicleAvailable' = TRUE
          /\ parameterReadyVehicleAvailable' =
               (parameterReadyVehicleAvailable \/ activeVehicle' \in ready)
  /\ UNCHANGED <<born, id, deleted, ready, vehicles, vehiclesBeingDeleted,
                 vehicleBeingSetActive, queue, m_mav>>

vehicleParametersReadyChanged(v) ==
  /\ v \in Range(vehicles) \cup Range(vehiclesBeingDeleted) /\ v \notin ready
  /\ ready' = ready \cup {v}
  /\ parameterReadyVehicleAvailable' = (parameterReadyVehicleAvailable \/ v = activeVehicle)
  /\ UNCHANGED <<born, id, deleted, vehicles, vehiclesBeingDeleted, vehicleBeingSetActive,
                 activeVehicle, activeVehicleAvailable, active, timers, queue, m_mav>>

\* Vehicle::allLinksInactive, sent once.
deleteVehiclePhase1(v) ==
  /\ vehiclesBeingDeleted' = Append(vehiclesBeingDeleted, v)
  /\ \E k \in DOMAIN vehicles : vehicles[k] = v /\ vehicles' = RemoveAt(vehicles, k)
  /\ active' = active \ {v}
  /\ activeVehicleAvailable' = FALSE /\ parameterReadyVehicleAvailable' = FALSE
  /\ vehicleRemovedEvent(id[v])
  /\ timers' = Started("delete")
  /\ UNCHANGED <<born, id, deleted, ready, vehicleBeingSetActive, activeVehicle, m_mav>>

MutantSuccessor == activeVehicle                 \* keeps the active vehicle
MutantSuccessorNone == Null                      \* forgets the other vehicles
Successor == IF vehicles # <<>> THEN Head(vehicles) ELSE Null

MutantDoomed == 1                                \* assumes one deletion at a time
Doomed == Head(vehiclesBeingDeleted)

deleteVehiclePhase2 ==
  /\ timers # <<>> /\ Head(timers) = "delete" /\ timers' = Tail(timers)
  /\ activeVehicle' = Successor /\ active' = active \cup ({activeVehicle'} \cap Vehicle)
  /\ deleted' = deleted \cup {Doomed}
  /\ vehiclesBeingDeleted' = Tail(vehiclesBeingDeleted)
  /\ UNCHANGED <<born, id, ready, vehicles, vehicleBeingSetActive, availability, queue, m_mav>>

\* The thread of object i.
setMAV(i) ==
  /\ queue[i] # <<>>
  /\ m_mav' = [m_mav EXCEPT ![i] = Head(queue[i])]
  /\ queue' = [queue EXCEPT ![i] = Tail(@)]
  /\ UNCHANGED <<born, id, deleted, ready, manager>>

Next ==
  \/ \E i \in SystemIds : vehicleHeartbeatInfo(i)
  \/ \E v \in Vehicle : \/ SelectVehicle(v) \/ vehicleParametersReadyChanged(v)
                        \/ deleteVehiclePhase1(v)
  \/ setActiveVehiclePhase2 \/ deleteVehiclePhase2
  \/ \E i \in Ids : setMAV(i)

Spec == Init /\ [][Next]_vars
\* Timers fire and posted calls are handled; nobody has to do anything else.
Fairness == /\ WF_vars(setActiveVehiclePhase2) /\ WF_vars(deleteVehiclePhase2)
            /\ \A i \in Ids : WF_vars(setMAV(i))
FairSpec == Spec /\ Fairness

-----------------------------------------------------------------------------
\* The vehicle object i has once it has handled what is posted to it is the
\* listed vehicle of its id: a vehicle that comes back while its predecessor
\* is being deleted is not forgotten, nor is the predecessor kept.
MavToBe(i) == IF queue[i] = <<>> THEN m_mav[i] ELSE Last(queue[i])
BindingConverges ==
  \A i \in Ids :
    IF IsKnown(i) THEN MavToBe(i) \in Range(vehicles) /\ id[MavToBe(i)] = i
    ELSE MavToBe(i) = Null

\* When no phase is pending, the active vehicle is one of the list, and there is
\* one if the list has any, and was told so: however deletions and selections overlapped.
ActiveConverges ==
  timers = <<>> => IF vehicles = <<>> THEN activeVehicle = Null
                   ELSE activeVehicle \in Range(vehicles) \cap active

\* The manager itself never keeps or activates a deleted Vehicle.
NoDeletedActive ==
  /\ activeVehicle \notin deleted
  /\ "activate" \in Range(timers) => vehicleBeingSetActive \notin deleted

\* A removed vehicle is deleted at last, also if others are on the way.
RemovedIsDeleted == \A v \in Vehicle : v \in Range(vehiclesBeingDeleted) ~> v \in deleted
=============================================================================
