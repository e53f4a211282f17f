# UB-ANC Emulator: TLA+ verification project

The UB-ANC Emulator runs the *agents* of a team of drones unchanged against emulated
firmware and an emulated network. One process, built from QGroundControl, holds for every
drone a `UBObject` to which the agent connects by TCP, a `Vehicle` fed by the drone's
ArduCopter firmware, and an ns-3 node. Packets between agents are relayed by the objects,
either directly to objects in range ("simple" mode) or through ns-3.

This directory holds TLA+ modules translated from that code (`src/engine`,
`src/script/start_emulator.sh`, and the parts of `src/qgc_gui` the emulator depends on), TLC
configurations that check them on small instances, and proofs checked by TLAPS.
`PROJECT.json` lists the runs, the source lines behind every definition, the hazards, and
for each checked property a plausible bug of the code that it would catch.

## 1. The system

### Components

| component | source | state | operations |
|---|---|---|---|
| Packet format | `UBPacket`, `UBConfig.h` | none | `packetize`, `depacketize`, `PACKET_END` |
| Object (one thread each) | `UBObject` | `m_socket`, `m_buffer`, `m_range`, `m_mav`, `m_id`; shared `m_lnks`, `m_adrs` | slots `newConnectionEvent`, `disconnectedEvent`, `dataReadyEvent`, `sendData`, `setID`, `setMAV`, `setRange`; `dataReadyEventNS3` in the ns-3 thread |
| Engine | `UBEngine`, `main.cc` | `m_objs`, `m_lnks`, `m_nods`, `m_adrs` | `startEngine`, `setupNetwork`, `vehicleAddedEvent`, `vehicleRemovedEvent`, `packetReceivedEvent` |
| Network panel | `UBControl` | the mode, range and connect widgets; `m_lnks` | `toggledEvent`, `textChangedEventRange`, `clickedEventConnect`, `clickedEventDisconnect` |
| Start-up script | `start_emulator.sh` | its position | start the firmwares, the emulator, the agents; probe ports with `nc` |
| Vehicle manager | `MultiVehicleManager` | `_vehicles`, `_vehiclesBeingDeleted`, `_activeVehicle`, `_vehicleBeingSetActive`, two availability flags | `_vehicleHeartbeatInfo`, `setActiveVehicle`, `_setActiveVehiclePhase2`, `_deleteVehiclePhase1/2`, `_vehicleParametersReadyChanged` |
| Links | `LinkManager`, `TCPLink` | the shared links, the MAVLink channel mask | add, connect, disconnect, delete |
| Vehicle commands | `Vehicle` | `_mavCommandQueue`, its retry count and timer; `_vehicleCapabilitiesKnown`; the flags of the initial plan request | `sendMavCommand`, `_sendMavCommandAgain`, `_handleCommandAck`, `_handleAutopilotVersion`, `_startPlanRequest` |
| Mission transfer | `MissionManager` | `_transactionInProgress`, `_expectedAck`, the index lists, `_missionItems`, `_writeMissionItems`, retry count and timer | write, read, remove, guided item, resumed mission; a handler per MAVLink message |
| Plan synchronisation | `PlanMasterController`, `APMGeoFenceManager`, `APMRallyPointManager`, `Vehicle` | per manager a transfer in progress; per chain, flags that say what comes next | load, send, remove; slots of the managers' signals |
| Parameter transfer | `ParameterManager` | the maps of awaited indices, reads and writes with their retries, the batch queue, two timers | `refreshAllParameters`, `refreshParameter`, `_valueUpdated`, `_parameterUpdate`, timeouts |
| Log and file download | `FileManager`, `LogDownloadController`, `MAVLinkLogManager` | request queues, retries, timers | not modelled |
| Ground-station UI, firmware plugins, joystick, GPS, video | `qgc_gui` | | not part of the emulation |

### How they interact

* **Posted calls.** An object is called from other threads by
  `QMetaObject::invokeMethod(..., Qt::QueuedConnection)`: `setID`, `setMAV`, `setRange` and
  `sendData` wait in the queue of the object's thread and are handled in order, one slot at
  a time.
* **Direct reads.** Inside its relaying loop an object reads, with no lock, what other
  threads write: `m_lnks` (GUI thread) and the `m_mav` and range-relevant position of other
  objects (their threads, and the main thread that owns the `Vehicle`).
* **ns-3.** `ScheduleWithContext` hands a packet to the ns-3 thread, which loses, delays and
  reorders datagrams, and calls `packetReceivedEvent`, which posts `sendData`.
* **TCP streams.** Agents write packets ended by `PACKET_END`; the reads split them anywhere.
* **Ports.** The script knows the firmwares and the emulator only through their open ports.
* **Timers.** Vehicles are activated and deleted in two phases, 20 ms apart; every request to
  a vehicle has a timer that repeats it.
* **Telemetry links.** Commands, missions, fence and rally points, and parameters cross a link
  that loses messages and delays them past the timers. One link keeps their order.
* **Signals between managers.** The parameters and the capabilities make the `Vehicle` load the
  mission; the mission's end starts the fence, the fence's the rally points. The plan view
  runs its own chain over the same signals of the same managers, so either chain may find a
  manager busy for the other, or be woken by the other's transfer.
* **Slots inside handlers.** `_handleCommandAck` signals the result before it goes on with the
  queue; a slot may send a command there.

### What is hard, and what makes each component correct

| component | hard behaviour | correct means |
|---|---|---|
| framing | `PACKET_END` split over reads, overlapping the payload's end | the packets cut out do not depend on the chunking |
| session | a second connection (the `nc` probe, a restarted agent) while the first still has a half packet or unsent bytes; unlinking in the middle of a packet; the ns-3 socket appearing late | the newest connection is served; bytes are conserved, in order; a torn stream damages one packet only |
| relaying | broadcasts interleaved with unlinking, vehicle removal, mode changes, and ns-3's losses | at most once, to addressees only; order kept in simple mode; nothing is started towards an unlinked object |
| panel | the mode is posted to linked objects only | objects converge to the mode shown |
| start-up | the main thread reads `getID()` while the posted `setID` waits; agents must not start too early; an object may listen before `startEngine` has linked it | right addresses, open ports, links made after the firmwares answer |
| vehicles | overlapping two-phase deletions and selections; a vehicle that comes back while its predecessor is being deleted | one listed vehicle per id, objects bound to it, no use of a deleted `Vehicle` |
| commands | acknowledgements lost, duplicated by retries, or of another command; slots that send; the one command that is not repeated | the head of the queue always has a timer; the queue empties; the plan is requested once it can be |
| missions | requests, items and acks lost, late, out of sequence, refused; an ack of one transaction ending the next | a transaction is always awaited and ends; a success means both sides hold the same mission |
| plan | two chains over the same managers; refusals without a signal; points without a timer | a synchronisation ends, unless one of the named causes stops it; the initial plan is loaded |
| parameters | one timer for indices, reads and writes; give-ups; values nobody asked for | nothing awaited is forgotten; a write takes hold or is reported; loading concludes |
| links | channels exhausted, closing from both sides | planned, see section 7 |

## 2. The modules

| module | models | used by |
|---|---|---|
| `UBFraming` | the packet format and the cutting loop of `dataReadyEvent`, byte by byte | `UBFramingProofs` |
| `UBFramingProofs` | theorems about `UBFraming` | |
| `UBSession` | one `UBObject` and the TCP sessions on its port; abstracts bytes to fragments, which `UBFraming` justifies | `MCUBSession`, `UBSessionProofs` |
| `UBSessionProofs` | theorems about `UBSession` | |
| `UBRelay` | the abstract specification: what the network promises to the agents | `UBNetwork` |
| `UBNetwork` | all objects, the ns-3 thread and the GUI thread, with whole packets; refines `UBRelay` | `UBNetworkProofs` |
| `UBNetworkProofs` | theorems about `UBNetwork`, that it implements `UBRelay` among them | |
| `UBStartup` | script, main thread, object threads, link threads while the emulator comes up | `MCUBStartup`, `UBStartupProofs` |
| `UBStartupProofs` | theorems about `UBStartup` | |
| `UBVehicles` | `MultiVehicleManager`, `UBEngine`'s vehicle events and the objects' `m_mav` | `UBVehiclesProofs` |
| `UBVehiclesProofs` | theorems about `UBVehicles` | |
| `UBCommands` | the command queue of a `Vehicle`, its capabilities and the start of the initial plan request | `UBPlanSync`, `UBCommandsProofs` |
| `UBPlanSync` | composes `UBCommands` with the two chains of transfers of mission, fence and rally points | `MCUBPlanSync`, `UBCommandsProofs` |
| `UBCommandsProofs` | theorems about `UBCommands` and about `UBPlanSync`, as its refinement among them | |
| `UBMission` | `MissionManager` against the repository's simulated vehicle | `MCUBMission`, `UBMissionProofs` |
| `UBMissionProofs` | theorems about `UBMission`: what is awaited, types, resumed missions, what a success means | |
| `UBParameters` | `ParameterManager` against an ArduPilot with several components | `MCUBParameters`, `UBParametersProofs` |
| `UBParametersProofs` | theorems about `UBParameters` | |

The modules are layers of one system rather than one large specification: `UBFraming` shows
that packets survive chunking, so that `UBSession` may treat a packet as two fragments;
`UBSession` shows which packets leave the stream of an agent whose connections come and go, so
that `UBNetwork` may treat an agent's packets as whole and its connection as a bit
(`agents`); `UBVehicles` shows how `m_mav` gets its value, so that `UBNetwork` may treat it as
a bit too. Likewise `UBMission` shows that every transaction of the mission ends, so that
`UBPlanSync` may treat one as a step that is bound to come, and `UBParameters` shows that the
load concludes, which is the event `_parametersReady` of `UBCommands`.

### State and actions against the code

**`UBFraming`.** `stream` is what the agent wrote so far, and it goes on writing (`sendPacket`) in
between; `pos` is what has been read, `m_buffer` the object's buffer. `dataReadyEvent(k)` appends a read of `k` bytes, `Cut` is a turn of the
`while` loop that finds `PACKET_END`, `LoopEnd` the turn that does not.

**`UBSession`.** Connections are numbered in the order of `nextPendingConnection`. `sock[c]` is
the life of the `QTcpSocket`: *live*, *closing* (`disconnectFromHost` with bytes still to
write), *gone*. A fragment is half a packet: odd ones open it, even ones hold the end.
`dataReadyEvent(c, k)` is the slot's entry, with its three outcomes (no `m_socket`; unlinked:
buffer cleared; linked: appended, and the loop entered if the ns-3 socket is there); it reads
`m_socket`, whichever socket signalled, as the code does. `Cut` and `LoopEnd` are turns of the
loop. `torn`, `dropped`, `forwarded` are history variables: no action reads them.

**`UBNetwork`.** `cur[i]` is where the thread of object `i` stands inside `dataReadyEvent`: the
packet, the ids still to serve, the `dest` found. `Depacketize` lists the targets
(`m_lnks->keys()` for a broadcast), `Lookup` is one turn of the inner loop up to its `continue`
or to the found `dest`, `Relay` posts `sendData` or schedules the packet in ns-3. Between any
two of them other threads may step. `queue[i]` are the posted events. `air` holds the copies
inside ns-3: a set, hence reordering, with `Lose` for losses. Positions are points on a line:
only the comparison of a distance with `m_range` matters. `sent`, `inbox`, `missed` are history.

**`UBStartup`.** `script` and `main` are program counters with the object they deal with.
A turn of `startEngine`'s loop is two steps of the main thread, `startEngine` up to the post of
`setID` and `InsertLink` after it, because the object's thread and the script may run in between;
likewise `setID` and `listen` are two steps of an object's thread, because the main thread
reads `m_id`. `posted`, `m_id` and `port` are the object threads' part; `link` the TCP link's;
`m_adrs` the address book of `setupNetwork`. A probe succeeds when somebody listens on that port.

**`UBVehicles`.** `timers` is the queue of the single-shot timers: all last 20 ms, so they fire
in the order of their start. `queue[i]` holds the posted `setMAV` arguments. How late an
object's thread handles them is left free: the code does not bound it.

**`UBCommands`.** `Sender` is the queue's state as a record, and the queue's functions are
operators on it, because they are entered from within one another: `_handleCommandAck` pops the
head, then runs a slot that may call `sendMavCommand`, then `_sendNextQueuedMavCommand`.
`up` and `down` are the link. The slot is the one the repository has: the sensors page answers
the cancellation of a compass calibration ("cancel") by starting one ("start"). `Timeout` is
the timer; `MaxLate` bounds how many messages it may outrun.

**`UBPlanSync`.** Everything a signal sets off happens within one handler, so the slots are
functions from state to state (`MissionLoaded`, `FenceLoaded`, ...), composed as the signals
are connected, the `Vehicle`'s slot before the `PlanMasterController`'s. `pending` holds the
flags `_loadGeoFence`, `_loadRallyPoints`, `_sendGeoFence`, `_sendRallyPoints`. A fence is
`total["fence"]` points (breach point, polygon, closing point), fetched one at a time
(`fetches`, `replies`) with no timer. `CommandStep` is a step of `UBCommands` together with
`StartOfPlan`, which the same handler calls.

**`UBMission`.** One action per operation and handler of `MissionManager`. Position `i` stands
for sequence number `i - 1`. `toRead` and `toWrite` are the index lists, `_ackTimeout` has one
disjunct per case of the switch, some of which leave `_expectedAck` as it is, as the code does.
The vehicle is `MockLinkMissionItemHandler` with its failure modes; the silent ones are losses,
which the link provides, and an early final ack (`FailWriteFinalAckMissingRequests`) may come
after any item. It also acknowledges `MISSION_CLEAR_ALL` and guided items, as an autopilot does.
`ResumeMission` is `generateResumeMission`: position, included commands, and the loop that
removes the superseded ones. `ResumeRestores` asks for the home position in front only when the
mission starts with one, as every mission read from an ArduPilot does. `asked`, `told`, `late` are history.

**`UBParameters`.** A parameter is a pair of component and index. `waitIndex`, `waitName` and
`waitWrite` map what is awaited to its retries. `_fillIndexBatchQueue` applies the
loop body (`Requested`) to the parameters in the order of the maps (`InOrder`); the batch queue holds bare indices,
as in the code, so that two components may collide in it. `overtaken` and `reported` are
history: writes whose acknowledgement was another value of the same parameter (or that began
while messages of such a write, or of one given up, were still on their way), and writes
reported as failed.

## 3. What TLC checks

| run | instance | shows |
|---|---|---|
| `framing` | ids 7 and 13, bytes 7, 10, 13, payload up to 3, two packets, reads of up to 5 | the packets cut are the segments between the `PACKET_END`s, however the stream is chunked; packets without an inner `PACKET_END` come out as they went in |
| `session` | 2 connections of 4 fragments (2 packets) each | `SoleSession`, `NoSpuriousLoss`, `FrameIntegrity`, `InOrderOnce`, `Accounted` |
| `session_live` | 2 connections of 2 fragments | every client is served, superseded or leaves; buffered packets leave with the next bytes |
| `network` | 3 objects, one sender of two packets, to everybody or to an unknown id; object 2 changes in every way; one mode or range change | `UBNetwork` implements `UBRelay`; order in simple mode; the objects converge to the panel's mode; nothing new for an unlinked object |
| `network_live` | 2 objects, ranges 1 and 2, positions 0 and 2, two changes | packets between agents that stay linked and in range arrive |
| `startup` | objects 1, 2, 250 | agents find their objects, which are linked but for the last; the address book is right, no link fails, everything comes up |
| `vehicles` | one object, two MAVLink ids, three Vehicles, two pending selections | bindings and activation converge, the manager keeps no deleted vehicle, removed vehicles are deleted |
| `mission` | missions of 0, 2 and 8 items; every failure mode; two transactions; `MaxRetry` 0, so that each request is repeated once | `Awaited`, `SuccessMirrors`, `ResumeRestores`, `EveryTransactionEnds` |
| `plan` | a vehicle with a polygon and a rally point, one whose fence is too small, one with neither; one user command, one request of the plan or fly view | `HeadAwaited`, `QueueDrains`, `InitialPlanLoads`, `SyncEndsIfPossible` |
| `plan_sync` | a vehicle without fence and rally points | finding 1 |
| `parameters` | an autopilot with two parameters, a gimbal with one; two user operations or announcements | `Attended`, `WritesTakeHold`, `LoadConcludes` |
| `parameters_metadata` | the same, one operation | finding 2 |

**Bounds and why they are enough.** *framing*: 13 and 10 are the bytes of `PACKET_END` and 7
stands for all others; a payload of 3 can end with a proper prefix of `PACKET_END`, and with an
id 13 in the header a packet can contain one; reads of up to 5 bytes cover all positions of a
cut in `CR CR LF LF` and reads longer than it. *session*: damage needs an old stream, a new
one, and one packet after the tear to find the boundary again: two connections of two packets;
the proofs remove the bound for the safety properties. *network*: a broadcast caught
half way needs three objects, an order two packets, a stale mode one change and one
reconnection; only the object that misbehaves is `Restless`. *startup*: three objects, whose
numbers are not consecutive; the proofs remove the bound. *vehicles*: three `Vehicle`s allow a
vehicle, its successor under the same id, and another one. *mission*: an answer that comes too
late needs a second transaction to harm; eight items hold two commands of one class before the
resumed item, which the removal of superseded ones needs. *plan*: a polygon of three points
has five entries; one request besides the initial chain is what it takes for two chains to
meet. *parameters*: two parameters of the same component make a batch of one incomplete, and
the gimbal's bare index collides with one of the autopilot's; two operations overlap with the
retries of each other. The list is requested once more if nothing was heard (`MaxListRetry` 1),
which may cross the answers to the first request. In all three `MaxLate`, or the losses,
decide how often a timer outruns an answer; the limits of retries are 0 or 1 instead of 3 to
5, because all the code does is compare with them.

**Deadlock** is checked in the session and network runs. It is not in the framing, start-up and
vehicle runs, because there the model rightly stops: the stream is read to its end, everything
is up, or the bound on `Vehicle`s is used up with nothing pending. Nor in the mission, plan and
parameter runs: with the user's bound used up and every transfer ended, nothing is left to do.

**Fairness.** A slot that runs goes on (weak fairness on the steps of a loop). The event loop
of a thread serves each source that keeps asking, sockets and posted events alike, but a slot
that runs disables them in between, hence strong fairness on those. Timers fire and posted
calls are handled (weak). The script's loops go on, and the firmwares boot. Agents, users, the
movement of vehicles, ns-3's deliveries and losses get no fairness: no property needs anybody
to do something. Towards vehicles, what is sent arrives or is lost (weak fairness on the
disjunction, so that a vehicle owes no answer that arrives), the handlers of what arrives run,
and single-shot timers fire. `PlanFairSpec` takes that every transfer of the mission ends
(`MissionTransferred`), which the `mission` run shows of `UBMission`.

## 4. Findings

1. **A plan sent to a vehicle without a fence never ends** (`plan_sync`).
   `GeoFenceManager.h:42` says of `sendToVehicle` "Signals sendComplete when done", and
   `RallyPointManager.h:40` likewise. `APMGeoFenceManager::sendToVehicle` returns without it when
   the vehicle has no `FENCE_TOTAL` parameter (line 61), and so does the rally points' manager
   (line 34). `PlanMasterController` takes its next step from that signal, so
   `_syncInProgress` stays set, and it refuses to load or send from then on.
2. **Facts without meta data** (`parameters_metadata`). `ParameterManager.cc:175` takes any value
   that arrives while one index of its component is awaited for the last one, be it an announced
   or repeated value of another parameter. Meta data is added once, to the facts known by then;
   the last parameter never gets any.

Also worth knowing, though no property of a run contradicts it:

* *Agents.* A half packet left in `m_buffer` by one connection is prepended to the first packet
  of the next (`FrameIntegrity` allows exactly that damaged packet); an object that was
  disconnected during a mode change keeps the old mode when it is connected again
  (`ModeAgreement` excepts exactly these); an address whose `setID` was late is filed under id 0
  (`AddressBook` excepts exactly this). The last object's port may open, and the script start the
  agents, before `startEngine` inserts that object into `m_lnks` (`UBEngine.cpp:104` and `:109`);
  until then it throws away what its agent sends (`AgentsFindTheirObject` excepts exactly this;
  `UBSession` starts unlinked as well as linked). The script starts the agents once the objects listen
  (`start_emulator.sh:95`), which is before `startAutoConnectedLinks`, while `README.md:70` says
  the emulator connects to the firmwares first.
* *Vehicles.* The `setMAV(nullptr)` posted to an object's thread is waited for by nobody, so a
  `Vehicle` may be deleted 20 ms later while `m_mav` still points to it. `_deleteVehiclePhase2`
  emits the availability signals without setting the flags: after an activation between the two
  phases `activeVehicleAvailable` stays true with no active vehicle.
* *Commands.* An acknowledgement carries no parameters, so a repeated one of an arming
  acknowledges a later disarming. One of another command sends the head of the queue again.
  An unanswered radio pairing blocks the queue for good (`Wedged`). If the `AUTOPILOT_VERSION` is
  lost but the acknowledgement arrives, the capabilities stay unknown and the plan is never
  requested.
* *Missions.* A successful goto replaces `_missionItems` by the empty `_writeMissionItems`. Some
  ways to give up leave `_expectedAck` set. A late ack of one transaction ends the next.
  `SuccessMirrors` excepts these: guided items, and transactions in which a message outlived the
  ack timeout.
* *Plans.* A lost `FENCE_POINT` or `RALLY_POINT` leaves its manager reading for good, which
  refuses every later load and send. A load that is refused because the mission is busy leaves
  `_syncInProgress` set. `sendPlanToVehicle` deletes its controller
  right after it started the first transfer, so fence and rally points are never sent.
* *Parameters.* Two quick writes of one parameter: the acknowledgement of the first is taken for
  the second's (`overtaken`). `refreshAllParameters` after the load starts no timer: what is
  lost of its answers stays awaited until another operation starts one. Writes and reads by name
  wait while any index is being retried. If only another component than the default one
  answers, loading never ends (`Silent`).

## 5. What is proved

All theorems are about the very modules that TLC checks, for every value of the constants.

**`UBSessionProofs`** (assumption: `BoundsAssumption`, the bounds are natural numbers; hence
for any number of connections and fragments). `TypeCorrect`, `ServesTheNewest` (`SoleSession`),
`SessionKept` (`NoSpuriousLoss`), `OrderKept` (`InOrderOnce`), `FramesIntact`
(`FrameIntegrity`), `BytesAccounted` (`Accounted`).

* `SoleSession` becomes inductive as `Sockets`, which adds that connections not yet accepted
  have no socket. `NoSpuriousLoss` is then read off the steps: `m_socket` changes only in
  `newConnectionEvent`, or in a `disconnectedEvent` of `m_socket` itself, which is live, hence
  closed by its client.
* Order needs `Bounded`: whatever is buffered or forwarded was read, from an accepted
  connection. A chunk just read is then after everything there, because `m_socket` is the
  newest connection and its `read` counts up.
* `FrameIntegrity` needs `Framed`, what the buffer looks like: each fragment is followed by
  the next of its connection, or by one where the stream was torn, and the stream goes on
  where the buffer ends, or was torn there. The first `PACKET_END` of such a buffer closes a
  whole packet or one that holds a tear.
* `Accounted` needs `Conserved`: what was received is held, in the buffer or in a packet, or was
  dropped, and nothing is both; with `Bounded` and the order, a byte read is new to all of them.
* The steps are classified once (`StreamSteps`: a quiet step, a new connection, a cut, a read),
  and `CutEffect` and `ReadEffect` say what the last two do to the sequences, so that each
  invariant is proved against four cases.

**`UBStartupProofs`** (assumption: `NamesAssumption`, the directory numbers are distinct, in the
range 1 to 250 that README.md:52 gives, and there is at least one). `StartupTypes`,
`AgentsAreServed` (`AgentsFindTheirObject`), `AddressesAreRight` (`AddressBook`), `LinksSucceed`
(`NoLinkFails`). The inductive invariant says what the positions of the script and of the main
thread imply: ports once seen open stay open (`Probed`); the thread of an object does nothing
before the main thread has posted to it (`Begun`), and every object the main thread has gone past
is linked (`Inserted`), so that only the one it is inserting may be open and not yet linked
(`Own`); and the emulator runs only after every firmware is up (`Flown`). Once every port is open
that object is the last one: the exception `AgentsFindTheirObject` states.
That the probe of one object cannot be answered by another rests on the lemma `Ports`: distinct
numbers give distinct ports, and none is beyond 16 bits.

**`UBCommandsProofs`** (assumptions: `CommandsAssumption`, the bounds are natural numbers and the
user asks for known commands). `CommandTypes`, `HeadIsAwaited` (`HeadAwaited`),
`PlanRefinesCommands` (`PlanSpec => Spec`) and with it `HeadIsAwaitedWithPlan`; `PlanTypes`
(`PlanTypeOK`).

* The invariant is `TypeOK /\ Settled(Sender)`: the timer runs for the head, or the head is a
  pairing that was not repeated, and it runs for nothing else. It does not hold in the middle of
  a handler, which pops the head before it sends the next command, and runs a slot in between.
  The queue's operators therefore get a lemma each that takes them from a *loose* state (bounded
  retries, no timer for an empty queue) to a loose or settled one; the proof of each event puts
  these together in the order in which the event calls the operators.
* The refinement needs no mapping: the variables of `UBCommands` are those of `UBPlanSync`. What
  has to be shown is that each action of the plan either leaves them all alone or is a step of
  `UBCommands`; every invariant then carries over.
* `PlanTypeOK` follows the chains of slots: each slot is a function on states, and a lemma per slot
  says that it takes a well-typed state to one, whatever slots it calls in turn.

**`UBNetworkProofs`** (assumption: `NetworkAssumption`). `RelayCorrect`, `TypeCorrect` (`TypeOK`),
`FifoCorrect` (`SimpleFifo`), `RelayRefined` (`Spec => ImplementsRelay`), `ModeCorrect`
(`ModeAgreement`), `DisconnectCorrect` (`NothingNewAfterDisconnect`).

* The inductive invariant `RelayInv` follows a packet through the threads. `Upstream`: what an
  agent sent and its object did not relay yet lies in the order of its numbers, in the socket,
  the buffer and the loop. `Traced`: a copy is of a sent packet, to an addressee its object has
  gone past. `Once`: inbox, event queue and ns-3 together hold one copy of a packet. `Fifo`:
  those of the simple network lie in order. No copy can be made twice because the object that
  makes it still has the target in front of it, while `Traced` says no copy has.
* The refinement of `UBRelay` is then step by step: an agent's write sends, handling a posted
  `sendData` to a connected agent delivers, every other step stutters; what a delivery must not
  do is what `Once` and `Traced` exclude.
* `ModeAgreement` is strengthened to `ModeInv`: the mode an object ends with, once its queue is
  handled, is the panel's, whichever `setRange` comes last in the queue.
* `DisconnectCorrect` is an action property: the copies under way to an unlinked object never
  grow, which takes counting them in a queue, in `air` and in the hands of the threads.

**`UBVehiclesProofs`** (assumption: `VehiclesAssumption`). `ManagerCorrect`, `TypeCorrect` (`TypeOK`),
`BindingCorrect` (`BindingConverges`), `ActiveCorrect` (`ActiveConverges`), `NoDeletedActivated`
(`NoDeletedActive`). `ActiveConverges` and `BindingConverges` become inductive together with
`Distinct` (a vehicle is listed once, or being deleted once), `TimersPaired` (each vehicle being
deleted has a timer, in the same order, and a selection that is pending when a timer fires is
of a vehicle that is listed, or whose own deletion comes later), `Kept` and `LastTimer`
(the timer that fires last leaves a listed vehicle active). That timers all last 20 ms is what
`TimersPaired` rests on: they fire in the order of their start.

**`UBMissionProofs`** (assumption: `MissionAssumption`). `TransactionsAreAwaited` (`Awaited`),
`TypeCorrect` (`TypeOK`), `ResumeCorrect` (`ResumeRestores`), `SuccessCorrect` (`SuccessMirrors`).

* `Awaited`: whatever the missions, the failure modes, the retries and the losses, a transaction
  in progress expects an ack and has the timer running. It is inductive as it stands; the work
  is in the handlers, each of which stops the timer first and has to have restarted it, or
  ended the transaction, on every way out.
* `TypeOK` is not: the manager asks for the least index of `toRead`, which has a type only if
  there is one. The invariant `Types` adds `Wanted`: while an item is expected, one is left to ask
  for, or the retries are used up.
* `ResumeRestores` is about what `generateResumeMission` computes from a mission of any length. The
  items included are a set, and the mission their list in order, each at the place its rank in
  the set gives it (`Ranks`); the last item of a class is the one kept (`LastPosition`).

* `SuccessCorrect` (`SuccessMirrors`): as long as no message outlives the ack timeout, a read,
  write or removal reported as a success leaves manager and vehicle with the same mission. The
  inductive invariant `Mirrored` is the protocol's own argument, which the code does not spell
  out: at most one question or answer is on the link (`Quiet`, `Asking`, `Answering`); a write
  runs in order, the vehicle holding what `toWrite` no longer does, or is blocked because the
  vehicle will never ask for an item that `toWrite` still holds; the same for a read. TLC checked
  it on the run's instance, and with one retry more, before it was proved. With late messages
  items may come out of order, and the property excepts these transactions.

**`UBFramingProofs`** (assumption: `ByteAssumption`, CR and LF are among the payload bytes, and ids and
bytes are bytes; hence for any number and length of packets, and reads of any size).
`FramingCorrect`, `ChunkingHidden` (`ChunkingIsInvisible`), `PacketsSurvive` (`RoundTrip`).

* No proper prefix of `PACKET_END` is also its suffix, so two of them never overlap (`EndsApart`):
  cutting one never damages the next, which is what lets the loop search the rest of the buffer
  only. With an end marker such as `CR LF CR` this would be false.
* `Parsed` says that the buffer is what was read behind the last `PACKET_END` cut, and that what was
  cut are the pieces of the stream up to there, one more for each end. At rest no end is left in
  the buffer, so these are the segments between all the ends of what was read.
* `PacketsSurvive` needs `Closed` (the stream ends with `PACKET_END`) and `Divided` (as long as no packet
  holds an end, the pieces of the stream are the packets): then a packet appended adds its own
  end to the ends of the stream and no other (`EndsGrow`), although the payload may end in `CR`, and
  the bytes of the header may be `CR` or `LF`.

**`UBParametersProofs`** (assumption: `ParametersAssumption`, the bounds are natural numbers, parameters
are listed once, one of them is of the default component, and a parameter has a value).
`ParametersCorrect`, `TypeCorrect` (`TypeOK`), `NothingForgotten` (`Attended`), `WritesHold` (`WritesTakeHold`).

* A batch is filled by a loop over a map of what is awaited, which is a recursive function here.
  That its values exist is proved turn by turn (`Iterated`), and that they stay in given sets as
  well (`Stays`), both from the first turn that would not. `FillAt` is what the loop keeps: as long
  as nothing is in the batch, every index it went past was given up. A batch that is empty at
  the end therefore leaves no index awaited, and the handler may go on to writes and reads by
  name; this is what `Attended` comes down to.
* `Attended` alone is not inductive. `Types` adds that the timer of the initial request runs only
  while nothing was heard, and `Awaited`, that only known indices are in a batch.
* `WritesTakeHold` speaks of the moment at which nothing is on its way; its invariant `Written`
  follows the values there. For a write not overtaken, either every message and the vehicle
  hold the written value (`Steady`), or the values change to it once, along the way down, in the
  vehicle and along the way up (`Turning`); and a write that is no longer awaited is steady. A
  new write of a parameter starts such a turn only if no message of an overtaken or reported one
  is left (`Quiet`): else the acknowledgement of the old value may follow that of the new. The
  history variable `overtaken` keeps the parameter until then.

## 6. What is only model-checked, and what is abstracted

* Every safety invariant that a passing run checks is proved, for every value of the constants; so are
  the refinements and the action properties that section 5 names.
* Liveness under fairness is TLC's throughout: it is out of the prover's reach.
* `m_lnks` is a `QHash` read and written by several threads with no lock. That is a data race;
  the model takes every access as atomic, and says nothing of a torn read.
* Geometry: positions are points on a line. That `UBObject.cpp:99` hands ns-3 the Cartesian
  `y` in place of `z` is therefore not seen.
* ns-3 is a set of copies that may vanish or come out in any order; its routing, which decides
  which, is free. A firmware is *up* when its ports are open; ArduPilot opens those the script
  probes and the emulator dials together, in order.
* `AgentLeavesOrReturns` of `UBNetwork` lets an agent leave only when its stream was read; what
  happens to a stream that is cut short is the subject of `UBSession`.
* In `UBSession` a socket that is closing may signal `readyRead` once more. The code does not
  look at the sender, so the model allows it, which only adds behaviours.
* Coordinates of mission items, fence and rally points are left out, and so is the arithmetic on
  their `uint8_t` indices: `for (uint8_t index = 0; index < n; ...)` does not end for 256 points.
* Commands, missions and parameters take the vehicle to be an ArduPilot behind one link. PX4's
  parameter cache and its older firmwares' missing acks, log replay and offline editing are out.

**Not modelled**: the shutdown, option parsing, tracing, menus and settings; the tracking of the
current mission item; plan files and the change of the active vehicle in the middle of a
transfer; link management beyond the one connection attempt; log and file download; the
ground-station user interface, firmware plugins, joystick, GPS and video. `PROJECT.json` gives
the reason for each component. Most of the repository's lines are vendored headers (MAVLink's
generated dialects, SDL) and user interface, so that the modules stand for a small share of it.

## 7. Plan

Done, in this order: `UBSession`, `UBFraming`, `UBNetwork` with `UBRelay`, `UBStartup`, `UBVehicles`,
`UBMission`, `UBParameters`, `UBCommands`, `UBPlanSync`; the proofs of all of them.

Next:

1. `UBLinks`: `LinkManager` and `TCPLink`, with channel allocation, the link that runs unlisted
   when channels run out, disconnection by the peer and by the user, deletion through a queued
   signal. Composes with `UBVehicles` (`allLinksInactive`).
2. Log and file download, if time allows.

## 8. Running

    tlc -config MCUBSession.cfg MCUBSession.tla      # and so on: see PROJECT.json
    tlapm UBSessionProofs.tla
    tlapm UBStartupProofs.tla
    tlapm UBCommandsProofs.tla
    tlapm UBMissionProofs.tla
    tlapm UBFramingProofs.tla
    tlapm UBNetworkProofs.tla
    tlapm UBVehiclesProofs.tla
    tlapm UBParametersProofs.tla
