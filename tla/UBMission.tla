------------------------------- MODULE UBMission -------------------------------
(***************************************************************************)
(* The transfer of a mission between QGroundControl's MissionManager and the  *)
(* vehicle of an object, over a telemetry link that loses messages.  The      *)
(* vehicle is the one the repository describes: MockLinkMissionItemHandler    *)
(* with its failure modes; its silences are losses.  Unlike it, the vehicle   *)
(* answers MISSION_CLEAR_ALL and guided items, as an autopilot does.          *)
(*                                                                         *)
(* Position i stands for the sequence number i - 1.  The firmware is          *)
(* ArduPilot: item 1 is the home position and is part of what is uploaded.    *)
(***************************************************************************)
EXTENDS Naturals, Sequences, FiniteSets, SequencesExt

CONSTANTS Missions,      \* what the vehicle may have at first, and the user upload
          FailureModes,  \* how the vehicle may misbehave, one way at a time
          MaxRetry,      \* _maxRetryCount
          MaxOps         \* bound: transactions asked for

Item == UNION {Range(m) : m \in Missions}
Commands == {"home", "wp", "jump", "takeoff", "roi", "mode", "camera", "shots"}

ASSUME MissionAssumption ==
  /\ \A m \in Missions : m \in Seq(Range(m)) /\ IsInjective(m)
  /\ \A x \in Item : x.cmd \in Commands
  /\ FailureModes \subseteq {"None", "ErrorAck", "Incorrect1", "Incorrect2", "MissingRequests"}
  /\ MaxRetry \in Nat /\ MaxOps \in Nat

VARIABLES
  transaction,    \* _transactionInProgress
  expectedAck, retryCount,
  timer,          \* _ackTimeoutTimer runs
  toRead, toWrite,             \* _itemIndicesToRead and _itemIndicesToWrite
  missionItems, writeItems,    \* _missionItems and _writeMissionItems
  resumeMission,
  up, down,       \* the messages on their way to the vehicle and back
  failureMode, onVehicle, writeCount, writeIndex,   \* the vehicle
  asked,          \* history: what each transaction was asked for
  told,           \* history: how the last of them ended, as signalled
  late            \* history: a message has outlived the ack timeout

plan == <<toRead, toWrite, missionItems, writeItems, resumeMission, told>>
manager == <<transaction, expectedAck, retryCount, timer, plan, asked, late>>
vehicle == <<failureMode, onVehicle, writeCount, writeIndex>>
vars == <<manager, up, down, vehicle>>

Index == Nat \ {0}
ItemMessage == [type : {"item"}, i : Index, item : Item]
RequestMessage == [type : {"request"}, i : Index]
CountMessage == [type : {"count"}, n : Nat]
AckMessage == [type : {"ack"}, ok : BOOLEAN]
Message == ItemMessage \cup RequestMessage \cup CountMessage \cup AckMessage

TypeOK ==
  /\ transaction \in {"None", "Read", "Write", "RemoveAll"}
  /\ expectedAck \in {"None", "Count", "Item", "Request", "ClearAll", "Guided"}
  /\ retryCount \in 0..(MaxRetry + 1) /\ timer \in BOOLEAN
  /\ toRead \subseteq Index /\ toWrite \subseteq DOMAIN writeItems
  /\ missionItems \in Seq(Item) /\ writeItems \in Seq(Item) /\ resumeMission \in BOOLEAN
  /\ up \in Seq(Message \cup [type : {"list", "clear", "guided"}]) /\ down \in Seq(Message)
  /\ failureMode \in FailureModes
  /\ DOMAIN onVehicle \subseteq Index /\ onVehicle \in [DOMAIN onVehicle -> Item]
  /\ writeCount \in Nat /\ writeIndex \in Nat
  /\ asked \in Seq({"read", "write", "removeAll", "guided"})
  /\ told \in {"none", "ok", "error"} /\ late \in BOOLEAN

Init ==
  /\ transaction = "None" /\ expectedAck = "None" /\ retryCount = 0 /\ timer = FALSE
  /\ toRead = {} /\ toWrite = {} /\ missionItems = <<>> /\ writeItems = <<>>
  /\ resumeMission = FALSE /\ up = <<>> /\ down = <<>>
  /\ failureMode \in FailureModes /\ onVehicle \in Missions
  /\ writeCount = 0 /\ writeIndex = 0
  /\ asked = <<>> /\ told = "none" /\ late = FALSE

-----------------------------------------------------------------------------
(* Resuming a mission at one of its items.                                  *)

FliesThrough(x) == x.cmd \in {"home", "wp"}     \* ArduPilot takes off where it is
Included(x) == x.cmd \in {"takeoff", "roi", "mode", "camera", "shots"}

\* Back to the last item the vehicle flies through.
Adjusted(items, k) ==
  IF FliesThrough(items[k]) THEN k
  ELSE CHOOSE j \in 1..k : /\ j = 1 \/ FliesThrough(items[j])
                           /\ \A l \in (j + 1)..(k - 1) : ~FliesThrough(items[l])

MutantSuperseded(items, i, k) ==                     \* the loop runs forwards
  \/ items[i].cmd = "shots"
  \/ /\ items[i].cmd \in {"roi", "mode", "camera"}
     /\ \E j \in 1..(i - 1) : items[j].cmd = items[i].cmd
\* Of each class the last command before the resumed item is kept, as the loop
\* runs backwards; a fixed number of shots is not repeated.
Superseded(items, i, k) ==
  \/ items[i].cmd = "shots"
  \/ /\ items[i].cmd \in {"roi", "mode", "camera"}
     /\ \E j \in (i + 1)..(k - 1) : items[j].cmd = items[i].cmd

ResumeMission(items, resumeIndex) ==
  LET k == Adjusted(items, resumeIndex)
      kept == {i \in 1..(k - 1) : (i = 1 \/ Included(items[i])) /\ ~Superseded(items, i, k)}
  IN [i \in 1..Cardinality(kept) |->
        items[CHOOSE j \in kept : Cardinality({l \in kept : l <= j}) = i]]
     \o SubSeq(items, k, Len(items))

-----------------------------------------------------------------------------
(* MissionManager.                                                          *)

_startAckTimeout(ack) == expectedAck' = ack /\ timer' = TRUE
Disarmed == expectedAck' = "None" /\ timer' = FALSE
Send(m) == up' = Append(up, m)

_writeMissionCount(items) ==
  Send([type |-> "count", n |-> Len(items)]) /\ _startAckTimeout("Request")
_requestList ==
  /\ toRead' = {} /\ missionItems' = <<>>
  /\ Send([type |-> "list"]) /\ _startAckTimeout("Count")
  /\ UNCHANGED <<toWrite, writeItems, resumeMission>>
_requestNextMissionItem(left) ==
  /\ Send([type |-> "request", i |-> CHOOSE i \in left : \A j \in left : i <= j])
  /\ _startAckTimeout("Item")
_removeAllWorker == Send([type |-> "clear"]) /\ _startAckTimeout("ClearAll")

\* items is _missionItems so far.
Finished(success, items) ==
  CASE transaction = "Read" /\ ~success -> <<>>
    [] transaction = "Write" /\ success -> writeItems
    [] OTHER -> items
_finishTransaction(success, items) ==
  /\ toRead' = {} /\ toWrite' = {} /\ transaction' = "None" /\ resumeMission' = FALSE
  /\ missionItems' = Finished(success, items)
  /\ writeItems' = IF transaction = "Write" THEN <<>> ELSE writeItems
  /\ told' = IF transaction = "None" THEN told ELSE IF success THEN "ok" ELSE "error"

\* The operations are refused while a transaction is in progress.
Begin(kind, type) ==
  /\ transaction = "None" /\ Len(asked) < MaxOps
  /\ transaction' = type /\ asked' = Append(asked, kind) /\ told' = "none"
  /\ UNCHANGED <<late, down, vehicle>>

_writeMissionItemsWorker(items) ==
  /\ Begin("write", "Write")
  /\ writeItems' = items /\ toWrite' = DOMAIN items /\ retryCount' = 0
  /\ _writeMissionCount(items)
  /\ UNCHANGED <<toRead, missionItems>>
writeMissionItems(items) ==
  _writeMissionItemsWorker(items) /\ UNCHANGED resumeMission

\* The fly view offers it for the items between the home position and the last two.
generateResumeMission(k) ==
  /\ k \in 2..(Len(missionItems) - 2)
  /\ \A x \in Range(missionItems) : x.cmd # "jump"
  /\ _writeMissionItemsWorker(ResumeMission(missionItems, k))
  /\ resumeMission' = TRUE

\* A guided item is a write of its own; it leaves _retryCount alone.
writeArduPilotGuidedMissionItem ==
  /\ Begin("guided", "Write")
  /\ Send([type |-> "guided"]) /\ _startAckTimeout("Guided")
  /\ UNCHANGED <<retryCount, toRead, toWrite, missionItems, writeItems, resumeMission>>

loadFromVehicle == Begin("read", "Read") /\ retryCount' = 0 /\ _requestList

removeAll ==
  /\ Begin("removeAll", "RemoveAll") /\ retryCount' = 0
  /\ missionItems' = <<>> /\ _removeAllWorker
  /\ UNCHANGED <<toRead, toWrite, writeItems, resumeMission>>

GiveUp(ack) ==
  /\ expectedAck' = ack /\ timer' = FALSE /\ _finishTransaction(FALSE, missionItems)
  /\ UNCHANGED <<retryCount, up>>
MutantExhausted == FALSE
Exhausted == retryCount > MaxRetry
Retry(request) ==
  IF Exhausted THEN GiveUp(expectedAck)
  ELSE retryCount' = retryCount + 1 /\ request /\ UNCHANGED <<transaction, told>>

\* Some ways to give up leave the manager expecting the ack.
_ackTimeout ==
  /\ timer /\ late' = (late \/ up # <<>> \/ down # <<>>)
  /\ \/ expectedAck = "Count" /\ Retry(_requestList)
     \/ /\ expectedAck = "Item"
        /\ Retry(/\ _requestNextMissionItem(toRead)
                 /\ UNCHANGED <<toRead, toWrite, missionItems, writeItems, resumeMission>>)
     \/ /\ expectedAck = "Request" /\ toWrite = {} /\ GiveUp(expectedAck)
     \/ /\ expectedAck = "Request" /\ 1 \in toWrite
        /\ Retry(/\ _writeMissionCount(writeItems)
                 /\ UNCHANGED <<toRead, toWrite, missionItems, writeItems, resumeMission>>)
     \/ /\ expectedAck = "Request" /\ toWrite # {} /\ 1 \notin toWrite /\ GiveUp("None")
     \/ /\ expectedAck = "ClearAll"
        /\ Retry(/\ _removeAllWorker
                 /\ UNCHANGED <<toRead, toWrite, missionItems, writeItems, resumeMission>>)
     \/ expectedAck = "Guided" /\ GiveUp("None")
  /\ UNCHANGED <<asked, down, vehicle>>

Receive(type) ==
  /\ down # <<>> /\ Head(down).type = type /\ down' = Tail(down)
  /\ UNCHANGED <<asked, late, vehicle>>

\* Not the ack that is expected: dropped, with the timer running on.
AckOf == [count |-> "Count", item |-> "Item", request |-> "Request"]
DropSpurious ==
  \E type \in DOMAIN AckOf :
    /\ Receive(type) /\ expectedAck # AckOf[type]
    /\ UNCHANGED <<transaction, expectedAck, retryCount, timer, plan, up>>

_readTransactionComplete(items) ==
  /\ Send([type |-> "ack", ok |-> TRUE]) /\ Disarmed /\ _finishTransaction(TRUE, items)

_handleMissionCount ==
  /\ Receive("count") /\ expectedAck = "Count" /\ retryCount' = 0
  /\ LET n == Head(down).n IN
     IF n = 0 THEN _readTransactionComplete(missionItems)
     ELSE /\ toRead' = 1..n /\ _requestNextMissionItem(1..n)
          /\ UNCHANGED <<transaction, toWrite, missionItems, writeItems, resumeMission, told>>

MutantUnrequested == Disarmed                        \* the timer stays stopped
Unrequested == _startAckTimeout("Item")

_handleMissionItem ==
  /\ Receive("item") /\ expectedAck = "Item"
  /\ LET m == Head(down)
         items == Append(missionItems, m.item)
         left == toRead \ {m.i}
     IN IF m.i \notin toRead
        THEN Unrequested /\ UNCHANGED <<transaction, retryCount, plan, up>>
        ELSE /\ retryCount' = 0
             /\ IF left = {} THEN _readTransactionComplete(items)
                ELSE /\ toRead' = left /\ missionItems' = items
                     /\ _requestNextMissionItem(left)
                     /\ UNCHANGED <<transaction, toWrite, writeItems, resumeMission, told>>

_handleMissionRequest ==
  /\ Receive("request") /\ expectedAck = "Request" /\ UNCHANGED retryCount
  /\ LET i == Head(down).i IN
     IF i > Len(writeItems) THEN Disarmed /\ _finishTransaction(FALSE, missionItems) /\ UNCHANGED up
     ELSE /\ toWrite' = toWrite \ {i}
          /\ Send([type |-> "item", i |-> i, item |-> writeItems[i]])
          /\ _startAckTimeout("Request")
          /\ UNCHANGED <<transaction, toRead, missionItems, writeItems, resumeMission, told>>

\* An ack is taken whatever is expected; it is a success of a write only if the
\* vehicle asked for everything.
MutantAccepted(ok) == ok
Accepted(ok) ==
  /\ ok /\ expectedAck \in {"ClearAll", "Guided", "Request"}
  /\ expectedAck = "Request" => toWrite = {}
_handleMissionAck ==
  /\ Receive("ack") /\ Disarmed /\ UNCHANGED <<retryCount, up>>
  /\ IF expectedAck = "None" THEN UNCHANGED <<transaction, plan>>
     ELSE _finishTransaction(Accepted(Head(down).ok), missionItems)

-----------------------------------------------------------------------------
(* The vehicle.                                                             *)

Handle(type) ==
  up # <<>> /\ Head(up).type = type /\ up' = Tail(up) /\ UNCHANGED <<manager, failureMode>>
Respond(m) == down' = Append(down, m)
Ack(ok) == [type |-> "ack", ok |-> ok]
Fails(mode) == failureMode = mode
\* One item is taken for the next: on every request of it.
Requested(i) == IF (Fails("Incorrect1") /\ i = 1) \/ (Fails("Incorrect2") /\ i = 2) THEN i + 1 ELSE i

VehicleRequestList ==
  /\ Handle("list") /\ Respond([type |-> "count", n |-> Cardinality(DOMAIN onVehicle)])
  /\ UNCHANGED <<onVehicle, writeCount, writeIndex>>

VehicleRequest ==
  /\ Handle("request") /\ UNCHANGED <<onVehicle, writeCount, writeIndex>>
  /\ LET i == Requested(Head(up).i) IN
       IF i \in DOMAIN onVehicle THEN Respond([type |-> "item", i |-> i, item |-> onVehicle[i]])
       ELSE UNCHANGED down

VehicleRefuses ==
  /\ Fails("ErrorAck") /\ (Handle("request") \/ Handle("guided")) /\ Respond(Ack(FALSE))
  /\ UNCHANGED <<onVehicle, writeCount, writeIndex>>

VehicleRequestNext(i) ==
  \/ Respond([type |-> "request", i |-> Requested(i)])
  \/ Fails("ErrorAck") /\ Respond(Ack(FALSE))

VehicleCount ==
  /\ Handle("count")
  /\ onVehicle' = <<>> /\ writeCount' = Head(up).n
  /\ IF writeCount' = 0 THEN Respond(Ack(TRUE)) /\ UNCHANGED writeIndex
     ELSE writeIndex' = 1 /\ VehicleRequestNext(1)

VehicleItem ==
  /\ Handle("item")
  /\ onVehicle' = [i \in DOMAIN onVehicle \cup {Head(up).i} |->
                     IF i = Head(up).i THEN Head(up).item ELSE onVehicle[i]]
  /\ writeIndex' = writeIndex + 1 /\ UNCHANGED writeCount
  /\ IF writeIndex' <= writeCount
     THEN VehicleRequestNext(writeIndex') \/ (Fails("MissingRequests") /\ Respond(Ack(TRUE)))
     ELSE Respond(Ack(TRUE)) \/ (Fails("ErrorAck") /\ Respond(Ack(FALSE)))

VehicleClearAll ==
  /\ Handle("clear") /\ onVehicle' = <<>> /\ Respond(Ack(TRUE))
  /\ UNCHANGED <<writeCount, writeIndex>>
VehicleGuided ==
  Handle("guided") /\ Respond(Ack(TRUE)) /\ UNCHANGED <<onVehicle, writeCount, writeIndex>>
VehicleAck == Handle("ack") /\ UNCHANGED <<down, onVehicle, writeCount, writeIndex>>

Lose ==
  /\ \/ up # <<>> /\ up' = Tail(up) /\ UNCHANGED down
     \/ down # <<>> /\ down' = Tail(down) /\ UNCHANGED up
  /\ UNCHANGED <<manager, vehicle>>

-----------------------------------------------------------------------------
User ==
  \/ loadFromVehicle \/ removeAll \/ writeArduPilotGuidedMissionItem
  \/ \E m \in Missions : writeMissionItems(m)
  \/ \E k \in 1..Len(missionItems) : generateResumeMission(k)
Manager ==
  \/ _ackTimeout \/ DropSpurious
  \/ _handleMissionCount \/ _handleMissionItem \/ _handleMissionRequest \/ _handleMissionAck
Vehicle ==
  \/ VehicleRequestList \/ VehicleRequest \/ VehicleRefuses \/ VehicleCount \/ VehicleItem
  \/ VehicleClearAll \/ VehicleGuided \/ VehicleAck

Next == User \/ Manager \/ Vehicle \/ Lose
Spec == Init /\ [][Next]_vars
\* What is sent arrives or is lost; the manager's timer and slots run.  The
\* vehicle owes no answer that arrives: losing it is always possible.
FairSpec == Spec /\ WF_vars(Manager) /\ WF_vars(Vehicle \/ Lose)

-----------------------------------------------------------------------------
(* Properties.                                                              *)

\* A transaction in progress always has an ack to wait for and the timer running
\* for it: no handler, retry or early return leaves the manager busy for good.
Awaited == transaction # "None" => timer /\ expectedAck # "None"

\* A transaction reported as a success leaves the manager with exactly the mission
\* the vehicle has: whatever was lost, retried, refused or asked out of order.
\* A guided item is the exception: its success empties the manager's list.
SuccessMirrors == told = "ok" /\ ~late /\ Last(asked) # "guided" => missionItems = onVehicle

\* A mission resumed at an item finds the camera, the region of interest and the
\* mode as they were there, each set once, and the rest of the mission is intact,
\* as is the home position it begins with.
LastOf(items, cmd) == {i \in DOMAIN items : /\ items[i].cmd = cmd
                                            /\ \A j \in (i + 1)..Len(items) : items[j].cmd # cmd}
ResumeRestores ==
  \A k \in 2..(Len(missionItems) - 2) :
    LET at == Adjusted(missionItems, k)
        before == SubSeq(missionItems, 1, at - 1)
        resumed == ResumeMission(missionItems, k)
        prefix == SubSeq(resumed, 1, Len(resumed) - (Len(missionItems) - at + 1))
    IN /\ Head(missionItems).cmd = "home" => Head(resumed) = Head(missionItems)
       /\ SubSeq(resumed, Len(prefix) + 1, Len(resumed)) = SubSeq(missionItems, at, Len(missionItems))
       /\ \A cmd \in {"roi", "mode", "camera"} :
            {prefix[i] : i \in {j \in DOMAIN prefix : prefix[j].cmd = cmd}}
              = {before[i] : i \in LastOf(before, cmd)}

\* Every transaction ends, in success or in an error: also when every answer is lost.
EveryTransactionEnds == transaction # "None" ~> transaction = "None"
=============================================================================
