------------------------------ MODULE UBCommands ------------------------------
(***************************************************************************)
(* The commands QGroundControl's Vehicle sends to its vehicle, and the start   *)
(* of the initial plan request, which waits for the answer to the first of    *)
(* them.  Commands are queued; the head alone is on its way, repeated by a     *)
(* timer until the vehicle acknowledges a command of the same number or the    *)
(* attempts are exhausted.  The link loses messages, and keeps their order.    *)
(*                                                                         *)
(* The first command, "caps", asks for the vehicle's capabilities: the vehicle *)
(* answers with an AUTOPILOT_VERSION and an acknowledgement.  Arming and       *)
(* disarming are one command with different parameters.  "pair" starts the     *)
(* pairing of the radio, which is sent once.  The firmware is ArduPilot: the   *)
(* sensors page listens for the answer to "cancel", the cancellation of a      *)
(* compass calibration, and then sends "start", which starts one.              *)
(***************************************************************************)
EXTENDS Naturals, Sequences

CONSTANTS UserCommands,    \* what the user may ask for
          MaxRetry,        \* _mavCommandMaxRetryCount
          MaxCommands,     \* bound: commands the user asks for
          MaxLate          \* bound: messages that may outlive the timer

Commands == {"caps", "cancel", "start", "arm", "disarm", "pair"}

ASSUME CommandsAssumption ==
  /\ UserCommands \subseteq Commands /\ MaxRetry \in Nat /\ MaxCommands \in Nat
  /\ MaxLate \in Nat

VARIABLES
  queue, retryCount, timer,    \* _mavCommandQueue, _mavCommandRetryCount, _mavCommandAckTimer
  listening,                   \* the sensors page waits for the result of "cancel"
  capabilitiesKnown, parametersReady, planRequested,
  up, down,                    \* the messages on their way
  asked,                       \* how many commands the user has asked for
  versionLost                  \* history: an AUTOPILOT_VERSION was lost

sender == <<queue, retryCount, timer>>
plan == <<capabilitiesKnown, parametersReady, planRequested>>
history == <<asked, versionLost>>
vars == <<sender, listening, plan, up, down, history>>

Number(c) == IF c \in {"arm", "disarm"} THEN "arm_disarm" ELSE c
Ack(c, ok) == [type |-> "ack", number |-> Number(c), ok |-> ok]
Messages == {[type |-> "version"]} \cup {Ack(c, ok) : c \in Commands, ok \in BOOLEAN}

TypeOK ==
  /\ queue \in Seq(Commands) /\ retryCount \in 0..(MaxRetry + 2) /\ timer \in BOOLEAN
  /\ listening \in BOOLEAN
  /\ capabilitiesKnown \in BOOLEAN /\ parametersReady \in BOOLEAN /\ planRequested \in BOOLEAN
  /\ up \in Seq(Commands)
  /\ down \in Seq(Messages)
  /\ asked \in 0..MaxCommands /\ versionLost \in BOOLEAN

-----------------------------------------------------------------------------
(* The queue.  s is its state: [queue, retry, timer, sent], sent the messages  *)
(* this event transmits.                                                    *)

Sender == [queue |-> queue, retry |-> retryCount, timer |-> timer, sent |-> <<>>]
SenderBecomes(s) ==
  queue' = s.queue /\ retryCount' = s.retry /\ timer' = s.timer /\ up' = up \o s.sent

Pop(s) == [s EXCEPT !.queue = Tail(@)]

\* A pairing is not repeated: then the timer is not started either.
Transmit(s) ==
  IF Head(s.queue) = "pair" /\ s.retry > 0 THEN [s EXCEPT !.retry = @ + 1]
  ELSE [queue |-> s.queue, retry |-> s.retry + 1, timer |-> TRUE,
        sent |-> Append(s.sent, Head(s.queue))]

\* After the last attempt the head is reported as unanswered, and the next one sent.
MutantExhausted(s) == s.retry > MaxRetry + 1
Exhausted(s) == s.retry > MaxRetry
_sendMavCommandAgain(s) ==
  IF ~Exhausted(s) THEN Transmit(s)
  ELSE LET rest == Pop([s EXCEPT !.retry = @ + 1])
       IN IF rest.queue = <<>> THEN rest ELSE Transmit([rest EXCEPT !.retry = 0])

MutantSendNext(s) == s
_sendNextQueuedMavCommand(s) ==
  IF s.queue = <<>> THEN s ELSE _sendMavCommandAgain([s EXCEPT !.retry = 0])

sendMavCommand(s, c) ==
  LET longer == [s EXCEPT !.queue = Append(@, c)]
  IN IF Len(longer.queue) = 1 THEN _sendMavCommandAgain([longer EXCEPT !.retry = 0]) ELSE longer

-----------------------------------------------------------------------------
(* Events.                                                                  *)

_startPlanRequest == planRequested' = (planRequested \/ (parametersReady' /\ capabilitiesKnown'))
_setCapabilities(known) == capabilitiesKnown' = known /\ _startPlanRequest

Init ==                                     \* the constructor has asked for the capabilities
  /\ queue = <<"caps">> /\ retryCount = 1 /\ timer = TRUE /\ up = <<"caps">> /\ down = <<>>
  /\ listening = FALSE
  /\ capabilitiesKnown = FALSE /\ parametersReady = FALSE /\ planRequested = FALSE
  /\ asked = 0 /\ versionLost = FALSE

Ask(c) ==
  /\ asked < MaxCommands /\ asked' = asked + 1
  /\ listening' = (listening \/ c = "cancel")
  /\ SenderBecomes(sendMavCommand(Sender, c))
  /\ UNCHANGED <<plan, down, versionLost>>

\* The capabilities are given up with the command that asks for them.
Unlearned == queue[1] = "caps" /\ Exhausted(Sender)
Timeout ==
  /\ timer /\ Len(up \o down) <= MaxLate
  /\ SenderBecomes(_sendMavCommandAgain([Sender EXCEPT !.timer = FALSE]))
  /\ parametersReady' = parametersReady
  /\ _setCapabilities(capabilitiesKnown \/ Unlearned)
  /\ listening' = (listening /\ ~(Head(queue) = "cancel" /\ Exhausted(Sender)))
  /\ UNCHANGED <<down, history>>

Receive(type) == down # <<>> /\ Head(down).type = type /\ down' = Tail(down)

\* Every acknowledgement is signalled, and sends the head of the queue: again, when
\* it acknowledges something else or a slot has just sent it.
_handleCommandAck ==
  /\ Receive("ack")
  /\ LET ack == Head(down)
         matches == queue # <<>> /\ Number(Head(queue)) = ack.number
         popped == IF matches THEN Pop([Sender EXCEPT !.timer = FALSE]) ELSE Sender
         heard == listening /\ ack.number = "cancel"
         signalled == IF heard /\ ack.ok THEN sendMavCommand(popped, "start") ELSE popped
     IN /\ SenderBecomes(_sendNextQueuedMavCommand(signalled))
        /\ listening' = (listening /\ ~heard)
        /\ parametersReady' = parametersReady
        /\ _setCapabilities(capabilitiesKnown \/ (ack.number = "caps" /\ ~ack.ok))
  /\ UNCHANGED history

_handleAutopilotVersion ==
  /\ Receive("version") /\ parametersReady' = parametersReady /\ _setCapabilities(TRUE)
  /\ UNCHANGED <<sender, listening, up, history>>

_parametersReady ==
  /\ ~parametersReady /\ parametersReady' = TRUE
  /\ capabilitiesKnown' = capabilitiesKnown /\ _startPlanRequest
  /\ UNCHANGED <<sender, listening, up, down, history>>

-----------------------------------------------------------------------------
(* The vehicle and the link.                                                *)

VehicleExecutes(ok) ==
  /\ up # <<>> /\ (ok \/ Head(up) \in {"caps", "cancel"})     \* the others' result is not looked at
  /\ up' = Tail(up)
  /\ LET version == IF Head(up) = "caps" /\ ok THEN <<[type |-> "version"]>> ELSE <<>>
     IN down' = down \o version \o <<Ack(Head(up), ok)>>
  /\ UNCHANGED <<sender, listening, plan, history>>

Lose ==
  /\ \/ up # <<>> /\ up' = Tail(up) /\ UNCHANGED <<down, versionLost>>
     \/ /\ down # <<>> /\ down' = Tail(down) /\ UNCHANGED up
        /\ versionLost' = (versionLost \/ Head(down).type = "version")
  /\ UNCHANGED <<sender, listening, plan, asked>>

-----------------------------------------------------------------------------
Handlers == _handleCommandAck \/ _handleAutopilotVersion
Link == (\E ok \in BOOLEAN : VehicleExecutes(ok)) \/ Lose
Next == (\E c \in UserCommands : Ask(c)) \/ Timeout \/ Handlers \/ _parametersReady \/ Link
Spec == Init /\ [][Next]_vars
\* The event loop runs the timer and the handlers, the link delivers or loses
\* what it holds, and the parameters arrive.
FairSpec ==
  Spec /\ WF_vars(Timeout) /\ WF_vars(Handlers) /\ WF_vars(Link) /\ WF_vars(_parametersReady)

-----------------------------------------------------------------------------
(* Properties.                                                              *)

\* The one command without a retry blocks the queue when it is not answered.
Wedged == queue # <<>> /\ Head(queue) = "pair" /\ retryCount > 1 /\ ~timer

\* While a command is queued the timer runs for the head of the queue: acknowledgements
\* of other commands, slots that send and retries never leave it without one.
HeadAwaited == queue # <<>> => timer \/ Wedged

\* Every command is reported, answered or not, so that the queue empties.
QueueDrains == []<>(queue = <<>> \/ Wedged)
=============================================================================
