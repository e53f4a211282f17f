--------------------------- MODULE UBCommandsProofs ---------------------------
(***************************************************************************)
(* The safety of the command queue, for every set of commands the user may    *)
(* ask for and every number of retries; that the plan's composition with it   *)
(* (UBPlanSync) leaves the queue's behaviour alone; and the plan's types.     *)
(***************************************************************************)
EXTENDS UBPlanSync, SequenceTheorems, TLAPS

-----------------------------------------------------------------------------
(* The inductive invariant, stated of a sender's state.                      *)

SenderState == [queue : Seq(Commands), retry : Nat, timer : BOOLEAN, sent : Seq(Commands)]

\* What a slot may see between two calls of the queue's functions.
Loose(s) == s.retry <= MaxRetry + 2 /\ (s.queue = <<>> => ~s.timer)

\* What every handler leaves: the timer runs for the head, or the head is a pairing
\* that was not repeated; and it runs for nothing else.
Settled(s) ==
  /\ Loose(s)
  /\ s.timer => s.retry <= MaxRetry + 1
  /\ s.queue # <<>> => s.timer \/ (Head(s.queue) = "pair" /\ s.retry > 1)

Inv == TypeOK /\ Settled(Sender)

-----------------------------------------------------------------------------
\* A sender's state is the record of its four fields.
LEMMA Fields ==
  ASSUME NEW s \in SenderState
  PROVE  /\ s = [queue |-> s.queue, retry |-> s.retry, timer |-> s.timer, sent |-> s.sent]
         /\ s.queue \in Seq(Commands) /\ s.retry \in Nat /\ s.timer \in BOOLEAN
         /\ s.sent \in Seq(Commands)
  BY DEF SenderState

\* Pop takes the head off the queue and nothing else of the sender.
LEMMA PopFields ==
  ASSUME NEW s \in SenderState
  PROVE  Pop(s) = [queue |-> Tail(s.queue), retry |-> s.retry, timer |-> s.timer, sent |-> s.sent]
<1>1. s = [queue |-> s.queue, retry |-> s.retry, timer |-> s.timer, sent |-> s.sent]
  BY Fields
<1>2. Pop(s) = [s EXCEPT !.queue = Tail(s.queue)]
  BY DEF Pop
<1> DEFINE rest == Tail(s.queue)
<1> HIDE DEF rest
<1>3. [s EXCEPT !.queue = rest] = [queue |-> rest, retry |-> s.retry, timer |-> s.timer, sent |-> s.sent]
  BY <1>1
<1> QED BY <1>2, <1>3 DEF rest

\* Setting the counter or the timer leaves the rest of the sender as it is.
LEMMA CounterFields ==
  ASSUME NEW s \in SenderState
  PROVE  /\ [s EXCEPT !.retry = @ + 1]
              = [queue |-> s.queue, retry |-> s.retry + 1, timer |-> s.timer, sent |-> s.sent]
         /\ [s EXCEPT !.retry = 0]
              = [queue |-> s.queue, retry |-> 0, timer |-> s.timer, sent |-> s.sent]
         /\ [s EXCEPT !.timer = FALSE]
              = [queue |-> s.queue, retry |-> s.retry, timer |-> FALSE, sent |-> s.sent]
<1>1. s = [queue |-> s.queue, retry |-> s.retry, timer |-> s.timer, sent |-> s.sent]
  BY Fields
<1>2. [s EXCEPT !.retry = @ + 1]
        = [queue |-> s.queue, retry |-> s.retry + 1, timer |-> s.timer, sent |-> s.sent]
  BY <1>1
<1>3. [s EXCEPT !.retry = 0]
        = [queue |-> s.queue, retry |-> 0, timer |-> s.timer, sent |-> s.sent]
  BY <1>1
<1>4. [s EXCEPT !.timer = FALSE]
        = [queue |-> s.queue, retry |-> s.retry, timer |-> FALSE, sent |-> s.sent]
  <2> DEFINE off == FALSE
  <2> HIDE DEF off
  <2>1. [s EXCEPT !.timer = off]
          = [queue |-> s.queue, retry |-> s.retry, timer |-> off, sent |-> s.sent]
    BY <1>1
  <2> QED BY <2>1 DEF off
<1> QED BY <1>2, <1>3, <1>4

\* Transmitting the head leaves it awaited.
LEMMA TransmitSettles ==
  ASSUME NEW s \in SenderState, s.queue # <<>>, s.retry <= MaxRetry
  PROVE  Transmit(s) \in SenderState /\ Settled(Transmit(s)) /\ Transmit(s).queue = s.queue
<1>1. MaxRetry \in Nat
  BY CommandsAssumption
<1>2. s.queue \in Seq(Commands) /\ s.retry \in Nat /\ s.timer \in BOOLEAN /\ s.sent \in Seq(Commands)
  BY Fields
<1>3. Head(s.queue) \in Commands
  BY <1>2
<1>f. s = [queue |-> s.queue, retry |-> s.retry, timer |-> s.timer, sent |-> s.sent]
  BY Fields
<1>4. CASE Head(s.queue) = "pair" /\ s.retry > 0
  <2>1. Transmit(s) = [s EXCEPT !.retry = @ + 1]
    BY <1>4 DEF Transmit
  <2>2. Transmit(s) = [queue |-> s.queue, retry |-> s.retry + 1, timer |-> s.timer, sent |-> s.sent]
    BY <1>f, <2>1
  <2> QED BY <1>1, <1>2, <1>4, <2>2 DEF SenderState, Settled, Loose
<1>5. CASE ~(Head(s.queue) = "pair" /\ s.retry > 0)
  <2>1. Transmit(s) = [queue |-> s.queue, retry |-> s.retry + 1, timer |-> TRUE,
                       sent |-> Append(s.sent, Head(s.queue))]
    BY <1>5 DEF Transmit
  <2>2. Append(s.sent, Head(s.queue)) \in Seq(Commands)
    BY <1>2, <1>3
  <2> QED BY <1>1, <1>2, <2>1, <2>2 DEF SenderState, Settled, Loose
<1> QED BY <1>4, <1>5

\* So does sending it again, or giving it up and sending the next.
LEMMA AgainSettles ==
  ASSUME NEW s \in SenderState, s.queue # <<>>, s.retry <= MaxRetry \/ (s.retry <= MaxRetry + 1 /\ ~s.timer)
  PROVE  _sendMavCommandAgain(s) \in SenderState /\ Settled(_sendMavCommandAgain(s))
<1>1. MaxRetry \in Nat
  BY CommandsAssumption
<1>2. s.queue \in Seq(Commands) /\ s.retry \in Nat /\ s.timer \in BOOLEAN /\ s.sent \in Seq(Commands)
  BY Fields
<1>f. s = [queue |-> s.queue, retry |-> s.retry, timer |-> s.timer, sent |-> s.sent]
  BY Fields
<1>3. CASE ~Exhausted(s)
  <2>1. s.retry <= MaxRetry
    BY <1>1, <1>2, <1>3 DEF Exhausted
  <2> QED BY <1>3, <2>1, TransmitSettles DEF _sendMavCommandAgain
<1>4. CASE Exhausted(s)
  <2>1. ~s.timer /\ s.retry <= MaxRetry + 1
    BY <1>1, <1>2, <1>4 DEF Exhausted
  <2> DEFINE more == [s EXCEPT !.retry = @ + 1]
             rest == Pop(more)
             next == [rest EXCEPT !.retry = 0]
  <2>2. _sendMavCommandAgain(s) = IF rest.queue = <<>> THEN rest ELSE Transmit(next)
    BY <1>4 DEF _sendMavCommandAgain
  <2>3. more = [queue |-> s.queue, retry |-> s.retry + 1, timer |-> s.timer, sent |-> s.sent]
    BY CounterFields
  <2> HIDE DEF more
  <2>4. more \in SenderState
    BY <1>2, <2>3 DEF SenderState
  <2>5. rest = [queue |-> Tail(s.queue), retry |-> s.retry + 1, timer |-> s.timer, sent |-> s.sent]
    BY <2>3, <2>4, PopFields
  <2> HIDE DEF rest
  <2>6. Tail(s.queue) \in Seq(Commands)
    BY <1>2
  <2>7. rest \in SenderState
    BY <1>2, <2>5, <2>6 DEF SenderState
  <2>8. CASE Tail(s.queue) = <<>>
    <3>1. _sendMavCommandAgain(s) = rest
      BY <2>2, <2>5, <2>8
    <3>2. Settled(rest)
      BY <1>1, <1>2, <2>1, <2>5, <2>8 DEF Settled, Loose
    <3> QED BY <2>7, <3>1, <3>2
  <2>9. CASE Tail(s.queue) # <<>>
    <3>1. next = [queue |-> rest.queue, retry |-> 0, timer |-> rest.timer, sent |-> rest.sent]
      BY <2>7, CounterFields
    <3>2. rest.queue \in Seq(Commands) /\ rest.timer \in BOOLEAN /\ rest.sent \in Seq(Commands)
      BY <2>7, Fields
    <3>3. _sendMavCommandAgain(s) = Transmit(next)
      BY <2>2, <2>5, <2>9
    <3> HIDE DEF next
    <3>4. next \in SenderState
      BY <3>1, <3>2 DEF SenderState
    <3>5. next.queue # <<>> /\ next.retry <= MaxRetry
      BY <1>1, <2>5, <2>9, <3>1
    <3> QED BY <3>3, <3>4, <3>5, TransmitSettles
  <2> QED BY <2>8, <2>9
<1> QED BY <1>3, <1>4

\* A command that is asked for joins the queue, or is sent when it is alone.
LEMMA SendSettles ==
  ASSUME NEW s \in SenderState, Loose(s), NEW c \in Commands
  PROVE  /\ sendMavCommand(s, c) \in SenderState /\ Loose(sendMavCommand(s, c))
         /\ Settled(s) => Settled(sendMavCommand(s, c))
<1> DEFINE longer == [s EXCEPT !.queue = Append(@, c)]
           next == [longer EXCEPT !.retry = 0]
           r == sendMavCommand(s, c)
<1>1. MaxRetry \in Nat
  BY CommandsAssumption
<1>2. s.queue \in Seq(Commands) /\ s.retry \in Nat /\ s.timer \in BOOLEAN /\ s.sent \in Seq(Commands)
  BY Fields
<1>3. r = IF Len(longer.queue) = 1 THEN _sendMavCommandAgain(next) ELSE longer
  BY DEF sendMavCommand
<1>4. longer = [queue |-> Append(s.queue, c), retry |-> s.retry, timer |-> s.timer, sent |-> s.sent]
  <2>1. s = [queue |-> s.queue, retry |-> s.retry, timer |-> s.timer, sent |-> s.sent]
    BY Fields
  <2> DEFINE grown == Append(s.queue, c)
  <2>2. longer = [s EXCEPT !.queue = grown]
    OBVIOUS
  <2> HIDE DEF grown
  <2>3. [s EXCEPT !.queue = grown] = [queue |-> grown, retry |-> s.retry, timer |-> s.timer, sent |-> s.sent]
    BY <2>1
  <2> QED BY <2>2, <2>3 DEF grown
<1> HIDE DEF longer, r
<1>5. Append(s.queue, c) \in Seq(Commands) /\ Append(s.queue, c) # <<>> /\ Len(Append(s.queue, c)) = Len(s.queue) + 1
  BY <1>2
<1>6. longer \in SenderState /\ longer.queue = Append(s.queue, c)
  BY <1>2, <1>4, <1>5 DEF SenderState
<1>7. CASE Len(longer.queue) = 1
  <2>1. next = [queue |-> longer.queue, retry |-> 0, timer |-> longer.timer, sent |-> longer.sent]
    BY <1>6, CounterFields
  <2>2. longer.queue \in Seq(Commands) /\ longer.timer \in BOOLEAN /\ longer.sent \in Seq(Commands)
    BY <1>6, Fields
  <2>3. r = _sendMavCommandAgain(next)
    BY <1>3, <1>7
  <2> HIDE DEF next
  <2>4. next \in SenderState
    BY <2>1, <2>2 DEF SenderState
  <2>5. next.queue # <<>> /\ next.retry <= MaxRetry
    BY <1>1, <1>5, <1>6, <2>1
  <2>6. r \in SenderState /\ Settled(r)
    BY <2>3, <2>4, <2>5, AgainSettles
  <2> QED BY <2>6 DEF Settled, r
<1>8. CASE Len(longer.queue) # 1
  <2>1. r = longer
    BY <1>3, <1>8
  <2>2. s.queue # <<>>
    BY <1>2, <1>5, <1>6, <1>8
  <2>3. Head(Append(s.queue, c)) = Head(s.queue)
    BY <1>2, <2>2
  <2>4. r \in SenderState /\ Loose(r)
    BY <1>4, <1>5, <1>6, <2>1 DEF Loose
  <2>5. Settled(s) => Settled(r)
    BY <1>4, <1>5, <2>1, <2>2, <2>3, <2>4 DEF Settled
  <2> QED BY <2>4, <2>5 DEF r
<1> QED BY <1>7, <1>8

\* After an acknowledgement the head, whichever it is now, is sent and awaited.
LEMMA NextSettles ==
  ASSUME NEW s \in SenderState, Loose(s)
  PROVE  _sendNextQueuedMavCommand(s) \in SenderState /\ Settled(_sendNextQueuedMavCommand(s))
<1>1. MaxRetry \in Nat
  BY CommandsAssumption
<1>2. s.queue \in Seq(Commands) /\ s.retry \in Nat /\ s.timer \in BOOLEAN /\ s.sent \in Seq(Commands)
  BY Fields
<1>3. CASE s.queue = <<>>
  <2>1. _sendNextQueuedMavCommand(s) = s
    BY <1>3 DEF _sendNextQueuedMavCommand
  <2>2. Settled(s)
    BY <1>3 DEF Loose, Settled
  <2> QED BY <2>1, <2>2
<1>4. CASE s.queue # <<>>
  <2> DEFINE next == [s EXCEPT !.retry = 0]
  <2>1. next = [queue |-> s.queue, retry |-> 0, timer |-> s.timer, sent |-> s.sent]
    BY CounterFields
  <2>2. _sendNextQueuedMavCommand(s) = _sendMavCommandAgain(next)
    BY <1>4 DEF _sendNextQueuedMavCommand
  <2> HIDE DEF next
  <2>3. next \in SenderState
    BY <1>2, <2>1 DEF SenderState
  <2>4. next.queue # <<>> /\ next.retry <= MaxRetry
    BY <1>1, <1>4, <2>1
  <2> QED BY <2>2, <2>3, <2>4, AgainSettles
<1> QED BY <1>3, <1>4

-----------------------------------------------------------------------------
(* The invariant, one lemma per event.                                      *)

\* The queue as it is before an event is a sender's state.
LEMMA Before ==
  ASSUME TypeOK, Settled(Sender)
  PROVE  Sender \in SenderState /\ Loose(Sender)
BY DEF TypeOK, SenderState, Sender, Settled

\* An event that leaves the queue settled keeps the sender's part of the invariant.
LEMMA SettledAfter ==
  ASSUME TypeOK, NEW s \in SenderState, Settled(s), SenderBecomes(s)
  PROVE  /\ queue' \in Seq(Commands) /\ retryCount' \in 0..(MaxRetry + 2) /\ timer' \in BOOLEAN
         /\ up' \in Seq(Commands)
         /\ Settled(Sender)'
<1>1. MaxRetry \in Nat
  BY CommandsAssumption
<1>2. s.queue \in Seq(Commands) /\ s.retry \in Nat /\ s.timer \in BOOLEAN /\ s.sent \in Seq(Commands)
  BY Fields
<1>3. up \in Seq(Commands)
  BY DEF TypeOK
<1>4. up' \in Seq(Commands)
  BY <1>2, <1>3 DEF SenderBecomes
<1>5. Settled(Sender)'
  BY DEF SenderBecomes, Settled, Loose, Sender
<1> QED BY <1>1, <1>2, <1>4, <1>5 DEF SenderBecomes, Settled, Loose

\* With an empty queue and no timer, there is no head to be awaited.
LEMMA InitInv == Init => Inv
<1> SUFFICES ASSUME Init PROVE Inv
  OBVIOUS
<1>1. MaxRetry \in Nat /\ MaxCommands \in Nat
  BY CommandsAssumption
<1>2. <<"caps">> \in Seq(Commands) /\ <<"caps">> # <<>> /\ <<>> \in Seq(Messages)
  BY DEF Commands
<1>3. TypeOK
  <2>1. retryCount \in 0..(MaxRetry + 2) /\ asked \in 0..MaxCommands
    BY <1>1 DEF Init
  <2>2. queue \in Seq(Commands) /\ up \in Seq(Commands) /\ down \in Seq(Messages)
    BY <1>2 DEF Init
  <2> QED BY <2>1, <2>2 DEF Init, TypeOK
<1>4. Settled(Sender)
  BY <1>1, <1>2 DEF Init, Settled, Loose, Sender
<1> QED BY <1>3, <1>4 DEF Inv

\* A command of the user either starts the timer for itself or waits behind a head that has it.
LEMMA AskStep ==
  ASSUME Inv, NEW c \in UserCommands, Ask(c)
  PROVE  Inv'
<1>1. c \in Commands /\ MaxCommands \in Nat
  BY CommandsAssumption
<1> DEFINE after == sendMavCommand(Sender, c)
<1>2. after \in SenderState /\ Settled(after)
  BY <1>1, Before, SendSettles DEF Inv
<1>3. SenderBecomes(after)
  BY DEF Ask
<1> HIDE DEF after
<1>4. /\ queue' \in Seq(Commands) /\ retryCount' \in 0..(MaxRetry + 2) /\ timer' \in BOOLEAN
      /\ up' \in Seq(Commands) /\ Settled(Sender)'
  BY <1>2, <1>3, SettledAfter DEF Inv
<1>5. TypeOK'
  BY <1>1, <1>4 DEF Inv, TypeOK, Ask, plan
<1> QED BY <1>4, <1>5 DEF Inv

\* A timeout repeats the head, or gives it up and sends the next: either way the head is awaited, or a pairing.
LEMMA TimeoutStep ==
  ASSUME Inv, Timeout
  PROVE  Inv'
<1> DEFINE fired == [Sender EXCEPT !.timer = FALSE]
           after == _sendMavCommandAgain(fired)
<1>1. MaxRetry \in Nat /\ queue \in Seq(Commands) /\ retryCount \in Nat
  BY CommandsAssumption DEF Inv, TypeOK
<1>2. fired = [queue |-> queue, retry |-> retryCount, timer |-> FALSE, sent |-> <<>>]
  <2>1. fired = [queue |-> Sender.queue, retry |-> Sender.retry, timer |-> FALSE, sent |-> Sender.sent]
    BY Before, CounterFields DEF Inv
  <2> QED BY <2>1 DEF Sender
<1>3. queue # <<>> /\ retryCount <= MaxRetry + 1
  BY DEF Inv, Settled, Loose, Sender, Timeout
<1>4. SenderBecomes(after)
  BY DEF Timeout
<1> HIDE DEF fired
<1>5. fired \in SenderState
  BY <1>1, <1>2 DEF SenderState
<1>6. after \in SenderState /\ Settled(after)
  BY <1>2, <1>3, <1>5, AgainSettles
<1> HIDE DEF after
<1>7. /\ queue' \in Seq(Commands) /\ retryCount' \in 0..(MaxRetry + 2) /\ timer' \in BOOLEAN
      /\ up' \in Seq(Commands) /\ Settled(Sender)'
  BY <1>4, <1>6, SettledAfter DEF Inv
<1>8. TypeOK'
  <2>1. capabilitiesKnown' \in BOOLEAN /\ planRequested' \in BOOLEAN /\ listening' \in BOOLEAN
    BY DEF Inv, TypeOK, Timeout, _setCapabilities, _startPlanRequest
  <2> QED BY <1>7, <2>1 DEF Inv, TypeOK, Timeout, history
<1> QED BY <1>7, <1>8 DEF Inv

\* So it is after an acknowledgement, whether or not it is of the head and its slot sends a command.
LEMMA AckStep ==
  ASSUME Inv, _handleCommandAck
  PROVE  Inv'
<1> DEFINE ack == Head(down)
           matches == queue # <<>> /\ Number(Head(queue)) = ack.number
           fired == [Sender EXCEPT !.timer = FALSE]
           popped == IF matches THEN Pop(fired) ELSE Sender
           heard == listening /\ ack.number = "cancel"
           signalled == IF heard /\ ack.ok THEN sendMavCommand(popped, "start") ELSE popped
           after == _sendNextQueuedMavCommand(signalled)
<1>1. MaxRetry \in Nat /\ queue \in Seq(Commands) /\ retryCount \in Nat /\ retryCount <= MaxRetry + 2
  BY CommandsAssumption DEF Inv, TypeOK
<1>2. /\ SenderBecomes(after)
      /\ listening' = (listening /\ ~heard) /\ parametersReady' = parametersReady
      /\ _setCapabilities(capabilitiesKnown \/ (ack.number = "caps" /\ ~ack.ok))
      /\ UNCHANGED history /\ down # <<>> /\ down' = Tail(down)
  BY DEF _handleCommandAck, Receive
<1>3. fired = [queue |-> queue, retry |-> retryCount, timer |-> FALSE, sent |-> <<>>]
  <2>1. fired = [queue |-> Sender.queue, retry |-> Sender.retry, timer |-> FALSE, sent |-> Sender.sent]
    BY Before, CounterFields DEF Inv
  <2> QED BY <2>1 DEF Sender
<1> HIDE DEF fired
<1>4. fired \in SenderState
  BY <1>1, <1>3 DEF SenderState
<1>5. matches => Pop(fired) \in SenderState /\ Loose(Pop(fired))
  <2> SUFFICES ASSUME queue # <<>> PROVE Pop(fired) \in SenderState /\ Loose(Pop(fired))
    OBVIOUS
  <2>1. Pop(fired) = [queue |-> Tail(queue), retry |-> retryCount, timer |-> FALSE, sent |-> <<>>]
    BY <1>3, <1>4, PopFields
  <2>2. Tail(queue) \in Seq(Commands)
    BY <1>1
  <2> QED BY <1>1, <2>1, <2>2 DEF SenderState, Loose
<1> HIDE DEF matches
<1>6. popped \in SenderState /\ Loose(popped)
  BY <1>5, Before DEF Inv
<1> HIDE DEF popped
<1>7. signalled \in SenderState /\ Loose(signalled)
  BY <1>6, SendSettles DEF Commands
<1> HIDE DEF signalled
<1>8. after \in SenderState /\ Settled(after)
  BY <1>7, NextSettles
<1> HIDE DEF after
<1>9. /\ queue' \in Seq(Commands) /\ retryCount' \in 0..(MaxRetry + 2) /\ timer' \in BOOLEAN
      /\ up' \in Seq(Commands) /\ Settled(Sender)'
  BY <1>2, <1>8, SettledAfter DEF Inv
<1> HIDE DEF ack
<1>10. TypeOK'
  <2>1. capabilitiesKnown' \in BOOLEAN /\ planRequested' \in BOOLEAN /\ listening' \in BOOLEAN
    BY <1>2 DEF Inv, TypeOK, _setCapabilities, _startPlanRequest
  <2>2. down' \in Seq(Messages)
    BY <1>2 DEF Inv, TypeOK
  <2> QED BY <1>2, <1>9, <2>1, <2>2 DEF Inv, TypeOK, history
<1> QED BY <1>9, <1>10 DEF Inv

\* The other events leave the queue and its timer alone.
LEMMA OtherStep ==
  ASSUME Inv,
         \/ _handleAutopilotVersion \/ _parametersReady \/ Lose
         \/ (\E ok \in BOOLEAN : VehicleExecutes(ok)) \/ UNCHANGED vars
  PROVE  Inv'
<1>1. UNCHANGED sender
  BY DEF _handleAutopilotVersion, _parametersReady, Lose, VehicleExecutes, vars
<1>2. Settled(Sender)'
  BY <1>1 DEF Inv, Settled, Loose, Sender, sender
<1>3. CASE _handleAutopilotVersion
  <2>1. down' \in Seq(Messages)
    BY <1>3 DEF Inv, TypeOK, _handleAutopilotVersion, Receive
  <2> QED BY <1>2, <1>3, <2>1 DEF Inv, TypeOK, _handleAutopilotVersion, _setCapabilities,
                                  _startPlanRequest, sender, history
<1>4. CASE _parametersReady
  BY <1>2, <1>4 DEF Inv, TypeOK, _parametersReady, _startPlanRequest, sender, history
<1>5. CASE Lose
  <2>1. up' \in Seq(Commands) /\ down' \in Seq(Messages) /\ versionLost' \in BOOLEAN
    <3>1. up \in Seq(Commands) /\ down \in Seq(Messages) /\ versionLost \in BOOLEAN
      BY DEF Inv, TypeOK
    <3>2. CASE up # <<>> /\ up' = Tail(up) /\ UNCHANGED <<down, versionLost>>
      BY <3>1, <3>2
    <3>3. CASE /\ down # <<>> /\ down' = Tail(down) /\ UNCHANGED up
               /\ versionLost' = (versionLost \/ Head(down).type = "version")
      <4>1. down' \in Seq(Messages)
        BY <3>1, <3>3
      <4>2. versionLost' \in BOOLEAN
        BY <3>1, <3>3
      <4> QED BY <3>1, <3>3, <4>1, <4>2
    <3> QED BY <1>5, <3>2, <3>3 DEF Lose
  <2> QED BY <1>2, <1>5, <2>1 DEF Inv, TypeOK, Lose, sender, plan
<1>6. ASSUME NEW ok \in BOOLEAN, VehicleExecutes(ok) PROVE Inv'
  <2> DEFINE version == IF Head(up) = "caps" /\ ok THEN <<[type |-> "version"]>> ELSE <<>>
             ack == Ack(Head(up), ok)
  <2>1. up # <<>> /\ up' = Tail(up) /\ down' = down \o version \o <<ack>>
    BY <1>6 DEF VehicleExecutes
  <2>2. Head(up) \in Commands /\ up' \in Seq(Commands)
    BY <2>1 DEF Inv, TypeOK
  <2>3. ack \in Messages /\ [type |-> "version"] \in Messages
    BY <2>2 DEF Messages
  <2> HIDE DEF ack
  <2>4. version \in Seq(Messages) /\ <<ack>> \in Seq(Messages) /\ down \in Seq(Messages)
    BY <2>3 DEF Inv, TypeOK
  <2> HIDE DEF version
  <2>5. down' \in Seq(Messages)
    BY <2>1, <2>4
  <2> QED BY <1>2, <1>6, <2>2, <2>5 DEF Inv, TypeOK, VehicleExecutes, sender, plan, history
<1>7. CASE UNCHANGED vars
  BY <1>2, <1>7 DEF Inv, TypeOK, vars, sender, plan, history
<1> QED BY <1>3, <1>4, <1>5, <1>6, <1>7

-----------------------------------------------------------------------------
(* Theorems.                                                                *)

\* The invariant holds of every run.
THEOREM QueueInvariance == Spec => []Inv
<1>1. Inv /\ [Next]_vars => Inv'
  BY AskStep, TimeoutStep, AckStep, OtherStep DEF Next, Handlers, Link
<1> QED BY InitInv, <1>1, PTL DEF Spec

\* The variables keep their types: the retries stay within two of their limit.
THEOREM CommandTypes == Spec => []TypeOK
<1>1. Inv => TypeOK
  BY DEF Inv
<1> QED BY <1>1, QueueInvariance, PTL

\* However acknowledgements, duplicates, slots that send, retries and losses
\* interleave, the head of the queue has a timer; only a pairing may lack one.
THEOREM HeadIsAwaited == Spec => []HeadAwaited
<1>1. Inv => HeadAwaited
  BY DEF Inv, Settled, Sender, HeadAwaited, Wedged
<1> QED BY <1>1, QueueInvariance, PTL

-----------------------------------------------------------------------------
\* The composition with the plan's managers is a run of the commands: no slot of
\* theirs touches the queue.
THEOREM PlanRefinesCommands == PlanSpec => Spec
<1>1. PlanInit => Init
  BY DEF PlanInit
<1>2. [PlanNext]_planVars => [Next]_vars
  BY DEF PlanNext, planVars, CommandStep, MissionTransferred, VehicleSendsPoint,
         _mavlinkMessageReceived, LosePoint, loadFromVehicle, sendToVehicle, WriteMission,
         removeAllFromVehicle, Request, _showPlanFromManagerVehicle
<1> QED BY <1>1, <1>2, PTL DEF PlanSpec, Spec

\* Hence the head stays awaited whatever the plan views do.
THEOREM HeadIsAwaitedWithPlan == PlanSpec => []HeadAwaited
BY PlanRefinesCommands, HeadIsAwaited, PTL

-----------------------------------------------------------------------------
(* The types of the plan.  The slots of a signal call one another; each takes  *)
(* a state of the transfer to another one.                                    *)

PlanState ==
  [total : [Managers -> Nat \cup {Unsupported}], mission : {"idle", "read", "write", "remove"},
   requested : SUBSET {"mission", "fence", "rally"}, complete : BOOLEAN,
   pending : SUBSET {"loadFence", "loadRally", "sendFence", "sendRally"}, sync : BOOLEAN,
   reading : SUBSET Managers, count : [Managers -> Nat], current : [Managers -> Nat],
   fetched : SUBSET Point]

\* Each of the slots keeps to it.
LEMMA FetchTypes ==
  ASSUME NEW s \in PlanState, NEW m \in Managers, NEW i \in Nat
  PROVE  Fetch(s, m, i) \in PlanState
<1>1. [of |-> m, index |-> i] \in Point
  BY DEF Point
<1> QED BY <1>1 DEF Fetch, PlanState

\* Taking the flag of a chain keeps the types.
LEMMA TakeTypes ==
  ASSUME NEW s \in PlanState, NEW flag,
         NEW next \in SUBSET {"loadFence", "loadRally", "sendFence", "sendRally"}
  PROVE  Take(s, flag, next) \in PlanState
BY DEF Take, PlanState

\* What the vehicle has of points is a number of them, unless it has no such parameter.
LEMMA TotalCounted ==
  ASSUME NEW s \in PlanState, NEW m \in Managers, s.total[m] # Unsupported
  PROVE  [s EXCEPT !.count[m] = s.total[m]] \in PlanState
<1>1. s.total[m] \in Nat
  BY DEF PlanState
<1> QED BY <1>1 DEF PlanState

\* The slot on loaded rally points keeps the types.
LEMMA RallyLoadedTypes == ASSUME NEW s \in PlanState PROVE RallyLoaded(s) \in PlanState
BY DEF RallyLoaded, PlanState

\* So does the start of their load, refused or not.
LEMMA LoadRallyTypes == ASSUME NEW s \in PlanState PROVE LoadRally(s) \in PlanState
<1> DEFINE counted == [s EXCEPT !.count["rally"] = s.total["rally"]]
<1>1. "rally" \in Managers /\ 0 \in Nat
  BY DEF Managers
<1>2. s.total["rally"] # Unsupported => counted \in PlanState
  BY <1>1, TotalCounted
<1> HIDE DEF counted
<1>3. s.total["rally"] # Unsupported => RallyLoaded(counted) \in PlanState /\ Fetch(counted, "rally", 0) \in PlanState
  BY <1>1, <1>2, RallyLoadedTypes, FetchTypes
<1> QED BY <1>3, RallyLoadedTypes DEF LoadRally, counted

\* The slot on loaded fence points keeps the types.
LEMMA FenceLoadedTypes == ASSUME NEW s \in PlanState PROVE FenceLoaded(s) \in PlanState
<1> DEFINE r == [s EXCEPT !.requested = @ \cup {"rally"}]
           v == IF "rally" \in s.requested THEN s ELSE LoadRally(r)
<1>1. r \in PlanState
  BY DEF PlanState
<1> HIDE DEF r
<1>2. v \in PlanState
  BY <1>1, LoadRallyTypes
<1> HIDE DEF v
<1>3. LoadRally(Take(v, "loadRally", {})) \in PlanState
  BY <1>2, TakeTypes, LoadRallyTypes
<1> QED BY <1>2, <1>3 DEF FenceLoaded, v, r

\* So does the start of their load.
LEMMA LoadFenceTypes == ASSUME NEW s \in PlanState PROVE LoadFence(s) \in PlanState
<1> DEFINE counted == [s EXCEPT !.count["fence"] = s.total["fence"]]
<1>1. "fence" \in Managers /\ 0 \in Nat
  BY DEF Managers
<1>2. s.total["fence"] # Unsupported => counted \in PlanState
  BY <1>1, TotalCounted
<1>3. ~(s.total["fence"] <= 0) => s.total["fence"] # Unsupported
  BY DEF Unsupported
<1> HIDE DEF counted
<1>4. ~(s.total["fence"] <= 0) => Fetch(counted, "fence", 0) \in PlanState
  BY <1>1, <1>2, <1>3, FetchTypes
<1> QED BY <1>4, FenceLoadedTypes DEF LoadFence, counted

\* The slot on a loaded mission keeps the types.
LEMMA MissionLoadedTypes == ASSUME NEW s \in PlanState PROVE MissionLoaded(s) \in PlanState
<1> DEFINE r == [s EXCEPT !.requested = @ \cup {"fence"}]
           v == IF "fence" \in s.requested THEN s ELSE LoadFence(r)
<1>1. r \in PlanState
  BY DEF PlanState
<1> HIDE DEF r
<1>2. v \in PlanState
  BY <1>1, LoadFenceTypes
<1> HIDE DEF v
<1>3. LoadFence(Take(v, "loadFence", {"loadRally"})) \in PlanState
  BY <1>2, TakeTypes, LoadFenceTypes
<1> QED BY <1>2, <1>3 DEF MissionLoaded, v, r

\* Sending the rally points keeps the types.
LEMMA SendRallyTypes ==
  ASSUME NEW s \in PlanState, NEW n \in Nat
  PROVE  SendRally(s, n) \in PlanState
BY DEF SendRally, PlanState

\* So does sending the fence points, and the rally points after them.
LEMMA SendFenceTypes ==
  ASSUME NEW s \in PlanState, NEW n \in Nat, drawn \in [Managers -> Nat]
  PROVE  SendFence(s, n) \in PlanState
<1> DEFINE sent == [s EXCEPT !.total["fence"] = n]
<1>1. sent \in PlanState
  BY DEF PlanState
<1> HIDE DEF sent
<1>2. drawn["rally"] \in Nat
  BY DEF Managers
<1>3. FenceSent(sent) \in PlanState
  <2>1. Take(sent, "sendRally", {}) \in PlanState
    BY <1>1, TakeTypes
  <2>2. SendRally(Take(sent, "sendRally", {}), drawn["rally"]) \in PlanState
    BY <1>2, <2>1, SendRallyTypes
  <2> QED BY <1>1, <2>2 DEF FenceSent
<1> QED BY <1>3 DEF SendFence, sent

\* The slot on a sent mission keeps the types.
LEMMA MissionSentTypes ==
  ASSUME NEW s \in PlanState, drawn \in [Managers -> Nat]
  PROVE  MissionSent(s) \in PlanState
<1>1. Take(s, "sendFence", {"sendRally"}) \in PlanState /\ drawn["fence"] \in Nat
  BY TakeTypes DEF Managers
<1> QED BY <1>1, SendFenceTypes DEF MissionSent

\* The start of a mission transfer keeps the types.
LEMMA BeginTypes ==
  ASSUME NEW s \in PlanState, NEW kind \in {"read", "write", "remove"}
  PROVE  Begin(s, kind) \in PlanState
BY DEF Begin, PlanState

\* A transfer of points that completes keeps the types, through the slots it sets off.
LEMMA CompletedTypes ==
  ASSUME NEW s \in PlanState, NEW m \in Managers
  PROVE  Completed(s, m) \in PlanState
<1> DEFINE done == [s EXCEPT !.reading = @ \ {m}]
<1>1. done \in PlanState
  BY DEF PlanState
<1> HIDE DEF done
<1> QED BY <1>1, FenceLoadedTypes, RallyLoadedTypes DEF Completed, done

\* The state the slots leave becomes the state of the variables.
LEMMA BecomesTypes ==
  ASSUME PlanTypeOK, NEW s \in PlanState, Becomes(s)
  PROVE  /\ total' \in [Managers -> Nat \cup {Unsupported}]
         /\ mission' \in {"idle", "read", "write", "remove"}
         /\ requested' \subseteq {"mission", "fence", "rally"}
         /\ planComplete' \in BOOLEAN /\ syncInProgress' \in BOOLEAN
         /\ pending' \subseteq {"loadFence", "loadRally", "sendFence", "sendRally"}
         /\ reading' \subseteq Managers
         /\ count' \in [Managers -> Nat] /\ current' \in [Managers -> Nat]
         /\ fetches' \subseteq Point
BY DEF PlanTypeOK, Becomes, PlanState

\* The variables together are a state that the slots take.
LEMMA NowTypes == ASSUME PlanTypeOK PROVE Now \in PlanState
BY DEF PlanTypeOK, Now, PlanState

\* Every step of the plan keeps its types, given those of the commands.
LEMMA PlanStepTypes == ASSUME PlanTypeOK, TypeOK', [PlanNext]_planVars PROVE PlanTypeOK'
<1>1. /\ drawn \in [Managers -> Nat] /\ requests \in 0..MaxRequests /\ replies \subseteq Point
      /\ fetches \subseteq Point /\ Now \in PlanState
  BY NowTypes DEF PlanTypeOK
<1>2. ASSUME NEW s \in PlanState, Becomes(s), drawn' \in [Managers -> Nat],
             replies' \subseteq Point, requests' \in 0..MaxRequests
      PROVE  PlanTypeOK'
  BY <1>2, BecomesTypes DEF PlanTypeOK
<1>3. ASSUME UNCHANGED transfer PROVE PlanTypeOK'
  BY <1>3 DEF PlanTypeOK, transfer, state
<1>4. ASSUME UNCHANGED <<state, drawn, requests>>, fetches' \subseteq Point, replies' \subseteq Point
      PROVE  PlanTypeOK'
  BY <1>4 DEF PlanTypeOK, state
<1>5. ASSUME NEW s \in PlanState, Request(s), drawn' \in [Managers -> Nat] PROVE PlanTypeOK'
  <2>1. requests' \in 0..MaxRequests /\ replies' = replies /\ Becomes(s)
    BY <1>1, <1>5, PlanAssumption DEF Request
  <2> QED BY <1>1, <1>2, <1>5, <2>1
<1>6. CASE CommandStep
  <2>1. CASE UNCHANGED transfer
    BY <1>3, <2>1
  <2>2. CASE ~UNCHANGED transfer
    <3> DEFINE s == [Now EXCEPT !.requested = @ \cup {"mission"}]
    <3>1. s \in PlanState
      BY <1>1 DEF PlanState
    <3> HIDE DEF s
    <3>2. Begin(s, "read") \in PlanState
      BY <3>1, BeginTypes
    <3>3. Becomes(Begin(s, "read")) /\ UNCHANGED <<drawn, replies, requests>>
      BY <1>6, <2>2 DEF CommandStep, StartOfPlan, s
    <3> QED BY <1>1, <1>2, <3>2, <3>3
  <2> QED BY <2>1, <2>2
<1>7. CASE MissionTransferred
  <2> DEFINE s == [Now EXCEPT !.mission = "idle"]
  <2>1. s \in PlanState
    BY <1>1 DEF PlanState
  <2> HIDE DEF s
  <2>2. MissionLoaded(s) \in PlanState /\ MissionSent(s) \in PlanState
    BY <1>1, <2>1, MissionLoadedTypes, MissionSentTypes
  <2>3. \/ Becomes(MissionLoaded(s)) \/ Becomes(MissionSent(s)) \/ Becomes(s)
    BY <1>7 DEF MissionTransferred, s
  <2>4. UNCHANGED <<drawn, replies, requests>>
    BY <1>7 DEF MissionTransferred
  <2> QED BY <1>1, <1>2, <2>1, <2>2, <2>3, <2>4
<1>8. CASE VehicleSendsPoint
  BY <1>1, <1>4, <1>8 DEF VehicleSendsPoint
<1>9. CASE _mavlinkMessageReceived
  <2>1. PICK p \in replies :
          /\ replies' = replies \ {p}
          /\ IF p.index # current[p.of] THEN Becomes([Now EXCEPT !.reading = @ \ {p.of}])
             ELSE IF p.index < LastOf(p.of) THEN Becomes(Fetch(Now, p.of, p.index + 1))
             ELSE Becomes(Completed(Now, p.of))
    BY <1>9 DEF _mavlinkMessageReceived
  <2>2. p.of \in Managers /\ p.index \in Nat /\ p.index + 1 \in Nat
    BY <1>1, <2>1 DEF Point
  <2>3. [Now EXCEPT !.reading = @ \ {p.of}] \in PlanState
    BY <1>1 DEF PlanState
  <2>4. Fetch(Now, p.of, p.index + 1) \in PlanState /\ Completed(Now, p.of) \in PlanState
    BY <1>1, <2>2, FetchTypes, CompletedTypes
  <2>5. UNCHANGED <<drawn, requests>>
    BY <1>9 DEF _mavlinkMessageReceived
  <2>6. PICK s \in PlanState : Becomes(s)
    BY <2>1, <2>3, <2>4
  <2> QED BY <1>1, <1>2, <2>1, <2>5, <2>6
<1>10. CASE LosePoint
  BY <1>1, <1>4, <1>10 DEF LosePoint
<1>11. CASE loadFromVehicle
  <2> DEFINE s == [Now EXCEPT !.pending = @ \cup {"loadFence"}, !.sync = TRUE]
  <2>1. s \in PlanState
    BY <1>1 DEF PlanState
  <2> HIDE DEF s
  <2>2. Begin(s, "read") \in PlanState
    BY <2>1, BeginTypes
  <2>3. Request(Begin(s, "read")) /\ UNCHANGED drawn
    BY <1>11 DEF loadFromVehicle, s
  <2> QED BY <1>1, <1>5, <2>2, <2>3
<1>12. ASSUME NEW new \in Plans, sendToVehicle(new) PROVE PlanTypeOK'
  <2> DEFINE s == [Now EXCEPT !.pending = @ \cup {"sendFence"}, !.sync = TRUE]
  <2>1. s \in PlanState
    BY <1>1 DEF PlanState
  <2> HIDE DEF s
  <2>2. Begin(s, "write") \in PlanState
    BY <2>1, BeginTypes
  <2>3. Request(Begin(s, "write")) /\ drawn' = new /\ new \in [Managers -> Nat]
    BY <1>12, PlanAssumption DEF sendToVehicle, s
  <2> QED BY <1>5, <2>2, <2>3
<1>13. CASE WriteMission
  <2>1. Begin(Now, "write") \in PlanState
    BY <1>1, BeginTypes
  <2>2. Request(Begin(Now, "write")) /\ UNCHANGED drawn
    BY <1>13 DEF WriteMission
  <2> QED BY <1>1, <1>5, <2>1, <2>2
<1>14. CASE removeAllFromVehicle
  <2>1. Begin(Now, "remove") \in PlanState
    BY <1>1, BeginTypes
  <2>2. SendRally(SendFence(Begin(Now, "remove"), 0), 0) \in PlanState
    BY <1>1, <2>1, SendFenceTypes, SendRallyTypes
  <2>3. Request(SendRally(SendFence(Begin(Now, "remove"), 0), 0)) /\ UNCHANGED drawn
    BY <1>14 DEF removeAllFromVehicle
  <2> QED BY <1>1, <1>5, <2>2, <2>3
<1>15. CASE _showPlanFromManagerVehicle
  <2>1. [Now EXCEPT !.complete = TRUE] \in PlanState
    BY <1>1 DEF PlanState
  <2>2. Becomes([Now EXCEPT !.complete = TRUE]) /\ UNCHANGED <<drawn, replies, requests>>
    BY <1>15 DEF _showPlanFromManagerVehicle
  <2> QED BY <1>1, <1>2, <2>1, <2>2
<1>16. CASE UNCHANGED planVars
  BY <1>3, <1>16 DEF planVars
<1> QED BY <1>6, <1>7, <1>8, <1>9, <1>10, <1>11, <1>12, <1>13, <1>14, <1>15, <1>16 DEF PlanNext

\* However the chains of signals, refusals and lost points interleave, what a manager
\* counts and fetches stays a number of points: the parameter that says the vehicle
\* has none is never taken for one.
THEOREM PlanTypes == PlanSpec => []PlanTypeOK
<1>1. PlanInit /\ TypeOK => PlanTypeOK
  <2>1. [m \in Managers |-> 0] \in [Managers -> Nat] /\ 0 \in 0..MaxRequests
    BY PlanAssumption
  <2>2. PlanInit => total \in [Managers -> Nat \cup {Unsupported}]
    BY PlanAssumption DEF PlanInit
  <2> QED BY <2>1, <2>2 DEF PlanInit, PlanTypeOK
<1>2. PlanTypeOK /\ TypeOK' /\ [PlanNext]_planVars => PlanTypeOK'
  BY PlanStepTypes
<1>3. PlanSpec => []TypeOK
  BY PlanRefinesCommands, CommandTypes, PTL
<1> QED BY <1>1, <1>2, <1>3, PTL DEF PlanSpec
=============================================================================
