------------------------------ MODULE UBParameters ------------------------------
(***************************************************************************)
(* The parameters of a vehicle, as QGroundControl's ParameterManager loads,    *)
(* refreshes and writes them over a telemetry link that loses messages.  The   *)
(* vehicle answers as MockLink does: it streams all parameters when asked for  *)
(* the list, and answers a read or a write with the value it has.             *)
(*                                                                         *)
(* A parameter is <<component, index>>.  Its name, which is what reads by      *)
(* name and writes are keyed by, stands for the same pair.  The firmware is    *)
(* ArduPilot, which has no parameter cache and saves by itself.               *)
(***************************************************************************)
EXTENDS Naturals, Sequences, FiniteSets, SequencesExt, Functions

CONSTANTS Parameters,      \* of the vehicle, in the order it streams them
          Default,         \* its default component
          Values,
          MaxListRetry, MaxIndexRetry, MaxNameRetry,   \* the manager's limits
          MaxBatch,        \* maxBatchSize
          MaxOps,          \* bound: what the user asks for
          MaxLate          \* bound: messages in flight that a timer may outrun

Param == Range(Parameters)
Component(p) == p[1]
Index(p) == p[2]

ASSUME ParametersAssumption ==
  /\ Parameters \in Seq(Nat \X Nat) /\ IsInjective(Parameters)
  /\ (\E p \in Param : Component(p) = Default) /\ Values # {}
  /\ {MaxListRetry, MaxIndexRetry, MaxNameRetry, MaxBatch, MaxOps, MaxLate} \subseteq Nat

VARIABLES
  fact,              \* the parameters known, with their values
  waitIndex,         \* _waitingReadParamIndexMap: those awaited, with their retries
  waitName, waitWrite,           \* _waitingReadParamNameMap, _waitingWriteParamNameMap
  failed,            \* _failedReadParamIndexMap
  seen,              \* the components that have been heard of
  batch, batchActive,            \* _indexBatchQueue, which holds bare indices
  initialTimer, waitingTimer, listRetries,
  waitingForDefault,
  parametersReady,   \* _initialLoadComplete and _parametersReady
  described,         \* the facts with their meta data
  value, streaming,  \* the vehicle: its values, and what it has yet to stream
  up, down,          \* the messages on their way
  asked,             \* history: what the user has asked for
  overtaken,         \* history: parameters whose write another value acknowledged, or
                     \* which were written again before a write was acknowledged, or
                     \* with messages of such a write, or one given up, on their way
  reported           \* history: parameters whose last write was given up

waits == <<waitIndex, waitName, waitWrite, failed, seen>>
timers == <<initialTimer, waitingTimer, listRetries, waitingForDefault>>
load == <<parametersReady, described>>
history == <<asked, overtaken, reported>>
vehicle == <<value, streaming>>
vars == <<fact, waits, batch, batchActive, timers, load, vehicle, up, down, history>>

TypeOK ==
  /\ DOMAIN fact \subseteq Param /\ Range(fact) \subseteq Values /\ value \in [Param -> Values]
  /\ DOMAIN waitIndex \subseteq Param /\ Range(waitIndex) \subseteq 0..MaxIndexRetry
  /\ \A w \in {waitName, waitWrite} :
       DOMAIN w \subseteq DOMAIN fact /\ Range(w) \subseteq 0..MaxNameRetry
  /\ failed \subseteq Param /\ seen = {Component(p) : p \in DOMAIN fact}
  /\ batch \subseteq {Index(p) : p \in DOMAIN waitIndex} /\ Cardinality(batch) <= MaxBatch + 1
  /\ {batchActive, initialTimer, waitingTimer, waitingForDefault, parametersReady} \subseteq BOOLEAN
  /\ listRetries \in 0..(MaxListRetry + 1)
  /\ described \cup overtaken \cup reported \subseteq DOMAIN fact
  /\ Range(streaming) \subseteq Param /\ asked \in 0..MaxOps
  /\ \A m \in Range(up) : m.type \in {"list", "read", "set"}
  /\ \A m \in Range(down) : m.param \in Param /\ m.value \in Values

Empty == <<>>
Without(f, S) == Restrict(f, DOMAIN f \ S)
With(f, p, n) == [q \in DOMAIN f \cup {p} |-> IF q = p THEN n ELSE f[q]]

List == [type |-> "list"]
Read(p) == [type |-> "read", param |-> p]
Set(p, v) == [type |-> "set", param |-> p, value |-> v]
Send(ms) == up' = up \o ms

Init ==                               \* the constructor ends in refreshAllParameters
  /\ fact = Empty /\ waitIndex = Empty /\ waitName = Empty /\ waitWrite = Empty
  /\ failed = {} /\ seen = {} /\ batch = {} /\ batchActive = FALSE
  /\ initialTimer = TRUE /\ waitingTimer = FALSE /\ listRetries = 0 /\ waitingForDefault = FALSE
  /\ parametersReady = FALSE /\ described = {}
  /\ value = [p \in Param |-> CHOOSE v \in Values : TRUE]   \* no matter which
  /\ streaming = <<>>
  /\ up = <<List>> /\ down = <<>>
  /\ asked = 0 /\ overtaken = {} /\ reported = {}

-----------------------------------------------------------------------------
(* The requests of the manager.                                             *)

\* A loop over the parameters, in the order of the maps.
InOrder(Step(_, _), s) ==
  LET after[i \in 0..Len(Parameters)] == IF i = 0 THEN s ELSE Step(after[i - 1], Parameters[i])
  IN after[Len(Parameters)]

MutantRequested(s, p) ==                             \* the whole map in one batch
  IF p \notin DOMAIN s.wait \/ Index(p) \in s.batch THEN s
  ELSE IF s.wait[p] >= MaxIndexRetry
       THEN [s EXCEPT !.wait = Without(@, {p}), !.failed = @ \cup {p}]
       ELSE [s EXCEPT !.wait[p] = @ + 1, !.batch = @ \cup {Index(p)}, !.sent = Append(@, Read(p))]
\* One step of the loop over the awaited indices.
\* The queue holds one parameter more than maxBatchSize.
Requested(s, p) ==
  IF p \notin DOMAIN s.wait \/ Index(p) \in s.batch \/ Cardinality(s.batch) > MaxBatch THEN s
  ELSE IF s.wait[p] >= MaxIndexRetry
       THEN [s EXCEPT !.wait = Without(@, {p}), !.failed = @ \cup {p}]
       ELSE [s EXCEPT !.wait[p] = @ + 1, !.batch = @ \cup {Index(p)}, !.sent = Append(@, Read(p))]
_fillIndexBatchQueue(s) == InOrder(Requested, s)

MutantResent(s, p, message) ==                       \* gives up in silence
  IF p \notin DOMAIN s.wait \/ Len(s.sent) > MaxBatch THEN s
  ELSE IF s.wait[p] >= MaxNameRetry THEN [s EXCEPT !.wait = Without(@, {p})]
       ELSE [s EXCEPT !.wait[p] = @ + 1, !.sent = Append(@, message)]
\* The same for the writes and the reads by name: a batch of them is sent again.
Resent(s, p, message) ==
  IF p \notin DOMAIN s.wait \/ Len(s.sent) > MaxBatch THEN s
  ELSE IF s.wait[p] >= MaxNameRetry
       THEN [s EXCEPT !.wait = Without(@, {p}), !.failed = @ \cup {p}]
       ELSE [s EXCEPT !.wait[p] = @ + 1, !.sent = Append(@, message)]
Writes == [p \in DOMAIN fact |-> Set(p, fact[p])]
Reads == [p \in DOMAIN fact |-> Read(p)]
Resend(messages, wait) ==
  InOrder(LAMBDA s, p : Resent(s, p, messages[p]), [wait |-> wait, failed |-> {}, sent |-> <<>>])

\* Loading is complete with the last index of every component heard of.
DefaultKnown == \E p \in DOMAIN fact : Component(p) = Default
_checkInitialLoadComplete ==
  parametersReady' = (parametersReady \/ (waitIndex' = Empty /\ DefaultKnown'))

_waitingParamTimeout ==
  /\ waitingTimer /\ Len(up) + Len(down) + Len(streaming) <= MaxLate
  /\ batchActive' = TRUE
  /\ LET filled == _fillIndexBatchQueue([wait |-> waitIndex, batch |-> {}, failed |-> failed, sent |-> <<>>])
         requested == filled.batch # {}
         defaultMissing == ~requested /\ ~waitingForDefault /\ ~DefaultKnown
         writes == IF requested \/ defaultMissing THEN [wait |-> waitWrite, failed |-> {}, sent |-> <<>>]
                   ELSE Resend(Writes, waitWrite)
         reads == IF requested \/ defaultMissing \/ waitWrite # Empty
                  THEN [wait |-> waitName, failed |-> {}, sent |-> <<>>]
                  ELSE Resend(Reads, waitName)
     IN /\ waitIndex' = filled.wait /\ batch' = filled.batch /\ failed' = filled.failed
        /\ waitingForDefault' = defaultMissing
        /\ waitWrite' = writes.wait /\ reported' = reported \cup writes.failed
        /\ waitName' = reads.wait
        /\ waitingTimer' = (requested \/ defaultMissing \/ waitWrite # Empty \/ waitName # Empty)
        /\ Send(filled.sent \o writes.sent \o reads.sent)
        /\ fact' = fact
        /\ IF defaultMissing THEN UNCHANGED parametersReady ELSE _checkInitialLoadComplete
  /\ UNCHANGED <<seen, initialTimer, listRetries, described, vehicle, down, asked, overtaken>>

\* Every index the components heard of have is awaited anew; the timer that
\* looks after them is started by the answers.
refreshAllParameters ==
  /\ waitIndex' = [p \in {q \in Param : Component(q) \in seen} |-> 0]
  /\ Send(<<List>>)

_initialRequestTimeout ==
  /\ initialTimer /\ Len(up) + Len(down) + Len(streaming) <= MaxLate
  /\ listRetries' = listRetries + 1
  /\ IF listRetries < MaxListRetry THEN refreshAllParameters /\ UNCHANGED initialTimer
     ELSE initialTimer' = FALSE /\ UNCHANGED <<waitIndex, up>>
  /\ UNCHANGED <<fact, waitName, waitWrite, failed, seen, batch, batchActive, waitingTimer,
                 waitingForDefault, load, vehicle, down, history>>

-----------------------------------------------------------------------------
(* A PARAM_VALUE.                                                           *)

MutantStillWaiting(w) == w.names # Empty             \* overlooks the indices and the writes
StillWaiting(w) == w.indices # Empty \/ w.names # Empty \/ w.writes # Empty

\* A value without an index is one the vehicle was not asked for.
Disregarded(m) == ~m.indexed /\ initialTimer

LastOfComponent(wait, c) == Cardinality({p \in DOMAIN wait : Component(p) = c}) = 1

_parameterUpdate ==
  /\ down # <<>> /\ down' = Tail(down)
  /\ LET m == Head(down)
         p == m.param
         before == IF Component(p) \in seen THEN waitIndex
                   ELSE [q \in DOMAIN waitIndex \cup {q \in Param : Component(q) = Component(p)} |->
                           IF q \in DOMAIN waitIndex THEN waitIndex[q] ELSE 0]
         read == [wait |-> Without(before, {p}), batch |-> batch \ {Index(p)}, failed |-> failed, sent |-> <<>>]
         answered == m.indexed /\ p \in DOMAIN before
         s == IF ~answered THEN [read EXCEPT !.wait = before, !.batch = batch]
              ELSE IF batchActive THEN _fillIndexBatchQueue(read) ELSE read
     IN IF Disregarded(m)
        THEN UNCHANGED <<fact, waits, batch, timers, load, up, overtaken>>
        ELSE /\ fact' = With(fact, p, m.value) /\ seen' = seen \cup {Component(p)}
             /\ waitIndex' = s.wait /\ batch' = s.batch /\ failed' = s.failed /\ Send(s.sent)
             /\ waitName' = Without(waitName, {p}) /\ waitWrite' = Without(waitWrite, {p})
             /\ overtaken' = IF p \in DOMAIN waitWrite /\ m.value # fact[p] THEN overtaken \cup {p} ELSE overtaken
             /\ initialTimer' = FALSE
             /\ waitingTimer' = (~DefaultKnown \/ StillWaiting([indices |-> waitIndex', names |-> waitName', writes |-> waitWrite']))
             /\ described' = IF Component(p) = Default /\ LastOfComponent(before, Default) /\ described = {}
                             THEN {q \in DOMAIN fact' : Component(q) = Default} ELSE described
             /\ _checkInitialLoadComplete
             /\ UNCHANGED <<listRetries, waitingForDefault>>
  /\ UNCHANGED <<batchActive, vehicle, asked, reported>>

-----------------------------------------------------------------------------
(* The user.  Facts are shown once the parameters are ready.                *)

\* No message about p is on its way.
Quiet(p) == \A m \in Range(up) \cup Range(down) : m = List \/ m.param # p

Ask == parametersReady /\ asked < MaxOps /\ asked' = asked + 1
       /\ UNCHANGED <<failed, seen, batch, batchActive, initialTimer, listRetries,
                      waitingForDefault, load, vehicle, down>>

_valueUpdated(p, v) ==
  /\ Ask /\ v # fact[p]
  /\ fact' = [fact EXCEPT ![p] = v]
  /\ waitWrite' = With(waitWrite, p, 0) /\ waitingTimer' = TRUE
  /\ overtaken' = IF p \in DOMAIN waitWrite \/ (p \in overtaken \cup reported /\ ~Quiet(p))
                  THEN overtaken \cup {p} ELSE overtaken \ {p}
  /\ reported' = reported \ {p}
  /\ Send(<<Set(p, v)>>)
  /\ UNCHANGED <<waitIndex, waitName>>

refreshParameter(p) ==
  /\ Ask /\ waitName' = With(waitName, p, 0) /\ waitingTimer' = TRUE
  /\ Send(<<Read(p)>>)
  /\ UNCHANGED <<fact, waitIndex, waitWrite, overtaken, reported>>

Refresh ==
  /\ Ask /\ refreshAllParameters
  /\ UNCHANGED <<fact, waitName, waitWrite, waitingTimer, overtaken, reported>>

-----------------------------------------------------------------------------
(* The vehicle and the link.                                                *)

manager == <<fact, waits, batch, batchActive, timers, load, history>>
Handle(type) == up # <<>> /\ Head(up).type = type /\ up' = Tail(up) /\ UNCHANGED manager
Respond(p, indexed) == down' = Append(down, [param |-> p, value |-> value'[p], indexed |-> indexed])

_handleParamRequestList == Handle("list") /\ streaming' = Parameters /\ UNCHANGED <<value, down>>
_paramRequestListWorker ==
  /\ streaming # <<>> /\ streaming' = Tail(streaming) /\ value' = value
  /\ Len(down) <= MaxLate
  /\ Respond(Head(streaming), TRUE) /\ UNCHANGED <<manager, up>>
_handleParamRequestRead ==
  /\ Handle("read") /\ value' = value /\ Respond(Head(up).param, TRUE) /\ UNCHANGED streaming
_handleParamSet ==
  /\ Handle("set") /\ value' = [value EXCEPT ![Head(up).param] = Head(up).value]
  /\ Respond(Head(up).param, TRUE) /\ UNCHANGED streaming
\* ArduPilot announces a parameter unasked.
Announce(p) ==
  /\ down = <<>> /\ asked < MaxOps /\ asked' = asked + 1 /\ value' = value /\ Respond(p, FALSE)
  /\ UNCHANGED <<fact, waits, batch, batchActive, timers, load, overtaken, reported, streaming, up>>

Lose ==
  /\ \/ up # <<>> /\ up' = Tail(up) /\ UNCHANGED down
     \/ down # <<>> /\ down' = Tail(down) /\ UNCHANGED up
  /\ UNCHANGED <<manager, vehicle>>

-----------------------------------------------------------------------------
User == (\E p \in DOMAIN fact : refreshParameter(p) \/ \E v \in Values : _valueUpdated(p, v)) \/ Refresh
Timeout == _waitingParamTimeout \/ _initialRequestTimeout
Vehicle == _handleParamRequestList \/ _paramRequestListWorker \/ _handleParamRequestRead \/ _handleParamSet
Next == User \/ Timeout \/ _parameterUpdate \/ Vehicle \/ (\E p \in Param : Announce(p)) \/ Lose
Spec == Init /\ [][Next]_vars
\* Timers fire, what is sent arrives or is lost, and the vehicle streams on.
FairSpec ==
  Spec /\ WF_vars(_waitingParamTimeout) /\ WF_vars(_initialRequestTimeout)
       /\ WF_vars(_parameterUpdate) /\ WF_vars(Vehicle \/ Lose)

-----------------------------------------------------------------------------
(* Properties.                                                              *)

\* A read or write that is awaited, and an index during the initial load, has a timer
\* running for it: none is forgotten while others are being retried.
Attended ==
  waitName # Empty \/ waitWrite # Empty \/ (waitIndex # Empty /\ ~parametersReady) => waitingTimer

\* A write that is no longer awaited, nor reported as failed, has taken hold: fact and
\* vehicle agree, however its messages and their repetitions were lost or delayed. Not
\* promised, and collected in overtaken: a parameter another value of which was taken for
\* the acknowledgement, one written again before its acknowledgement, and one written
\* while messages of such a write, or of a reported one, are still on their way.
WritesTakeHold ==
  \A p \in DOMAIN fact \ (overtaken \cup reported) :
    Quiet(p) /\ p \notin DOMAIN waitWrite => fact[p] = value[p]

\* ParameterManager.cc on componentParamsComplete: "We need to know when we get the last
\* param from a component in order to complete setup"; then all of the default component's
\* facts have their meta data once the parameters are ready and none was given up.
MetaDataComplete ==
  parametersReady /\ failed = {} => {p \in DOMAIN fact : Component(p) = Default} \subseteq described

\* Loading ends, whatever is lost: the parameters are ready, or nothing was heard of
\* the default component.
Silent == ~initialTimer /\ ~waitingTimer /\ ~DefaultKnown
LoadConcludes == <>[](parametersReady \/ Silent)
=============================================================================
