------------------------------ MODULE UBNetwork ------------------------------
(***************************************************************************)
(* The emulated network: the UBObject threads that relay packets between    *)
(* their agents, the ns-3 thread, and the GUI thread that links objects and *)
(* switches the mode (src/engine: UBObject, UBEngine, UBControl).           *)
(*                                                                         *)
(* Every UBObject is a thread.  Calls from other threads reach it as events  *)
(* posted to its queue, handled in order; but it reads m_lnks, and the other *)
(* objects' vehicles, directly.  Packets are whole here: UBSession and       *)
(* UBFraming say how they are cut out of the agents' streams.                *)
(***************************************************************************)
EXTENDS Integers, Sequences, FiniteSets, Functions

CONSTANTS Ids,          \* the ids of the objects in m_objs
          Senders,      \* the objects whose agents send
          Dests,        \* the destination ids agents write in their packets
          Ranges,       \* the ranges typed in the GUI, in the unit of Positions
          Positions,    \* where vehicles can be, on a line
          Range0,       \* --range, 0 for ns-3
          Restless,     \* bound: the objects whose link, vehicle and agent
                        \* connection change; those of the others stay
          MaxSent,      \* bound: packets of one agent
          MaxChanges    \* bound: mode and range changes made in the GUI

BROADCAST_ID == 255

ASSUME NetworkAssumption ==
  /\ Ids \subseteq 1..254 /\ Senders \cup Restless \subseteq Ids /\ Dests \subseteq 0..255
  /\ Ranges \subseteq Nat \ {0} /\ Ranges # {} /\ Positions \subseteq Int
  /\ Range0 \in Nat /\ MaxSent \in Nat /\ MaxChanges \in Nat

Packet == [src : Ids, num : 1..MaxSent, des : Dests]
Copy == [pkt : Packet, to : Ids, via : {"simple", "ns3"}]
Event == [type : {"sendData"}, copy : Copy]
           \cup [type : {"setRange"}, rng : Ranges \cup {0, Range0}]

Nobody == 0
NoPacket == [src |-> 0, num |-> 0, des |-> 0]
Idle == [pkt |-> NoPacket, ids |-> {}, dest |-> Nobody]

VARIABLES
  m_lnks,    \* the ids in m_lnks; its values are those of m_objs
  m_range,   \* per object
  m_mav,     \* per object: it has a vehicle
  pos,       \* per vehicle
  agents,    \* the objects whose agent is connected (m_socket is not null)
  out,       \* per object: packets in its socket, not read yet
  m_buffer,  \* per object: packets read, to be relayed by the running slot
  cur,       \* per object: the packet being relayed, the ids still to serve,
             \* the object found for one of them
  queue,     \* per object: the events posted to its thread
  air,       \* copies handed to ns-3
  ns3,       \* GUI: the ns-3 button is checked
  text,      \* GUI: the range in rangeEdit
  changes,   \* GUI: changes made, counted against MaxChanges
  sent,      \* history: packets sent
  inbox,     \* history: per object, the copies written to its agent
  missed     \* history: objects that were not linked at some change

gui == <<ns3, text, changes, missed>>
world == <<m_mav, pos, agents>>
vars == <<m_lnks, m_range, world, out, m_buffer, cur, queue, air, gui, sent, inbox>>

TypeOK ==
  /\ m_lnks \subseteq Ids
  /\ m_range \in [Ids -> Ranges \cup {0, Range0}]
  /\ m_mav \in [Ids -> BOOLEAN] /\ pos \in [Ids -> Positions] /\ agents \subseteq Ids
  /\ out \in [Ids -> Seq(Packet)] /\ m_buffer \in [Ids -> Seq(Packet)]
  /\ queue \in [Ids -> Seq(Event)] /\ inbox \in [Ids -> Seq(Copy)]
  /\ cur \in [Ids -> [pkt : Packet \cup {NoPacket}, ids : SUBSET (Ids \cup Dests),
                     dest : Ids \cup {Nobody}]]
  /\ \A i \in Ids : cur[i] # Idle => cur[i].pkt \in Packet
  /\ air \subseteq Copy /\ sent \subseteq Packet /\ missed \subseteq Ids
  /\ ns3 \in BOOLEAN /\ text \in Ranges \cup {Range0} /\ changes \in 0..MaxChanges

UiRange == IF ns3 THEN 0 ELSE text     \* what the GUI shows

Init ==
  /\ m_lnks = Ids
  /\ m_range = [i \in Ids |-> Range0]
  /\ m_mav = [i \in Ids |-> TRUE] /\ pos \in [Ids -> Positions] /\ agents = Ids
  /\ out = [i \in Ids |-> <<>>] /\ m_buffer = [i \in Ids |-> <<>>]
  /\ cur = [i \in Ids |-> Idle] /\ queue = [i \in Ids |-> <<>>] /\ air = {}
  /\ ns3 = (Range0 = 0) /\ changes = 0
  /\ text = IF Range0 = 0 THEN CHOOSE r \in Ranges : TRUE ELSE Range0
  /\ sent = {} /\ inbox = [i \in Ids |-> <<>>] /\ missed = {}

-----------------------------------------------------------------------------
(* The agents and the vehicles.                                            *)

Send(i, d) ==
  LET p == [src |-> i, num |-> Cardinality({q \in sent : q.src = i}) + 1, des |-> d]
  IN
  /\ i \in agents \cap Senders /\ p.num <= MaxSent
  /\ sent' = sent \cup {p}
  /\ out' = [out EXCEPT ![i] = Append(@, p)]
  /\ UNCHANGED <<m_lnks, m_range, world, m_buffer, cur, queue, air, gui, inbox>>

\* No slot of object i is running.
InEventLoop(i) == cur[i] = Idle /\ m_buffer[i] = <<>>

\* An agent leaves once its stream is read, or comes back: see UBSession.
AgentLeavesOrReturns(i) ==
  /\ InEventLoop(i)
  /\ i \in agents => out[i] = <<>>
  /\ agents' = IF i \in agents THEN agents \ {i} ELSE agents \cup {i}
  /\ UNCHANGED <<m_lnks, m_range, m_mav, pos, out, m_buffer, cur, queue, air, gui, sent, inbox>>

coordinateChanged(i, x) ==
  /\ m_mav[i] /\ x # pos[i]
  /\ pos' = [pos EXCEPT ![i] = x]
  /\ UNCHANGED <<m_lnks, m_range, m_mav, agents, out, m_buffer, cur, queue, air, gui, sent, inbox>>

-----------------------------------------------------------------------------
(* The thread of object i.                                                 *)

\* The vehicle of i was added or removed: see UBVehicles for how.
setMAV(i) ==
  /\ InEventLoop(i)
  /\ m_mav' = [m_mav EXCEPT ![i] = ~@]
  /\ UNCHANGED <<m_lnks, m_range, pos, agents, out, m_buffer, cur, queue, air, gui, sent, inbox>>

\* Entry of the slot: everything there is to read, kept if i is linked.
dataReadyEvent(i) ==
  /\ InEventLoop(i) /\ i \in agents /\ out[i] # <<>>
  /\ out' = [out EXCEPT ![i] = <<>>]
  /\ m_buffer' = [m_buffer EXCEPT ![i] = IF i \in m_lnks THEN out[i] ELSE <<>>]
  /\ UNCHANGED <<m_lnks, m_range, world, cur, queue, air, gui, sent, inbox>>

Targets(p) == IF p.des = BROADCAST_ID THEN m_lnks ELSE {p.des}

MutantSettled(c) == IF c.dest = Nobody THEN Idle ELSE c   \* break, not continue
Settled(c) == IF c.ids = {} /\ c.dest = Nobody THEN Idle ELSE c

Depacketize(i) ==
  /\ cur[i] = Idle /\ m_buffer[i] # <<>>
  /\ m_buffer' = [m_buffer EXCEPT ![i] = Tail(@)]
  /\ LET p == Head(m_buffer[i]) IN
       cur' = [cur EXCEPT ![i] = Settled([pkt |-> p, ids |-> Targets(p), dest |-> Nobody])]
  /\ UNCHANGED <<m_lnks, m_range, world, out, queue, air, gui, sent, inbox>>

Distance(i, j) == IF pos[i] < pos[j] THEN pos[j] - pos[i] ELSE pos[i] - pos[j]

MutantFoundAny(i, id) == TRUE                  \* uses a null dest
MutantFound(i, id) == id \in Ids               \* looks in m_objs
Found(i, id) ==
  /\ id \in m_lnks
  /\ m_range[i] # 0 => m_mav[i] /\ m_mav[id] /\ Distance(i, id) <= m_range[i]

MutantRemaining(i, id) == cur[i].ids           \* the id is served again
Remaining(i, id) == cur[i].ids \ {id}

\* One id of the list: look it up and test it, on what other threads may change.
Lookup(i) ==
  /\ cur[i] # Idle /\ cur[i].dest = Nobody
  /\ \E id \in cur[i].ids :
       cur' = [cur EXCEPT ![i] =
                Settled([@ EXCEPT !.ids = Remaining(i, id),
                                  !.dest = IF Found(i, id) THEN id ELSE Nobody])]
  /\ UNCHANGED <<m_lnks, m_range, world, out, m_buffer, queue, air, gui, sent, inbox>>

MutantPosted(q, e) == <<e>> \o q               \* handled first
Posted(q, e) == Append(q, e)

\* invokeMethod(dest, "sendData") or ScheduleWithContext(dataReadyEventNS3).
Relay(i) ==
  LET j == cur[i].dest
      c == [pkt |-> cur[i].pkt, to |-> j, via |-> IF m_range[i] = 0 THEN "ns3" ELSE "simple"]
  IN
  /\ j # Nobody
  /\ IF m_range[i] = 0
     THEN air' = air \cup {c} /\ UNCHANGED queue
     ELSE /\ queue' = [queue EXCEPT ![j] = Posted(@, [type |-> "sendData", copy |-> c])]
          /\ UNCHANGED air
  /\ cur' = [cur EXCEPT ![i] = Settled([@ EXCEPT !.dest = Nobody])]
  /\ UNCHANGED <<m_lnks, m_range, world, out, m_buffer, gui, sent, inbox>>

Handles(i, type) == InEventLoop(i) /\ queue[i] # <<>> /\ Head(queue[i]).type = type

sendData(i) ==
  /\ Handles(i, "sendData")
  /\ queue' = [queue EXCEPT ![i] = Tail(@)]
  /\ inbox' = IF i \in agents
              THEN [inbox EXCEPT ![i] = Append(@, Head(queue[i]).copy)] ELSE inbox
  /\ UNCHANGED <<m_lnks, m_range, world, out, m_buffer, cur, air, gui, sent>>

setRange(i) ==
  /\ Handles(i, "setRange")
  /\ queue' = [queue EXCEPT ![i] = Tail(@)]
  /\ m_range' = [m_range EXCEPT ![i] = Head(queue[i]).rng]
  /\ UNCHANGED <<m_lnks, world, out, m_buffer, cur, air, gui, sent, inbox>>

-----------------------------------------------------------------------------
(* ns-3: copies are lost, or come out at their node in any order.          *)

Landed(c) == air \ {c}

packetReceivedEvent(c) ==
  /\ c \in air /\ air' = Landed(c)
  /\ queue' = [queue EXCEPT ![c.to] = Posted(@, [type |-> "sendData", copy |-> c])]
  /\ UNCHANGED <<m_lnks, m_range, world, out, m_buffer, cur, gui, sent, inbox>>

Lose(c) ==
  /\ c \in air /\ air' = air \ {c}
  /\ UNCHANGED <<m_lnks, m_range, world, out, m_buffer, cur, queue, gui, sent, inbox>>

-----------------------------------------------------------------------------
(* The GUI thread: UBControl.                                              *)

MutantAudience == {i \in m_lnks : queue[i] = <<>>}   \* skips busy objects
Audience == m_lnks

PostRange(r) ==
  /\ changes < MaxChanges /\ changes' = changes + 1
  /\ queue' = [i \in Ids |-> IF i \in Audience
                             THEN Posted(queue[i], [type |-> "setRange", rng |-> r])
                             ELSE queue[i]]
  /\ missed' = missed \cup (Ids \ m_lnks)
  /\ UNCHANGED <<m_lnks, m_range, world, out, m_buffer, cur, air, sent, inbox>>

toggledEvent ==
  /\ ns3' = ~ns3 /\ UNCHANGED text
  /\ PostRange(IF ns3' THEN 0 ELSE text)

textChangedEventRange(r) ==
  /\ ~ns3 /\ r # text
  /\ text' = r /\ UNCHANGED ns3
  /\ PostRange(r)

clickedEventConnect(i) ==
  /\ i \notin m_lnks /\ m_lnks' = m_lnks \cup {i}
  /\ UNCHANGED <<m_range, world, out, m_buffer, cur, queue, air, gui, sent, inbox>>

clickedEventDisconnect(i) ==
  /\ i \in m_lnks /\ m_lnks' = m_lnks \ {i}
  /\ UNCHANGED <<m_range, world, out, m_buffer, cur, queue, air, gui, sent, inbox>>

-----------------------------------------------------------------------------
Relaying(i) == dataReadyEvent(i) \/ Depacketize(i) \/ Lookup(i) \/ Relay(i)
Handling(i) == sendData(i) \/ setRange(i)
World(i) ==
  \/ AgentLeavesOrReturns(i) \/ setMAV(i)
  \/ clickedEventConnect(i) \/ clickedEventDisconnect(i)
  \/ \E x \in Positions : coordinateChanged(i, x)

Next ==
  \/ \E i \in Ids : Relaying(i) \/ Handling(i) \/ \E d \in Dests : Send(i, d)
  \/ \E i \in Restless : World(i)
  \/ \E c \in air : packetReceivedEvent(c) \/ Lose(c)
  \/ toggledEvent \/ \E r \in Ranges : textChangedEventRange(r)

Spec == Init /\ [][Next]_vars

\* A slot that runs goes on; the event loop serves the socket and the posted
\* events in turn, whatever the other keeps asking.
Fairness == \A i \in Ids :
  /\ WF_vars(Depacketize(i) \/ Lookup(i) \/ Relay(i))
  /\ SF_vars(dataReadyEvent(i)) /\ SF_vars(Handling(i))
FairSpec == Spec /\ Fairness
-----------------------------------------------------------------------------
(* What the agents may rely on.                                            *)

\* The emulator implements the abstract network: a packet reaches only its
\* addressees, each at most once, across broadcasts, mode changes and
\* reconnections made while it is on its way.
Relayed(i) == [k \in DOMAIN inbox[i] |-> inbox[i][k].pkt]
Abstract == INSTANCE UBRelay WITH got <- [i \in Ids |-> Relayed(i)]
ImplementsRelay == Abstract!Spec

\* The simple network keeps the order of the packets of one agent to another,
\* although they pass through the queue of another thread.
SimpleFifo ==
  \A i \in Ids : \A k, l \in DOMAIN inbox[i] :
    (/\ k < l
     /\ inbox[i][k].via = "simple" /\ inbox[i][l].via = "simple"
     /\ inbox[i][k].pkt.src = inbox[i][l].pkt.src)
      => inbox[i][k].pkt.num < inbox[i][l].pkt.num

UnderWay(j) ==
  Cardinality({k \in DOMAIN queue[j] : queue[j][k].type = "sendData"})
    + Cardinality({c \in air : c.to = j}) + Cardinality({i \in Ids : cur[i].dest = j})

\* Disconnecting an object only lets what is already under way to it arrive: no
\* thread starts a copy to it, not even in the middle of a broadcast.
NothingNewAfterDisconnect ==
  [][\A j \in Ids \ (m_lnks \cup m_lnks') : UnderWay(j)' <= UnderWay(j)]_vars

\* The range object i has once it has handled what is posted to it.
RangeToBe(i) ==
  LET posted == {k \in DOMAIN queue[i] : queue[i][k].type = "setRange"}
  IN IF posted = {} THEN m_range[i]
     ELSE queue[i][CHOOSE k \in posted : \A l \in posted : l <= k].rng

\* The objects come to use the mode and range the GUI shows: all but those that
\* were disconnected at a change, which keep the old one after they reconnect.
ModeAgreement == \A i \in Ids \ missed : RangeToBe(i) = UiRange

-----------------------------------------------------------------------------
(* Liveness, under Fairness.                                               *)

InTouch(i, j) ==
  /\ {i, j} \subseteq m_lnks \cap agents
  /\ m_range[i] # 0 /\ m_mav[i] /\ m_mav[j] /\ Distance(i, j) <= m_range[i]

\* Between two agents that stay linked and in range on the simple network,
\* every packet arrives: a broadcast too, whatever happens to its other ids, and
\* an agent's own broadcast, which comes back to it.
ReachesInRange ==
  \A i, j \in Ids : [](InTouch(i, j)) =>
    \A n \in 1..MaxSent, d \in {j, BROADCAST_ID} \cap Dests :
      LET p == [src |-> i, num |-> n, des |-> d] IN
      p \in sent ~> p \in Range(Relayed(j))
=============================================================================
