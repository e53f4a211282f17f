--------------------------- MODULE UBNetworkProofs ---------------------------
(***************************************************************************)
(* Theorems about UBNetwork, for every number of objects, agents, ranges,   *)
(* positions, packets and changes of mode.                                  *)
(***************************************************************************)
EXTENDS UBNetwork, SequenceTheorems, FiniteSetTheorems, TLAPS

-----------------------------------------------------------------------------
(* Queues, which are filled at the end and emptied at the head.             *)

\* A sequence, and its elements, after one more.
LEMMA Appending ==
  ASSUME NEW S, NEW s \in Seq(S), NEW e \in S
  PROVE  /\ Append(s, e) \in Seq(S) /\ Range(Append(s, e)) = Range(s) \cup {e}
         /\ DOMAIN Append(s, e) = DOMAIN s \cup {Len(s) + 1}
         /\ \A k \in DOMAIN s : k \in Nat /\ k < Len(s) + 1 /\ Append(s, e)[k] = s[k]
         /\ Append(s, e)[Len(s) + 1] = e
<1>1. /\ DOMAIN s = 1..Len(s) /\ Len(s) \in Nat
      /\ DOMAIN Append(s, e) = 1..(Len(s) + 1)
      /\ \A k \in 1..Len(s) : Append(s, e)[k] = s[k]
      /\ Append(s, e)[Len(s) + 1] = e /\ Append(s, e) \in Seq(S)
  BY AppendProperties, LenProperties
<1>2. DOMAIN Append(s, e) = DOMAIN s \cup {Len(s) + 1}
  BY <1>1
<1>3. Range(Append(s, e)) = Range(s) \cup {e}
  BY <1>1, <1>2 DEF Range
<1> QED BY <1>1, <1>2, <1>3

\* A sequence, and its elements, without the first.
LEMMA TakingHead ==
  ASSUME NEW S, NEW s \in Seq(S), s # <<>>
  PROVE  /\ Head(s) \in S /\ Tail(s) \in Seq(S) /\ s[1] = Head(s) /\ 1 \in DOMAIN s
         /\ Range(s) = {Head(s)} \cup Range(Tail(s))
         /\ \A k \in DOMAIN Tail(s) : k \in Nat /\ k > 0 /\ k + 1 \in DOMAIN s /\ Tail(s)[k] = s[k + 1]
<1>1. /\ DOMAIN s = 1..Len(s) /\ Len(s) \in Nat \ {0}
      /\ Tail(s) \in Seq(S) /\ Len(Tail(s)) = Len(s) - 1 /\ DOMAIN Tail(s) = 1..(Len(s) - 1)
      /\ \A k \in 1..(Len(s) - 1) : Tail(s)[k] = s[k + 1]
      /\ Head(s) \in S /\ Head(s) = s[1]
  BY HeadTailProperties, LenProperties, EmptySeq
<1>2. Range(s) = {Head(s)} \cup Range(Tail(s))
  <2>1. ASSUME NEW x \in Range(s) PROVE x \in {Head(s)} \cup Range(Tail(s))
    <3>1. PICK k \in 1..Len(s) : x = s[k]
      BY <1>1 DEF Range
    <3>2. CASE k = 1
      BY <3>1, <3>2, <1>1
    <3>3. CASE k # 1
      <4>1. k - 1 \in 1..(Len(s) - 1) /\ (k - 1) + 1 = k
        BY <1>1, <3>3
      <4> QED BY <3>1, <1>1, <4>1 DEF Range
    <3> QED BY <3>2, <3>3
  <2>2. ASSUME NEW x \in {Head(s)} \cup Range(Tail(s)) PROVE x \in Range(s)
    BY <1>1, <2>2 DEF Range
  <2> QED BY <2>1, <2>2
<1> QED BY <1>1, <1>2

-----------------------------------------------------------------------------
(* The inductive invariant.                                                *)

Of(i) == {p \in sent : p.src = i}

\* The packets of an agent are numbered in the order it sends them.
Numbered ==
  /\ \A i \in Ids : IsFiniteSet(Of(i))
  /\ \A p \in sent : p.num <= Cardinality(Of(p.src))
  /\ \A p, q \in sent : p.src = q.src /\ p.num = q.num => p = q

Rising(s) == \A k, l \in DOMAIN s : k < l => s[k].num < s[l].num
Above(s, n) == \A p \in Range(s) : n < p.num

\* What object i still has to do for the packet it is relaying.
Unserved(i) == cur[i].ids \cup ({cur[i].dest} \ {Nobody})
Addressed(p, i) == p.des \in {i, BROADCAST_ID}

\* What an agent sent and its object did not relay yet lies in order: in the
\* socket, behind it what was read, behind it the packet being relayed.
Upstream(i) ==
  /\ Range(out[i]) \cup Range(m_buffer[i]) \subseteq Of(i)
  /\ Rising(out[i]) /\ Rising(m_buffer[i])
  /\ \A p \in Range(m_buffer[i]) : Above(out[i], p.num)
  /\ cur[i] # Idle =>
       /\ cur[i].pkt \in Of(i)
       /\ Above(m_buffer[i], cur[i].pkt.num) /\ Above(out[i], cur[i].pkt.num)
       /\ cur[i].dest # Nobody => cur[i].dest \notin cur[i].ids
       /\ \A j \in Unserved(i) : Addressed(cur[i].pkt, j)

\* The copies made for object j: delivered, posted to it, or in ns-3.
Queued(q) == {e.copy : e \in {f \in Range(q) : f.type = "sendData"}}
Flying(j) == {c \in air : c.to = j}
Copies(j) == Range(inbox[j]) \cup Queued(queue[j]) \cup Flying(j)

\* A copy for j is of a packet that was sent, to j among others, and no id is
\* left to serve for it that is j: its object has gone past it.
Traced(j, c) ==
  LET i == c.pkt.src IN
  /\ c.to = j /\ c.pkt \in sent /\ Addressed(c.pkt, j)
  /\ Above(out[i], c.pkt.num) /\ Above(m_buffer[i], c.pkt.num)
  /\ cur[i] # Idle => c.pkt.num <= cur[i].pkt.num
  /\ c.pkt = cur[i].pkt => j \notin Unserved(i)

\* Of a packet, there is one copy in an inbox b, a queue q and a set f in ns-3.
Once(b, q, f) ==
  /\ \A k, l \in DOMAIN b : b[k].pkt = b[l].pkt => k = l
  /\ \A k, l \in DOMAIN q :
       q[k].type = "sendData" /\ q[l].type = "sendData" /\ q[k].copy.pkt = q[l].copy.pkt
         => k = l
  /\ \A c \in Range(b), d \in Queued(q) \cup f : c.pkt # d.pkt
  /\ \A c \in Queued(q), d \in f : c.pkt # d.pkt
  /\ \A c, d \in f : c.pkt = d.pkt => c = d

Ahead(c, d) ==
  c.via = "simple" /\ d.via = "simple" /\ c.pkt.src = d.pkt.src => c.pkt.num < d.pkt.num

\* The copies of the simple network lie in order: in an inbox b, then a queue q.
Fifo(b, q) ==
  /\ \A k, l \in DOMAIN b : k < l => Ahead(b[k], b[l])
  /\ \A k, l \in DOMAIN q :
       k < l /\ q[k].type = "sendData" /\ q[l].type = "sendData" => Ahead(q[k].copy, q[l].copy)
  /\ \A c \in Range(b), d \in Queued(q) : Ahead(c, d)

RelayInv ==
  /\ TypeOK /\ Numbered
  /\ IsFiniteSet(air) /\ \A c \in air : c.via = "ns3"
  /\ \A j \in Ids : /\ Upstream(j) /\ \A c \in Copies(j) : Traced(j, c)
                    /\ Once(inbox[j], queue[j], Flying(j)) /\ Fifo(inbox[j], queue[j])

-----------------------------------------------------------------------------
(* Types.                                                                  *)

\* Object ids are neither 0 nor the broadcast id.
LEMMA IdsAre == 0 \notin Ids /\ BROADCAST_ID \notin Ids /\ Ids \subseteq Nat
BY NetworkAssumption DEF BROADCAST_ID

\* The two kinds of events a thread is posted.
LEMMA EventKinds ==
  /\ \A c \in Copy : [type |-> "sendData", copy |-> c] \in Event
  /\ \A r \in Ranges \cup {0, Range0} : [type |-> "setRange", rng |-> r] \in Event
  /\ \A e \in Event : /\ e.type \in {"sendData", "setRange"}
                      /\ e.type = "sendData" => e.copy \in Copy
                      /\ e.type = "setRange" => e.rng \in Ranges \cup {0, Range0}
BY DEF Event

\* What packets and copies are made of.
LEMMA PacketFields ==
  /\ \A p \in Packet : p.src \in Ids /\ p.num \in Nat /\ p.num > 0 /\ p.des \in Dests
  /\ \A c \in Copy : c.pkt \in Packet /\ c.to \in Ids
  /\ \A p \in Packet : p # NoPacket
<1>1. \A p \in Packet : p.src \in Ids /\ p.num \in 1..MaxSent /\ p.des \in Dests
  BY DEF Packet
<1>2. \A p \in Packet : p # NoPacket
  BY <1>1, IdsAre DEF NoPacket
<1> QED BY <1>1, <1>2, NetworkAssumption DEF Copy

CurType == [pkt : Packet \cup {NoPacket}, ids : SUBSET (Ids \cup Dests), dest : Ids \cup {Nobody}]

\* Settled either keeps what is left of a slot's packet, or ends the slot.
LEMMA SettledType ==
  ASSUME NEW c \in CurType, c.pkt \in Packet
  PROVE  /\ Settled(c) \in CurType
         /\ Settled(c) # Idle => Settled(c) = c
         /\ Settled(c) = Idle <=> c.ids = {} /\ c.dest = Nobody
<1>1. Idle \in CurType
  BY DEF Idle, CurType
<1>2. c # Idle
  BY PacketFields DEF Idle
<1> QED BY <1>1, <1>2 DEF Settled, Idle

\* Growing one sequence of a family.
LEMMA AppendedType ==
  ASSUME NEW S, NEW f \in [Ids -> Seq(S)], NEW j \in Ids, NEW e \in S
  PROVE  /\ [f EXCEPT ![j] = Append(@, e)] \in [Ids -> Seq(S)]
         /\ Append(f[j], e) \in Seq(S)
<1>1. f[j] \in Seq(S)
  OBVIOUS
<1>2. Append(f[j], e) \in Seq(S)
  BY <1>1, AppendProperties
<1> QED BY <1>2

\* Every step keeps the types.
LEMMA TypeStep == ASSUME TypeOK, Numbered, [Next]_vars PROVE TypeOK'
<1> USE NetworkAssumption
<1>1. ASSUME NEW i \in Ids, Relaying(i) PROVE TypeOK'
  <2>1. CASE dataReadyEvent(i)
    BY <2>1, EmptySeq DEF TypeOK, dataReadyEvent, world, gui
  <2>2. CASE Depacketize(i)
    <3> DEFINE p == Head(m_buffer[i])
               c == [pkt |-> p, ids |-> Targets(p), dest |-> Nobody]
    <3>1. m_buffer[i] \in Seq(Packet) /\ m_buffer[i] # <<>>
      BY <2>2 DEF TypeOK, Depacketize
    <3>2. p \in Packet /\ Tail(m_buffer[i]) \in Seq(Packet)
      BY <3>1, HeadTailProperties
    <3>3. Targets(p) \subseteq Ids \cup Dests
      BY <3>2, PacketFields DEF TypeOK, Targets
    <3>4. c \in CurType /\ c.pkt \in Packet
      BY <3>2, <3>3 DEF CurType
    <3>5. Settled(c) \in CurType /\ (Settled(c) # Idle => Settled(c).pkt \in Packet)
      BY <3>4, SettledType
    <3>6. cur' = [cur EXCEPT ![i] = Settled(c)] /\ m_buffer' = [m_buffer EXCEPT ![i] = Tail(@)]
      BY <2>2 DEF Depacketize
    <3> HIDE DEF c
    <3>7. cur' \in [Ids -> CurType] /\ \A k \in Ids : cur'[k] # Idle => cur'[k].pkt \in Packet
      BY <3>5, <3>6 DEF TypeOK, CurType
    <3>8. m_buffer' \in [Ids -> Seq(Packet)]
      BY <3>6, <3>2 DEF TypeOK
    <3> QED BY <2>2, <3>7, <3>8 DEF TypeOK, Depacketize, world, gui, CurType
  <2>3. CASE Lookup(i)
    <3>1. PICK id \in cur[i].ids :
            cur' = [cur EXCEPT ![i] =
                     Settled([cur[i] EXCEPT !.ids = Remaining(i, id),
                                            !.dest = IF Found(i, id) THEN id ELSE Nobody])]
      BY <2>3 DEF Lookup
    <3> DEFINE c == [cur[i] EXCEPT !.ids = Remaining(i, id),
                                   !.dest = IF Found(i, id) THEN id ELSE Nobody]
    <3>2. cur[i] \in CurType /\ cur[i].pkt \in Packet
      BY <2>3 DEF TypeOK, Lookup, CurType
    <3>3. Found(i, id) => id \in Ids
      BY DEF TypeOK, Found
    <3>4. c \in CurType /\ c.pkt \in Packet
      BY <3>2, <3>3 DEF CurType, Remaining
    <3>5. Settled(c) \in CurType /\ (Settled(c) # Idle => Settled(c).pkt \in Packet)
      BY <3>4, SettledType
    <3> HIDE DEF c
    <3>7. cur' \in [Ids -> CurType] /\ \A k \in Ids : cur'[k] # Idle => cur'[k].pkt \in Packet
      BY <3>5, <3>1 DEF TypeOK, CurType, c
    <3> QED BY <2>3, <3>7 DEF TypeOK, Lookup, world, gui, CurType
  <2>4. CASE Relay(i)
    <3> DEFINE j == cur[i].dest
               x == [pkt |-> cur[i].pkt, to |-> j,
                     via |-> IF m_range[i] = 0 THEN "ns3" ELSE "simple"]
               c == [cur[i] EXCEPT !.dest = Nobody]
    <3>2. cur[i] \in CurType /\ cur[i].pkt \in Packet /\ j \in Ids
      BY <2>4 DEF TypeOK, Relay, CurType, Idle
    <3>3. x \in Copy /\ [type |-> "sendData", copy |-> x] \in Event
      BY <3>2, EventKinds DEF Copy
    <3>4. c \in CurType /\ c.pkt \in Packet
      BY <3>2 DEF CurType
    <3>5. Settled(c) \in CurType /\ (Settled(c) # Idle => Settled(c).pkt \in Packet)
      BY <3>4, SettledType
    <3>6. /\ cur' = [cur EXCEPT ![i] = Settled(c)]
          /\ \/ air' = air \cup {x} /\ UNCHANGED queue
             \/ /\ UNCHANGED air
                /\ queue' = [queue EXCEPT ![j] = Append(@, [type |-> "sendData", copy |-> x])]
      BY <2>4 DEF Relay, Posted
    <3> HIDE DEF c, x, j
    <3>7. cur' \in [Ids -> CurType] /\ \A k \in Ids : cur'[k] # Idle => cur'[k].pkt \in Packet
      BY <3>5, <3>6 DEF TypeOK, CurType
    <3>8. air' \subseteq Copy
      BY <3>6, <3>3 DEF TypeOK
    <3>9. queue' \in [Ids -> Seq(Event)]
      <4>1. [queue EXCEPT ![j] = Append(@, [type |-> "sendData", copy |-> x])]
              \in [Ids -> Seq(Event)]
        BY <3>3, <3>2, AppendedType DEF TypeOK
      <4> QED BY <4>1, <3>6 DEF TypeOK
    <3> QED BY <2>4, <3>7, <3>8, <3>9 DEF TypeOK, Relay, world, gui, CurType
  <2> QED BY <1>1, <2>1, <2>2, <2>3, <2>4 DEF Relaying
<1>2. ASSUME NEW i \in Ids, Handling(i) PROVE TypeOK'
  <2>1. /\ queue[i] \in Seq(Event) /\ queue[i] # <<>>
        /\ Head(queue[i]) \in Event /\ Tail(queue[i]) \in Seq(Event)
    BY <1>2, HeadTailProperties DEF TypeOK, Handling, sendData, setRange, Handles
  <2>2. CASE sendData(i)
    <3>1. Head(queue[i]).copy \in Copy
      BY <2>1, <2>2, EventKinds DEF sendData, Handles
    <3>2. inbox' \in [Ids -> Seq(Copy)]
      BY <2>2, <3>1, AppendedType DEF TypeOK, sendData
    <3>3. queue' \in [Ids -> Seq(Event)]
      BY <2>1, <2>2 DEF TypeOK, sendData
    <3> QED BY <2>2, <3>2, <3>3 DEF TypeOK, sendData, world, gui
  <2>3. CASE setRange(i)
    <3>1. Head(queue[i]).rng \in Ranges \cup {0, Range0}
      BY <2>1, <2>3, EventKinds DEF setRange, Handles
    <3> QED BY <2>1, <2>3, <3>1 DEF TypeOK, setRange, world, gui
  <2> QED BY <1>2, <2>2, <2>3 DEF Handling
<1>3. ASSUME NEW i \in Ids, NEW d \in Dests, Send(i, d) PROVE TypeOK'
  <2> DEFINE p == [src |-> i, num |-> Cardinality({q \in sent : q.src = i}) + 1, des |-> d]
  <2>1. p.num \in 1..MaxSent
    <3>1. Cardinality(Of(i)) \in Nat
      BY FS_CardinalityType DEF Numbered
    <3> QED BY <1>3, <3>1 DEF Send, Of
  <2>2. p \in Packet
    BY <2>1 DEF Packet
  <2>3. sent' = sent \cup {p} /\ out' = [out EXCEPT ![i] = Append(@, p)]
    BY <1>3 DEF Send
  <2> HIDE DEF p
  <2>4. sent' \subseteq Packet
    BY <2>2, <2>3 DEF TypeOK
  <2>5. out' \in [Ids -> Seq(Packet)]
    BY <2>2, <2>3, AppendedType DEF TypeOK
  <2> QED BY <1>3, <2>4, <2>5 DEF TypeOK, Send, world, gui
<1>4. ASSUME NEW i \in Restless, World(i) PROVE TypeOK'
  <2>1. CASE AgentLeavesOrReturns(i)
    BY <2>1 DEF TypeOK, AgentLeavesOrReturns, gui
  <2>2. CASE setMAV(i)
    BY <2>2 DEF TypeOK, setMAV, gui
  <2>3. CASE clickedEventConnect(i) \/ clickedEventDisconnect(i)
    BY <2>3 DEF TypeOK, clickedEventConnect, clickedEventDisconnect, gui, world
  <2>4. ASSUME NEW x \in Positions, coordinateChanged(i, x) PROVE TypeOK'
    BY <2>4 DEF TypeOK, coordinateChanged, gui
  <2> QED BY <1>4, <2>1, <2>2, <2>3, <2>4 DEF World
<1>5. ASSUME NEW c \in air, packetReceivedEvent(c) \/ Lose(c) PROVE TypeOK'
  <2>1. c \in Copy /\ c.to \in Ids /\ [type |-> "sendData", copy |-> c] \in Event
    BY EventKinds, PacketFields DEF TypeOK
  <2>2. CASE Lose(c)
    BY <2>2 DEF TypeOK, Lose, gui, world
  <2>3. CASE packetReceivedEvent(c)
    <3>1. queue' \in [Ids -> Seq(Event)]
      BY <2>1, <2>3, AppendedType DEF TypeOK, packetReceivedEvent, Posted
    <3> QED BY <2>3, <3>1 DEF TypeOK, packetReceivedEvent, Landed, gui, world
  <2> QED BY <1>5, <2>2, <2>3
<1>6. ASSUME NEW r \in Ranges \cup {0, Range0}, PostRange(r),
             ns3' \in BOOLEAN, text' \in Ranges \cup {Range0}
      PROVE TypeOK'
  <2>1. [type |-> "setRange", rng |-> r] \in Event
    BY EventKinds
  <2>2. queue' \in [Ids -> Seq(Event)]
    BY <1>6, <2>1 DEF TypeOK, PostRange, Posted, Audience
  <2>3. changes' \in 0..MaxChanges
    BY <1>6 DEF TypeOK, PostRange
  <2> QED BY <1>6, <2>2, <2>3 DEF TypeOK, PostRange, world
<1>7. CASE toggledEvent
  BY <1>7, <1>6 DEF toggledEvent, TypeOK
<1>8. ASSUME NEW r \in Ranges, textChangedEventRange(r) PROVE TypeOK'
  BY <1>8, <1>6 DEF textChangedEventRange, TypeOK
<1>9. CASE UNCHANGED vars
  BY <1>9 DEF TypeOK, vars, world, gui
<1> QED BY <1>1, <1>2, <1>3, <1>4, <1>5, <1>7, <1>8, <1>9 DEF Next

-----------------------------------------------------------------------------
(* Inboxes and queues.                                                     *)

\* A copy is posted to a thread that has none of that packet.
LEMMA PostingCopy ==
  ASSUME NEW b \in Seq(Copy), NEW q \in Seq(Event), NEW f \in SUBSET Copy, NEW c \in Copy,
         Once(b, q, f), \A d \in Range(b) \cup Queued(q) \cup f : d.pkt # c.pkt
  PROVE  LET r == Append(q, [type |-> "sendData", copy |-> c]) IN
         /\ Once(b, r, f) /\ Queued(r) = Queued(q) \cup {c}
         /\ Fifo(b, q) /\ (\A d \in Range(b) \cup Queued(q) : Ahead(d, c)) => Fifo(b, r)
<1> DEFINE e == [type |-> "sendData", copy |-> c]
           r == Append(q, e)
<1>1. e \in Event
  BY EventKinds
<1>2. /\ Range(r) = Range(q) \cup {e}
      /\ DOMAIN r = DOMAIN q \cup {Len(q) + 1}
      /\ \A k \in DOMAIN q : k \in Nat /\ k < Len(q) + 1 /\ r[k] = q[k]
      /\ r[Len(q) + 1] = e
  BY <1>1, Appending
<1>3. e.type = "sendData" /\ e.copy = c
  OBVIOUS
<1> HIDE DEF e, r
<1>4. Queued(r) = Queued(q) \cup {c}
  BY <1>2, <1>3 DEF Queued
<1>5. \A k \in DOMAIN q : q[k].type = "sendData" => q[k].copy \in Queued(q)
  BY DEF Queued, Range
<1>6. ASSUME NEW k \in DOMAIN r, NEW l \in DOMAIN r,
             r[k].type = "sendData", r[l].type = "sendData", r[k].copy.pkt = r[l].copy.pkt
      PROVE  k = l
  <2>1. CASE k \in DOMAIN q /\ l \in DOMAIN q
    BY <2>1, <1>6, <1>2 DEF Once
  <2>2. CASE k = Len(q) + 1 /\ l = Len(q) + 1
    BY <2>2
  <2>3. CASE k \in DOMAIN q /\ l = Len(q) + 1
    BY <2>3, <1>6, <1>2, <1>3, <1>5
  <2>4. CASE l \in DOMAIN q /\ k = Len(q) + 1
    BY <2>4, <1>6, <1>2, <1>3, <1>5
  <2> QED BY <2>1, <2>2, <2>3, <2>4, <1>2
<1>7. Once(b, r, f)
  BY <1>4, <1>6 DEF Once
<1>8. ASSUME Fifo(b, q), \A d \in Range(b) \cup Queued(q) : Ahead(d, c)
      PROVE  Fifo(b, r)
  <2>1. ASSUME NEW k \in DOMAIN r, NEW l \in DOMAIN r, k < l,
               r[k].type = "sendData", r[l].type = "sendData"
        PROVE  Ahead(r[k].copy, r[l].copy)
    <3>0. Len(q) \in Nat
      OBVIOUS
    <3>1. k \in DOMAIN q
      BY <2>1, <1>2, <3>0
    <3>2. CASE l \in DOMAIN q
      BY <3>1, <3>2, <2>1, <1>2, <1>8 DEF Fifo
    <3>3. CASE l = Len(q) + 1
      BY <3>1, <3>3, <2>1, <1>2, <1>3, <1>5, <1>8
    <3> QED BY <3>2, <3>3, <1>2
  <2> QED BY <2>1, <1>4, <1>8 DEF Fifo
<1> QED BY <1>4, <1>7, <1>8 DEF r, e

\* A change of range is posted.
LEMMA PostingRange ==
  ASSUME NEW b \in Seq(Copy), NEW q \in Seq(Event), NEW f \in SUBSET Copy,
         NEW e \in Event, e.type = "setRange", Once(b, q, f), Fifo(b, q)
  PROVE  /\ Once(b, Append(q, e), f) /\ Fifo(b, Append(q, e))
         /\ Queued(Append(q, e)) = Queued(q)
<1> DEFINE r == Append(q, e)
<1>2. /\ Range(r) = Range(q) \cup {e}
      /\ DOMAIN r = DOMAIN q \cup {Len(q) + 1}
      /\ \A k \in DOMAIN q : r[k] = q[k]
      /\ r[Len(q) + 1] = e
  BY Appending
<1> HIDE DEF r
<1>3. Queued(r) = Queued(q)
  BY <1>2 DEF Queued
<1>4. \A k \in DOMAIN r : r[k].type = "sendData" => k \in DOMAIN q /\ r[k] = q[k]
  BY <1>2
<1>5. Once(b, r, f)
  BY <1>3, <1>4 DEF Once
<1>6. Fifo(b, r)
  BY <1>3, <1>4 DEF Fifo
<1> QED BY <1>3, <1>5, <1>6 DEF r

\* The event at the head of a queue is handled and leaves nothing behind.
LEMMA Handled ==
  ASSUME NEW b \in Seq(Copy), NEW q \in Seq(Event), NEW f \in SUBSET Copy, q # <<>>,
         Once(b, q, f), Fifo(b, q)
  PROVE  /\ Once(b, Tail(q), f) /\ Fifo(b, Tail(q))
         /\ Queued(Tail(q)) \subseteq Queued(q)
         /\ Head(q).type = "sendData" =>
              /\ Head(q).copy \in Queued(q)
              /\ \A c \in Queued(Tail(q)) : c.pkt # Head(q).copy.pkt /\ Ahead(Head(q).copy, c)
<1>1. /\ Range(q) = {Head(q)} \cup Range(Tail(q)) /\ q[1] = Head(q) /\ 1 \in DOMAIN q
      /\ \A k \in DOMAIN Tail(q) : k \in Nat /\ k > 0 /\ k + 1 \in DOMAIN q /\ Tail(q)[k] = q[k + 1]
  BY TakingHead
<1>2. Queued(Tail(q)) \subseteq Queued(q)
  BY <1>1 DEF Queued
<1>3. Once(b, Tail(q), f)
  <2>1. ASSUME NEW k \in DOMAIN Tail(q), NEW l \in DOMAIN Tail(q),
               Tail(q)[k].type = "sendData", Tail(q)[l].type = "sendData",
               Tail(q)[k].copy.pkt = Tail(q)[l].copy.pkt
        PROVE  k = l
    <3>1. k + 1 = l + 1
      BY <2>1, <1>1 DEF Once
    <3> QED BY <3>1, <1>1
  <2> QED BY <2>1, <1>2 DEF Once
<1>4. Fifo(b, Tail(q))
  <2>1. ASSUME NEW k \in DOMAIN Tail(q), NEW l \in DOMAIN Tail(q), k < l,
               Tail(q)[k].type = "sendData", Tail(q)[l].type = "sendData"
        PROVE  Ahead(Tail(q)[k].copy, Tail(q)[l].copy)
    <3>1. k + 1 < l + 1 /\ k + 1 \in DOMAIN q /\ l + 1 \in DOMAIN q
      BY <2>1, <1>1
    <3> QED BY <3>1, <1>1, <2>1 DEF Fifo
  <2> QED BY <2>1, <1>2 DEF Fifo
<1>5. ASSUME Head(q).type = "sendData"
      PROVE  /\ Head(q).copy \in Queued(q)
             /\ \A c \in Queued(Tail(q)) : c.pkt # Head(q).copy.pkt /\ Ahead(Head(q).copy, c)
  <2>1. Head(q).copy \in Queued(q)
    BY <1>1, <1>5 DEF Queued
  <2>2. ASSUME NEW c \in Queued(Tail(q))
        PROVE  c.pkt # Head(q).copy.pkt /\ Ahead(Head(q).copy, c)
    <3>1. PICK k \in DOMAIN Tail(q) : Tail(q)[k].type = "sendData" /\ Tail(q)[k].copy = c
      BY DEF Queued, Range
    <3>2. /\ k + 1 \in DOMAIN q /\ 1 < k + 1 /\ 1 # k + 1
          /\ q[k + 1].type = "sendData" /\ q[k + 1].copy = c
      BY <3>1, <1>1
    <3>3. c.pkt # Head(q).copy.pkt
      BY <3>2, <1>1, <1>5 DEF Once
    <3>4. Ahead(Head(q).copy, c)
      BY <3>2, <1>1, <1>5 DEF Fifo
    <3> QED BY <3>3, <3>4
  <2> QED BY <2>1, <2>2
<1> QED BY <1>2, <1>3, <1>4, <1>5

\* The copy at the head of a queue is delivered.
LEMMA Delivering ==
  ASSUME NEW b \in Seq(Copy), NEW q \in Seq(Event), NEW f \in SUBSET Copy, q # <<>>,
         Head(q).type = "sendData", Once(b, q, f), Fifo(b, q)
  PROVE  /\ Once(Append(b, Head(q).copy), Tail(q), f)
         /\ Fifo(Append(b, Head(q).copy), Tail(q))
         /\ Range(Append(b, Head(q).copy)) = Range(b) \cup {Head(q).copy}
<1> DEFINE c == Head(q).copy
           a == Append(b, c)
<1>1. c \in Copy
  BY TakingHead, EventKinds
<1>2. /\ Once(b, Tail(q), f) /\ Fifo(b, Tail(q)) /\ c \in Queued(q)
      /\ \A d \in Queued(Tail(q)) : d.pkt # c.pkt /\ Ahead(c, d)
  BY Handled
<1>3. \A d \in Range(b) : d.pkt # c.pkt /\ Ahead(d, c)
  BY <1>2 DEF Once, Fifo
<1>4. \A d \in f : d.pkt # c.pkt
  BY <1>2 DEF Once
<1>5. /\ Range(a) = Range(b) \cup {c}
      /\ DOMAIN a = DOMAIN b \cup {Len(b) + 1}
      /\ \A k \in DOMAIN b : k \in Nat /\ k < Len(b) + 1 /\ a[k] = b[k] /\ b[k] \in Range(b)
      /\ a[Len(b) + 1] = c /\ Len(b) \in Nat
  BY <1>1, Appending DEF Range
<1> HIDE DEF c, a
<1>6. \A k, l \in DOMAIN a : a[k].pkt = a[l].pkt => k = l
  BY <1>3, <1>5, <1>2 DEF Once
<1>7. \A k, l \in DOMAIN a : k < l => Ahead(a[k], a[l])
  <2> SUFFICES ASSUME NEW k \in DOMAIN a, NEW l \in DOMAIN a, k < l PROVE Ahead(a[k], a[l])
    OBVIOUS
  <2>1. k \in DOMAIN b
    BY <1>5
  <2>2. CASE l \in DOMAIN b
    BY <2>1, <2>2, <1>5, <1>2 DEF Fifo
  <2>3. CASE l = Len(b) + 1
    BY <2>1, <2>3, <1>5, <1>3
  <2> QED BY <2>2, <2>3, <1>5
<1>8. Once(a, Tail(q), f)
  BY <1>2, <1>4, <1>5, <1>6 DEF Once
<1>9. Fifo(a, Tail(q))
  BY <1>2, <1>5, <1>7 DEF Fifo
<1> QED BY <1>5, <1>8, <1>9 DEF a, c

-----------------------------------------------------------------------------
(* Upstream of the copies: the agents' packets.                            *)

\* Numbers still rise when a later packet is put at the end,
LEMMA RisingAppend ==
  ASSUME NEW s \in Seq(Packet), NEW p \in Packet, Rising(s), \A q \in Range(s) : q.num < p.num
  PROVE  Rising(Append(s, p))
<1>1. /\ DOMAIN Append(s, p) = DOMAIN s \cup {Len(s) + 1}
      /\ \A k \in DOMAIN s : /\ k \in Nat /\ k < Len(s) + 1
                             /\ Append(s, p)[k] = s[k] /\ s[k] \in Range(s)
      /\ Append(s, p)[Len(s) + 1] = p /\ Len(s) \in Nat
  BY Appending DEF Range
<1>2. ASSUME NEW k \in DOMAIN Append(s, p), NEW l \in DOMAIN Append(s, p), k < l
      PROVE  Append(s, p)[k].num < Append(s, p)[l].num
  <2>1. k \in DOMAIN s
    BY <1>1, <1>2
  <2>2. CASE l \in DOMAIN s
    BY <2>1, <2>2, <1>1, <1>2 DEF Rising
  <2>3. CASE l = Len(s) + 1
    BY <2>1, <2>3, <1>1
  <2> QED BY <2>2, <2>3, <1>1
<1> QED BY <1>2 DEF Rising

\* and when the first is taken, the others being later ones.
LEMMA RisingTail ==
  ASSUME NEW s \in Seq(Packet), s # <<>>, Rising(s)
  PROVE  Rising(Tail(s)) /\ Above(Tail(s), Head(s).num)
<1>1. /\ s[1] = Head(s) /\ 1 \in DOMAIN s
      /\ \A k \in DOMAIN Tail(s) : k \in Nat /\ k > 0 /\ k + 1 \in DOMAIN s /\ Tail(s)[k] = s[k + 1]
  BY TakingHead
<1>2. Rising(Tail(s))
  <2> SUFFICES ASSUME NEW k \in DOMAIN Tail(s), NEW l \in DOMAIN Tail(s), k < l
               PROVE  Tail(s)[k].num < Tail(s)[l].num
    BY DEF Rising
  <2>1. k + 1 \in DOMAIN s /\ l + 1 \in DOMAIN s /\ k + 1 < l + 1
    BY <1>1
  <2> QED BY <2>1, <1>1 DEF Rising
<1>3. ASSUME NEW p \in Range(Tail(s)) PROVE Head(s).num < p.num
  <2>1. PICK k \in DOMAIN Tail(s) : Tail(s)[k] = p
    BY DEF Range
  <2>2. k + 1 \in DOMAIN s /\ 1 < k + 1 /\ s[k + 1] = p
    BY <2>1, <1>1
  <2> QED BY <2>2, <1>1 DEF Rising
<1> QED BY <1>2, <1>3 DEF Above

\* The packet an agent sends is a new one, numbered above its earlier ones.
LEMMA SendEffect ==
  ASSUME TypeOK, Numbered, NEW i \in Ids, NEW d \in Dests, Send(i, d)
  PROVE  \E p \in Packet :
           /\ p \notin sent /\ p.src = i /\ (\A q \in Of(i) : q.num < p.num)
           /\ sent' = sent \cup {p} /\ out' = [out EXCEPT ![i] = Append(@, p)]
           /\ Numbered'
<1> DEFINE n == Cardinality({q \in sent : q.src = i}) + 1
           p == [src |-> i, num |-> n, des |-> d]
<1>1. /\ n <= MaxSent /\ sent' = sent \cup {p} /\ out' = [out EXCEPT ![i] = Append(@, p)]
  BY DEF Send
<1>2. n = Cardinality(Of(i)) + 1 /\ IsFiniteSet(Of(i)) /\ Cardinality(Of(i)) \in Nat
  BY FS_CardinalityType DEF Numbered, Of
<1>3. p \in Packet /\ p.src = i /\ p.num = n
  BY <1>1, <1>2, NetworkAssumption DEF Packet
<1> HIDE DEF n, p
<1>4. \A q \in Of(i) : q \in sent /\ q.src = i /\ q.num \in Nat /\ q.num < n
  <2> SUFFICES ASSUME NEW q \in Of(i)
               PROVE  q \in sent /\ q.src = i /\ q.num \in Nat /\ q.num < n
    OBVIOUS
  <2>1. q \in sent /\ q.src = i /\ q.num \in Nat
    BY PacketFields DEF Of, TypeOK
  <2>2. q.num <= Cardinality(Of(i))
    BY <2>1 DEF Numbered
  <2> QED BY <2>1, <2>2, <1>2
<1>5. p \notin sent /\ p \notin Of(i)
  <2>1. p \notin Of(i)
    BY <1>4, <1>3, <1>2
  <2> QED BY <2>1, <1>3 DEF Of
<1>6. Of(i)' = Of(i) \cup {p} /\ \A j \in Ids : j # i => Of(j)' = Of(j)
  BY <1>1, <1>3 DEF Of
<1>7. IsFiniteSet(Of(i)') /\ Cardinality(Of(i)') = n
  <2>1. IsFiniteSet(Of(i) \cup {p}) /\ Cardinality(Of(i) \cup {p}) = Cardinality(Of(i)) + 1
    BY <1>2, <1>5, FS_AddElement
  <2> QED BY <2>1, <1>6, <1>2
<1>8. \A j \in Ids : IsFiniteSet(Of(j)')
  BY <1>6, <1>7 DEF Numbered
<1>9. ASSUME NEW q \in sent' PROVE q.num <= Cardinality(Of(q.src)')
  <2>1. q \in Packet /\ q.src \in Ids /\ q.num \in Nat
    BY <1>1, <1>3, PacketFields DEF TypeOK
  <2>2. CASE q.src # i
    <3>1. q \in sent /\ Of(q.src)' = Of(q.src)
      BY <2>1, <2>2, <1>1, <1>3, <1>6
    <3> QED BY <3>1 DEF Numbered
  <2>3. CASE q.src = i /\ q \in sent
    <3>1. q \in Of(i)
      BY <2>3 DEF Of
    <3> QED BY <3>1, <2>1, <2>3, <1>4, <1>7, <1>2
  <2>4. CASE q = p
    BY <2>4, <1>3, <1>7, <1>2
  <2> QED BY <2>2, <2>3, <2>4, <1>1
<1>10. ASSUME NEW q \in sent', NEW r \in sent', q.src = r.src, q.num = r.num PROVE q = r
  <2>1. CASE q \in sent /\ r \in sent
    BY <2>1, <1>10 DEF Numbered
  <2>2. CASE q = p /\ r \in sent
    <3>1. r \in Of(i)
      BY <2>2, <1>10, <1>3 DEF Of
    <3> QED BY <3>1, <2>2, <1>10, <1>3, <1>4, <1>2
  <2>3. CASE r = p /\ q \in sent
    <3>1. q \in Of(i)
      BY <2>3, <1>10, <1>3 DEF Of
    <3> QED BY <3>1, <2>3, <1>10, <1>3, <1>4, <1>2
  <2> QED BY <2>1, <2>2, <2>3, <1>1
<1>11. Numbered'
  BY <1>8, <1>9, <1>10 DEF Numbered, Of
<1> QED BY <1>1, <1>3, <1>4, <1>5, <1>11

\* The steps that touch the packets upstream.
LEMMA NextUpstream ==
  ASSUME [Next]_vars
  PROVE  \/ \E i \in Ids : \/ \E d \in Dests : Send(i, d)
                           \/ dataReadyEvent(i) \/ Depacketize(i) \/ Lookup(i) \/ Relay(i)
         \/ UNCHANGED <<sent, out, m_buffer, cur>>
<1>1. ASSUME NEW i \in Ids, Handling(i) PROVE UNCHANGED <<sent, out, m_buffer, cur>>
  BY <1>1 DEF Handling, sendData, setRange
<1>2. ASSUME NEW i \in Restless, World(i) PROVE UNCHANGED <<sent, out, m_buffer, cur>>
  BY <1>2 DEF World, AgentLeavesOrReturns, setMAV, clickedEventConnect,
              clickedEventDisconnect, coordinateChanged
<1>3. ASSUME NEW c \in air, packetReceivedEvent(c) \/ Lose(c)
      PROVE  UNCHANGED <<sent, out, m_buffer, cur>>
  BY <1>3 DEF packetReceivedEvent, Lose
<1>4. ASSUME toggledEvent \/ \E r \in Ranges : textChangedEventRange(r)
      PROVE  UNCHANGED <<sent, out, m_buffer, cur>>
  BY <1>4 DEF toggledEvent, textChangedEventRange, PostRange
<1>5. ASSUME UNCHANGED vars PROVE UNCHANGED <<sent, out, m_buffer, cur>>
  BY <1>5 DEF vars
<1> QED BY <1>1, <1>2, <1>3, <1>4, <1>5 DEF Next, Relaying

\* A slot takes the next packet that was read, for the ids it may go to.
LEMMA DepacketizeEffect ==
  ASSUME TypeOK, NEW i \in Ids, Depacketize(i)
  PROVE  LET p == Head(m_buffer[i]) IN
         /\ cur[i] = Idle /\ m_buffer[i] # <<>> /\ p \in Packet
         /\ m_buffer' = [m_buffer EXCEPT ![i] = Tail(@)]
         /\ \A j \in Ids : j # i => cur'[j] = cur[j]
         /\ Unserved(i)' \subseteq Targets(p) /\ \A j \in Targets(p) : Addressed(p, j)
         /\ cur'[i] # Idle => cur'[i].pkt = p /\ cur'[i].dest = Nobody
<1> DEFINE p == Head(m_buffer[i])
           c == [pkt |-> p, ids |-> Targets(p), dest |-> Nobody]
<1>1. /\ cur[i] = Idle /\ m_buffer[i] # <<>> /\ m_buffer' = [m_buffer EXCEPT ![i] = Tail(@)]
      /\ cur' = [cur EXCEPT ![i] = Settled(c)]
  BY DEF Depacketize
<1>2. m_buffer[i] \in Seq(Packet)
  BY DEF TypeOK
<1>3. p \in Packet
  BY <1>1, <1>2, TakingHead
<1>4. Targets(p) \subseteq Ids \cup Dests
  BY <1>3, PacketFields DEF TypeOK, Targets
<1>5. c \in CurType /\ c.pkt \in Packet
  BY <1>3, <1>4 DEF CurType
<1>6. cur'[i] = Settled(c) /\ (cur'[i] = Idle \/ cur'[i] = c)
  BY <1>1, <1>5, SettledType DEF TypeOK
<1>7. Unserved(i)' \subseteq Targets(p)
  BY <1>6 DEF Unserved, Idle
<1>8. \A j \in Targets(p) : Addressed(p, j)
  BY DEF Targets, Addressed
<1>9. \A j \in Ids : j # i => cur'[j] = cur[j]
  BY <1>1 DEF TypeOK
<1> QED BY <1>1, <1>3, <1>6, <1>7, <1>8, <1>9

\* A slot serves its packet's ids one by one and never goes back to one.
LEMMA ServingEffect ==
  ASSUME TypeOK, NEW i \in Ids, Upstream(i), Lookup(i) \/ Relay(i)
  PROVE  /\ cur[i] # Idle /\ \A j \in Ids : j # i => cur'[j] = cur[j]
         /\ Unserved(i)' \subseteq Unserved(i)
         /\ Relay(i) => cur[i].dest \in Unserved(i) \ Unserved(i)'
         /\ cur'[i] # Idle => /\ cur'[i].pkt = cur[i].pkt
                              /\ cur'[i].dest # Nobody => cur'[i].dest \notin cur'[i].ids
<1>0. cur[i] # Idle
  <2>1. CASE Lookup(i)
    BY <2>1 DEF Lookup
  <2>2. CASE Relay(i)
    BY <2>2 DEF Relay, Idle
  <2> QED BY <2>1, <2>2
<1>1. /\ cur[i] \in CurType /\ cur[i].pkt \in Packet
      /\ cur[i].dest # Nobody => cur[i].dest \notin cur[i].ids
  BY <1>0 DEF TypeOK, CurType, Upstream
<1>2. CASE Lookup(i)
  <2>1. PICK id \in cur[i].ids :
          cur' = [cur EXCEPT ![i] =
                   Settled([cur[i] EXCEPT !.ids = Remaining(i, id),
                                          !.dest = IF Found(i, id) THEN id ELSE Nobody])]
    BY <1>2 DEF Lookup
  <2> DEFINE c == [cur[i] EXCEPT !.ids = Remaining(i, id),
                                 !.dest = IF Found(i, id) THEN id ELSE Nobody]
  <2>2. cur[i].dest = Nobody
    BY <1>2 DEF Lookup
  <2>3. Found(i, id) => id \in Ids
    BY DEF TypeOK, Found
  <2>4. /\ c \in CurType /\ c.pkt = cur[i].pkt /\ c.ids = cur[i].ids \ {id}
        /\ c.dest \in {id, Nobody}
    BY <1>1, <2>3 DEF CurType, Remaining
  <2>5. cur'[i] = Settled(c) /\ \A j \in Ids : j # i => cur'[j] = cur[j]
    BY <2>1 DEF TypeOK
  <2> HIDE DEF c
  <2>6. cur'[i] = Idle \/ cur'[i] = c
    BY <2>4, <2>5, <1>1, SettledType
  <2>7. Unserved(i)' \subseteq Unserved(i)
    BY <2>4, <2>6 DEF Unserved, Idle
  <2>8. c.dest # Nobody => c.dest \notin c.ids
    BY <2>4
  <2>9. ~Relay(i)
    BY <2>2 DEF Relay
  <2> QED BY <1>0, <2>4, <2>5, <2>6, <2>7, <2>8, <2>9
<1>3. CASE Relay(i)
  <2> DEFINE c == [cur[i] EXCEPT !.dest = Nobody]
  <2>1. cur' = [cur EXCEPT ![i] = Settled(c)] /\ cur[i].dest # Nobody
    BY <1>3 DEF Relay
  <2>2. c \in CurType /\ c.pkt = cur[i].pkt /\ c.ids = cur[i].ids /\ c.dest = Nobody
    BY <1>1 DEF CurType
  <2>3. cur'[i] = Settled(c) /\ \A j \in Ids : j # i => cur'[j] = cur[j]
    BY <2>1 DEF TypeOK
  <2> HIDE DEF c
  <2>4. cur'[i] = Idle \/ cur'[i] = c
    BY <2>2, <2>3, <1>1, SettledType
  <2>5. Unserved(i)' \subseteq cur[i].ids
    BY <2>2, <2>4 DEF Unserved, Idle
  <2>6. cur[i].dest \in Unserved(i) \ Unserved(i)' /\ Unserved(i)' \subseteq Unserved(i)
    BY <2>1, <2>5, <1>1 DEF Unserved
  <2> QED BY <1>0, <2>2, <2>3, <2>4, <2>6
<1> QED BY <1>2, <1>3

\* Packets stay in the order they were sent, from the socket to the slot.
LEMMA UpstreamStep ==
  ASSUME TypeOK, TypeOK', Numbered, \A j \in Ids : Upstream(j), [Next]_vars
  PROVE  Numbered' /\ \A j \in Ids : Upstream(j)'
<1>1. ASSUME NEW i \in Ids, NEW d \in Dests, Send(i, d)
      PROVE  Numbered' /\ \A j \in Ids : Upstream(j)'
  <2>1. PICK p \in Packet :
           /\ p \notin sent /\ p.src = i /\ (\A q \in Of(i) : q.num < p.num)
           /\ sent' = sent \cup {p} /\ out' = [out EXCEPT ![i] = Append(@, p)]
           /\ Numbered'
    BY <1>1, SendEffect
  <2>2. UNCHANGED <<m_buffer, cur>>
    BY <1>1 DEF Send
  <2>3. Of(i)' = Of(i) \cup {p} /\ \A j \in Ids : j # i => Of(j)' = Of(j)
    BY <2>1 DEF Of
  <2>4. ASSUME NEW j \in Ids, j # i PROVE Upstream(j)'
    <3>1. Of(j)' = Of(j) /\ out'[j] = out[j]
      BY <2>1, <2>3, <2>4 DEF TypeOK
    <3>2. Upstream(j)
      OBVIOUS
    <3> QED BY <3>1, <3>2, <2>2 DEF Upstream, Unserved
  <2>5. Upstream(i)'
    <3>1. out[i] \in Seq(Packet) /\ out'[i] = Append(out[i], p)
      BY <2>1 DEF TypeOK
    <3>2. Range(out'[i]) = Range(out[i]) \cup {p}
      BY <3>1, Appending
    <3>3. Upstream(i)
      OBVIOUS
    <3>4. \A q \in Range(out[i]) \cup Range(m_buffer[i]) : q.num < p.num
      BY <3>3, <2>1 DEF Upstream
    <3>5. Rising(out'[i])
      BY <3>1, <3>3, <3>4, RisingAppend DEF Upstream
    <3>6. Range(out'[i]) \cup Range(m_buffer[i]) \subseteq Of(i)'
      BY <3>2, <3>3, <2>3 DEF Upstream
    <3>7. \A q \in Range(m_buffer[i]) : Above(out'[i], q.num)
      BY <3>2, <3>3, <3>4 DEF Upstream, Above
    <3>8. cur[i] # Idle => cur[i].pkt \in Of(i)' /\ Above(out'[i], cur[i].pkt.num)
      BY <3>2, <3>3, <2>1, <2>3 DEF Upstream, Above
    <3> QED BY <2>2, <3>3, <3>5, <3>6, <3>7, <3>8 DEF Upstream, Unserved
  <2> QED BY <2>1, <2>4, <2>5
<1>2. ASSUME NEW i \in Ids, NEW j \in Ids, j # i, UNCHANGED sent,
             out'[j] = out[j], m_buffer'[j] = m_buffer[j], cur'[j] = cur[j]
      PROVE  Upstream(j)'
  BY <1>2 DEF Upstream, Unserved, Of
<1>3. ASSUME UNCHANGED sent PROVE Numbered'
  BY <1>3 DEF Numbered, Of
<1>4. ASSUME NEW i \in Ids, dataReadyEvent(i) PROVE Numbered' /\ \A j \in Ids : Upstream(j)'
  <2>1. /\ UNCHANGED <<sent, cur>> /\ cur[i] = Idle
        /\ out' = [out EXCEPT ![i] = <<>>]
        /\ m_buffer' = [m_buffer EXCEPT ![i] = IF i \in m_lnks THEN out[i] ELSE <<>>]
    BY <1>4 DEF dataReadyEvent, InEventLoop
  <2>2. /\ out'[i] = <<>> /\ m_buffer'[i] \in {out[i], <<>>}
        /\ \A j \in Ids : j # i => out'[j] = out[j] /\ m_buffer'[j] = m_buffer[j]
    BY <2>1 DEF TypeOK
  <2>3. Range(<<>>) = {} /\ Rising(<<>>)
    BY DEF Range, Rising
  <2>4. Upstream(i)
    OBVIOUS
  <2>5. Upstream(i)'
    BY <2>1, <2>2, <2>3, <2>4 DEF Upstream, Above, Of
  <2> QED BY <2>1, <2>2, <2>5, <1>2, <1>3
<1>5. ASSUME NEW i \in Ids, Depacketize(i) PROVE Numbered' /\ \A j \in Ids : Upstream(j)'
  <2> DEFINE p == Head(m_buffer[i])
  <2>1. /\ cur[i] = Idle /\ m_buffer[i] # <<>> /\ p \in Packet
        /\ m_buffer' = [m_buffer EXCEPT ![i] = Tail(@)]
        /\ \A j \in Ids : j # i => cur'[j] = cur[j]
        /\ Unserved(i)' \subseteq Targets(p) /\ \A j \in Targets(p) : Addressed(p, j)
        /\ cur'[i] # Idle => cur'[i].pkt = p /\ cur'[i].dest = Nobody
    BY <1>5, DepacketizeEffect
  <2>2. UNCHANGED <<sent, out>>
    BY <1>5 DEF Depacketize
  <2>3. /\ m_buffer[i] \in Seq(Packet) /\ m_buffer'[i] = Tail(m_buffer[i])
        /\ \A j \in Ids : j # i => m_buffer'[j] = m_buffer[j]
    BY <2>1 DEF TypeOK
  <2>4. Range(m_buffer[i]) = {p} \cup Range(m_buffer'[i])
    BY <2>1, <2>3, TakingHead
  <2>5. Upstream(i)
    OBVIOUS
  <2>6. Rising(m_buffer'[i]) /\ Above(m_buffer'[i], p.num)
    BY <2>1, <2>3, <2>5, RisingTail DEF Upstream
  <2>7. p \in Of(i) /\ Above(out[i], p.num)
    BY <2>4, <2>5 DEF Upstream
  <2> HIDE DEF p
  <2>8. Of(i)' = Of(i) /\ out'[i] = out[i]
    BY <2>2 DEF Of
  <2>9. cur'[i] # Idle =>
          /\ cur'[i].pkt \in Of(i)
          /\ Above(m_buffer'[i], cur'[i].pkt.num) /\ Above(out[i], cur'[i].pkt.num)
          /\ cur'[i].dest = Nobody
          /\ \A j \in Unserved(i)' : Addressed(cur'[i].pkt, j)
    BY <2>1, <2>6, <2>7
  <2>10. /\ Range(out[i]) \cup Range(m_buffer'[i]) \subseteq Of(i)
         /\ Rising(out[i])
         /\ \A q \in Range(m_buffer'[i]) : Above(out[i], q.num)
    BY <2>4, <2>5 DEF Upstream
  <2>11. Upstream(i)'
    BY <2>6, <2>8, <2>9, <2>10 DEF Upstream
  <2> QED BY <2>1, <2>2, <2>3, <2>11, <1>2, <1>3
<1>6. ASSUME NEW i \in Ids, Lookup(i) \/ Relay(i)
      PROVE  Numbered' /\ \A j \in Ids : Upstream(j)'
  <2>1. Upstream(i)
    OBVIOUS
  <2>2. /\ cur[i] # Idle /\ \A j \in Ids : j # i => cur'[j] = cur[j]
        /\ Unserved(i)' \subseteq Unserved(i)
        /\ cur'[i] # Idle => /\ cur'[i].pkt = cur[i].pkt
                             /\ cur'[i].dest # Nobody => cur'[i].dest \notin cur'[i].ids
    BY <1>6, <2>1, ServingEffect
  <2>3. UNCHANGED <<sent, out, m_buffer>>
    BY <1>6 DEF Lookup, Relay
  <2>4. Upstream(i)'
    BY <2>1, <2>2, <2>3 DEF Upstream, Of
  <2> QED BY <2>2, <2>3, <2>4, <1>2, <1>3
<1>7. ASSUME UNCHANGED <<sent, out, m_buffer, cur>>
      PROVE  Numbered' /\ \A j \in Ids : Upstream(j)'
  BY <1>7, <1>3 DEF Upstream, Unserved, Of
<1> QED BY <1>1, <1>4, <1>5, <1>6, <1>7, NextUpstream

-----------------------------------------------------------------------------
(* The copies.                                                             *)

\* Nothing made for j yet is of the packet that object i is about to copy to j,
\* and what the simple network made of its agent's packets precedes it.
LEMMA CopyIsNew ==
  ASSUME RelayInv, NEW i \in Ids, NEW j \in Ids, cur[i] # Idle, j \in Unserved(i),
         NEW d \in Copies(j)
  PROVE  d.pkt # cur[i].pkt /\ (d.pkt.src = i => d.pkt.num < cur[i].pkt.num)
<1>1. Traced(j, d) /\ Upstream(i) /\ Numbered
  BY DEF RelayInv
<1>2. cur[i].pkt \in sent /\ cur[i].pkt.src = i
  BY <1>1 DEF Upstream, Of
<1>3. d.pkt # cur[i].pkt
  BY <1>1, <1>2 DEF Traced
<1>4. ASSUME d.pkt.src = i PROVE d.pkt.num < cur[i].pkt.num
  <2>1. d.pkt \in sent /\ d.pkt.num <= cur[i].pkt.num
    BY <1>1, <1>4 DEF Traced
  <2>2. d.pkt.num # cur[i].pkt.num
    BY <1>1, <1>2, <1>3, <1>4, <2>1 DEF Numbered
  <2>3. d.pkt.num \in Nat /\ cur[i].pkt.num \in Nat
    BY <1>2, <2>1, PacketFields DEF RelayInv, TypeOK
  <2> QED BY <2>1, <2>2, <2>3
<1> QED BY <1>3, <1>4

\* The steps that touch the copies.
LEMMA NextCopies ==
  ASSUME [Next]_vars
  PROVE  \/ \E i \in Ids : Relay(i) \/ sendData(i) \/ setRange(i)
         \/ \E c \in air : packetReceivedEvent(c) \/ Lose(c)
         \/ \E r \in Ranges \cup {0, Range0} : TypeOK => PostRange(r)
         \/ UNCHANGED <<queue, air, inbox>>
<1>1. ASSUME NEW i \in Ids, dataReadyEvent(i) \/ Depacketize(i) \/ Lookup(i)
      PROVE  UNCHANGED <<queue, air, inbox>>
  BY <1>1 DEF dataReadyEvent, Depacketize, Lookup
<1>2. ASSUME NEW i \in Ids, NEW d \in Dests, Send(i, d) PROVE UNCHANGED <<queue, air, inbox>>
  BY <1>2 DEF Send
<1>3. ASSUME NEW i \in Restless, World(i) PROVE UNCHANGED <<queue, air, inbox>>
  BY <1>3 DEF World, AgentLeavesOrReturns, setMAV, clickedEventConnect,
              clickedEventDisconnect, coordinateChanged
<1>4. ASSUME toggledEvent \/ \E r \in Ranges : textChangedEventRange(r)
      PROVE  \E r \in Ranges \cup {0, Range0} : TypeOK => PostRange(r)
  BY <1>4 DEF toggledEvent, textChangedEventRange, TypeOK
<1>5. ASSUME UNCHANGED vars PROVE UNCHANGED <<queue, air, inbox>>
  BY <1>5 DEF vars
<1> QED BY <1>1, <1>2, <1>3, <1>4, <1>5 DEF Next, Relaying, Handling

\* What a step may do to the copies made for j.
CopiesAfter(j) ==
  /\ Once(inbox[j], queue[j], Flying(j))' /\ Fifo(inbox[j], queue[j])'
  /\ \A c \in Copies(j)' :
       c \in Copies(j) \/ \E i \in Ids : /\ Relay(i) /\ cur[i].dest = j
                                         /\ c.pkt = cur[i].pkt /\ c.to = j

\* Every step makes at most one copy more for j, of the packet its object relays to j just now.
LEMMA CopiesStep ==
  ASSUME RelayInv, [Next]_vars, NEW j \in Ids
  PROVE  CopiesAfter(j)
<1> DEFINE b == inbox[j]
           q == queue[j]
           f == Flying(j)
<1>0. /\ b \in Seq(Copy) /\ q \in Seq(Event) /\ f \in SUBSET Copy
      /\ Once(b, q, f) /\ Fifo(b, q)
  BY DEF RelayInv, TypeOK, Flying
<1>1. ASSUME inbox'[j] = b, queue'[j] = q, Flying(j)' = f PROVE CopiesAfter(j)
  BY <1>0, <1>1 DEF CopiesAfter, Copies
<1>2. ASSUME NEW i \in Ids, Relay(i) PROVE CopiesAfter(j)
  <2> DEFINE x == [pkt |-> cur[i].pkt, to |-> cur[i].dest,
                   via |-> IF m_range[i] = 0 THEN "ns3" ELSE "simple"]
             e == [type |-> "sendData", copy |-> x]
  <2>1. /\ cur[i] # Idle /\ cur[i].dest \in Ids /\ cur[i].dest \in Unserved(i)
        /\ cur[i].pkt \in Packet
    BY <1>2 DEF Relay, Idle, Unserved, RelayInv, TypeOK
  <2>2. /\ UNCHANGED inbox
        /\ \/ air' = air \cup {x} /\ UNCHANGED queue /\ x.via = "ns3"
           \/ queue' = [queue EXCEPT ![cur[i].dest] = Append(@, e)] /\ UNCHANGED air
    BY <1>2 DEF Relay, Posted
  <2>3. x \in Copy /\ x.pkt = cur[i].pkt /\ x.to = cur[i].dest
    BY <2>1 DEF Copy
  <2> HIDE DEF x
  <2>4. CASE j # cur[i].dest
    BY <2>4, <2>2, <2>3, <2>1, <1>1 DEF Flying, RelayInv, TypeOK
  <2>5. CASE j = cur[i].dest
    <3>1. \A d \in Copies(j) : d.pkt # x.pkt /\ Ahead(d, x)
      <4>1. x.pkt.src = i
        BY <2>1, <2>3 DEF RelayInv, Upstream, Of
      <4> QED BY <4>1, <2>1, <2>3, <2>5, CopyIsNew DEF Ahead
    <3>2. Copies(j) = Range(b) \cup Queued(q) \cup f
      BY DEF Copies
    <3>3. CASE air' = air \cup {x} /\ UNCHANGED queue /\ x.via = "ns3"
      <4>1. Flying(j)' = f \cup {x}
        BY <3>3, <2>3, <2>5 DEF Flying
      <4>2. Once(b, q, f \cup {x})
        BY <1>0, <3>1, <3>2 DEF Once
      <4>3. Copies(j)' = Copies(j) \cup {x}
        BY <4>1, <3>3, <2>2 DEF Copies
      <4> QED BY <4>1, <4>2, <4>3, <1>0, <1>2, <2>2, <2>3, <2>5, <3>3 DEF CopiesAfter
    <3>4. CASE queue' = [queue EXCEPT ![cur[i].dest] = Append(@, e)] /\ UNCHANGED air
      <4>1. queue'[j] = Append(q, [type |-> "sendData", copy |-> x])
        BY <3>4, <2>5 DEF RelayInv, TypeOK
      <4>2. /\ Once(b, queue'[j], f) /\ Queued(queue'[j]) = Queued(q) \cup {x}
            /\ Fifo(b, queue'[j])
        BY <1>0, <2>3, <3>1, <3>2, <4>1, PostingCopy
      <4>3. Copies(j)' = Copies(j) \cup {x} /\ Flying(j)' = f
        BY <4>2, <3>4, <2>2 DEF Copies, Flying
      <4> QED BY <4>2, <4>3, <1>2, <2>2, <2>3, <2>5 DEF CopiesAfter
    <3> QED BY <3>3, <3>4, <2>2
  <2> QED BY <2>4, <2>5
<1>3. ASSUME NEW i \in Ids, sendData(i) \/ setRange(i) PROVE CopiesAfter(j)
  <2>1. UNCHANGED air /\ Flying(j)' = f
    BY <1>3 DEF sendData, setRange, Flying
  <2>2. CASE j # i
    BY <2>1, <2>2, <1>3, <1>1 DEF sendData, setRange, RelayInv, TypeOK
  <2>3. CASE j = i
    <3>1. q # <<>> /\ queue'[j] = Tail(q)
      BY <2>3, <1>3 DEF sendData, setRange, Handles, RelayInv, TypeOK
    <3>2. /\ Once(b, Tail(q), f) /\ Fifo(b, Tail(q)) /\ Queued(Tail(q)) \subseteq Queued(q)
          /\ Head(q).type = "sendData" => Head(q).copy \in Queued(q)
      BY <1>0, <3>1, Handled
    <3>3. CASE inbox'[j] = b
      BY <3>1, <3>2, <3>3, <2>1 DEF CopiesAfter, Copies
    <3>4. CASE Head(q).type = "sendData" /\ inbox'[j] = Append(b, Head(q).copy)
      <4>1. /\ Once(inbox'[j], Tail(q), f) /\ Fifo(inbox'[j], Tail(q))
            /\ Range(inbox'[j]) = Range(b) \cup {Head(q).copy}
        BY <1>0, <3>1, <3>4, Delivering
      <4> QED BY <4>1, <3>1, <3>2, <3>4, <2>1 DEF CopiesAfter, Copies
    <3>5. inbox'[j] = b \/ (Head(q).type = "sendData" /\ inbox'[j] = Append(b, Head(q).copy))
      BY <2>3, <1>3 DEF sendData, setRange, Handles, RelayInv, TypeOK
    <3> QED BY <3>3, <3>4, <3>5
  <2> QED BY <2>2, <2>3
<1>4. ASSUME NEW c \in air, Lose(c) PROVE CopiesAfter(j)
  <2>1. UNCHANGED <<queue, inbox>> /\ Flying(j)' \subseteq f
    BY <1>4 DEF Lose, Flying
  <2>2. Once(b, q, Flying(j)')
    BY <1>0, <2>1 DEF Once
  <2> QED BY <2>1, <2>2, <1>0 DEF CopiesAfter, Copies
<1>5. ASSUME NEW c \in air, packetReceivedEvent(c) PROVE CopiesAfter(j)
  <2>1. /\ c \in Copy /\ c.to \in Ids /\ UNCHANGED inbox /\ air' = air \ {c}
        /\ queue' = [queue EXCEPT ![c.to] = Append(@, [type |-> "sendData", copy |-> c])]
    BY <1>5, PacketFields DEF packetReceivedEvent, Landed, Posted, RelayInv, TypeOK
  <2>2. CASE j # c.to
    BY <2>1, <2>2, <1>1 DEF Flying, RelayInv, TypeOK
  <2>3. CASE j = c.to
    <3>1. /\ queue'[j] = Append(q, [type |-> "sendData", copy |-> c])
          /\ Flying(j)' = f \ {c} /\ c \in f
      BY <2>1, <2>3 DEF Flying, RelayInv, TypeOK
    <3>2. Once(b, q, f \ {c}) /\ \A d \in Range(b) \cup Queued(q) \cup (f \ {c}) : d.pkt # c.pkt
      BY <1>0, <3>1 DEF Once
    <3>3. \A d \in Range(b) \cup Queued(q) : Ahead(d, c)
      BY <1>5 DEF Ahead, RelayInv
    <3>4. /\ Once(b, queue'[j], f \ {c}) /\ Queued(queue'[j]) = Queued(q) \cup {c}
          /\ Fifo(b, queue'[j])
      BY <1>0, <2>1, <3>1, <3>2, <3>3, PostingCopy
    <3> QED BY <3>1, <3>4, <2>1 DEF CopiesAfter, Copies
  <2> QED BY <2>2, <2>3
<1>6. ASSUME NEW r \in Ranges \cup {0, Range0}, PostRange(r) PROVE CopiesAfter(j)
  <2> DEFINE e == [type |-> "setRange", rng |-> r]
  <2>1. /\ UNCHANGED <<air, inbox>> /\ queue'[j] \in {q, Append(q, e)}
        /\ e \in Event /\ e.type = "setRange" /\ Flying(j)' = f
    BY <1>6, EventKinds DEF PostRange, Posted, Audience, Flying
  <2> HIDE DEF e
  <2>2. CASE queue'[j] = Append(q, e)
    <3>1. Once(b, queue'[j], f) /\ Fifo(b, queue'[j]) /\ Queued(queue'[j]) = Queued(q)
      BY <2>1, <2>2, <1>0, PostingRange
    <3> QED BY <3>1, <2>1 DEF CopiesAfter, Copies
  <2> QED BY <2>1, <2>2, <1>1
<1>7. ASSUME UNCHANGED <<queue, air, inbox>> PROVE CopiesAfter(j)
  BY <1>7, <1>1 DEF Flying
<1> HIDE DEF b, q, f
<1> QED BY <1>2, <1>3, <1>4, <1>5, <1>6, <1>7, NextCopies DEF RelayInv

\* The packets stay traceable to their senders whatever happens upstream.
LEMMA TracedStep ==
  ASSUME RelayInv, TypeOK', [Next]_vars, NEW j \in Ids, NEW c \in Copies(j)
  PROVE  Traced(j, c)'
<1> DEFINE i == c.pkt.src
<1>0. /\ Traced(j, c) /\ c.pkt \in sent /\ c.pkt \in Packet /\ i \in Ids /\ c.pkt.num \in Nat
      /\ Upstream(i) /\ TypeOK /\ Numbered /\ c.pkt \in Of(i)
  BY PacketFields DEF RelayInv, TypeOK, Traced, Of
<1>1. ASSUME UNCHANGED sent, out'[i] = out[i], m_buffer'[i] = m_buffer[i], cur'[i] = cur[i]
      PROVE  Traced(j, c)'
  BY <1>0, <1>1 DEF Traced, Unserved
<1>2. ASSUME NEW k \in Ids, NEW d \in Dests, Send(k, d) PROVE Traced(j, c)'
  <2>1. PICK p \in Packet :
           /\ p \notin sent /\ p.src = k /\ (\A q \in Of(k) : q.num < p.num)
           /\ sent' = sent \cup {p} /\ out' = [out EXCEPT ![k] = Append(@, p)]
    BY <1>0, <1>2, SendEffect
  <2>2. UNCHANGED <<m_buffer, cur>>
    BY <1>2 DEF Send
  <2>3. k = i => Range(out'[i]) = Range(out[i]) \cup {p}
    <3>1. out[i] \in Seq(Packet) /\ (k = i => out'[i] = Append(out[i], p))
      BY <1>0, <2>1 DEF TypeOK
    <3>2. Range(Append(out[i], p)) = Range(out[i]) \cup {p}
      BY <3>1, Appending
    <3> QED BY <3>1, <3>2
  <2>4. Above(out'[i], c.pkt.num)
    BY <1>0, <2>1, <2>3 DEF Above, Traced, TypeOK
  <2> QED BY <1>0, <2>1, <2>2, <2>4 DEF Traced, Unserved
<1>3. ASSUME NEW k \in Ids, dataReadyEvent(k) PROVE Traced(j, c)'
  <2>1. /\ UNCHANGED <<sent, cur>> /\ out'[i] \in {out[i], <<>>}
        /\ m_buffer'[i] \in {m_buffer[i], out[i], <<>>}
    BY <1>0, <1>3 DEF dataReadyEvent, TypeOK
  <2>2. Range(<<>>) = {}
    BY DEF Range
  <2>3. Above(out'[i], c.pkt.num) /\ Above(m_buffer'[i], c.pkt.num)
    BY <1>0, <2>1, <2>2 DEF Above, Traced
  <2> QED BY <1>0, <2>1, <2>3 DEF Traced, Unserved
<1>4. ASSUME NEW k \in Ids, Depacketize(k) PROVE Traced(j, c)'
  <2> DEFINE p == Head(m_buffer[k])
  <2>1. /\ m_buffer[k] # <<>> /\ p \in Packet
        /\ m_buffer' = [m_buffer EXCEPT ![k] = Tail(@)]
        /\ \A l \in Ids : l # k => cur'[l] = cur[l]
        /\ cur'[k] # Idle => cur'[k].pkt = p
    BY <1>0, <1>4, DepacketizeEffect
  <2>2. UNCHANGED <<sent, out>>
    BY <1>4 DEF Depacketize
  <2>3. CASE k # i
    BY <2>1, <2>2, <2>3, <1>0, <1>1 DEF TypeOK
  <2>4. CASE k = i
    <3>1. m_buffer[i] \in Seq(Packet) /\ m_buffer'[i] = Tail(m_buffer[i])
      BY <2>1, <2>4, <1>0 DEF TypeOK
    <3>2. Range(m_buffer[i]) = {p} \cup Range(m_buffer'[i])
      BY <2>1, <2>4, <3>1, TakingHead
    <3>3. Above(m_buffer'[i], c.pkt.num) /\ c.pkt.num < p.num
      BY <3>2, <1>0 DEF Traced, Above
    <3>4. c.pkt # p /\ p.num \in Nat
      BY <3>3, <1>0, <2>1, PacketFields
    <3> HIDE DEF p
    <3>5. c.pkt = cur'[i].pkt => j \notin Unserved(i)'
      BY <2>1, <2>4, <3>4 DEF Unserved, Idle
    <3>6. cur'[i] # Idle => c.pkt.num <= cur'[i].pkt.num
      BY <2>1, <2>4, <3>3, <3>4, <1>0
    <3> QED BY <1>0, <2>2, <3>3, <3>5, <3>6 DEF Traced
  <2> QED BY <2>3, <2>4
<1>5. ASSUME NEW k \in Ids, Lookup(k) \/ Relay(k) PROVE Traced(j, c)'
  <2>1. Upstream(k)
    BY DEF RelayInv
  <2>2. /\ cur[k] # Idle /\ \A l \in Ids : l # k => cur'[l] = cur[l]
        /\ Unserved(k)' \subseteq Unserved(k)
        /\ cur'[k] # Idle => cur'[k].pkt = cur[k].pkt
    BY <1>0, <1>5, <2>1, ServingEffect
  <2>3. UNCHANGED <<sent, out, m_buffer>>
    BY <1>5 DEF Lookup, Relay
  <2>4. CASE k # i
    BY <2>2, <2>3, <2>4, <1>0, <1>1
  <2>5. CASE k = i
    <3>1. c.pkt = cur'[i].pkt => j \notin Unserved(i)'
      BY <2>2, <2>5, <1>0 DEF Traced, Unserved, Idle
    <3> QED BY <1>0, <2>2, <2>3, <2>5, <3>1 DEF Traced
  <2> QED BY <2>4, <2>5
<1>6. ASSUME UNCHANGED <<sent, out, m_buffer, cur>> PROVE Traced(j, c)'
  BY <1>6, <1>1
<1> QED BY <1>2, <1>3, <1>4, <1>5, <1>6, NextUpstream

\* A new copy is traceable too.
LEMMA NewCopyTraced ==
  ASSUME RelayInv, NEW i \in Ids, Relay(i), NEW j \in Ids, cur[i].dest = j,
         NEW c \in Copy, c.pkt = cur[i].pkt, c.to = j
  PROVE  Traced(j, c)'
<1>1. TypeOK /\ Upstream(i)
  BY DEF RelayInv
<1>2. /\ cur[i] # Idle /\ cur[i].dest \in Unserved(i) \ Unserved(i)'
      /\ cur'[i] # Idle => cur'[i].pkt = cur[i].pkt
  BY <1>1, ServingEffect
<1>3. UNCHANGED <<sent, out, m_buffer>>
  BY DEF Relay
<1>4. c.pkt.src = i /\ c.pkt \in sent /\ Addressed(c.pkt, cur[i].dest)
  BY <1>1, <1>2 DEF Upstream, Of
<1>5. Above(out[i], c.pkt.num) /\ Above(m_buffer[i], c.pkt.num)
  BY <1>1, <1>2 DEF Upstream
<1>6. c.pkt.num \in Nat
  BY PacketFields
<1>7. cur'[i] # Idle => c.pkt.num <= cur'[i].pkt.num
  BY <1>2, <1>6
<1>8. c.pkt = cur'[i].pkt => j \notin Unserved(i)'
  BY <1>2
<1> QED BY <1>3, <1>4, <1>5, <1>7, <1>8 DEF Traced

\* Every step keeps the invariant.
LEMMA RelayStep == ASSUME RelayInv, [Next]_vars PROVE RelayInv'
<1>1. TypeOK' /\ Numbered' /\ \A j \in Ids : Upstream(j)'
  <2>1. TypeOK /\ Numbered /\ \A j \in Ids : Upstream(j)
    BY DEF RelayInv
  <2>2. TypeOK'
    BY <2>1, TypeStep
  <2> QED BY <2>1, <2>2, UpstreamStep
<1>2. \A j \in Ids : CopiesAfter(j)
  BY CopiesStep
<1>3. ASSUME NEW j \in Ids, NEW c \in Copies(j)' PROVE Traced(j, c)'
  <2>1. CASE c \in Copies(j)
    BY <2>1, <1>1, TracedStep
  <2>2. ASSUME NEW i \in Ids, Relay(i), cur[i].dest = j, c.pkt = cur[i].pkt, c.to = j
        PROVE  Traced(j, c)'
    <3>1. c \in Copy
      <4>1. Range(inbox'[j]) \subseteq Copy /\ Flying(j)' \subseteq Copy
        BY <1>1 DEF TypeOK, Flying, Range
      <4>2. Queued(queue'[j]) \subseteq Copy
        <5>1. Range(queue'[j]) \subseteq Event
          BY <1>1 DEF TypeOK, Range
        <5> QED BY <5>1, EventKinds DEF Queued
      <4> QED BY <4>1, <4>2 DEF Copies
    <3> QED BY <2>2, <3>1, NewCopyTraced
  <2> QED BY <2>1, <2>2, <1>2 DEF CopiesAfter
<1>4. IsFiniteSet(air') /\ \A c \in air' : c.via = "ns3"
  <2>1. ASSUME NEW i \in Ids, Relay(i)
        PROVE  IsFiniteSet(air') /\ \A c \in air' : c.via = "ns3"
    <3>1. \E x : x.via = "ns3" /\ (air' = air \cup {x} \/ air' = air)
      <4>1. CASE m_range[i] = 0
        BY <2>1, <4>1 DEF Relay
      <4>2. CASE m_range[i] # 0
        <5>1. air' = air /\ [via |-> "ns3"].via = "ns3"
          BY <2>1, <4>2 DEF Relay
        <5> QED BY <5>1
      <4> QED BY <4>1, <4>2
    <3> QED BY <3>1, FS_AddElement DEF RelayInv
  <2>2. ASSUME NEW i \in Ids, sendData(i) \/ setRange(i) PROVE UNCHANGED air
    BY <2>2 DEF sendData, setRange
  <2>3. ASSUME NEW c \in air, packetReceivedEvent(c) \/ Lose(c) PROVE air' = air \ {c}
    BY <2>3 DEF packetReceivedEvent, Lose, Landed
  <2>4. ASSUME NEW r \in Ranges \cup {0, Range0}, PostRange(r) PROVE UNCHANGED air
    BY <2>4 DEF PostRange
  <2>5. TypeOK /\ IsFiniteSet(air) /\ \A c \in air : c.via = "ns3"
    BY DEF RelayInv
  <2>6. ASSUME NEW c \in air, air' = air \ {c}
        PROVE  IsFiniteSet(air') /\ \A d \in air' : d.via = "ns3"
    BY <2>5, <2>6, FS_RemoveElement
  <2> QED BY <2>1, <2>2, <2>3, <2>4, <2>5, <2>6, NextCopies
<1> QED BY <1>1, <1>2, <1>3, <1>4 DEF RelayInv, CopiesAfter

\* Nothing was sent, so that there are no copies.
LEMMA RelayInit == Init => RelayInv
<1> SUFFICES ASSUME Init PROVE RelayInv
  OBVIOUS
<1>1. TypeOK
  BY NetworkAssumption, EmptySeq DEF Init, TypeOK, Idle
<1>2. Numbered
  <2>1. \A i : Of(i) = {}
    BY DEF Init, Of
  <2> QED BY <2>1, FS_EmptySet DEF Numbered, Init
<1>3. Range(<<>>) = {} /\ Rising(<<>>) /\ Queued(<<>>) = {}
  BY DEF Range, Rising, Queued
<1>4. ASSUME NEW j \in Ids
      PROVE  /\ out[j] = <<>> /\ m_buffer[j] = <<>> /\ cur[j] = Idle
             /\ inbox[j] = <<>> /\ queue[j] = <<>> /\ Flying(j) = {} /\ Copies(j) = {}
  BY <1>3 DEF Init, Flying, Copies
<1>5. Once(<<>>, <<>>, {}) /\ Fifo(<<>>, <<>>)
  BY <1>3 DEF Once, Fifo
<1>6. \A j \in Ids : Upstream(j)
  BY <1>3, <1>4 DEF Upstream
<1> QED BY <1>1, <1>2, <1>4, <1>5, <1>6, FS_EmptySet DEF RelayInv, Init

\* Of every packet sent, dataReadyEvent and ns-3 make at most one copy for an object, only if it is
\* addressed, and an object relays what its agent sent in that order.
THEOREM RelayCorrect == Spec => []RelayInv
BY RelayInit, RelayStep, PTL DEF Spec

\* UBNetwork's variables have their types in every state: in particular no
\* thread ever posts to an object that does not exist, or relays no packet.
THEOREM TypeCorrect == Spec => []TypeOK
<1>1. RelayInv => TypeOK
  BY DEF RelayInv
<1> QED BY <1>1, RelayCorrect, PTL

\* The simple network keeps the order of the packets of one agent to another:
\* the socket, the slot, the queue of the other thread and the inbox, in a row,
\* never hold them out of order.
THEOREM FifoCorrect == Spec => []SimpleFifo
<1>1. ASSUME RelayInv PROVE SimpleFifo
  <2> SUFFICES ASSUME NEW i \in Ids, NEW k \in DOMAIN inbox[i], NEW l \in DOMAIN inbox[i], k < l,
                      inbox[i][k].via = "simple", inbox[i][l].via = "simple",
                      inbox[i][k].pkt.src = inbox[i][l].pkt.src
               PROVE  inbox[i][k].pkt.num < inbox[i][l].pkt.num
    BY DEF SimpleFifo
  <2> QED BY <1>1 DEF RelayInv, Fifo, Ahead
<1> QED BY <1>1, RelayCorrect, PTL

-----------------------------------------------------------------------------
(* The refinement: UBNetwork implements UBRelay.                           *)

\* What was delivered to an agent, once one more copy is written to it.
LEMMA RelayedAppend ==
  ASSUME NEW b \in Seq(Copy), NEW c \in Copy
  PROVE  [k \in DOMAIN Append(b, c) |-> Append(b, c)[k].pkt]
           = Append([k \in DOMAIN b |-> b[k].pkt], c.pkt)
<1> DEFINE g == [k \in DOMAIN b |-> b[k].pkt]
           h == [k \in DOMAIN Append(b, c) |-> Append(b, c)[k].pkt]
<1>1. Len(b) \in Nat /\ DOMAIN b = 1..Len(b) /\ DOMAIN Append(b, c) = 1..(Len(b) + 1)
  BY LenProperties, AppendProperties
<1>2. /\ \A k \in 1..Len(b) : Append(b, c)[k] = b[k] /\ b[k].pkt \in Packet
      /\ Append(b, c)[Len(b) + 1] = c /\ c.pkt \in Packet
  BY <1>1, AppendProperties, PacketFields
<1>3. g \in Seq(Packet) /\ Len(g) = Len(b) /\ \A k \in 1..Len(b) : g[k] = b[k].pkt
  BY <1>1, <1>2
<1>4. h \in Seq(Packet) /\ Len(h) = Len(b) + 1
  <2>1. \A k \in 1..(Len(b) + 1) : Append(b, c)[k].pkt \in Packet
    BY <1>1, <1>2
  <2> QED BY <1>1, <2>1
<1>5. \A k \in 1..(Len(b) + 1) : h[k] = Append(b, c)[k].pkt
  BY <1>1
<1> HIDE DEF g, h
<1>6. /\ Append(g, c.pkt) \in Seq(Packet) /\ Len(Append(g, c.pkt)) = Len(b) + 1
      /\ \A k \in 1..Len(b) : Append(g, c.pkt)[k] = g[k]
      /\ Append(g, c.pkt)[Len(b) + 1] = c.pkt
  BY <1>2, <1>3, AppendProperties
<1>7. \A k \in 1..(Len(b) + 1) : h[k] = Append(g, c.pkt)[k]
  BY <1>1, <1>2, <1>3, <1>5, <1>6
<1>8. h = Append(g, c.pkt)
  BY <1>4, <1>6, <1>7, SeqEqual
<1> QED BY <1>8 DEF g, h

\* Sending and delivering are the steps of the abstract network; all others are
\* invisible to the agents.
LEMMA NextVisible ==
  ASSUME [Next]_vars
  PROVE  \/ \E i \in Ids : sendData(i) \/ \E d \in Dests : Send(i, d)
         \/ UNCHANGED <<sent, inbox>>
<1>1. ASSUME NEW i \in Ids, Relaying(i) \/ setRange(i) PROVE UNCHANGED <<sent, inbox>>
  BY <1>1 DEF Relaying, dataReadyEvent, Depacketize, Lookup, Relay, setRange
<1>2. ASSUME NEW i \in Restless, World(i) PROVE UNCHANGED <<sent, inbox>>
  BY <1>2 DEF World, AgentLeavesOrReturns, setMAV, clickedEventConnect,
              clickedEventDisconnect, coordinateChanged
<1>3. ASSUME NEW c \in air, packetReceivedEvent(c) \/ Lose(c) PROVE UNCHANGED <<sent, inbox>>
  BY <1>3 DEF packetReceivedEvent, Lose
<1>4. ASSUME toggledEvent \/ \E r \in Ranges : textChangedEventRange(r)
      PROVE  UNCHANGED <<sent, inbox>>
  BY <1>4 DEF toggledEvent, textChangedEventRange, PostRange
<1>5. ASSUME UNCHANGED vars PROVE UNCHANGED <<sent, inbox>>
  BY <1>5 DEF vars
<1> QED BY <1>1, <1>2, <1>3, <1>4, <1>5 DEF Next, Handling

got == [i \in Ids |-> Relayed(i)]

\* Every step of UBNetwork is a step of UBRelay or changes nothing there.
LEMMA StepRefines ==
  ASSUME RelayInv, [Next]_vars
  PROVE  [Abstract!Next]_(Abstract!vars)
<1>0. TypeOK /\ Numbered
  BY DEF RelayInv
<1>1. ASSUME NEW i \in Ids, NEW d \in Dests, Send(i, d) PROVE Abstract!Next
  <2>1. PICK p \in Packet : p \notin sent /\ sent' = sent \cup {p}
    BY <1>0, <1>1, SendEffect
  <2>2. UNCHANGED inbox
    BY <1>1 DEF Send
  <2>3. got' = got
    BY <2>2 DEF got, Relayed
  <2> QED BY <2>1, <2>3 DEF Abstract!Next, Abstract!Send, got
<1>2. ASSUME NEW i \in Ids, sendData(i), i \in agents PROVE Abstract!Next
  <2> DEFINE q == queue[i]
             c == Head(q).copy
  <2>1. /\ q \in Seq(Event) /\ q # <<>> /\ Head(q).type = "sendData"
        /\ inbox' = [inbox EXCEPT ![i] = Append(@, c)] /\ UNCHANGED sent
    BY <1>0, <1>2 DEF TypeOK, sendData, Handles
  <2>2. c \in Copy /\ c.pkt \in Packet
    BY <2>1, TakingHead, EventKinds, PacketFields
  <2>3. c \in Queued(q)
    BY <2>1, TakingHead DEF Queued
  <2>4. Traced(i, c) /\ \A d \in Range(inbox[i]) : d.pkt # c.pkt
    BY <2>3 DEF RelayInv, Once, Copies
  <2> HIDE DEF c
  <2>5. c.pkt \in sent /\ c.pkt.des \in {i, BROADCAST_ID} /\ c.pkt \notin Range(Relayed(i))
    BY <2>4 DEF Traced, Addressed, Relayed, Range
  <2>6. inbox[i] \in Seq(Copy) /\ inbox'[i] = Append(inbox[i], c)
        /\ \A j \in Ids : j # i => inbox'[j] = inbox[j]
    BY <1>0, <2>1 DEF TypeOK
  <2>7. Relayed(i)' = Append(Relayed(i), c.pkt)
    BY <2>2, <2>6, RelayedAppend DEF Relayed
  <2>8. \A j \in Ids : j # i => Relayed(j)' = Relayed(j)
    BY <2>6 DEF Relayed
  <2>9. got' = [got EXCEPT ![i] = Append(@, c.pkt)] /\ got[i] = Relayed(i)
    BY <2>7, <2>8 DEF got
  <2>10. Abstract!Deliver(c.pkt, i)
    <3>1. c.pkt \in sent \ Abstract!Range(got[i]) /\ Abstract!IsAddressee(c.pkt, i) /\ UNCHANGED sent
      BY <2>1, <2>5, <2>9 DEF Abstract!IsAddressee, Abstract!Range, Range
    <3> QED BY <3>1, <2>9, Zenon DEF Abstract!Deliver, got
  <2> QED BY <2>2, <2>10 DEF Abstract!Next
<1>3. ASSUME UNCHANGED <<sent, inbox>> PROVE UNCHANGED Abstract!vars
  BY <1>3 DEF Abstract!vars, Relayed
<1>4. ASSUME NEW i \in Ids, sendData(i), i \notin agents PROVE UNCHANGED <<sent, inbox>>
  BY <1>4 DEF sendData
<1> QED BY <1>1, <1>2, <1>3, <1>4, NextVisible

\* The emulator implements the abstract network, for any number of objects and
\* packets: a packet reaches its addressees alone, and each at most once, across
\* broadcasts, changes of mode, disconnections and losses while it is under way.
THEOREM RelayRefined == Spec => ImplementsRelay
<1>1. ASSUME Init PROVE Abstract!Init
  <2>1. sent = {} /\ \A i \in Ids : inbox[i] = <<>>
    BY <1>1 DEF Init
  <2>2. \A i \in Ids : Relayed(i) = <<>>
    BY <2>1 DEF Relayed
  <2> QED BY <2>1, <2>2 DEF Abstract!Init
<1> QED BY <1>1, StepRefines, RelayCorrect, PTL DEF Spec, ImplementsRelay, Abstract!Spec

-----------------------------------------------------------------------------
(* The mode and the range the GUI shows.                                   *)

Changing(q) == {k \in DOMAIN q : q[k].type = "setRange"}

\* A range r and a queue q lead to the range u: that of the last change posted.
LeadsTo(r, q, u) ==
  \/ Changing(q) = {} /\ r = u
  \/ \E k \in Changing(q) : (\A l \in Changing(q) : l <= k) /\ q[k].rng = u

ModeInv == \A i \in Ids \ missed : LeadsTo(m_range[i], queue[i], UiRange)

\* A posted packet does not change the range that a queue leads to,
LEMMA LeadsAfterCopy ==
  ASSUME NEW q \in Seq(Event), NEW e \in Event, e.type # "setRange", NEW r, NEW u, LeadsTo(r, q, u)
  PROVE  LeadsTo(r, Append(q, e), u)
<1>1. /\ DOMAIN Append(q, e) = DOMAIN q \cup {Len(q) + 1}
      /\ \A k \in DOMAIN q : k < Len(q) + 1 /\ Append(q, e)[k] = q[k]
      /\ Append(q, e)[Len(q) + 1] = e
  BY Appending
<1>2. Changing(Append(q, e)) = Changing(q)
  BY <1>1 DEF Changing
<1>3. \A k \in Changing(q) : Append(q, e)[k] = q[k]
  BY <1>1 DEF Changing
<1> QED BY <1>2, <1>3 DEF LeadsTo

\* a posted change leads to its own range,
LEMMA LeadsAfterChange ==
  ASSUME NEW q \in Seq(Event), NEW e \in Event, e.type = "setRange", NEW r
  PROVE  LeadsTo(r, Append(q, e), e.rng)
<1>1. /\ DOMAIN Append(q, e) = DOMAIN q \cup {Len(q) + 1}
      /\ \A k \in DOMAIN q : k \in Nat /\ k < Len(q) + 1
      /\ Append(q, e)[Len(q) + 1] = e /\ Len(q) \in Nat
  BY Appending
<1>2. Len(q) + 1 \in Changing(Append(q, e)) /\ \A l \in Changing(Append(q, e)) : l <= Len(q) + 1
  BY <1>1 DEF Changing
<1> QED BY <1>1, <1>2 DEF LeadsTo

\* and handling the head of the queue leads on to the same range.
LEMMA LeadsAfterHead ==
  ASSUME NEW q \in Seq(Event), q # <<>>, NEW r, NEW u, LeadsTo(r, q, u)
  PROVE  LeadsTo(IF Head(q).type = "setRange" THEN Head(q).rng ELSE r, Tail(q), u)
<1>1. /\ q[1] = Head(q) /\ 1 \in DOMAIN q
      /\ DOMAIN q = 1..Len(q) /\ Len(q) \in Nat /\ DOMAIN Tail(q) = 1..(Len(q) - 1)
      /\ \A k \in DOMAIN Tail(q) : Tail(q)[k] = q[k + 1]
  BY TakingHead, LenProperties, HeadTailProperties
<1>2. \A k \in DOMAIN Tail(q) : k \in Changing(Tail(q)) <=> k + 1 \in Changing(q)
  BY <1>1 DEF Changing
<1>3. \A k \in Changing(q) : k # 1 => k - 1 \in Changing(Tail(q)) /\ Tail(q)[k - 1] = q[k]
  <2> SUFFICES ASSUME NEW k \in Changing(q), k # 1
               PROVE  k - 1 \in Changing(Tail(q)) /\ Tail(q)[k - 1] = q[k]
    OBVIOUS
  <2>1. k - 1 \in DOMAIN Tail(q) /\ (k - 1) + 1 = k
    BY <1>1 DEF Changing
  <2> QED BY <2>1, <1>1, <1>2
<1>4. CASE Changing(q) = {} /\ r = u
  <2>1. Head(q).type # "setRange" /\ Changing(Tail(q)) = {}
    BY <1>1, <1>2, <1>4 DEF Changing
  <2> QED BY <2>1, <1>4 DEF LeadsTo
<1>5. ASSUME NEW k \in Changing(q), \A l \in Changing(q) : l <= k, q[k].rng = u
      PROVE  LeadsTo(IF Head(q).type = "setRange" THEN Head(q).rng ELSE r, Tail(q), u)
  <2>1. CASE k = 1
    <3>1. Head(q).type = "setRange" /\ Head(q).rng = u
      BY <2>1, <1>1, <1>5 DEF Changing
    <3>2. ASSUME NEW l \in Changing(Tail(q)) PROVE FALSE
      <4>1. l + 1 \in Changing(q) /\ l \in Nat /\ l > 0
        BY <1>1, <1>2 DEF Changing
      <4> QED BY <4>1, <1>5, <2>1
    <3> QED BY <3>1, <3>2 DEF LeadsTo
  <2>2. CASE k # 1
    <3>1. k - 1 \in Changing(Tail(q)) /\ Tail(q)[k - 1].rng = u
      BY <2>2, <1>3, <1>5
    <3>2. ASSUME NEW l \in Changing(Tail(q)) PROVE l <= k - 1
      <4>1. l + 1 \in Changing(q) /\ l \in Nat /\ k \in Nat
        BY <1>1, <1>2 DEF Changing
      <4> QED BY <4>1, <1>5
    <3> QED BY <3>1, <3>2 DEF LeadsTo
  <2> QED BY <2>1, <2>2
<1> QED BY <1>4, <1>5 DEF LeadsTo

\* The steps that touch the ranges.
LEMMA NextMode ==
  ASSUME TypeOK, [Next]_vars
  PROVE  \/ \E i \in Ids : sendData(i) \/ setRange(i)
         \/ /\ UNCHANGED <<m_range, ns3, text, missed>>
            /\ \/ \E i \in Ids, c \in Copy :
                    queue' = [queue EXCEPT ![i] = Append(@, [type |-> "sendData", copy |-> c])]
               \/ UNCHANGED queue
         \/ \E r \in Ranges \cup {0, Range0} : PostRange(r) /\ r = UiRange'
<1>1. ASSUME NEW i \in Ids, dataReadyEvent(i) \/ Depacketize(i) \/ Lookup(i)
      PROVE  UNCHANGED <<m_range, ns3, text, missed, queue>>
  BY <1>1 DEF dataReadyEvent, Depacketize, Lookup, gui
<1>2. ASSUME NEW i \in Ids, Relay(i)
      PROVE  /\ UNCHANGED <<m_range, ns3, text, missed>>
             /\ \/ \E j \in Ids, c \in Copy :
                     queue' = [queue EXCEPT ![j] = Append(@, [type |-> "sendData", copy |-> c])]
                \/ UNCHANGED queue
  <2> DEFINE x == [pkt |-> cur[i].pkt, to |-> cur[i].dest,
                   via |-> IF m_range[i] = 0 THEN "ns3" ELSE "simple"]
  <2>1. cur[i].dest \in Ids /\ cur[i].pkt \in Packet
    BY <1>2 DEF Relay, Idle, TypeOK
  <2>2. x \in Copy
    BY <2>1 DEF Copy
  <2>3. /\ UNCHANGED <<m_range, ns3, text, missed>>
        /\ \/ queue' = [queue EXCEPT ![cur[i].dest] = Append(@, [type |-> "sendData", copy |-> x])]
           \/ UNCHANGED queue
    BY <1>2 DEF Relay, Posted, gui
  <2> HIDE DEF x
  <2> QED BY <2>1, <2>2, <2>3
<1>3. ASSUME NEW i \in Ids, NEW d \in Dests, Send(i, d)
      PROVE  UNCHANGED <<m_range, ns3, text, missed, queue>>
  BY <1>3 DEF Send, gui
<1>4. ASSUME NEW i \in Restless, World(i) PROVE UNCHANGED <<m_range, ns3, text, missed, queue>>
  BY <1>4 DEF World, AgentLeavesOrReturns, setMAV, clickedEventConnect,
              clickedEventDisconnect, coordinateChanged, gui
<1>5. ASSUME NEW c \in air, packetReceivedEvent(c) \/ Lose(c)
      PROVE  /\ UNCHANGED <<m_range, ns3, text, missed>>
             /\ \/ \E i \in Ids, d \in Copy :
                     queue' = [queue EXCEPT ![i] = Append(@, [type |-> "sendData", copy |-> d])]
                \/ UNCHANGED queue
  <2>1. c \in Copy /\ c.to \in Ids
    BY PacketFields DEF TypeOK
  <2>2. CASE packetReceivedEvent(c)
    BY <2>1, <2>2 DEF packetReceivedEvent, Posted, gui
  <2>3. CASE Lose(c)
    BY <2>3 DEF Lose, gui
  <2> QED BY <1>5, <2>2, <2>3
<1>6. CASE toggledEvent
  BY <1>6 DEF toggledEvent, TypeOK, UiRange
<1>7. ASSUME NEW r \in Ranges, textChangedEventRange(r) PROVE PostRange(r) /\ r = UiRange'
  BY <1>7 DEF textChangedEventRange, UiRange
<1>8. ASSUME UNCHANGED vars PROVE UNCHANGED <<m_range, ns3, text, missed, queue>>
  BY <1>8 DEF vars, gui
<1> QED BY <1>1, <1>2, <1>3, <1>4, <1>5, <1>6, <1>7, <1>8 DEF Next, Relaying, Handling

\* Every step keeps an object that missed no change on its way to the panel's range.
LEMMA ModeStep == ASSUME TypeOK, ModeInv, [Next]_vars PROVE ModeInv'
<1>1. ASSUME NEW i \in Ids, sendData(i) \/ setRange(i) PROVE ModeInv'
  <2>1. /\ queue[i] \in Seq(Event) /\ queue[i] # <<>> /\ queue' = [queue EXCEPT ![i] = Tail(@)]
        /\ m_range' = [m_range EXCEPT ![i] = IF Head(queue[i]).type = "setRange"
                                             THEN Head(queue[i]).rng ELSE @]
        /\ UNCHANGED <<ns3, text, missed>>
    <3>1. CASE sendData(i)
      BY <3>1 DEF sendData, Handles, TypeOK, gui
    <3>2. CASE setRange(i)
      BY <3>2 DEF setRange, Handles, TypeOK, gui
    <3> QED BY <1>1, <3>1, <3>2
  <2>2. UNCHANGED UiRange
    BY <2>1 DEF UiRange
  <2>3. ASSUME NEW j \in Ids \ missed PROVE LeadsTo(m_range'[j], queue'[j], UiRange)
    <3>1. CASE j # i
      BY <3>1, <2>1 DEF ModeInv, TypeOK
    <3>2. CASE j = i
      <4>1. LeadsTo(m_range[i], queue[i], UiRange)
        BY <3>2 DEF ModeInv
      <4>2. LeadsTo(IF Head(queue[i]).type = "setRange" THEN Head(queue[i]).rng ELSE m_range[i],
                    Tail(queue[i]), UiRange)
        BY <2>1, <4>1, LeadsAfterHead
      <4>3. queue'[i] = Tail(queue[i])
            /\ m_range'[i] = IF Head(queue[i]).type = "setRange"
                             THEN Head(queue[i]).rng ELSE m_range[i]
        BY <2>1 DEF TypeOK
      <4> QED BY <4>2, <4>3, <3>2
    <3> QED BY <3>1, <3>2
  <2> QED BY <2>1, <2>2, <2>3 DEF ModeInv
<1>2. ASSUME UNCHANGED <<m_range, ns3, text, missed>>, NEW i \in Ids, NEW c \in Copy,
             queue' = [queue EXCEPT ![i] = Append(@, [type |-> "sendData", copy |-> c])]
      PROVE  ModeInv'
  <2> DEFINE e == [type |-> "sendData", copy |-> c]
  <2>1. e \in Event /\ e.type # "setRange" /\ UNCHANGED UiRange
    BY <1>2, EventKinds DEF UiRange
  <2>2. ASSUME NEW j \in Ids \ missed PROVE LeadsTo(m_range[j], queue'[j], UiRange)
    <3>1. queue'[j] = queue[j] \/ queue'[j] = Append(queue[j], e)
      BY <1>2 DEF TypeOK
    <3>2. queue[j] \in Seq(Event) /\ LeadsTo(m_range[j], queue[j], UiRange)
      BY DEF TypeOK, ModeInv
    <3> HIDE DEF e
    <3> QED BY <2>1, <3>1, <3>2, LeadsAfterCopy
  <2> QED BY <1>2, <2>1, <2>2 DEF ModeInv
<1>3. ASSUME UNCHANGED <<m_range, ns3, text, missed, queue>> PROVE ModeInv'
  BY <1>3 DEF ModeInv, UiRange
<1>4. ASSUME NEW r \in Ranges \cup {0, Range0}, PostRange(r), r = UiRange' PROVE ModeInv'
  <2> DEFINE e == [type |-> "setRange", rng |-> r]
  <2>1. e \in Event /\ e.type = "setRange" /\ e.rng = r
    BY EventKinds
  <2>2. ASSUME NEW j \in Ids \ missed' PROVE LeadsTo(m_range'[j], queue'[j], r)
    <3>1. queue'[j] = Append(queue[j], e) /\ m_range'[j] = m_range[j]
      BY <1>4 DEF PostRange, Posted, Audience
    <3>2. queue[j] \in Seq(Event)
      BY DEF TypeOK
    <3> HIDE DEF e
    <3>3. LeadsTo(m_range[j], Append(queue[j], e), e.rng)
      BY <2>1, <3>2, LeadsAfterChange
    <3> QED BY <2>1, <3>1, <3>3
  <2> QED BY <2>2, <1>4 DEF ModeInv
<1> QED BY <1>1, <1>2, <1>3, <1>4, NextMode

\* The objects come to use the mode and range the GUI shows, but for those that
\* were disconnected at some change of it: what is posted to the others, the last
\* change last, leads each of them there whatever it is doing.
THEOREM ModeCorrect == Spec => []ModeAgreement
<1>1. ASSUME Init PROVE ModeInv
  <2>1. UiRange = Range0
    BY <1>1 DEF Init, UiRange
  <2>2. \A i \in Ids : queue[i] = <<>> /\ m_range[i] = Range0
    BY <1>1 DEF Init
  <2>3. Changing(<<>>) = {}
    BY DEF Changing
  <2> QED BY <2>1, <2>2, <2>3 DEF ModeInv, LeadsTo
<1>2. ASSUME TypeOK, ModeInv PROVE ModeAgreement
  <2> SUFFICES ASSUME NEW i \in Ids \ missed PROVE RangeToBe(i) = UiRange
    BY DEF ModeAgreement
  <2>1. LeadsTo(m_range[i], queue[i], UiRange)
    BY <1>2 DEF ModeInv
  <2>2. CASE Changing(queue[i]) = {} /\ m_range[i] = UiRange
    BY <2>2 DEF RangeToBe, Changing
  <2>3. ASSUME NEW k \in Changing(queue[i]), \A l \in Changing(queue[i]) : l <= k,
               queue[i][k].rng = UiRange
        PROVE  RangeToBe(i) = UiRange
    <3> DEFINE m == CHOOSE k2 \in Changing(queue[i]) : \A l \in Changing(queue[i]) : l <= k2
    <3>1. m \in Changing(queue[i]) /\ \A l \in Changing(queue[i]) : l <= m
      BY <2>3
    <3>2. Changing(queue[i]) \subseteq Nat
      BY <1>2, LenProperties DEF Changing, TypeOK
    <3> HIDE DEF m
    <3>3. m = k
      BY <3>1, <3>2, <2>3
    <3> QED BY <2>3, <3>3 DEF RangeToBe, Changing, m
  <2> QED BY <2>1, <2>2, <2>3 DEF LeadsTo
<1> QED BY <1>1, <1>2, ModeStep, TypeCorrect, PTL DEF Spec

-----------------------------------------------------------------------------
(* Disconnecting an object.                                                *)

Sends(q) == {k \in DOMAIN q : q[k].type = "sendData"}
Serving(j) == {i \in Ids : cur[i].dest = j}

\* There are finitely many ids,
LEMMA IdsFinite == IsFiniteSet(Ids)
<1>1. IsFiniteSet(1..254)
  <2>1. 1 \in Int /\ 254 \in Int
    OBVIOUS
  <2> QED BY <2>1, FS_Interval, Zenon
<1>2. Ids \in SUBSET (1..254)
  BY NetworkAssumption
<1> QED BY <1>1, <1>2, FS_Subset, Zenon

\* finitely many copies in a queue,
LEMMA SendsFinite ==
  ASSUME NEW q \in Seq(Event)
  PROVE  IsFiniteSet(Sends(q)) /\ Cardinality(Sends(q)) \in Nat
<1>1. Sends(q) \subseteq 1..Len(q) /\ Len(q) \in Nat
  BY LenProperties DEF Sends
<1>2. IsFiniteSet(1..Len(q))
  BY <1>1, FS_Interval
<1> QED BY <1>1, <1>2, FS_Subset, FS_CardinalityType

\* An event posted counts for one copy at most, and only if it is one.
LEMMA SendsAfterPost ==
  ASSUME NEW q \in Seq(Event), NEW e \in Event
  PROVE  /\ Cardinality(Sends(Append(q, e))) <= Cardinality(Sends(q)) + 1
         /\ e.type # "sendData" =>
              Cardinality(Sends(Append(q, e))) = Cardinality(Sends(q))
<1>1. /\ DOMAIN Append(q, e) = DOMAIN q \cup {Len(q) + 1}
      /\ \A k \in DOMAIN q : Append(q, e)[k] = q[k]
      /\ Append(q, e)[Len(q) + 1] = e
  BY Appending
<1>2. IsFiniteSet(Sends(q)) /\ Cardinality(Sends(q)) \in Nat
  BY SendsFinite
<1>3. CASE e.type = "sendData"
  <2>1. Sends(Append(q, e)) = Sends(q) \cup {Len(q) + 1}
    BY <1>1, <1>3 DEF Sends
  <2>2. Cardinality(Sends(q) \cup {Len(q) + 1}) <= Cardinality(Sends(q)) + 1
    <3>1. Cardinality(Sends(q) \cup {Len(q) + 1})
            = IF Len(q) + 1 \in Sends(q) THEN Cardinality(Sends(q)) ELSE Cardinality(Sends(q)) + 1
      BY <1>2, FS_AddElement, Zenon
    <3> QED BY <3>1, <1>2
  <2> QED BY <2>1, <2>2, <1>3
<1>4. CASE e.type # "sendData"
  <2>1. Sends(Append(q, e)) = Sends(q)
    BY <1>1, <1>4 DEF Sends
  <2> QED BY <2>1, <1>2
<1> QED BY <1>3, <1>4

\* and no more of them once the head is handled.
LEMMA SendsAfterHead ==
  ASSUME NEW q \in Seq(Event), q # <<>>
  PROVE  Cardinality(Sends(Tail(q))) <= Cardinality(Sends(q))
<1> DEFINE f == [k \in Sends(Tail(q)) |-> k + 1]
<1>1. \A k \in DOMAIN Tail(q) : k \in Nat /\ k + 1 \in DOMAIN q /\ Tail(q)[k] = q[k + 1]
  BY TakingHead
<1>2. f \in Injection(Sends(Tail(q)), Sends(q))
  <2>1. \A k \in Sends(Tail(q)) : k \in Nat /\ k + 1 \in Sends(q)
    BY <1>1 DEF Sends
  <2>2. f \in [Sends(Tail(q)) -> Sends(q)]
    BY <2>1
  <2>3. \A k, l \in Sends(Tail(q)) : f[k] = f[l] => k = l
    BY <2>1
  <2> QED BY <2>2, <2>3 DEF Injection, IsInjective
<1> HIDE DEF f
<1> QED BY <1>2, SendsFinite, FS_Injection

\* A thread turns to an object only while that is linked.
LEMMA ServingStep ==
  ASSUME RelayInv, [Next]_vars, NEW j \in Ids \ m_lnks
  PROVE  /\ Serving(j)' \subseteq Serving(j)
         /\ \A i \in Ids : Relay(i) /\ cur[i].dest = j => Serving(j)' \subseteq Serving(j) \ {i}
<1>0. TypeOK /\ (\A i \in Ids : Upstream(i)) /\ j # Nobody /\ j \in Ids
  BY IdsAre DEF RelayInv, Nobody
<1>1. ASSUME NEW i \in Ids, Lookup(i) PROVE cur'[i].dest # j
  <2>1. PICK id \in cur[i].ids :
          cur' = [cur EXCEPT ![i] =
                   Settled([cur[i] EXCEPT !.ids = Remaining(i, id),
                                          !.dest = IF Found(i, id) THEN id ELSE Nobody])]
    BY <1>1 DEF Lookup
  <2> DEFINE c == [cur[i] EXCEPT !.ids = Remaining(i, id),
                                 !.dest = IF Found(i, id) THEN id ELSE Nobody]
  <2>2. cur[i] \in CurType /\ cur[i] # Idle
    BY <1>0, <1>1 DEF TypeOK, CurType, Lookup
  <2>3. c.dest \in {Nobody} \cup m_lnks
    <3>1. c.dest = IF Found(i, id) THEN id ELSE Nobody
      BY <2>2 DEF CurType
    <3> QED BY <3>1 DEF Found
  <2>4. cur'[i] = Settled(c)
    BY <2>1, <1>0 DEF TypeOK
  <2> HIDE DEF c
  <2> QED BY <2>3, <2>4, <1>0 DEF Settled, Idle
<1>2. ASSUME NEW i \in Ids, Lookup(i) \/ Relay(i) \/ Depacketize(i)
      PROVE  \A k \in Ids : k # i => cur'[k] = cur[k]
  BY <1>2, <1>0, ServingEffect, DepacketizeEffect
<1>3. ASSUME NEW i \in Ids, Relay(i) PROVE cur'[i].dest # cur[i].dest /\ cur'[i].dest # j
  <2>1. /\ cur[i].dest \in Unserved(i) \ Unserved(i)' /\ cur[i].dest # Nobody
        /\ cur[i] \in CurType /\ cur[i].pkt \in Packet
        /\ cur' = [cur EXCEPT ![i] = Settled([cur[i] EXCEPT !.dest = Nobody])]
    BY <1>0, <1>3, ServingEffect DEF Relay, TypeOK, CurType, Idle
  <2> DEFINE c == [cur[i] EXCEPT !.dest = Nobody]
  <2>2. c.dest = Nobody /\ cur'[i] = Settled(c)
    BY <2>1, <1>0 DEF CurType, TypeOK
  <2> HIDE DEF c
  <2> QED BY <2>1, <2>2, <1>0 DEF Settled, Idle
<1>4. ASSUME NEW i \in Ids, Depacketize(i) PROVE cur'[i].dest # j
  BY <1>0, <1>4, DepacketizeEffect DEF Idle
<1>5. ASSUME NEW i \in Ids, Lookup(i) \/ Relay(i) \/ Depacketize(i)
      PROVE  Serving(j)' \subseteq Serving(j) \ {i}
  BY <1>1, <1>2, <1>3, <1>4, <1>5 DEF Serving
<1>6. ASSUME UNCHANGED cur PROVE Serving(j)' = Serving(j)
  BY <1>6 DEF Serving
<1>7. Serving(j)' \subseteq Serving(j)
  BY <1>5, <1>6, NextUpstream DEF Send, dataReadyEvent
<1> QED BY <1>5, <1>7

\* Disconnecting an object only lets what is already under way to it arrive: no
\* thread starts a copy to it, not even in the middle of a broadcast.
THEOREM DisconnectCorrect == Spec => NothingNewAfterDisconnect
<1> DEFINE Quiet == \A j \in Ids \ (m_lnks \cup m_lnks') : UnderWay(j)' <= UnderWay(j)
<1>1. ASSUME RelayInv, [Next]_vars PROVE Quiet
  <2> SUFFICES ASSUME NEW j \in Ids, j \notin m_lnks PROVE UnderWay(j)' <= UnderWay(j)
    OBVIOUS
  <2> DEFINE n == Cardinality(Sends(queue[j]))
             a == Cardinality(Flying(j))
             s == Cardinality(Serving(j))
  <2>1. UnderWay(j) = n + a + s /\ UnderWay(j)' = n' + a' + s'
    BY DEF UnderWay, Sends, Flying, Serving
  <2>2. TypeOK /\ TypeOK' /\ RelayInv'
    BY <1>1, RelayStep DEF RelayInv
  <2>3. /\ IsFiniteSet(Flying(j)) /\ IsFiniteSet(Flying(j)')
        /\ IsFiniteSet(Serving(j)) /\ IsFiniteSet(Serving(j)')
    <3>1. IsFiniteSet(air) /\ IsFiniteSet(air')
      BY <1>1, <2>2 DEF RelayInv
    <3>2. Flying(j) \subseteq air /\ Flying(j)' \subseteq air'
      BY DEF Flying
    <3>3. Serving(j) \subseteq Ids /\ Serving(j)' \subseteq Ids
      BY DEF Serving
    <3> QED BY <3>1, <3>2, <3>3, IdsFinite, FS_Subset
  <2>4. queue[j] \in Seq(Event) /\ queue'[j] \in Seq(Event)
    BY <2>2 DEF TypeOK
  <2>5. n \in Nat /\ n' \in Nat /\ a \in Nat /\ a' \in Nat /\ s \in Nat /\ s' \in Nat
    BY <2>3, <2>4, SendsFinite, FS_CardinalityType
  <2>6. s' <= s
    BY <1>1, <2>3, ServingStep, FS_Subset
  <2>7. CASE queue'[j] = queue[j] /\ Flying(j)' \subseteq Flying(j)
    <3>1. a' <= a /\ n' = n
      BY <2>3, <2>7, FS_Subset
    <3> QED BY <2>1, <2>5, <2>6, <3>1
  <2>8. ASSUME NEW i \in Ids, Relay(i) PROVE UnderWay(j)' <= UnderWay(j)
    <3> DEFINE x == [pkt |-> cur[i].pkt, to |-> cur[i].dest,
                     via |-> IF m_range[i] = 0 THEN "ns3" ELSE "simple"]
               e == [type |-> "sendData", copy |-> x]
    <3>1. x \in Copy /\ e \in Event /\ cur[i].dest \in Ids
      <4>1. cur[i].pkt \in Packet /\ cur[i].dest \in Ids
        BY <2>2, <2>8 DEF Relay, Idle, TypeOK
      <4> QED BY <4>1, EventKinds DEF Copy
    <3>2. \/ air' = air \cup {x} /\ UNCHANGED queue
          \/ queue' = [queue EXCEPT ![cur[i].dest] = Append(@, e)] /\ UNCHANGED air
      BY <2>8 DEF Relay, Posted
    <3> HIDE DEF x
    <3>3. CASE cur[i].dest # j
      <4>1. x.to # j
        BY <3>3 DEF x
      <4>2. queue'[j] = queue[j]
        BY <3>1, <3>2, <3>3, <2>2 DEF TypeOK
      <4>3. Flying(j)' \subseteq Flying(j)
        BY <4>1, <3>2 DEF Flying
      <4> QED BY <4>2, <4>3, <2>7
    <3>4. CASE cur[i].dest = j
      <4>1. i \in Serving(j) /\ Serving(j)' \subseteq Serving(j) \ {i}
        BY <1>1, <2>8, <3>4, ServingStep DEF Serving
      <4>2. s' <= s - 1
        <5>1. IsFiniteSet(Serving(j) \ {i}) /\ Cardinality(Serving(j) \ {i}) = s - 1
          BY <4>1, <2>3, FS_RemoveElement
        <5> QED BY <4>1, <5>1, FS_Subset
      <4>3. n' + a' <= n + a + 1
        <5>1. CASE air' = air \cup {x} /\ UNCHANGED queue
          <6>1. Flying(j)' \subseteq Flying(j) \cup {x}
            BY <5>1 DEF Flying
          <6>2. /\ IsFiniteSet(Flying(j) \cup {x})
                /\ Cardinality(Flying(j) \cup {x}) \in {a, a + 1}
            BY <2>3, FS_AddElement
          <6>3. a' <= Cardinality(Flying(j) \cup {x})
            BY <6>1, <6>2, FS_Subset
          <6>4. n' = n
            BY <5>1
          <6> QED BY <6>2, <6>3, <6>4, <2>5
        <5>2. CASE queue' = [queue EXCEPT ![cur[i].dest] = Append(@, e)] /\ UNCHANGED air
          <6>1. queue'[j] = Append(queue[j], e) /\ a' = a
            BY <5>2, <3>4, <2>2 DEF TypeOK, Flying
          <6>2. Cardinality(Sends(Append(queue[j], e))) <= n + 1
            BY <2>4, <3>1, SendsAfterPost
          <6>3. n' <= n + 1
            BY <6>1, <6>2
          <6> QED BY <6>1, <6>3, <2>5
        <5> QED BY <5>1, <5>2, <3>2
      <4> QED BY <4>2, <4>3, <2>1, <2>5
    <3> QED BY <3>3, <3>4
  <2>9. ASSUME NEW i \in Ids, sendData(i) \/ setRange(i) PROVE UnderWay(j)' <= UnderWay(j)
    <3>1. /\ UNCHANGED air /\ Flying(j)' = Flying(j)
          /\ queue[i] # <<>> /\ queue' = [queue EXCEPT ![i] = Tail(@)]
      BY <2>9 DEF sendData, setRange, Handles, Flying
    <3>2. CASE i # j
      BY <3>1, <3>2, <2>2, <2>7 DEF TypeOK
    <3>3. CASE i = j
      <4>1. queue'[j] = Tail(queue[j]) /\ queue[j] # <<>>
        BY <3>1, <3>3, <2>2 DEF TypeOK
      <4>2. Cardinality(Sends(Tail(queue[j]))) <= n
        BY <4>1, <2>4, SendsAfterHead
      <4>3. n' <= n /\ a' = a
        BY <4>1, <4>2, <3>1
      <4> QED BY <4>3, <2>1, <2>5, <2>6
    <3> QED BY <3>2, <3>3
  <2>10. ASSUME NEW c \in air, Lose(c) PROVE UnderWay(j)' <= UnderWay(j)
    BY <2>10, <2>7 DEF Lose, Flying
  <2>11. ASSUME NEW c \in air, packetReceivedEvent(c) PROVE UnderWay(j)' <= UnderWay(j)
    <3> DEFINE e == [type |-> "sendData", copy |-> c]
    <3>1. /\ c \in Copy /\ e \in Event /\ air' = air \ {c}
          /\ queue' = [queue EXCEPT ![c.to] = Append(@, e)]
      BY <2>2, <2>11, EventKinds DEF packetReceivedEvent, Landed, Posted, TypeOK
    <3>2. CASE c.to # j
      BY <3>1, <3>2, <2>2, <2>7 DEF TypeOK, Flying
    <3>3. CASE c.to = j
      <4>1. queue'[j] = Append(queue[j], e) /\ Flying(j)' = Flying(j) \ {c} /\ c \in Flying(j)
        BY <3>1, <3>3, <2>2 DEF TypeOK, Flying
      <4>2. Cardinality(Sends(Append(queue[j], e))) <= n + 1
        BY <2>4, <3>1, SendsAfterPost
      <4>3. Cardinality(Flying(j) \ {c}) = a - 1
        BY <4>1, <2>3, FS_RemoveElement
      <4>4. n' <= n + 1 /\ a' = a - 1
        BY <4>1, <4>2, <4>3
      <4> QED BY <4>4, <2>1, <2>5, <2>6
    <3> QED BY <3>2, <3>3
  <2>12. ASSUME NEW r \in Ranges \cup {0, Range0}, PostRange(r)
         PROVE  UnderWay(j)' <= UnderWay(j)
    BY <2>12, <2>7 DEF PostRange, Audience, Flying
  <2>13. CASE UNCHANGED <<queue, air, inbox>>
    BY <2>13, <2>7 DEF Flying
  <2> QED BY <1>1, <2>2, <2>8, <2>9, <2>10, <2>11, <2>12, <2>13, NextCopies
<1>2. RelayInv /\ [Next]_vars => [Quiet]_vars
  BY <1>1
<1> QED BY <1>2, RelayCorrect, PTL DEF Spec, NothingNewAfterDisconnect
=============================================================================
