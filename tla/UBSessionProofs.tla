--------------------------- MODULE UBSessionProofs ---------------------------
(***************************************************************************)
(* Theorems about UBSession, for every number of connections and fragments. *)
(***************************************************************************)
EXTENDS UBSession, SequenceTheorems, TLAPS

\* A read adds fragments of the stream, of the connection read and no other.
LEMMA ChunkType ==
  ASSUME TypeOK, NEW c \in Conn, NEW k \in 1..(sent[c] - read[c])
  PROVE  /\ Chunk(c, k) \in Seq(Frag)
         /\ Range(Chunk(c, k)) \subseteq Frag
         /\ read[c] + k \in 0..MaxFrag
<1>1. /\ read[c] \in Nat /\ sent[c] \in Nat /\ k \in Nat
      /\ read[c] + k <= MaxFrag
  BY BoundsAssumption DEF TypeOK
<1>2. \A i \in 1..k : [conn |-> c, n |-> read[c] + i] \in Frag
  BY <1>1, BoundsAssumption DEF Frag
<1>3. Chunk(c, k) \in Seq(Frag)
  BY <1>1, <1>2 DEF Chunk
<1>4. Range(Chunk(c, k)) \subseteq Frag
  BY <1>2 DEF Chunk, Range
<1> QED
  BY <1>1, <1>3, <1>4, BoundsAssumption

\* The variables keep their types: of the values, m_socket, which must never
\* name a connection that the server did not hand out, is the one that matters.
LEMMA TypeStep == ASSUME TypeOK, [Next]_vars PROVE TypeOK'
<1> USE BoundsAssumption
<1>1. ASSUME Client PROVE TypeOK'
  <2>1. CASE Open
    BY <2>1 DEF TypeOK, Open, sockets, stream, history
  <2>2. ASSUME NEW c \in Conn, Write(c) PROVE TypeOK'
    BY <2>2 DEF TypeOK, Write, sockets, stream, history
  <2>3. ASSUME NEW c \in Conn, Close(c) PROVE TypeOK'
    BY <2>3 DEF TypeOK, Close, sockets, stream, history
  <2> QED BY <1>1, <2>1, <2>2, <2>3 DEF Client
<1>2. ASSUME Gui PROVE TypeOK'
  BY <1>2 DEF TypeOK, Gui, clickedEventConnect, clickedEventDisconnect,
              AggregateObject, clients, sockets, stream, history
<1>3. CASE newConnectionEvent
  BY <1>3 DEF TypeOK, newConnectionEvent, HasPendingConnection, Superseded, Conn,
              clients, stream, history
<1>4. CASE sendData
  BY <1>4 DEF TypeOK, sendData, clients, sockets, stream, history
<1>5. CASE Cut
  <2>1. PICK k \in DOMAIN m_buffer : /\ m_buffer' = SubSeq(m_buffer, k + 1, Len(m_buffer))
                                     /\ forwarded' = Append(forwarded, SubSeq(m_buffer, 1, k))
    BY <1>5 DEF Cut, Rest
  <2>2. m_buffer \in Seq(Frag) /\ k \in 1..Len(m_buffer)
    BY DEF TypeOK
  <2>3. m_buffer' \in Seq(Frag) /\ SubSeq(m_buffer, 1, k) \in Seq(Frag)
    BY <2>1, <2>2
  <2>4. forwarded' \in Seq(Seq(Frag))
    BY <2>1, <2>3 DEF TypeOK
  <2> QED BY <1>5, <2>3, <2>4 DEF TypeOK, Cut, AfterCut, clients, sockets
<1>6. CASE LoopEnd
  BY <1>6 DEF TypeOK, LoopEnd, clients, sockets, history
<1>7. ASSUME NEW c \in Conn, RemoteClosed(c) PROVE TypeOK'
  BY <1>7 DEF TypeOK, RemoteClosed, disconnectedEvent, Without, clients, stream, history
<1>8. ASSUME NEW c \in Conn, Flush(c) PROVE TypeOK'
  BY <1>8 DEF TypeOK, Flush, disconnectedEvent, Without, clients, stream, history
<1>9. ASSUME NEW c \in Conn, Read(c) PROVE TypeOK'
  <2>1. PICK k \in 1..MaxFrag : dataReadyEvent(c, k)
    BY <1>9 DEF Read
  <2>2. k \in 1..(sent[c] - read[c])
    BY <2>1 DEF dataReadyEvent
  <2>3. /\ Chunk(c, k) \in Seq(Frag) /\ Range(Chunk(c, k)) \subseteq Frag
        /\ read[c] + k \in 0..MaxFrag
    BY <2>2, ChunkType
  <2> DEFINE got == IF c = m_socket THEN Chunk(c, k) ELSE <<>>
  <2>4. Appended(got) \in Seq(Frag) /\ Range(Appended(got)) \subseteq Frag
    BY <2>3 DEF TypeOK, Appended, Range
  <2>5. m_buffer' \in Seq(Frag) /\ dropped' \subseteq Frag
    <3>1. m_buffer' \in {m_buffer, <<>>, Appended(got)}
      BY <2>1 DEF dataReadyEvent
    <3>2. dropped' \subseteq dropped \cup Range(Chunk(c, k)) \cup Range(Appended(got))
      BY <2>1 DEF dataReadyEvent
    <3>3. <<>> \in Seq(Frag) /\ m_buffer \in Seq(Frag)
      BY EmptySeq DEF TypeOK
    <3>4. m_buffer' \in Seq(Frag)
      BY <3>1, <3>3, <2>4
    <3> QED BY <3>2, <3>4, <2>3, <2>4 DEF TypeOK
  <2>6. torn' \subseteq Frag
    BY <2>1 DEF TypeOK, dataReadyEvent
  <2>7. pc' \in {"idle", "loop"} /\ read' \in [Conn -> 0..MaxFrag]
    BY <2>1, <2>3 DEF TypeOK, dataReadyEvent
  <2> QED BY <2>1, <2>5, <2>6, <2>7 DEF TypeOK, dataReadyEvent, clients, sockets
<1>10. CASE UNCHANGED vars
  BY <1>10 DEF TypeOK, vars, clients, sockets, stream, history
<1> QED BY <1>1, <1>2, <1>3, <1>4, <1>5, <1>6, <1>7, <1>8, <1>9, <1>10
        DEF Next, Thread

\* UBSession's variables have their types in every state.
THEOREM TypeCorrect == Spec => []TypeOK
<1>1. ASSUME Init PROVE TypeOK
  <2>1. m_buffer \in Seq(Frag) /\ forwarded \in Seq(Seq(Frag))
    BY <1>1, EmptySeq DEF Init
  <2>2. /\ opened \in 0..NConn /\ accepted \in 0..opened
        /\ sent \in [Conn -> 0..MaxFrag] /\ read \in [Conn -> 0..MaxFrag]
    BY <1>1, BoundsAssumption DEF Init
  <2>3. /\ sock \in [Conn -> {"none", "live", "closing", "gone"}]
        /\ linked \in BOOLEAN /\ aggregated \in BOOLEAN
        /\ m_socket \in Conn \cup {Null} /\ pc \in {"idle", "loop"}
        /\ torn \subseteq Frag /\ dropped \subseteq Frag
    BY <1>1 DEF Init
  <2>4. unsent \in [Conn -> BOOLEAN] /\ fin \in [Conn -> BOOLEAN]
    BY <1>1 DEF Init
  <2> QED BY <2>1, <2>2, <2>3, <2>4 DEF TypeOK
<1> QED BY <1>1, TypeStep, PTL DEF Spec

-----------------------------------------------------------------------------
(* One session, the newest one.                                            *)

\* SoleSession is inductive once it also says that connections still to be
\* accepted have no socket.
Sockets == SoleSession /\ \A c \in Conn : c > accepted => sock[c] = "none"

\* Every step keeps it: the sockets are handed over, never shared.
LEMMA SocketsStep == ASSUME TypeOK, Sockets, [Next]_vars PROVE Sockets'
<1> USE BoundsAssumption
<1>1. CASE UNCHANGED sockets
  BY <1>1 DEF Sockets, SoleSession, sockets
<1>2. CASE newConnectionEvent
  <2> DEFINE c == accepted + 1
  <2>1. c \in Conn /\ accepted \in Nat /\ accepted' = c /\ m_socket' = c
    BY <1>2 DEF TypeOK, newConnectionEvent, HasPendingConnection, Conn
  <2>2. \A d \in Conn : sock'[d] = IF d = c THEN "live"
                                  ELSE IF d = m_socket THEN Superseded(d) ELSE sock[d]
    BY <1>2 DEF newConnectionEvent
  <2>3. \A d \in Conn \ {c} : sock'[d] # "live"
    BY <2>2 DEF Sockets, SoleSession, Superseded
  <2>4. ASSUME NEW d \in Conn, d > c PROVE sock'[d] = "none"
    <3>1. d > accepted /\ d # c /\ (m_socket # Null => d # m_socket)
      BY <2>1, <2>4 DEF Sockets, SoleSession, Conn
    <3>2. d # m_socket
      BY <3>1, <2>4 DEF Conn, Null
    <3> QED BY <2>2, <3>1, <3>2 DEF Sockets
  <2> QED BY <2>1, <2>2, <2>3, <2>4 DEF Sockets, SoleSession
<1>3. CASE sendData
  BY <1>3 DEF Sockets, SoleSession, sendData
<1>4. ASSUME NEW c \in Conn, RemoteClosed(c) PROVE Sockets'
  BY <1>4 DEF TypeOK, Sockets, SoleSession, RemoteClosed, Connected, disconnectedEvent,
              Without, Conn, Null
<1>5. ASSUME NEW c \in Conn, Flush(c) PROVE Sockets'
  BY <1>5 DEF TypeOK, Sockets, SoleSession, Flush, Connected, disconnectedEvent,
              Without, Conn, Null
<1>6. ASSUME NEW c \in Conn, Read(c) PROVE UNCHANGED sockets
  BY <1>6 DEF Read, dataReadyEvent
<1>7. Client \/ Gui \/ Cut \/ LoopEnd \/ UNCHANGED vars => UNCHANGED sockets
  BY DEF Client, Open, Write, Close, Gui, clickedEventConnect, clickedEventDisconnect,
         AggregateObject, Cut, LoopEnd, vars
<1> QED BY <1>1, <1>2, <1>3, <1>4, <1>5, <1>6, <1>7 DEF Next, Thread

\* It holds at the start, where no socket exists.
LEMMA SocketsInit == Init => Sockets
BY DEF Init, Sockets, SoleSession, Conn, Null

\* The object serves one socket, the newest one accepted.
THEOREM ServesTheNewest == Spec => []SoleSession
<1>1. TypeOK /\ Sockets /\ [Next]_vars => Sockets'
  BY SocketsStep
<1>2. Sockets => SoleSession
  BY DEF Sockets
<1> QED BY <1>1, <1>2, SocketsInit, TypeCorrect, PTL DEF Spec

\* A session ends only because its agent closed it, or a newer one took over.
THEOREM SessionKept == Spec => NoSpuriousLoss
<1> USE BoundsAssumption
<1> DEFINE Kept == m_socket # Null /\ m_socket' # m_socket
                     => fin[m_socket] \/ accepted' > accepted
<1>1. ASSUME TypeOK, Sockets, [Next]_vars PROVE Kept
  <2>1. CASE UNCHANGED m_socket
    BY <2>1
  <2>2. CASE newConnectionEvent
    BY <1>1, <2>2 DEF TypeOK, newConnectionEvent
  <2>3. ASSUME NEW c \in Conn, RemoteClosed(c) PROVE Kept
    BY <2>3 DEF RemoteClosed, disconnectedEvent, Without
  <2>4. ASSUME NEW c \in Conn, Flush(c) PROVE UNCHANGED m_socket
    BY <1>1, <2>4 DEF TypeOK, Sockets, SoleSession, Flush, disconnectedEvent, Without
  <2>5. ASSUME NEW c \in Conn, Read(c) PROVE UNCHANGED m_socket
    BY <2>5 DEF Read, dataReadyEvent, sockets
  <2>6. Client \/ Gui \/ sendData \/ Cut \/ LoopEnd \/ UNCHANGED vars => UNCHANGED m_socket
    BY DEF Client, Open, Write, Close, Gui, clickedEventConnect, clickedEventDisconnect,
           AggregateObject, sendData, Cut, LoopEnd, vars, sockets
  <2> QED BY <1>1, <2>1, <2>2, <2>3, <2>4, <2>5, <2>6 DEF Next, Thread
<1>2. TypeOK /\ Sockets /\ [Next]_vars => Sockets'
  BY SocketsStep
<1>3. TypeOK /\ Sockets /\ [Next]_vars => [Kept]_vars
  BY <1>1
<1> QED BY <1>2, <1>3, SocketsInit, TypeCorrect, PTL DEF Spec, NoSpuriousLoss

-----------------------------------------------------------------------------
(* The stream.  Of all steps only three matter to it.                       *)

Quiet == /\ UNCHANGED <<accepted, read, m_buffer, forwarded, torn, dropped>>
         /\ m_socket' \in {m_socket, Null}

\* A step is quiet, takes a connection, cuts a packet, or reads.
LEMMA StreamSteps ==
  ASSUME TypeOK, [Next]_vars
  PROVE  Quiet \/ newConnectionEvent \/ Cut \/ \E c \in Conn : Read(c)
<1>1. Client \/ Gui \/ sendData \/ LoopEnd \/ UNCHANGED vars => Quiet
  BY DEF Client, Open, Write, Close, Gui, clickedEventConnect, clickedEventDisconnect,
         AggregateObject, sendData, LoopEnd, vars, sockets, stream, history, Quiet
<1>2. ASSUME NEW c \in Conn, RemoteClosed(c) \/ Flush(c) PROVE Quiet
  BY <1>2 DEF RemoteClosed, Flush, disconnectedEvent, Without, stream, history, Quiet
<1> QED BY <1>1, <1>2 DEF Next, Thread

\* Cutting at k: the first k elements, and the others, in their order.
LEMMA CutSplits ==
  ASSUME NEW S, NEW s \in Seq(S), NEW k \in 1..Len(s)
  PROVE  LET a == SubSeq(s, 1, k)  b == SubSeq(s, k + 1, Len(s)) IN
         /\ Len(a) = k /\ DOMAIN a = 1..k
         /\ Len(b) = Len(s) - k /\ DOMAIN b = 1..(Len(s) - k)
         /\ \A i \in 1..k : a[i] = s[i]
         /\ \A i \in 1..(Len(s) - k) : b[i] = s[k + i]
         /\ Range(s) = Range(a) \cup Range(b)
<1> DEFINE a == SubSeq(s, 1, k)
           b == SubSeq(s, k + 1, Len(s))
<1>1. Len(a) = k /\ DOMAIN a = 1..k /\ \A i \in 1..k : a[i] = s[i]
  OBVIOUS
<1>2. Len(b) = Len(s) - k /\ DOMAIN b = 1..(Len(s) - k)
      /\ \A i \in 1..(Len(s) - k) : b[i] = s[k + i]
  OBVIOUS
<1>3. \A i \in 1..(Len(s) - k) : k + i \in DOMAIN s
  OBVIOUS
<1>4. Range(a) \subseteq Range(s) /\ Range(b) \subseteq Range(s)
  BY <1>1, <1>2, <1>3 DEF Range
<1>5. ASSUME NEW i \in DOMAIN s PROVE s[i] \in Range(a) \cup Range(b)
  <2>1. CASE i <= k
    <3>1. i \in DOMAIN a /\ a[i] = s[i]
      BY <1>1, <2>1
    <3> QED BY <3>1 DEF Range
  <2>2. CASE i > k
    <3>1. i - k \in DOMAIN b /\ k + (i - k) = i
      BY <1>2, <2>2
    <3>2. b[i - k] = s[i]
      BY <1>2, <3>1
    <3> QED BY <3>1, <3>2 DEF Range
  <2> QED BY <2>1, <2>2
<1>6. Range(s) = Range(a) \cup Range(b)
  BY <1>4, <1>5 DEF Range
<1> QED BY <1>1, <1>2, <1>6

\* Appending a chunk: the old elements stay, and the stream goes on after them.
LEMMA AppendedElements ==
  ASSUME TypeOK, NEW c \in Conn, NEW k \in 1..(sent[c] - read[c])
  PROVE  LET b == Appended(Chunk(c, k))  l == Len(m_buffer) IN
         /\ b \in Seq(Frag) /\ l \in Nat /\ Len(b) = l + k /\ DOMAIN b = 1..(l + k)
         /\ \A i \in 1..l : b[i] = m_buffer[i]
         /\ \A i \in 1..k : b[l + i] = [conn |-> c, n |-> read[c] + i]
<1>1. Chunk(c, k) \in Seq(Frag) /\ m_buffer \in Seq(Frag) /\ k \in Nat
  BY ChunkType, BoundsAssumption DEF TypeOK
<1>2. Len(Chunk(c, k)) = k /\ \A i \in 1..k : Chunk(c, k)[i] = [conn |-> c, n |-> read[c] + i]
  BY <1>1 DEF Chunk
<1> DEFINE b == m_buffer \o Chunk(c, k)
           l == Len(m_buffer)
<1>3. b \in Seq(Frag) /\ l \in Nat /\ Len(b) = l + k
  <2>1. l \in Nat
    BY <1>1
  <2>2. b \in Seq(Frag) /\ Len(b) = l + Len(Chunk(c, k))
    BY <1>1, ConcatProperties
  <2> QED BY <1>2, <2>1, <2>2
<1>4. \A i \in 1..l : b[i] = m_buffer[i]
  BY <1>1, <1>2
<1>5. \A i \in 1..k : b[l + i] = Chunk(c, k)[i]
  BY <1>1, <1>2
<1>6. DOMAIN b = 1..(l + k)
  BY <1>3
<1> QED BY <1>2, <1>3, <1>4, <1>5, <1>6 DEF Appended

-----------------------------------------------------------------------------
(* Order.  What is forwarded or buffered was read from a connection already *)
(* accepted, hence comes before anything the newest connection still sends.  *)

Seen(f) == f.conn <= accepted /\ f.n <= read[f.conn]

Bounded ==
  /\ \A c \in Conn : c > accepted => read[c] = 0
  /\ \A f \in Forwarded \cup Range(m_buffer) : Seen(f)

\* Whatever is buffered or forwarded is a fragment of some connection.
LEMMA FragmentsInUse ==
  ASSUME TypeOK
  PROVE  /\ \A i \in DOMAIN forwarded : forwarded[i] \in Seq(Frag) /\ Range(forwarded[i]) \subseteq Frag
         /\ Forwarded \subseteq Frag /\ Range(m_buffer) \subseteq Frag
         /\ \A f \in Frag : f.conn \in Conn /\ f.conn \in Nat /\ f.n \in Nat /\ f.n > 0
<1>1. \A s \in Seq(Frag) : Range(s) \subseteq Frag
  BY DEF Range
<1>2. \A i \in DOMAIN forwarded : forwarded[i] \in Seq(Frag)
  BY DEF TypeOK
<1>3. Forwarded \subseteq Frag /\ Range(m_buffer) \subseteq Frag
  BY <1>1, <1>2 DEF TypeOK, Forwarded
<1>4. \A f \in Frag : f.conn \in Conn /\ f.conn \in Nat /\ f.n \in Nat /\ f.n > 0
  BY BoundsAssumption DEF Frag, Conn
<1> QED BY <1>1, <1>2, <1>3, <1>4

\* What a turn of the loop does: the first k fragments leave as one packet.
CutAt(k) ==
  LET l == Len(m_buffer)
      last == Len(forwarded) + 1
      packet == forwarded'[last]
  IN
  /\ l \in Nat /\ DOMAIN m_buffer = 1..l
  /\ IsEnd(m_buffer[k]) /\ \A j \in 1..(k - 1) : ~IsEnd(m_buffer[j])
  /\ Len(m_buffer') = l - k /\ DOMAIN m_buffer' = 1..(l - k)
  /\ \A i \in 1..(l - k) : m_buffer'[i] = m_buffer[k + i]
  /\ last \in Nat /\ DOMAIN forwarded' = DOMAIN forwarded \cup {last}
  /\ \A i \in DOMAIN forwarded : i < last /\ i \in Nat /\ forwarded'[i] = forwarded[i]
  /\ Len(packet) = k /\ DOMAIN packet = 1..k
  /\ \A i \in 1..k : packet[i] = m_buffer[i]
  /\ Forwarded' = Forwarded \cup Range(packet)
  /\ Range(m_buffer) = Range(packet) \cup Range(m_buffer')
  /\ UNCHANGED <<accepted, m_socket, read, torn, dropped>>

\* A turn of the loop cuts the buffer at its first PACKET_END.
LEMMA CutEffect == ASSUME TypeOK, Cut PROVE \E k \in 1..Len(m_buffer) : CutAt(k)
<1>1. PICK k \in DOMAIN m_buffer :
        /\ IsEnd(m_buffer[k]) /\ \A j \in 1..(k - 1) : ~IsEnd(m_buffer[j])
        /\ forwarded' = Append(forwarded, SubSeq(m_buffer, 1, k))
        /\ m_buffer' = SubSeq(m_buffer, k + 1, Len(m_buffer))
  BY DEF Cut, Rest
<1> DEFINE last == Len(forwarded) + 1
           packet == SubSeq(m_buffer, 1, k)
<1>2. /\ m_buffer \in Seq(Frag) /\ forwarded \in Seq(Seq(Frag)) /\ k \in 1..Len(m_buffer)
      /\ Len(m_buffer) \in Nat /\ DOMAIN m_buffer = 1..Len(m_buffer)
  BY DEF TypeOK
<1>3. packet \in Seq(Frag)
  BY <1>2
<1>4. /\ DOMAIN forwarded' = 1..last /\ DOMAIN forwarded = 1..Len(forwarded)
      /\ last \in Nat /\ Len(forwarded) \in Nat
      /\ \A i \in 1..Len(forwarded) : forwarded'[i] = forwarded[i]
      /\ forwarded'[last] = packet
  BY <1>1, <1>2, <1>3
<1> HIDE DEF packet
<1>5. /\ DOMAIN forwarded' = DOMAIN forwarded \cup {last}
      /\ \A i \in DOMAIN forwarded : i < last /\ i \in Nat /\ forwarded'[i] = forwarded[i]
  BY <1>4
<1>6. Forwarded' = Forwarded \cup Range(packet)
  BY <1>4, <1>5 DEF Forwarded
<1>7. UNCHANGED <<accepted, m_socket, read, torn, dropped>>
  BY DEF Cut, sockets
<1>8. /\ Len(packet) = k /\ DOMAIN packet = 1..k
      /\ \A i \in 1..k : packet[i] = m_buffer[i]
  BY <1>2, CutSplits DEF packet
<1>9. /\ Len(m_buffer') = Len(m_buffer) - k /\ DOMAIN m_buffer' = 1..(Len(m_buffer) - k)
      /\ \A i \in 1..(Len(m_buffer) - k) : m_buffer'[i] = m_buffer[k + i]
      /\ Range(m_buffer) = Range(packet) \cup Range(m_buffer')
  BY <1>1, <1>2, CutSplits DEF packet
<1>10. CutAt(k)
  BY <1>1, <1>2, <1>4, <1>5, <1>6, <1>7, <1>8, <1>9 DEF CutAt
<1> QED BY <1>2, <1>10

\* What a read does: the buffer keeps, loses or appends.
Appends(c, k) ==
  LET l == Len(m_buffer) IN
  /\ c = m_socket /\ linked
  /\ m_buffer' \in Seq(Frag) /\ l \in Nat /\ Len(m_buffer') = l + k
  /\ DOMAIN m_buffer' = 1..(l + k)
  /\ \A i \in 1..l : m_buffer'[i] = m_buffer[i]
  /\ \A i \in 1..k : m_buffer'[l + i] = [conn |-> c, n |-> read[c] + i]
  /\ UNCHANGED torn

\* The fragment that the served connection brings next.
ToRead == [conn |-> m_socket, n |-> read[m_socket] + 1]

Reads(c, k) ==
  /\ Connected(c) /\ k \in 1..(sent[c] - read[c])
  /\ read' = [read EXCEPT ![c] = @ + k]
  /\ UNCHANGED <<accepted, m_socket, forwarded>>
  /\ \/ /\ c # m_socket \/ m_socket = Null
        /\ UNCHANGED <<m_buffer, torn>>
     \/ /\ m_socket # Null /\ m_buffer' = <<>>
        /\ torn' = IF IsEnd(ToRead') THEN torn \cup ({ToRead'} \cap Frag) ELSE torn
     \/ Appends(c, k)

\* dataReadyEvent keeps, clears or extends the buffer, and nothing else.
LEMMA ReadEffect ==
  ASSUME TypeOK, NEW c \in Conn, Read(c) PROVE \E k \in 1..MaxFrag : Reads(c, k)
<1>1. PICK k \in 1..MaxFrag : dataReadyEvent(c, k)
  BY DEF Read
<1>2. /\ Connected(c) /\ k \in 1..(sent[c] - read[c])
      /\ read' = [read EXCEPT ![c] = @ + k]
      /\ UNCHANGED <<accepted, m_socket, forwarded>>
  BY <1>1 DEF dataReadyEvent, sockets
<1>3. CASE m_socket = Null
  BY <1>1, <1>2, <1>3 DEF dataReadyEvent, Reads
<1>4. CASE m_socket # Null /\ ~linked
  BY <1>1, <1>2, <1>4 DEF dataReadyEvent, Reads, ToRead, sockets
<1>5. CASE m_socket # Null /\ linked /\ c # m_socket
  <2>1. m_buffer' = m_buffer \o <<>> /\ UNCHANGED torn
    BY <1>1, <1>5 DEF dataReadyEvent, Appended
  <2>2. m_buffer' = m_buffer
    BY <2>1, ConcatEmptySeq DEF TypeOK
  <2> QED BY <1>2, <1>5, <2>1, <2>2 DEF Reads
<1>6. CASE m_socket # Null /\ linked /\ c = m_socket
  <2>1. m_buffer' = Appended(Chunk(c, k)) /\ UNCHANGED torn
    BY <1>1, <1>6 DEF dataReadyEvent
  <2>2. Appends(c, k)
    BY <1>2, <1>6, <2>1, AppendedElements DEF Appends
  <2> QED BY <1>2, <2>2 DEF Reads
<1> QED BY <1>3, <1>4, <1>5, <1>6

\* Nothing enters the buffer, or leaves, that was not read from an accepted
\* connection.
LEMMA BoundedStep == ASSUME TypeOK, Sockets, Bounded, [Next]_vars PROVE Bounded'
<1> DEFINE Used == Forwarded \cup Range(m_buffer)
           After(f) == f.conn <= accepted' /\ f.n <= read'[f.conn]
<1>0. accepted \in Nat /\ read \in [Conn -> Nat]
  BY BoundsAssumption DEF TypeOK
<1>1. CASE Quiet
  BY <1>1 DEF Quiet, Bounded, Seen, Forwarded
<1>2. CASE newConnectionEvent
  <2>1. /\ accepted' = accepted + 1 /\ Used' = Used /\ read' = read
        /\ \A c \in Conn : c > accepted' => c > accepted
    BY <1>0, <1>2 DEF newConnectionEvent, stream, Forwarded, Conn
  <2>2. \A f \in Used : f.conn <= accepted' /\ f.n <= read[f.conn]
    BY <1>0, <2>1, FragmentsInUse DEF Bounded, Seen
  <2> QED BY <2>1, <2>2 DEF Bounded, Seen
<1>3. CASE Cut
  <2>1. Used' \subseteq Used /\ UNCHANGED <<accepted, read>>
    BY <1>3, CutEffect DEF CutAt
  <2> QED BY <2>1 DEF Bounded, Seen
<1>4. ASSUME NEW c \in Conn, Read(c) PROVE Bounded'
  <2>1. PICK k \in 1..MaxFrag : Reads(c, k)
    BY <1>4, ReadEffect
  <2>2. c <= accepted
    BY <1>0, <2>1 DEF Reads, Connected, Sockets, Conn
  <2>3. /\ accepted' = accepted /\ k \in Nat /\ read'[c] = read[c] + k
        /\ \A d \in Conn \ {c} : read'[d] = read[d]
    BY <1>0, <2>1, BoundsAssumption DEF Reads
  <2>4. \A d \in Conn : d > accepted' => read'[d] = 0
    BY <2>2, <2>3, <1>0 DEF Bounded, Conn
  <2>5. \A f \in Frag : Seen(f) => After(f)
    BY <1>0, <2>3, FragmentsInUse DEF Seen
  <2>6. \A f \in Forwarded' : After(f)
    BY <2>1, <2>5, FragmentsInUse DEF Reads, Forwarded, Bounded
  <2>7. \A f \in Range(m_buffer') : After(f)
    <3>1. CASE m_buffer' = m_buffer
      BY <3>1, <2>5, FragmentsInUse DEF Bounded
    <3>2. CASE m_buffer' = <<>>
      BY <3>2 DEF Range
    <3>3. CASE Appends(c, k)
      <4>1. \A i \in 1..Len(m_buffer) : After(m_buffer'[i])
        BY <3>3, <2>5, FragmentsInUse DEF Appends, Bounded, Range, TypeOK
      <4>2. \A i \in 1..k : After([conn |-> c, n |-> read[c] + i])
        BY <2>2, <2>3, <1>0 DEF Seen
      <4>3. \A i \in 1..(Len(m_buffer) + k) :
               i \in 1..Len(m_buffer) \/ \E j \in 1..k : i = Len(m_buffer) + j
        <5>1. Len(m_buffer) \in Nat /\ k \in Nat
          BY <2>3, <3>3 DEF Appends
        <5> TAKE i \in 1..(Len(m_buffer) + k)
        <5>2. CASE i > Len(m_buffer)
          <6>1. i - Len(m_buffer) \in 1..k /\ i = Len(m_buffer) + (i - Len(m_buffer))
            BY <5>1, <5>2
          <6> QED BY <6>1
        <5> QED BY <5>1, <5>2
      <4> HIDE DEF After
      <4>4. \A i \in 1..k : After(m_buffer'[Len(m_buffer) + i])
        BY <3>3, <4>2 DEF Appends
      <4>5. \A i \in DOMAIN m_buffer' : After(m_buffer'[i])
        BY <3>3, <4>1, <4>3, <4>4 DEF Appends
      <4> QED BY <4>5 DEF Range
    <3> QED BY <2>1, <3>1, <3>2, <3>3 DEF Reads
  <2> QED BY <2>4, <2>6, <2>7 DEF Bounded, Seen
<1> QED BY <1>1, <1>2, <1>3, <1>4, StreamSteps

\* The four parts of InOrderOnce: in the buffer, in a packet, from packet to
\* packet, and from the packets to the buffer.
BufferInOrder == \A i, j \in DOMAIN m_buffer : i < j => Before(m_buffer[i], m_buffer[j])
PacketInOrder == \A i \in DOMAIN forwarded : \A j, k \in DOMAIN forwarded[i] :
  j < k => Before(forwarded[i][j], forwarded[i][k])
PacketsInOrder == \A i, j \in DOMAIN forwarded : i < j =>
  \A a \in Range(forwarded[i]), b \in Range(forwarded[j]) : Before(a, b)
BufferIsLater == \A a \in Forwarded, b \in Range(m_buffer) : Before(a, b)

\* Moving a prefix of the buffer to forwarded keeps all four orders.
LEMMA CutKeepsOrder ==
  ASSUME TypeOK, BufferInOrder, PacketInOrder, PacketsInOrder, BufferIsLater, Cut
  PROVE  BufferInOrder' /\ PacketInOrder' /\ PacketsInOrder' /\ BufferIsLater'
<1> DEFINE l == Len(m_buffer)
           last == Len(forwarded) + 1
<1>1. PICK k \in 1..l : CutAt(k)
  BY CutEffect
<1>2. /\ l \in Nat /\ k \in Nat /\ DOMAIN m_buffer = 1..l
      /\ DOMAIN m_buffer' = 1..(l - k) /\ Range(m_buffer') \subseteq Range(m_buffer)
      /\ \A i \in 1..(l - k) : m_buffer'[i] = m_buffer[k + i]
  BY <1>1 DEF CutAt
<1>3. /\ last \in Nat /\ DOMAIN forwarded' = DOMAIN forwarded \cup {last}
      /\ \A i \in DOMAIN forwarded : i < last /\ i \in Nat /\ forwarded'[i] = forwarded[i]
  BY <1>1 DEF CutAt
<1>4. /\ DOMAIN forwarded'[last] = 1..k
      /\ \A i \in 1..k : forwarded'[last][i] = m_buffer[i]
      /\ Forwarded' = Forwarded \cup Range(forwarded'[last])
      /\ Range(forwarded'[last]) \subseteq Range(m_buffer)
  BY <1>1 DEF CutAt
<1> HIDE DEF l, last
<1>5. BufferInOrder'
  <2>1. \A i \in 1..(l - k) : k + i \in 1..l
    BY <1>2
  <2>2. \A i, j \in 1..(l - k) : i < j => Before(m_buffer[k + i], m_buffer[k + j])
    BY <1>2, <2>1 DEF BufferInOrder
  <2> QED BY <1>2, <2>2 DEF BufferInOrder
<1>6. PacketInOrder'
  <2>1. \A i, j \in 1..k : i < j => Before(m_buffer[i], m_buffer[j])
    BY <1>2 DEF BufferInOrder
  <2>2. \A i, j \in DOMAIN forwarded'[last] : i < j => Before(forwarded'[last][i], forwarded'[last][j])
    BY <1>4, <2>1
  <2> QED BY <1>3, <2>2 DEF PacketInOrder
<1>7. PacketsInOrder'
  <2> SUFFICES ASSUME NEW i \in DOMAIN forwarded', NEW j \in DOMAIN forwarded', i < j,
                      NEW a \in Range(forwarded'[i]), NEW b \in Range(forwarded'[j])
               PROVE  Before(a, b)
    BY DEF PacketsInOrder
  <2>1. i \in DOMAIN forwarded /\ forwarded'[i] = forwarded[i]
    BY <1>3
  <2>2. CASE j = last
    <3>1. b \in Range(m_buffer)
      BY <1>4, <2>2
    <3>2. a \in Forwarded
      BY <2>1 DEF Forwarded
    <3> QED BY <3>1, <3>2 DEF BufferIsLater
  <2>3. CASE j # last
    <3>1. j \in DOMAIN forwarded /\ forwarded'[j] = forwarded[j]
      BY <1>3, <2>3
    <3> QED BY <2>1, <3>1 DEF PacketsInOrder
  <2> QED BY <2>2, <2>3
<1>8. BufferIsLater'
  <2> SUFFICES ASSUME NEW a \in Forwarded', NEW b \in Range(m_buffer') PROVE Before(a, b)
    BY DEF BufferIsLater
  <2>1. PICK j \in 1..(l - k) : b = m_buffer[k + j]
    BY <1>2 DEF Range
  <2>2. k + j \in 1..l /\ b \in Range(m_buffer)
    BY <1>2
  <2>3. CASE a \in Forwarded
    BY <2>2, <2>3 DEF BufferIsLater
  <2>4. CASE a \notin Forwarded
    <3>1. PICK i \in 1..k : a = m_buffer[i]
      BY <1>4, <2>4 DEF Range
    <3> QED BY <1>2, <2>1, <2>2, <3>1 DEF BufferInOrder
  <2> QED BY <2>3, <2>4
<1> QED BY <1>5, <1>6, <1>7, <1>8

\* What is read comes after all that was read before: it is of the newest
\* connection, and beyond what that one had delivered.
LEMMA ReadKeepsOrder ==
  ASSUME TypeOK, Sockets, Bounded, NEW c \in Conn, Read(c),
         BufferInOrder, PacketInOrder, PacketsInOrder, BufferIsLater
  PROVE  BufferInOrder' /\ PacketInOrder' /\ PacketsInOrder' /\ BufferIsLater'
<1>1. PICK k \in 1..MaxFrag : Reads(c, k)
  BY ReadEffect
<1>2. PacketInOrder' /\ PacketsInOrder' /\ Forwarded' = Forwarded
  BY <1>1 DEF Reads, PacketInOrder, PacketsInOrder, Forwarded
<1>3. CASE m_buffer' = m_buffer
  BY <1>2, <1>3 DEF BufferInOrder, BufferIsLater
<1>4. CASE m_buffer' = <<>>
  BY <1>2, <1>4 DEF BufferInOrder, BufferIsLater, Range
<1>5. CASE Appends(c, k)
  <2> DEFINE l == Len(m_buffer)
             New(i) == [conn |-> c, n |-> read[c] + i]
  <2>1. /\ l \in Nat /\ k \in Nat /\ read[c] \in Nat
        /\ DOMAIN m_buffer = 1..l /\ DOMAIN m_buffer' = 1..(l + k)
    BY <1>5, BoundsAssumption DEF Appends, TypeOK
  <2>2. \A f \in Forwarded \cup Range(m_buffer), i \in 1..k : Before(f, New(i))
    <3>1. c = accepted
      BY <1>5, BoundsAssumption DEF Appends, Sockets, SoleSession, Conn, Null
    <3> TAKE f \in Forwarded \cup Range(m_buffer), i \in 1..k
    <3>2. f.conn <= c /\ f.n <= read[f.conn] /\ f.conn \in Nat /\ f.n \in Nat /\ c \in Nat
      BY <3>1, FragmentsInUse, BoundsAssumption DEF Bounded, Seen, Conn
    <3>3. CASE f.conn = c
      BY <2>1, <3>2, <3>3 DEF Before
    <3>4. CASE f.conn # c
      BY <3>2, <3>4 DEF Before
    <3> QED BY <3>3, <3>4
  <2>3. \A i \in 1..(l + k) : \/ i \in 1..l /\ m_buffer'[i] = m_buffer[i] /\ m_buffer[i] \in Range(m_buffer)
                              \/ i - l \in 1..k /\ i > l /\ m_buffer'[i] = New(i - l)
    <3> TAKE i \in 1..(l + k)
    <3>1. CASE i <= l
      BY <1>5, <2>1, <3>1 DEF Appends, Range
    <3>2. CASE i > l
      <4>1. i - l \in 1..k /\ l + (i - l) = i
        BY <2>1, <3>2
      <4> QED BY <1>5, <3>2, <4>1 DEF Appends
    <3> QED BY <2>1, <3>1, <3>2
  <2>4. BufferInOrder'
    <3> SUFFICES ASSUME NEW i \in 1..(l + k), NEW j \in 1..(l + k), i < j
                 PROVE  Before(m_buffer'[i], m_buffer'[j])
      BY <2>1 DEF BufferInOrder
    <3>1. CASE j <= l
      BY <2>1, <2>3, <3>1 DEF BufferInOrder
    <3>2. CASE i <= l /\ j > l
      BY <2>1, <2>2, <2>3, <3>2
    <3>3. CASE i > l
      <4>1. m_buffer'[i] = New(i - l) /\ m_buffer'[j] = New(j - l)
        BY <2>1, <2>3, <3>3
      <4> QED BY <2>1, <4>1 DEF Before
    <3> QED BY <2>1, <3>1, <3>2, <3>3
  <2>5. BufferIsLater'
    <3> SUFFICES ASSUME NEW a \in Forwarded, NEW b \in Range(m_buffer') PROVE Before(a, b)
      BY <1>2 DEF BufferIsLater
    <3>1. PICK i \in 1..(l + k) : b = m_buffer'[i]
      BY <2>1 DEF Range
    <3>2. b \in Range(m_buffer) \/ \E j \in 1..k : b = New(j)
      BY <2>3, <3>1
    <3> QED BY <2>2, <3>2 DEF BufferIsLater
  <2> QED BY <1>2, <2>4, <2>5
<1> QED BY <1>1, <1>3, <1>4, <1>5 DEF Reads

\* Every step keeps the order of the bytes.
LEMMA OrderStep ==
  ASSUME TypeOK, Sockets, Bounded, InOrderOnce, [Next]_vars
  PROVE  InOrderOnce'
<1> DEFINE Ordered == BufferInOrder /\ PacketInOrder /\ PacketsInOrder /\ BufferIsLater
<1>1. BufferInOrder /\ PacketInOrder /\ PacketsInOrder /\ BufferIsLater
  BY DEF InOrderOnce, BufferInOrder, PacketInOrder, PacketsInOrder, BufferIsLater
<1>2. ASSUME Quiet \/ newConnectionEvent PROVE Ordered'
  <2>1. UNCHANGED <<m_buffer, forwarded>>
    BY <1>2 DEF Quiet, newConnectionEvent, stream
  <2> QED
    BY <1>1, <2>1 DEF BufferInOrder, PacketInOrder, PacketsInOrder, BufferIsLater, Forwarded
<1>3. ASSUME Cut PROVE Ordered'
  BY <1>1, <1>3, CutKeepsOrder
<1>4. ASSUME NEW c \in Conn, Read(c) PROVE Ordered'
  BY <1>1, <1>4, ReadKeepsOrder
<1>5. Ordered'
  BY <1>2, <1>3, <1>4, StreamSteps
<1>6. BufferInOrder' /\ PacketInOrder' /\ PacketsInOrder' /\ BufferIsLater'
  BY <1>5
<1> QED
  BY <1>6 DEF InOrderOnce, BufferInOrder, PacketInOrder, PacketsInOrder, BufferIsLater

\* Bytes leave in the order the agents sent them, each once, whatever was
\* dropped, superseded or left in the buffer on the way.
THEOREM OrderKept == Spec => []InOrderOnce
<1>1. ASSUME Init PROVE Bounded /\ InOrderOnce
  <2>1. forwarded = <<>> /\ m_buffer = <<>> /\ \A c \in Conn : read[c] = 0
    BY <1>1 DEF Init
  <2>2. Range(m_buffer) = {} /\ Forwarded = {} /\ DOMAIN m_buffer = {} /\ DOMAIN forwarded = {}
    BY <2>1 DEF Range, Forwarded
  <2> QED BY <2>1, <2>2 DEF Bounded, InOrderOnce
<1>2. TypeOK /\ Sockets /\ [Next]_vars => Sockets'
  BY SocketsStep
<1>3. TypeOK /\ Sockets /\ Bounded /\ [Next]_vars => Bounded'
  BY BoundedStep
<1>4. TypeOK /\ Sockets /\ Bounded /\ InOrderOnce /\ [Next]_vars => InOrderOnce'
  BY OrderStep
<1> QED BY <1>1, <1>2, <1>3, <1>4, SocketsInit, TypeCorrect, PTL DEF Spec

-----------------------------------------------------------------------------
(* Integrity.  A gap in the stream is always marked: two fragments that are *)
(* neighbours in the buffer, and the last one and the one still to be read,  *)
(* belong together, or torn holds the second.                               *)
Opens(f) == ~IsEnd(f) \/ f \in torn
Fits(a, b) == \/ b \in torn
              \/ IF IsEnd(a) THEN ~IsEnd(b) ELSE b = [conn |-> a.conn, n |-> a.n + 1]

Framed ==
  /\ m_buffer # <<>> => Opens(m_buffer[1])
  /\ \A i \in 1..(Len(m_buffer) - 1) : Fits(m_buffer[i], m_buffer[i + 1])
  /\ m_socket # Null /\ read[m_socket] < MaxFrag =>
       IF m_buffer = <<>> THEN Opens(ToRead) ELSE Fits(m_buffer[Len(m_buffer)], ToRead)

\* A new connection that finds half a packet in the buffer tears the stream there.
LEMMA NewConnectionKeepsFrames ==
  ASSUME TypeOK, Sockets, Bounded, Framed, newConnectionEvent PROVE Framed'
<1>1. /\ UNCHANGED <<m_buffer, read>> /\ m_socket' = accepted + 1 /\ accepted + 1 \in Conn
      /\ torn \subseteq torn' /\ accepted \in Nat /\ m_buffer \in Seq(Frag)
  BY BoundsAssumption DEF newConnectionEvent, stream, HasPendingConnection, TypeOK, Conn
<1>2. ToRead' = [conn |-> accepted + 1, n |-> 1] /\ ~IsEnd(ToRead')
  BY <1>1 DEF ToRead, Bounded, IsEnd
<1>3. /\ m_buffer # <<>> => Opens(m_buffer[1])'
      /\ \A i \in 1..(Len(m_buffer) - 1) : Fits(m_buffer[i], m_buffer[i + 1])'
  BY <1>1 DEF Framed, Opens, Fits
<1>4. ASSUME m_buffer # <<>>, read[accepted + 1] < MaxFrag
      PROVE  Fits(m_buffer[Len(m_buffer)], ToRead)'
  <2>1. CASE IsEnd(m_buffer[Len(m_buffer)])
    BY <1>1, <1>2, <2>1 DEF Fits
  <2>2. CASE ~IsEnd(m_buffer[Len(m_buffer)])
    <3>1. ToRead' \in Frag
      BY <1>1, <1>2, <1>4, BoundsAssumption DEF Frag, Bounded
    <3>2. ToRead' \in torn'
      BY <1>2, <1>4, <2>2, <3>1 DEF newConnectionEvent
    <3> QED BY <3>2 DEF Fits
  <2> QED BY <2>1, <2>2
<1> QED BY <1>1, <1>2, <1>3, <1>4 DEF Framed, Opens

\* Fragments alternate along a connection, hence successors fit.
LEMMA Successors ==
  ASSUME NEW n \in Nat, NEW c
  PROVE  /\ IsEnd([conn |-> c, n |-> n + 1]) <=> ~IsEnd([conn |-> c, n |-> n])
         /\ Fits([conn |-> c, n |-> n], [conn |-> c, n |-> n + 1])
BY DEF IsEnd, Fits

\* The packet cut is whole or begins at a tear, and the rest begins a packet.
LEMMA CutKeepsFrames ==
  ASSUME TypeOK, TypeOK', Framed, FrameIntegrity, Cut PROVE Framed' /\ FrameIntegrity'
<1> DEFINE l == Len(m_buffer)
           last == Len(forwarded) + 1
           packet == forwarded'[last]
<1>1. PICK k \in 1..l : CutAt(k)
  BY CutEffect
<1>2. /\ l \in Nat /\ k \in Nat /\ k >= 1 /\ k <= l /\ DOMAIN m_buffer = 1..l
      /\ m_buffer \in Seq(Frag) /\ m_buffer # <<>> /\ IsEnd(m_buffer[k])
      /\ \A j \in 1..(k - 1) : ~IsEnd(m_buffer[j])
      /\ m_buffer' \in Seq(Frag) /\ Len(m_buffer') = l - k
      /\ \A i \in 1..(l - k) : m_buffer'[i] = m_buffer[k + i]
      /\ UNCHANGED <<m_socket, read, torn>>
  BY <1>1 DEF CutAt, TypeOK
<1>3. m_buffer' = <<>> <=> k = l
  <2>1. m_buffer' = <<>> <=> Len(m_buffer') = 0
    BY <1>2, EmptySeq
  <2>2. l \in Nat /\ k \in Nat /\ Len(m_buffer') = l - k
    BY <1>2
  <2> HIDE DEF l
  <2> QED BY <2>1, <2>2
<1>4. \A i \in 1..(l - 1) : Fits(m_buffer[i], m_buffer[i + 1])
  BY DEF Framed
<1>5. m_buffer' # <<>> => Opens(m_buffer'[1])
  <2> SUFFICES ASSUME k < l PROVE Opens(m_buffer[k + 1])
    <3>1. k < l => 1 \in 1..(l - k)
      BY <1>2
    <3>2. k < l => m_buffer'[1] = m_buffer[k + 1]
      BY <1>2, <3>1
    <3>3. m_buffer' # <<>> => k < l
      <4>1. l \in Nat /\ k \in Nat /\ k <= l
        BY <1>2
      <4> HIDE DEF l
      <4> QED BY <1>3, <4>1
    <3> QED BY <3>2, <3>3
  <2>1. Fits(m_buffer[k], m_buffer[k + 1])
    BY <1>2, <1>4
  <2> QED BY <1>2, <2>1 DEF Fits, Opens
<1>6. \A i \in 1..(Len(m_buffer') - 1) : Fits(m_buffer'[i], m_buffer'[i + 1])
  <2> TAKE i \in 1..(Len(m_buffer') - 1)
  <2>1. /\ k + i \in 1..(l - 1) /\ (k + i) + 1 = k + (i + 1)
        /\ i \in 1..(l - k) /\ i + 1 \in 1..(l - k)
    BY <1>2
  <2>2. Fits(m_buffer[k + i], m_buffer[k + (i + 1)])
    BY <1>4, <2>1
  <2> QED BY <1>2, <2>1, <2>2
<1>7. ASSUME m_socket # Null, read[m_socket] < MaxFrag
      PROVE  IF m_buffer' = <<>> THEN Opens(ToRead) ELSE Fits(m_buffer'[Len(m_buffer')], ToRead)
  <2>1. Fits(m_buffer[l], ToRead)
    BY <1>2, <1>7 DEF Framed
  <2>2. CASE k = l
    BY <1>2, <1>3, <2>1, <2>2 DEF Fits, Opens
  <2>3. CASE k # l
    <3>1. m_buffer'[Len(m_buffer')] = m_buffer[l]
      <4>1. l - k \in 1..(l - k) /\ k + (l - k) = l
        <5>1. l \in Nat /\ k \in Nat /\ k <= l
          BY <1>2
        <5> HIDE DEF l
        <5> QED BY <2>3, <5>1
      <4> QED BY <1>2, <4>1
    <3> QED BY <1>3, <2>1, <2>3, <3>1
  <2> QED BY <2>2, <2>3
<1>8. Framed'
  BY <1>2, <1>5, <1>6, <1>7 DEF Framed, Opens, Fits, ToRead
<1>9. /\ Len(packet) = k /\ DOMAIN packet = 1..k
      /\ \A i \in 1..k : packet[i] = m_buffer[i]
  BY <1>1 DEF CutAt
<1> HIDE DEF packet
<1>10. Whole(packet) \/ Range(packet) \cap torn # {}
  <2>1. CASE m_buffer[1] \in torn
    <3>1. packet[1] \in Range(packet) /\ packet[1] = m_buffer[1]
      <4>1. 1 \in 1..k
        BY <1>2
      <4> QED BY <1>9, <4>1 DEF Range
    <3> QED BY <2>1, <3>1
  <2>2. CASE m_buffer[1] \notin torn
    <3>1. ~IsEnd(m_buffer[1])
      BY <1>2, <2>2 DEF Framed, Opens
    <3>2. k >= 2 /\ 1 \in 1..(l - 1) /\ 1 \in 1..k /\ 2 \in 1..k
      BY <1>2, <3>1
    <3>3. Fits(m_buffer[1], m_buffer[2])
      BY <1>4, <3>2
    <3>4. CASE m_buffer[2] \in torn
      <4>1. packet[2] \in Range(packet) /\ packet[2] = m_buffer[2]
        BY <1>9, <3>2 DEF Range
      <4> QED BY <3>4, <4>1
    <3>5. CASE m_buffer[2] \notin torn
      <4>1. m_buffer[2] = [conn |-> m_buffer[1].conn, n |-> m_buffer[1].n + 1]
        BY <3>1, <3>3, <3>5 DEF Fits
      <4>2. m_buffer[1] \in Frag
        BY <1>2, <3>2
      <4>3. IsEnd(m_buffer[2])
        BY <3>1, <4>1, <4>2, FragmentsInUse DEF IsEnd
      <4>4. k = 2
        BY <1>2, <3>2, <4>3
      <4>5. Whole(packet)
        BY <1>9, <3>1, <3>2, <4>1, <4>4 DEF Whole
      <4> QED BY <4>5
    <3> QED BY <3>4, <3>5
  <2> QED BY <2>1, <2>2
<1>11. FrameIntegrity'
  <2>1. /\ DOMAIN forwarded' = DOMAIN forwarded \cup {last}
        /\ \A i \in DOMAIN forwarded : forwarded'[i] = forwarded[i]
    BY <1>1 DEF CutAt
  <2> HIDE DEF last
  <2> QED BY <1>2, <1>10, <2>1 DEF FrameIntegrity, packet
<1> QED BY <1>8, <1>11

\* Reading goes on where the buffer ends, or where torn has it.
LEMMA ReadKeepsFrames ==
  ASSUME TypeOK, TypeOK', Framed, NEW c \in Conn, Read(c)
  PROVE  Framed' /\ torn \subseteq torn'
<1>1. PICK k \in 1..MaxFrag : Reads(c, k)
  BY ReadEffect
<1>2. /\ torn \subseteq torn' /\ m_socket' = m_socket /\ m_socket \in Conn \cup {Null}
      /\ k \in Nat /\ k >= 1 /\ read[c] \in Nat /\ read[c] + k <= MaxFrag
      /\ read' = [read EXCEPT ![c] = @ + k] /\ read \in [Conn -> Nat]
  BY <1>1, BoundsAssumption DEF Reads, Appends, TypeOK
<1>3. CASE (c # m_socket \/ m_socket = Null) /\ UNCHANGED <<m_buffer, torn>>
  <2>1. m_socket # Null => ToRead' = ToRead /\ read'[m_socket] = read[m_socket]
    BY <1>2, <1>3 DEF ToRead
  <2> QED BY <1>2, <1>3, <2>1 DEF Framed, Opens, Fits
<1>4. CASE /\ m_socket # Null /\ m_buffer' = <<>>
           /\ torn' = IF IsEnd(ToRead') THEN torn \cup ({ToRead'} \cap Frag) ELSE torn
  <2>1. read'[m_socket] < MaxFrag => ToRead' \in Frag
    BY <1>2, <1>4, BoundsAssumption DEF ToRead, Frag, TypeOK
  <2>2. read'[m_socket] < MaxFrag => Opens(ToRead)'
    BY <1>4, <2>1 DEF Opens
  <2>3. 1..(Len(m_buffer') - 1) = {}
    BY <1>4
  <2> QED BY <1>2, <1>4, <2>2, <2>3 DEF Framed
<1>5. CASE Appends(c, k)
  <2> DEFINE l == Len(m_buffer)
             New(i) == [conn |-> c, n |-> read[c] + i]
  <2>1. /\ l \in Nat /\ Len(m_buffer') = l + k /\ UNCHANGED torn
        /\ \A i \in 1..l : m_buffer'[i] = m_buffer[i]
        /\ \A i \in 1..k : m_buffer'[l + i] = New(i)
        /\ m_socket = c /\ m_socket # Null
        /\ m_buffer \in Seq(Frag) /\ m_buffer' # <<>>
    <3>1. /\ l \in Nat /\ Len(m_buffer') = l + k /\ UNCHANGED torn /\ m_socket = c
          /\ \A i \in 1..l : m_buffer'[i] = m_buffer[i]
          /\ \A i \in 1..k : m_buffer'[l + i] = New(i)
      BY <1>5 DEF Appends
    <3>2. m_buffer \in Seq(Frag) /\ m_buffer' # <<>>
      BY <1>2, <3>1, EmptySeq DEF TypeOK
    <3>3. c # Null
      BY BoundsAssumption DEF Conn, Null
    <3> QED BY <3>1, <3>2, <3>3
  <2>2. /\ ToRead = New(1) /\ read[m_socket] < MaxFrag
        /\ ToRead' = New(k + 1)
    <3>1. read[c] < MaxFrag
      BY <1>2, BoundsAssumption
    <3>2. read'[c] + 1 = read[c] + (k + 1)
      BY <1>2
    <3> QED BY <1>2, <2>1, <3>1, <3>2 DEF ToRead
  <2>3. \A i \in 1..k : Fits(New(i), New(i + 1))
    BY <1>2, Successors
  <2>4. m_buffer = <<>> <=> l = 0
    BY <2>1
  <2> HIDE DEF New
  <2>5. Opens(m_buffer'[1])
    <3>1. CASE l = 0
      BY <1>2, <2>1, <2>2, <2>4, <3>1 DEF Framed
    <3>2. CASE l # 0
      BY <2>1, <2>4, <3>2 DEF Framed
    <3> QED BY <3>1, <3>2
  <2>6. \A i \in 1..(l + k - 1) : Fits(m_buffer'[i], m_buffer'[i + 1])
    <3> TAKE i \in 1..(l + k - 1)
    <3>1. CASE i < l
      <4>1. i \in 1..(l - 1) /\ i \in 1..l /\ i + 1 \in 1..l
        BY <2>1, <3>1
      <4>2. Fits(m_buffer[i], m_buffer[i + 1])
        BY <4>1 DEF Framed
      <4> QED BY <2>1, <4>1, <4>2
    <3>2. CASE i = l
      <4>1. l \in 1..l /\ 1 \in 1..k /\ i + 1 = l + 1 /\ l # 0
        BY <1>2, <2>1, <3>2
      <4>2. Fits(m_buffer[l], New(1))
        BY <2>1, <2>2, <2>4, <4>1 DEF Framed
      <4> QED BY <2>1, <3>2, <4>1, <4>2
    <3>3. CASE i > l
      <4>1. /\ i - l \in 1..k /\ i - l + 1 \in 1..k
            /\ i = l + (i - l) /\ i + 1 = l + (i - l + 1)
        BY <1>2, <2>1, <3>3
      <4>2. m_buffer'[i] = New(i - l) /\ m_buffer'[i + 1] = New(i - l + 1)
        BY <2>1, <4>1
      <4> QED BY <2>3, <4>1, <4>2
    <3> QED BY <2>1, <3>1, <3>2, <3>3
  <2>7. Fits(m_buffer'[l + k], ToRead')
    <3>1. k \in 1..k /\ m_buffer'[l + k] = New(k)
      BY <1>2, <2>1
    <3> QED BY <2>2, <2>3, <3>1
  <2> QED BY <1>2, <2>1, <2>5, <2>6, <2>7 DEF Framed, Opens, Fits
<1> QED BY <1>1, <1>2, <1>3, <1>4, <1>5 DEF Reads

\* Every step keeps the frames.
LEMMA FramesStep ==
  ASSUME TypeOK, TypeOK', Sockets, Bounded, Framed, FrameIntegrity, [Next]_vars
  PROVE  Framed' /\ FrameIntegrity'
<1>1. ASSUME UNCHANGED forwarded, torn \subseteq torn' PROVE FrameIntegrity'
  BY <1>1 DEF FrameIntegrity
<1>2. CASE Quiet
  <2>1. Framed'
    BY <1>2 DEF Quiet, Framed, Opens, Fits, ToRead
  <2> QED BY <1>1, <1>2, <2>1 DEF Quiet
<1>3. CASE newConnectionEvent
  <2>1. UNCHANGED forwarded /\ torn \subseteq torn'
    BY <1>3 DEF newConnectionEvent
  <2> QED BY <1>1, <1>3, <2>1, NewConnectionKeepsFrames
<1>4. CASE Cut
  BY <1>4, CutKeepsFrames
<1>5. ASSUME NEW c \in Conn, Read(c) PROVE Framed' /\ FrameIntegrity'
  <2>1. UNCHANGED forwarded
    BY <1>5 DEF Read, dataReadyEvent
  <2> QED BY <1>1, <1>5, <2>1, ReadKeepsFrames
<1> QED BY <1>2, <1>3, <1>4, <1>5, StreamSteps

\* Every packet that goes out is one packet of one agent, except the one that
\* holds the fragment after a tear: one damaged packet per tear, then order again.
THEOREM FramesIntact == Spec => []FrameIntegrity
<1>1. ASSUME Init PROVE Bounded /\ Framed /\ FrameIntegrity
  <2>1. /\ forwarded = <<>> /\ m_buffer = <<>> /\ m_socket = Null
        /\ \A c \in Conn : read[c] = 0
    BY <1>1 DEF Init
  <2>2. /\ Range(m_buffer) = {} /\ Forwarded = {} /\ DOMAIN forwarded = {}
        /\ 1..(Len(m_buffer) - 1) = {}
    BY <2>1 DEF Range, Forwarded
  <2> QED BY <2>1, <2>2 DEF Bounded, Framed, FrameIntegrity
<1>2. TypeOK /\ Sockets /\ [Next]_vars => Sockets'
  BY SocketsStep
<1>3. TypeOK /\ Sockets /\ Bounded /\ [Next]_vars => Bounded'
  BY BoundedStep
<1>4. TypeOK /\ TypeOK' /\ Sockets /\ Bounded /\ Framed /\ FrameIntegrity /\ [Next]_vars
        => Framed' /\ FrameIntegrity'
  BY FramesStep
<1> QED BY <1>1, <1>2, <1>3, <1>4, SocketsInit, TypeCorrect, PTL DEF Spec
-----------------------------------------------------------------------------
(* Conservation.  What leaves the buffer uncut is in dropped, and what a read *)
(* brings is new: it lies beyond what the connection had delivered before.   *)

Held == Forwarded \cup Range(m_buffer)
Conserved == Received = Held \cup dropped /\ Held \cap dropped = {}

\* A read adds its chunk to what was received, and none of it was there before.
LEMMA ReadReceives ==
  ASSUME TypeOK, NEW c \in Conn, NEW k \in 1..(sent[c] - read[c]),
         read' = [read EXCEPT ![c] = @ + k]
  PROVE  /\ Received' = Received \cup Range(Chunk(c, k))
         /\ Received \cap Range(Chunk(c, k)) = {}
<1>1. /\ read \in [Conn -> Nat] /\ read[c] \in Nat /\ k \in Nat
      /\ read'[c] = read[c] + k /\ \A d \in Conn \ {c} : read'[d] = read[d]
  BY BoundsAssumption DEF TypeOK
<1>2. Range(Chunk(c, k)) = {[conn |-> c, n |-> read[c] + i] : i \in 1..k}
  BY DEF Chunk, Range
<1>3. {[conn |-> c, n |-> n] : n \in 1..(read[c] + k)}
        = {[conn |-> c, n |-> n] : n \in 1..read[c]} \cup Range(Chunk(c, k))
  <2>1. \A n \in (read[c] + 1)..(read[c] + k) : n - read[c] \in 1..k /\ n = read[c] + (n - read[c])
    BY <1>1
  <2>2. 1..(read[c] + k) = 1..read[c] \cup (read[c] + 1)..(read[c] + k)
    BY <1>1
  <2>3. (read[c] + 1)..(read[c] + k) = {read[c] + i : i \in 1..k}
    BY <1>1, <2>1
  <2> QED BY <1>2, <2>2, <2>3
<1>4. Received' = Received \cup Range(Chunk(c, k))
  BY <1>1, <1>3 DEF Received
<1>5. \A f \in Received : f.conn \in Conn /\ f.n \in 1..read[f.conn]
  BY DEF Received
<1>6. \A f \in Range(Chunk(c, k)) : f.conn = c /\ f.n > read[c]
  BY <1>1, <1>2
<1> QED BY <1>1, <1>4, <1>5, <1>6

\* Every step conserves the fragments.
LEMMA ConservedStep ==
  ASSUME TypeOK, Conserved, Forwarded \cap Range(m_buffer) = {}, [Next]_vars
  PROVE  Conserved'
<1>1. CASE Quiet \/ newConnectionEvent
  <2>1. UNCHANGED <<read, m_buffer, forwarded, dropped>>
    BY <1>1 DEF Quiet, newConnectionEvent, stream
  <2> QED BY <2>1 DEF Conserved, Received, Held, Forwarded
<1>2. CASE Cut
  <2>1. PICK k \in 1..Len(m_buffer) : CutAt(k)
    BY <1>2, CutEffect
  <2>2. Held' = Held /\ UNCHANGED <<read, dropped>>
    BY <2>1 DEF CutAt, Held
  <2> QED BY <2>2 DEF Conserved, Received
<1>3. ASSUME NEW c \in Conn, Read(c) PROVE Conserved'
  <2>1. PICK k \in 1..MaxFrag : dataReadyEvent(c, k)
    BY <1>3 DEF Read
  <2> DEFINE chunk == Chunk(c, k)
             got == IF c = m_socket THEN chunk ELSE <<>>
             lost == IF c = m_socket THEN {} ELSE Range(chunk)
  <2>2. /\ k \in 1..(sent[c] - read[c]) /\ read' = [read EXCEPT ![c] = @ + k]
        /\ Forwarded' = Forwarded
    BY <2>1 DEF dataReadyEvent, Forwarded
  <2>3. Received' = Received \cup Range(chunk) /\ Received \cap Range(chunk) = {}
    BY <2>2, ReadReceives
  <2>4. Range(Appended(got)) = Range(m_buffer) \cup Range(got) /\ Range(got) \cup lost = Range(chunk)
    <3>1. chunk \in Seq(Frag) /\ m_buffer \in Seq(Frag) /\ <<>> \in Seq(Frag)
      BY <2>2, ChunkType, EmptySeq DEF TypeOK
    <3>2. got \in Seq(Frag) /\ Range(got) \cup lost = Range(chunk)
      BY <3>1 DEF Range
    <3> HIDE DEF got
    <3>3. Range(m_buffer \o got) = Range(m_buffer) \cup Range(got)
      BY <3>1, <3>2, RangeConcatenation
    <3> QED BY <3>2, <3>3 DEF Appended
  <2>5. CASE m_socket = Null
    <3>1. m_buffer' = m_buffer /\ dropped' = dropped \cup Range(chunk)
      BY <2>1, <2>5, BoundsAssumption DEF dataReadyEvent, Null, Conn
    <3> QED BY <2>2, <2>3, <3>1 DEF Conserved, Held
  <2>6. CASE m_socket # Null /\ ~linked
    <3>1. m_buffer' = <<>> /\ dropped' = dropped \cup lost \cup Range(Appended(got))
      BY <2>1, <2>6 DEF dataReadyEvent
    <3>2. Range(m_buffer') = {}
      BY <3>1 DEF Range
    <3> HIDE DEF got, lost, chunk
    <3> QED BY <2>2, <2>3, <2>4, <3>1, <3>2 DEF Conserved, Held
  <2>7. CASE m_socket # Null /\ linked
    <3>1. m_buffer' = Appended(got) /\ dropped' = dropped \cup lost
      BY <2>1, <2>7 DEF dataReadyEvent
    <3>2. Range(got) \cap lost = {}
      BY DEF Range
    <3> HIDE DEF got, lost, chunk
    <3> QED BY <2>2, <2>3, <2>4, <3>1, <3>2 DEF Conserved, Held
  <2> QED BY <2>5, <2>6, <2>7
<1> QED BY <1>1, <1>2, <1>3, StreamSteps

\* No byte the object receives is lost but those its slot throws away, and none
\* is both forwarded and still waiting: dataReadyEvent accounts for all of them.
THEOREM BytesAccounted == Spec => []Accounted
<1>1. ASSUME TypeOK, InOrderOnce PROVE Forwarded \cap Range(m_buffer) = {}
  <2>1. \A a \in Forwarded, b \in Range(m_buffer) : Before(a, b)
    BY <1>1 DEF InOrderOnce
  <2>2. \A a \in Forwarded : ~Before(a, a)
    BY <1>1, FragmentsInUse DEF Before
  <2> QED BY <2>1, <2>2
<1>2. Init => Conserved
  <2> SUFFICES ASSUME Init PROVE Conserved
    OBVIOUS
  <2>1. forwarded = <<>> /\ m_buffer = <<>> /\ dropped = {} /\ \A c \in Conn : read[c] = 0
    BY DEF Init
  <2>2. Range(m_buffer) = {} /\ Forwarded = {}
    BY <2>1 DEF Range, Forwarded
  <2>3. Received = {}
    BY <2>1 DEF Received
  <2> QED BY <2>1, <2>2, <2>3 DEF Conserved, Held
<1>3. TypeOK /\ InOrderOnce /\ Conserved /\ [Next]_vars => Conserved'
  BY <1>1, ConservedStep
<1>4. TypeOK /\ InOrderOnce /\ Conserved => Accounted
  BY <1>1 DEF Conserved, Held, Accounted
<1> QED BY <1>2, <1>3, <1>4, OrderKept, TypeCorrect, PTL DEF Spec
=============================================================================
