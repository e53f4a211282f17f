------------------------------ MODULE UBSession ------------------------------
(***************************************************************************)
(* One UBObject of the emulator and the TCP sessions of its agent          *)
(* (src/engine/UBObject.cpp).  A UBObject is a thread with an event loop:   *)
(* it listens on one port, serves the connection accepted last, and cuts   *)
(* the byte stream it reads into packets ended by PACKET_END.              *)
(*                                                                         *)
(* Connections are numbered in the order the kernel completes them, which  *)
(* is the order QTcpServer hands them out.  The stream of a connection is a *)
(* sequence of fragments: an odd fragment opens a packet (it holds the two  *)
(* header bytes and no PACKET_END), the even one after it closes the packet *)
(* (it holds the last byte of PACKET_END).  Every way TCP can tear a packet *)
(* between two reads is a boundary between two fragments.                  *)
(***************************************************************************)
EXTENDS Naturals, Sequences, Functions

CONSTANTS NConn,    \* bound: connections opened to the port
          MaxFrag   \* bound: fragments sent on one connection

ASSUME BoundsAssumption == NConn \in Nat /\ MaxFrag \in Nat

Conn == 1..NConn
Null == 0                      \* nullptr: no socket

Frag == [conn : Conn, n : 1..MaxFrag]
IsEnd(f) == f.n % 2 = 0        \* the fragment holds a PACKET_END

VARIABLES
  opened,      \* connections the clients completed: 1..opened
  accepted,    \* connections the server handed out: 1..accepted
  sock,        \* the QTcpSocket of each connection
  unsent,      \* bytes are waiting in the socket's write buffer
  fin,         \* the client closed its end
  sent, read,  \* fragments the client wrote, and those the socket received
  linked,      \* m_lnks holds m_id
  aggregated,  \* the ns-3 socket is aggregated to m_node
  m_socket, m_buffer,
  pc,          \* "idle" in the event loop, "loop" inside dataReadyEvent
  forwarded,   \* history: the packets cut out of the buffer, in order
  torn,        \* history: first fragments read after a packet was torn
  dropped      \* history: fragments received and thrown away

clients == <<opened, fin, sent>>
sockets == <<accepted, sock, unsent, m_socket>>
stream  == <<read, m_buffer, pc>>
history == <<forwarded, torn, dropped>>
vars == <<clients, sockets, stream, history, linked, aggregated>>

TypeOK ==
  /\ opened \in 0..NConn /\ accepted \in 0..opened
  /\ sock \in [Conn -> {"none", "live", "closing", "gone"}]
  /\ unsent \in [Conn -> BOOLEAN] /\ fin \in [Conn -> BOOLEAN]
  /\ sent \in [Conn -> 0..MaxFrag] /\ read \in [Conn -> 0..MaxFrag]
  /\ linked \in BOOLEAN /\ aggregated \in BOOLEAN
  /\ m_socket \in Conn \cup {Null}
  /\ m_buffer \in Seq(Frag)
  /\ pc \in {"idle", "loop"}
  /\ forwarded \in Seq(Seq(Frag))
  /\ torn \subseteq Frag /\ dropped \subseteq Frag

\* The port is open from setID on; startEngine may have linked the object already or,
\* main thread against object's thread, only be about to (clickedEventConnect).
Init ==
  /\ opened = 0 /\ accepted = 0
  /\ sock = [c \in Conn |-> "none"]
  /\ unsent = [c \in Conn |-> FALSE] /\ fin = [c \in Conn |-> FALSE]
  /\ sent = [c \in Conn |-> 0] /\ read = [c \in Conn |-> 0]
  /\ linked \in BOOLEAN /\ aggregated = FALSE
  /\ m_socket = Null /\ m_buffer = <<>> /\ pc = "idle"
  /\ forwarded = <<>> /\ torn = {} /\ dropped = {}

-----------------------------------------------------------------------------
(* The clients: agents, and the nc probes of start_emulator.sh.            *)

Open ==
  /\ opened < NConn
  /\ opened' = opened + 1
  /\ UNCHANGED <<fin, sent, sockets, stream, history, linked, aggregated>>

Write(c) ==
  /\ c <= opened /\ ~fin[c] /\ sent[c] < MaxFrag
  /\ sent' = [sent EXCEPT ![c] = @ + 1]
  /\ UNCHANGED <<opened, fin, sockets, stream, history, linked, aggregated>>

Close(c) ==
  /\ c <= opened /\ ~fin[c]
  /\ fin' = [fin EXCEPT ![c] = TRUE]
  /\ UNCHANGED <<opened, sent, sockets, stream, history, linked, aggregated>>

-----------------------------------------------------------------------------
(* The object's thread.  disconnectFromHost() emits disconnected() at once  *)
(* when the write buffer is empty, so the old socket is gone before the     *)
(* slot goes on; otherwise it closes after the buffer is flushed.           *)

MutantSuperseded(d) == "live"            \* never disconnects the old socket
Superseded(d) == IF unsent[d] THEN "closing" ELSE "gone"

MutantPendingUnguarded == accepted < NConn           \* hands out a null socket
MutantPendingWhenFree == accepted < opened /\ m_socket = Null   \* first come
HasPendingConnection == accepted < opened

newConnectionEvent ==
  LET c == accepted + 1 IN
  /\ pc = "idle" /\ HasPendingConnection
  /\ accepted' = c /\ m_socket' = c
  /\ sock' = [d \in Conn |-> IF d = c THEN "live"
                             ELSE IF d = m_socket THEN Superseded(d) ELSE sock[d]]
  /\ torn' = IF m_buffer # <<>> /\ ~IsEnd(m_buffer[Len(m_buffer)])
             THEN torn \cup ({[conn |-> c, n |-> 1]} \cap Frag) ELSE torn
  /\ UNCHANGED <<clients, unsent, stream, forwarded, dropped, linked, aggregated>>

MutantWithout(c) == Null                 \* whoever disconnected
Without(c) == IF m_socket = c THEN Null ELSE m_socket

disconnectedEvent(c) ==
  /\ sock' = [sock EXCEPT ![c] = "gone"]
  /\ unsent' = [unsent EXCEPT ![c] = FALSE]
  /\ m_socket' = Without(c)

Connected(c) == sock[c] \in {"live", "closing"}

\* The peer closed: Qt reports it once everything received has been read.
RemoteClosed(c) ==
  /\ pc = "idle" /\ Connected(c) /\ fin[c] /\ read[c] = sent[c]
  /\ disconnectedEvent(c)
  /\ UNCHANGED <<clients, accepted, stream, history, linked, aggregated>>

\* The event loop writes out a socket's buffer; a closing socket then closes.
Flush(c) ==
  /\ pc = "idle" /\ Connected(c) /\ unsent[c]
  /\ \/ sock[c] = "closing" /\ disconnectedEvent(c)
     \/ /\ sock[c] = "live"
        /\ unsent' = [unsent EXCEPT ![c] = FALSE] /\ UNCHANGED <<sock, m_socket>>
  /\ UNCHANGED <<clients, accepted, stream, history, linked, aggregated>>

sendData ==
  /\ pc = "idle" /\ m_socket # Null
  /\ unsent' = [unsent EXCEPT ![m_socket] = TRUE]
  /\ UNCHANGED <<clients, accepted, sock, m_socket, stream, history, linked, aggregated>>

\* readyRead of socket c, with k fragments.  The slot reads m_socket, whichever
\* socket sent the signal, and forgets everything it holds while unlinked.  The
\* code does not ask who sent it, hence nothing here depends on whether Qt lets
\* a socket that is closing signal once more: the model lets it.
Chunk(c, k) == [i \in 1..k |-> [conn |-> c, n |-> read[c] + i]]

MutantAppended(got) == got              \* assigns instead of appending
Appended(got) == m_buffer \o got

dataReadyEvent(c, k) ==
  LET got  == IF c = m_socket THEN Chunk(c, k) ELSE <<>>
      lost == IF c = m_socket THEN {} ELSE Range(Chunk(c, k))
      next == [conn |-> m_socket, n |-> read'[m_socket] + 1]
  IN
  /\ pc = "idle" /\ Connected(c)
  /\ k \in 1..(sent[c] - read[c])
  /\ read' = [read EXCEPT ![c] = @ + k]
  /\ \/ /\ m_socket = Null
        /\ dropped' = dropped \cup lost
        /\ UNCHANGED <<m_buffer, pc, torn>>
     \/ /\ m_socket # Null /\ ~linked
        /\ m_buffer' = <<>>
        /\ dropped' = dropped \cup lost \cup Range(Appended(got))
        /\ torn' = IF IsEnd(next) THEN torn \cup ({next} \cap Frag) ELSE torn
        /\ UNCHANGED pc
     \/ /\ m_socket # Null /\ linked
        /\ m_buffer' = Appended(got)
        /\ dropped' = dropped \cup lost
        /\ pc' = IF aggregated THEN "loop" ELSE "idle"
        /\ UNCHANGED torn
  /\ UNCHANGED <<clients, sockets, forwarded, linked, aggregated>>

MutantRest(k) == SubSeq(m_buffer, k, Len(m_buffer))   \* leaves the PACKET_END
MutantRestKept(k) == m_buffer                         \* never removes
Rest(k) == SubSeq(m_buffer, k + 1, Len(m_buffer))

MutantAfterCut == "idle"                 \* if (...) instead of while (true)
AfterCut == "loop"

\* One turn of the loop in dataReadyEvent that finds a PACKET_END.
Cut ==
  /\ pc = "loop"
  /\ \E k \in DOMAIN m_buffer :
       /\ IsEnd(m_buffer[k])
       /\ \A j \in 1..(k - 1) : ~IsEnd(m_buffer[j])
       /\ forwarded' = Append(forwarded, SubSeq(m_buffer, 1, k))
       /\ m_buffer' = Rest(k)
  /\ pc' = AfterCut
  /\ UNCHANGED <<clients, sockets, read, torn, dropped, linked, aggregated>>

\* The turn of the loop that finds none and returns to the event loop.
LoopEnd ==
  /\ pc = "loop"
  /\ \A k \in DOMAIN m_buffer : ~IsEnd(m_buffer[k])
  /\ pc' = "idle"
  /\ UNCHANGED <<clients, sockets, read, m_buffer, history, linked, aggregated>>

-----------------------------------------------------------------------------
(* The GUI thread: UBControl's buttons and the end of setupNetwork.        *)

\* Linking: the button, and the insertion of startEngine where it comes late.
clickedEventConnect ==
  /\ ~linked /\ linked' = TRUE
  /\ UNCHANGED <<clients, sockets, stream, history, aggregated>>

clickedEventDisconnect ==
  /\ linked /\ linked' = FALSE
  /\ UNCHANGED <<clients, sockets, stream, history, aggregated>>

AggregateObject ==
  /\ ~aggregated /\ aggregated' = TRUE
  /\ UNCHANGED <<clients, sockets, stream, history, linked>>

-----------------------------------------------------------------------------
Client == Open \/ \E c \in Conn : Write(c) \/ Close(c)
Gui == clickedEventConnect \/ clickedEventDisconnect \/ AggregateObject
Read(c) == \E k \in 1..MaxFrag : dataReadyEvent(c, k)
Thread ==
  \/ newConnectionEvent \/ sendData \/ Cut \/ LoopEnd
  \/ \E c \in Conn : RemoteClosed(c) \/ Flush(c) \/ Read(c)

Next == Client \/ Gui \/ Thread

\* The event loop serves each kind of event it keeps being asked for, and a
\* running slot goes on.  A busy loop ("loop") interrupts the guards, hence SF
\* for the events.
Fairness ==
  /\ WF_vars(Cut) /\ WF_vars(LoopEnd) /\ SF_vars(newConnectionEvent)
  /\ \A c \in Conn : SF_vars(RemoteClosed(c)) /\ SF_vars(Flush(c)) /\ SF_vars(Read(c))

Spec == Init /\ [][Next]_vars
FairSpec == Spec /\ Fairness
-----------------------------------------------------------------------------
(* Safety.                                                                 *)

\* The object serves exactly one socket, and it is the newest: a superseded
\* socket is never the one sendData writes to and dataReadyEvent reads, and
\* m_socket never names a socket that was deleted.
SoleSession ==
  /\ \A c \in Conn : sock[c] = "live" <=> c = m_socket
  /\ m_socket # Null => m_socket = accepted

Before(a, b) == a.conn < b.conn \/ (a.conn = b.conn /\ a.n < b.n)

Whole(f) == /\ Len(f) = 2 /\ ~IsEnd(f[1])
            /\ f[2] = [conn |-> f[1].conn, n |-> f[1].n + 1]

\* A packet that goes out is one packet of one agent, unless it holds the very
\* fragment at which the stream was torn: framing finds the packet boundary
\* again after one damaged packet, whatever was thrown away or left over.
FrameIntegrity ==
  \A i \in DOMAIN forwarded :
    Whole(forwarded[i]) \/ Range(forwarded[i]) \cap torn # {}

Forwarded == UNION {Range(forwarded[i]) : i \in DOMAIN forwarded}
Received == UNION {{[conn |-> c, n |-> n] : n \in 1..read[c]} : c \in Conn}

\* Bytes are conserved: each fragment a socket received was forwarded, waits in
\* m_buffer, or was dropped, and only one of the three.
Accounted ==
  /\ Received = Forwarded \cup Range(m_buffer) \cup dropped
  /\ Forwarded \cap Range(m_buffer) = {}
  /\ (Forwarded \cup Range(m_buffer)) \cap dropped = {}

\* Bytes leave in the order the agents sent them, each once: within the buffer,
\* within a packet, from packet to packet, and from one session to the next.
InOrderOnce ==
  /\ \A i, j \in DOMAIN m_buffer : i < j => Before(m_buffer[i], m_buffer[j])
  /\ \A i \in DOMAIN forwarded : \A j, k \in DOMAIN forwarded[i] :
       j < k => Before(forwarded[i][j], forwarded[i][k])
  /\ \A i, j \in DOMAIN forwarded : i < j =>
       \A a \in Range(forwarded[i]), b \in Range(forwarded[j]) : Before(a, b)
  /\ \A a \in Forwarded, b \in Range(m_buffer) : Before(a, b)

\* The session an agent has ends only because that agent closed it or a newer
\* connection took over: the late disconnected() of an older socket (the nc
\* probe's) never takes the newer session down.
NoSpuriousLoss ==
  [][m_socket # Null /\ m_socket' # m_socket
       => fin[m_socket] \/ accepted' > accepted]_vars

-----------------------------------------------------------------------------
(* Liveness, under Fairness.                                               *)

\* A client that connected is served, or was superseded by a later one, or left.
EveryClientServed ==
  \A c \in Conn : opened >= c ~> (m_socket = c \/ accepted > c \/ fin[c])

\* Once the ns-3 socket is there, new bytes of a linked session flush every
\* complete packet out of the buffer, those that were waiting for it too.
Waiting == \E k \in DOMAIN m_buffer : IsEnd(m_buffer[k])
NewBytesFlush ==
  \A c \in Conn :
    (aggregated /\ m_socket = c /\ read[c] < sent[c])
      ~> (pc = "idle" /\ ~Waiting) \/ m_socket # c
=============================================================================
