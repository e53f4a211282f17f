------------------------------ MODULE UBFraming ------------------------------
(***************************************************************************)
(* The packet format on the agents' TCP streams, byte by byte               *)
(* (src/engine/UBPacket.cpp and the loop of UBObject::dataReadyEvent): two   *)
(* header bytes, a payload, PACKET_END.  The stream arrives in chunks of any *)
(* size, while the agent goes on writing.  UBSession builds on what is        *)
(* checked here: packets come out of the stream whole, wherever it is split. *)
(***************************************************************************)
EXTENDS Integers, Sequences, FiniteSets, SequencesExt

CONSTANTS Id,          \* the agents' ids
          Byte,        \* the payload bytes that matter: CR, LF, a neutral one
          MaxPayload,  \* bound: bytes of payload
          MaxPackets,  \* bound: packets on the stream
          MaxChunk     \* bound: bytes read at once

CR == 13
LF == 10
ASSUME ByteAssumption == {CR, LF} \subseteq Byte /\ Byte \cup Id \subseteq 0..255

PACKET_END == <<CR, CR, LF, LF>>

Packet == [srcID : Id, desID : Id, payload : SeqOf(Byte, MaxPayload)]

packetize(p) == <<p.srcID, p.desID>> \o p.payload

\* A missing header byte reads as the terminating 0 of an empty QByteArray.
ByteAt(raw, i) == IF i <= Len(raw) THEN raw[i] ELSE 0
MutantPayloadAt == 2                      \* keeps the destination byte
PayloadAt == 3
depacketize(raw) ==
  [srcID |-> ByteAt(raw, 1), desID |-> ByteAt(raw, 2),
   payload |-> SubSeq(raw, PayloadAt, Len(raw))]

\* Where s holds a whole PACKET_END.
EndsOf(s) == {k \in 1..(Len(s) - 3) : SubSeq(s, k, k + 3) = PACKET_END}

VARIABLES packets,   \* what the agent packetized
          stream,    \* the bytes it wrote
          pos,       \* bytes of stream read so far
          m_buffer,
          frames,    \* the packets cut out of m_buffer, undecoded
          pc         \* "idle", or "loop" inside dataReadyEvent

vars == <<packets, stream, pos, m_buffer, frames, pc>>

Init ==
  /\ packets = <<>> /\ stream = <<>>
  /\ pos = 0 /\ m_buffer = <<>> /\ frames = <<>> /\ pc = "idle"

\* The agent writes a packet.
sendPacket(p) ==
  /\ Len(packets) < MaxPackets
  /\ packets' = Append(packets, p)
  /\ stream' = stream \o packetize(p) \o PACKET_END
  /\ UNCHANGED <<pos, m_buffer, frames, pc>>

MutantAppended(chunk) == chunk            \* forgets the partial packet
Appended(chunk) == m_buffer \o chunk

dataReadyEvent(k) ==
  /\ pc = "idle"
  /\ pos + k <= Len(stream)
  /\ m_buffer' = Appended(SubSeq(stream, pos + 1, pos + k))
  /\ pos' = pos + k /\ pc' = "loop"
  /\ UNCHANGED <<packets, stream, frames>>

IndexOf(s) == CHOOSE k \in EndsOf(s) : \A j \in EndsOf(s) : k <= j

Rest(k) == SubSeq(m_buffer, k + Len(PACKET_END), Len(m_buffer))

Cut ==
  /\ pc = "loop" /\ EndsOf(m_buffer) # {}
  /\ LET k == IndexOf(m_buffer) IN
       /\ frames' = Append(frames, SubSeq(m_buffer, 1, k - 1))
       /\ m_buffer' = Rest(k)
  /\ UNCHANGED <<packets, stream, pos, pc>>

LoopEnd ==
  /\ pc = "loop" /\ EndsOf(m_buffer) = {}
  /\ pc' = "idle"
  /\ UNCHANGED <<packets, stream, pos, m_buffer, frames>>

Next ==
  \/ Cut \/ LoopEnd
  \/ \E k \in 1..MaxChunk : dataReadyEvent(k)
  \/ \E p \in Packet : sendPacket(p)

Spec == Init /\ [][Next]_vars

-----------------------------------------------------------------------------
\* What splitting means, with no buffer and no loop: the segments of s between
\* all the places where PACKET_END stands.
Nth(S, i) == CHOOSE k \in S : Cardinality({j \in S : j <= k}) = i
Segments(s) ==
  LET ends == EndsOf(s) IN
  [i \in 1..Cardinality(ends) |->
    SubSeq(s, IF i = 1 THEN 1 ELSE Nth(ends, i - 1) + Len(PACKET_END), Nth(ends, i) - 1)]

\* However the stream is chunked, a PACKET_END split over two reads included,
\* the loop has cut exactly those segments when it returns.
ChunkingIsInvisible == pc = "idle" => frames = Segments(SubSeq(stream, 1, pos))

Clean(p) == EndsOf(packetize(p)) = {}

\* Packets that do not hold PACKET_END themselves (in the payload, or across the
\* header: ids 13 and 10 are the bytes of PACKET_END) come out as they went in,
\* even when the payload ends with the first bytes of PACKET_END.
RoundTrip ==
  (pc = "idle" /\ pos = Len(stream) /\ \A i \in DOMAIN packets : Clean(packets[i]))
    => /\ m_buffer = <<>>
       /\ [i \in DOMAIN frames |-> depacketize(frames[i])] = packets
=============================================================================
