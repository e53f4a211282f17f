\* 13 and 10 are the bytes of PACKET_END, 7 stands for every other one. A packet
\* from 13 to 13 with payload LF LF holds PACKET_END itself.
SPECIFICATION Spec
CONSTANTS
  Id = {7, 13}
  Byte = {7, 10, 13}
  MaxPayload = 3
  MaxPackets = 2
  MaxChunk = 5
INVARIANTS ChunkingIsInvisible RoundTrip
CHECK_DEADLOCK FALSE
