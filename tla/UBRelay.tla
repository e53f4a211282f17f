------------------------------- MODULE UBRelay -------------------------------
(***************************************************************************)
(* What the emulated network promises to the agents, with none of its       *)
(* machinery: a packet that was sent may reach each of its addressees, at   *)
(* most once; it may be lost; it never reaches anyone else, and nothing     *)
(* arrives that nobody sent.  There is no order between packets.            *)
(***************************************************************************)
EXTENDS Naturals, Sequences, Functions

CONSTANTS Ids, BROADCAST_ID, Packet

VARIABLES sent, got

vars == <<sent, got>>

IsAddressee(p, i) == p.des \in {i, BROADCAST_ID}

Init == sent = {} /\ got = [i \in Ids |-> <<>>]

Send(p) == p \notin sent /\ sent' = sent \cup {p} /\ UNCHANGED got

Deliver(p, i) ==
  /\ p \in sent \ Range(got[i]) /\ IsAddressee(p, i)
  /\ got' = [got EXCEPT ![i] = Append(@, p)]
  /\ UNCHANGED sent

Next == \E p \in Packet : Send(p) \/ \E i \in Ids : Deliver(p, i)

Spec == Init /\ [][Next]_vars
=============================================================================
