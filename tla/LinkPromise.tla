---------------------------- MODULE LinkPromise ----------------------------
(***************************************************************************)
(* What a link with reliability promises to the forwarders at its ends,    *)
(* without sequence numbers, fragments, Acks or timers.  A packet offered  *)
(* to the link gets exactly one verdict.  A favourable one is only given   *)
(* to a packet that has arrived, and only a packet that has arrived is     *)
(* passed on.                                                              *)
(***************************************************************************)
EXTENDS Naturals

CONSTANT Packet

VARIABLES
  offered,   \* the packets the link has taken responsibility for
  arrived,   \* those that reached the other end completely
  passed,    \* the packets, of any kind, given to the forwarder there
  verdict    \* packet -> "acknowledged", "retransmitted" or "exhausted"

vars == <<offered, arrived, passed, verdict>>

Init == offered = {} /\ arrived = {} /\ passed = {} /\ verdict = << >>

Offer == \E p \in Packet \ offered :
  offered' = offered \cup {p} /\ UNCHANGED <<arrived, passed, verdict>>

\* One LpPacket may complete a packet at one end and bring verdicts on others.
Progress ==
  /\ UNCHANGED offered
  /\ arrived \subseteq arrived' /\ arrived' \subseteq Packet
  /\ passed \subseteq passed' /\ passed' \subseteq arrived'
  /\ DOMAIN verdict \subseteq DOMAIN verdict' /\ DOMAIN verdict' \subseteq offered
  /\ \A p \in DOMAIN verdict' :
       IF p \in DOMAIN verdict THEN verdict'[p] = verdict[p]
       ELSE verdict'[p] \in {"acknowledged", "retransmitted"} => p \in arrived

Next == Offer \/ Progress

Spec == Init /\ [][Next]_vars
=============================================================================
