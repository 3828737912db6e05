--------------------------- MODULE MCLinkService ---------------------------
(***************************************************************************)
(* Instances of LinkService for TLC.                                       *)
(***************************************************************************)
EXTENDS LinkService

CONSTANTS a, b

\* At an MTU of 100: an Interest in one fragment and a Data in two.
Interest1 == [id |-> "interest", from |-> a, size |-> 30, hdr |-> 0]
Data2 == [id |-> "data", from |-> a, size |-> 60, hdr |-> 3]
\* A Data in the other direction, to carry Acks.
Back == [id |-> "back", from |-> b, size |-> 30, hdr |-> 0]
\* At an MTU of 277: a Data in two fragments, and one whose LpPacket has 253
\* octets and is filled up with two Acks.
Large2 == [id |-> "large", from |-> a, size |-> 240, hdr |-> 0]
BackLarge == [id |-> "backLarge", from |-> b, size |-> 227, hdr |-> 0]

Packets == {Interest1, Data2, Back, Large2, BackLarge}

Fixed == [n \in Node |-> {}]
History(ps, d, f, m) ==
  [packets |-> ps, duplicates |-> d, forgotten |-> f, inFlight |-> 2, mtu |-> m, options |-> Fixed]

\* A packet in two fragments; packets in both directions, with room for one
\* Ack, and with room for less than two; a packet in two fragments while the
\* sender's reliability is switched on and off and its MTU lowered; and a link
\* that delivers nothing, where retransmissions use up the TxSequence numbers.
Scenarios ==
  { History({Data2}, 1, 0, 100),
    History({Interest1, Back}, 0, 1, 72),
    [History({Large2, BackLarge}, 0, 0, 277) EXCEPT !.inFlight = 1],
    [History({Data2}, 0, 0, 100) EXCEPT !.options[a] =
       {[enabled |-> FALSE, mtu |-> 100], [enabled |-> TRUE, mtu |-> MinMtu]}],
    [History({Interest1, Data2}, 0, 0, 100) EXCEPT !.inFlight = 0] }
=============================================================================
