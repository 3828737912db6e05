---------------------------- MODULE LpFragmenter ----------------------------
(***************************************************************************)
(* Sizes of NDNLPv2 packets and the division of a network-layer packet     *)
(* into fragments (NFD-FC/daemon/face/lp-fragmenter.cpp, lp-reliability,   *)
(* generic-link-service.cpp, ndn-cxx-FC/ndn-cxx/lp/packet.cpp).  Sizes are *)
(* in octets.  A network-layer packet p has p.size octets, and p.hdr       *)
(* octets of link-layer fields (Nack, PIT token, ...) go with it.          *)
(***************************************************************************)
EXTENDS Integers, Sequences, FiniteSetsExt

CONSTANT NMaxFragments       \* fragmenterOptions.nMaxFragments, and the reassembler's

ASSUME FragmentAssumption == NMaxFragments \in Nat \ {0}

MtuUnlimited == -1
MaxNdnPacketSize == 8800

\* sizeOfVarNumber, for the sizes a packet may have.
SizeOfVarNumber(n) == IF n < 253 THEN 1 ELSE 3

\* Octets of one link-layer field: TLV-TYPE, TLV-LENGTH and value.
SequenceSize == 10
TxSequenceSize == 12
AckSize == 12
FragFieldsSize == 6          \* FragIndex and FragCount below 256
CongestionMarkMax == 12      \* what sendNetPacket keeps free for the mark
CongestionMarkOne == 5       \* the mark that checkCongestionLevel sets

\* Packet::wireEncode: a packet without fields is sent as it is.
WireSize(fields, payload) ==
  LET inner == fields + IF payload = 0 THEN 0 ELSE 1 + SizeOfVarNumber(payload) + payload
  IN  IF fields = 0 /\ payload > 0 THEN payload ELSE 1 + SizeOfVarNumber(inner) + inner

MaxSingleFragOverhead == 30
MaxFragOverhead == 50

Whole(p) == [index |-> 0, count |-> 1, begin |-> 0, end |-> p.size, hdr |-> p.hdr]

\* The first fragment carries the fields of the packet, so it has less room.
Split(p, mtu) ==
  LET first == Min({p.size, mtu - p.hdr - MaxFragOverhead})
      payload == mtu - MaxFragOverhead
      rest == p.size - first
      count == 1 + rest \div payload + IF rest % payload # 0 THEN 1 ELSE 0
      Begin(i) == IF i = 0 THEN 0 ELSE first + (i - 1) * payload
  IN  [k \in 1 .. count |->
         [index |-> k - 1, count |-> count, begin |-> Begin(k - 1),
          end |-> Min({p.size, Begin(k)}), hdr |-> IF k = 1 THEN p.hdr ELSE 0]]

\* LpFragmenter::fragmentPacket: no fragments when it fails.
FragmentPacket(p, mtu) ==
  IF MaxSingleFragOverhead + WireSize(p.hdr, p.size) <= mtu THEN << Whole(p) >>
  ELSE IF MaxFragOverhead + p.hdr + 1 > mtu \/ Len(Split(p, mtu)) > NMaxFragments THEN << >>
  ELSE Split(p, mtu)
=============================================================================
