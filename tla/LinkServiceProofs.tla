------------------------- MODULE LinkServiceProofs -------------------------
(***************************************************************************)
(* The window of unacknowledged fragments, the iterators into it and the   *)
(* room for Acks, for any number of packets, TxSequence numbers, fragments *)
(* and retransmissions.                                                    *)
(*                                                                         *)
(* Reliable describes an end of the link within a handler as well as       *)
(* between handlers; each handler keeps it (the lemmas named ...Keeps),    *)
(* loops by one induction over their iterations (LoopKeeps).  The age of a *)
(* number orders the window across the end of the number range: new        *)
(* numbers stay younger than its start because handleOutgoing throws       *)
(* before they reach it, and the next key from the start is the oldest of  *)
(* those that stay.                                                        *)
(***************************************************************************)
EXTENDS LinkService, NaturalsInduction, WellFoundedInduction, TLAPS

Member == {"unacked", "first", "netPkts", "ackQueue", "lastTx", "idle", "recent", "recentQueue",
           "ended", "out", "thrown", "partial", "enabled", "mtu", "lastSeq"}

\* How long ago the number t was assigned.
Age(last, t) == (last - t) % TxModulus

\* The unacknowledged fragments that start with first, when last is the last
\* number assigned.
Window(keys, first, last) ==
  /\ last \in TxSequence /\ keys \subseteq TxSequence
  /\ IF keys = {} THEN first = NoSeq
     ELSE first \in keys /\ \A t \in keys : Age(last, t) <= Age(last, first)

\* The NetPkts and the iterators they hold.
Iterators(unacked, nets) ==
  /\ \A t \in DOMAIN unacked :
       unacked[t].retx \in 0 .. MaxRetx /\ unacked[t].frag.net \in DOMAIN nets
  /\ \A p \in DOMAIN nets :
       /\ nets[p].frags # {}
       /\ nets[p].frags = {t \in DOMAIN unacked : unacked[t].frag.net = p}

IsFragment(f) == f.hdr \in Nat /\ f.begin \in Int /\ f.end \in Int

IsUnacked(u) == DOMAIN u = {"frag", "retx", "greater"} /\ IsFragment(u.frag)

\* The records of the fragments and of the packets.
Records(unacked, nets) ==
  /\ \A t \in DOMAIN unacked : IsUnacked(unacked[t])
  /\ \A p \in DOMAIN nets : DOMAIN nets[p] = {"frags", "didRetx"}

Bare(pkt) == [pkt EXCEPT !.acks = << >>]

\* Acks do not make a packet too large for the MTU, but for two sizes.
InRoom(mtu, pkt) ==
  \/ mtu = MtuUnlimited
  \/ ~(SizeOf(Bare(pkt)) <= mtu) \/ SizeOf(pkt) <= mtu
  \/ SizeOf(Bare(pkt)) \in {253, 254}

IsLpPacket(pkt) ==
  /\ DOMAIN pkt = {"frag", "tx", "acks"}
  /\ pkt.tx \in TxSequence \cup {NoSeq} /\ pkt.acks \in Seq(TxSequence)
  /\ HasFragment(pkt) => IsFragment(pkt.frag[1])

\* An end of the link, between handlers or within one.
Reliable(e) ==
  /\ DOMAIN e = Member
  /\ Window(DOMAIN e.unacked, e.first, e.lastTx)
  /\ Iterators(e.unacked, e.netPkts) /\ Records(e.unacked, e.netPkts)
  /\ e.ackQueue \in Seq(TxSequence) /\ IsMtu(e.mtu)
  /\ Len(e.out) \in Nat /\ DOMAIN e.out = 1 .. Len(e.out)
  /\ \A i \in DOMAIN e.out : IsLpPacket(e.out[i]) /\ InRoom(e.mtu, e.out[i])

\* What no handler but setOptions changes, and packets that only leave.
Follows(d, e) ==
  /\ d.enabled = e.enabled /\ d.mtu = e.mtu
  /\ DOMAIN d.netPkts \subseteq DOMAIN e.netPkts

\* What sending leaves alone.
Untouched(d, e) ==
  /\ d.unacked = e.unacked /\ d.first = e.first /\ d.netPkts = e.netPkts /\ d.lastTx = e.lastTx
  /\ d.enabled = e.enabled /\ d.mtu = e.mtu /\ d.thrown = e.thrown

----------------------------------------------------------------------------
(* Least elements.                                                         *)

\* A nonempty set of natural numbers has a least element.
LEMMA LeastNumber ==
  ASSUME NEW S \in SUBSET Nat, S # {}
  PROVE  \E m \in S : \A x \in S : m <= x
<1>1. PICK m \in S : \A x \in S : ~(<<x, m>> \in OpToRel(<, Nat))
  BY ZenonT(30), NatLessThanWellFounded, WFMin
<1>2. \A x \in S : ~(x < m)
  BY ZenonT(30), <1>1 DEF OpToRel
<1> QED BY <1>2

\* The beginning of a map is its smallest key.
LEMMA MinOfKeys ==
  ASSUME NEW S \in SUBSET Nat, S # {}
  PROVE  Min(S) \in S /\ \A x \in S : Min(S) <= x
<1>1. \E m \in S : \A x \in S : m <= x
  BY LeastNumber
<1> QED BY ZenonT(30), <1>1 DEF Min

----------------------------------------------------------------------------
(* Sequence numbers that wrap around.                                      *)

\* How far apart two numbers are, counting around the end of their range.
LEMMA ModDifference ==
  ASSUME NEW M \in Nat, NEW a \in 0 .. (M - 1), NEW b \in 0 .. (M - 1)
  PROVE  (a - b) % M = IF b <= a THEN a - b ELSE a - b + M
OBVIOUS

\* The number k steps after another one.
LEMMA ModSum ==
  ASSUME NEW M \in Nat, NEW a \in 0 .. (M - 1), NEW k \in 0 .. (M - 1)
  PROVE  (a + k) % M = IF a + k < M THEN a + k ELSE a + k - M
OBVIOUS

\* The n numbers after the last one.
Following(last, n) == {(last + k) % TxModulus : k \in 1 .. n}

\* A window is extended by the n numbers after the last one unless they reach
\* its start: they are new, and the start stays the oldest.
LEMMA ExtendedWindow ==
  ASSUME NEW keys, NEW first, NEW last, Window(keys, first, last),
         NEW n \in 1 .. (TxModulus - 1), first \notin Following(last, n)
  PROVE  /\ Following(last, n) \cap keys = {}
         /\ Window(keys \cup Following(last, n), IF first = NoSeq THEN (last + 1) % TxModulus ELSE first,
                   (last + n) % TxModulus)
         /\ \A k \in 1 .. n : (((last + k) % TxModulus) - last) % TxModulus = k
<1> USE ReliabilityAssumption
<1> DEFINE new == Following(last, n)
<1>0. new = {(last + k) % TxModulus : k \in 1 .. n}
  BY DEF Following
<1> HIDE DEF new
<1>1. last \in TxSequence /\ keys \subseteq TxSequence /\ TxModulus \in Nat
  BY DEF Window
<1>2. \A k \in 1 .. n : /\ (last + k) % TxModulus \in TxSequence
                        /\ (last + k) % TxModulus = IF last + k < TxModulus THEN last + k ELSE last + k - TxModulus
  BY <1>1, ModSum DEF TxSequence
<1>3. \A t \in TxSequence : Age(last, t) = IF t <= last THEN last - t ELSE last - t + TxModulus
  BY <1>1, ModDifference DEF TxSequence, Age
<1>4. ASSUME keys # {} PROVE Age(last, first) + n < TxModulus
  <2>1. first \in TxSequence
    BY <1>1, <1>4 DEF Window
  <2>2. ASSUME Age(last, first) + n >= TxModulus PROVE FALSE
    <3> DEFINE k == TxModulus - Age(last, first)
    <3>1. Age(last, first) \in 0 .. (TxModulus - 1)
      BY <1>1, <1>3, <2>1 DEF TxSequence
    <3>2. k \in 1 .. n
      BY <1>1, <2>2, <3>1
    <3>3. last + k = IF first <= last THEN first + TxModulus ELSE first
      BY <1>1, <1>3, <2>1 DEF TxSequence
    <3> HIDE DEF k
    <3>4. (last + k) % TxModulus = first
      BY <1>1, <1>2, <2>1, <3>2, <3>3 DEF TxSequence
    <3> QED BY <1>0, <3>2, <3>4 DEF new
  <2> QED BY <1>1, <1>3, <2>1, <2>2 DEF TxSequence
<1>5. new \cap keys = {}
  <2>1. ASSUME NEW k \in 1 .. n, (last + k) % TxModulus \in keys PROVE FALSE
    <3>1. Age(last, (last + k) % TxModulus) = TxModulus - k
      BY <1>1, <1>2, <1>3 DEF TxSequence
    <3>2. Age(last, (last + k) % TxModulus) <= Age(last, first) /\ first \in TxSequence
      BY <1>1, <2>1 DEF Window
    <3> QED BY <1>1, <1>3, <1>4, <2>1, <3>1, <3>2 DEF TxSequence
  <2> QED BY <1>0, <2>1
<1> DEFINE end == (last + n) % TxModulus
<1>6. end \in TxSequence /\ end = IF last + n < TxModulus THEN last + n ELSE last + n - TxModulus
  BY <1>2
<1> HIDE DEF end
<1>7. \A t \in TxSequence : Age(end, t) = IF t <= end THEN end - t ELSE end - t + TxModulus
  BY <1>1, <1>6, ModDifference DEF TxSequence, Age
<1>8. \A k \in 1 .. n : Age(end, (last + k) % TxModulus) = n - k
  BY <1>1, <1>2, <1>6, <1>7 DEF TxSequence
<1>9. \A k \in 1 .. n : (((last + k) % TxModulus) - last) % TxModulus = k
  BY <1>1, <1>2, ModDifference DEF TxSequence
<1>10. CASE keys = {}
  <2>1. first = NoSeq
    BY <1>10 DEF Window
  <2>2. (last + 1) % TxModulus \in new /\ Age(end, (last + 1) % TxModulus) = n - 1
    BY <1>0, <1>8
  <2>3. \A t \in new : Age(end, t) <= n - 1
    BY <1>0, <1>8
  <2> QED BY <1>0, <1>2, <1>5, <1>6, <1>9, <1>10, <2>1, <2>2, <2>3 DEF Window, end, new
<1>11. CASE keys # {}
  <2>0. first \in keys
    BY <1>11 DEF Window
  <2>1. first \in keys /\ first \in TxSequence /\ first # NoSeq
    BY <1>1, <2>0 DEF TxSequence, NoSeq
  <2>2. ASSUME NEW t \in keys PROVE Age(end, t) = Age(last, t) + n
    <3>1. Age(last, t) <= Age(last, first) /\ t \in TxSequence
      BY <1>1, <1>11 DEF Window
    <3> QED BY <1>1, <1>3, <1>4, <1>6, <1>7, <1>11, <2>1, <3>1 DEF TxSequence
  <2>3. \A t \in keys : Age(end, t) <= Age(end, first)
    <3>1. \A t \in keys : Age(last, t) <= Age(last, first) /\ Age(last, t) \in Int
      BY <1>1, <1>3, <1>11 DEF Window, TxSequence
    <3> QED BY <2>1, <2>2, <3>1
  <2>4. \A t \in new : Age(end, t) <= n - 1
    BY <1>0, <1>8
  <2>5. Age(end, first) >= n
    BY <1>1, <1>3, <2>1, <2>2 DEF TxSequence
  <2>6. \A t \in TxSequence : Age(end, t) \in Int
    BY <1>7, <1>6 DEF TxSequence
  <2>7. \A t \in new : t \in TxSequence
    BY <1>0, <1>2
  <2>8. \A t \in new : Age(end, t) <= Age(end, first)
    BY <2>1, <2>4, <2>5, <2>6, <2>7
  <2> QED BY <1>1, <1>5, <1>6, <1>9, <2>1, <2>3, <2>7, <2>8 DEF Window, end, new
<1> QED BY <1>10, <1>11

\* When fragments leave a window, its start moves to the oldest that stays.
LEMMA ThinnedWindow ==
  ASSUME NEW keys, NEW first, NEW last, Window(keys, first, last), NEW ts
  PROVE  LET left == keys \ ts
         IN  Window(left, IF left # {} /\ first \notin ts THEN first ELSE NextKey(left, first), last)
<1> USE ReliabilityAssumption
<1> DEFINE left == keys \ ts
<1>1. last \in TxSequence /\ left \subseteq TxSequence /\ TxModulus \in Nat
  BY DEF Window
<1>2. \A t \in TxSequence : Age(last, t) = IF t <= last THEN last - t ELSE last - t + TxModulus
  BY <1>1, ModDifference DEF TxSequence, Age
<1>3. CASE left = {}
  BY <1>1, <1>3 DEF Window, NextKey
<1>4. ASSUME left # {}, first \notin ts PROVE Window(left, first, last)
  <2>1. keys # {} /\ first \in keys /\ \A t \in keys : Age(last, t) <= Age(last, first)
    BY <1>4 DEF Window
  <2> QED BY <1>1, <1>4, <2>1 DEF Window
<1>5. ASSUME left # {}, first \in ts PROVE Window(left, NextKey(left, first), last)
  <2> DEFINE later == {y \in left : y > first}
  <2>1. keys # {} /\ first \in keys /\ \A t \in keys : Age(last, t) <= Age(last, first)
    BY <1>5 DEF Window
  <2>2. first \in TxSequence /\ \A t \in left : t \in TxSequence /\ t # first /\ Age(last, t) <= Age(last, first)
    BY <1>1, <1>5, <2>1 DEF Window
  <2>3. left \in SUBSET Nat /\ later \in SUBSET Nat
    BY <1>1 DEF TxSequence
  <2>4. CASE later # {}
    <3> DEFINE next == Min(later)
    <3>1. NextKey(left, first) = next
      BY <1>5, <2>4 DEF NextKey
    <3>2. next \in later /\ \A x \in later : next <= x
      BY <2>3, <2>4, MinOfKeys
    <3> HIDE DEF next
    <3>3. next \in left /\ next > first /\ next \in TxSequence
      BY <1>1, <3>2
    <3>4. ASSUME NEW t \in left PROVE Age(last, t) <= Age(last, next)
      <4>1. t \in TxSequence /\ t # first /\ Age(last, t) <= Age(last, first) /\ (t > first => next <= t)
        BY <2>2, <3>2
      <4> QED BY <1>1, <1>2, <2>2, <3>3, <4>1 DEF TxSequence
    <3> QED BY <1>1, <1>5, <3>1, <3>3, <3>4 DEF Window
  <2>5. CASE later = {}
    <3> DEFINE next == Min(left)
    <3>1. NextKey(left, first) = next
      BY <1>5, <2>5 DEF NextKey
    <3>2. next \in left /\ \A x \in left : next <= x
      BY <1>5, <2>3, MinOfKeys
    <3> HIDE DEF next
    <3>3. next \in TxSequence /\ \A t \in left : ~(t > first)
      BY <1>1, <2>5, <3>2
    <3>4. ASSUME NEW t \in left PROVE Age(last, t) <= Age(last, next)
      <4>1. t \in TxSequence /\ t # first /\ Age(last, t) <= Age(last, first) /\ next <= t /\ ~(t > first)
        BY <2>2, <3>2, <3>3
      <4> QED BY <1>1, <1>2, <2>2, <3>3, <4>1 DEF TxSequence
    <3> QED BY <1>1, <1>5, <3>1, <3>2, <3>4 DEF Window
  <2> QED BY <2>4, <2>5
<1> QED BY <1>3, <1>4, <1>5

----------------------------------------------------------------------------
(* Acks in LpPackets.                                                      *)

\* The arithmetic of piggyback: n Acks in the space that it computes.
LEMMA SpaceForAcks ==
  ASSUME NEW fields \in Nat, NEW payload \in Int, fields > 0 \/ payload = 0,
         NEW mtu \in Int, NEW n \in Nat, NEW size, size = WireSize(fields, payload),
         n = 0 \/ AckSize * n <= mtu - (SizeOfVarNumber(MaxNdnPacketSize) - SizeOfVarNumber(size)) - size
  PROVE  ~(size <= mtu) \/ WireSize(fields + AckSize * n, payload) <= mtu \/ size \in {253, 254}
<1> DEFINE inner == fields + IF payload = 0 THEN 0 ELSE 1 + SizeOfVarNumber(payload) + payload
<1>1. inner \in Int
  BY DEF SizeOfVarNumber
<1>2. WireSize(fields, payload) = 1 + SizeOfVarNumber(inner) + inner
  BY DEF WireSize
<1>3. WireSize(fields + AckSize * n, payload) = 1 + SizeOfVarNumber(inner + AckSize * n) + inner + AckSize * n
  BY <1>1 DEF WireSize, AckSize, SizeOfVarNumber
<1> HIDE DEF inner
<1> QED BY <1>1, <1>2, <1>3 DEF SizeOfVarNumber, AckSize, MaxNdnPacketSize

\* The size of an LpPacket with Acks.
LEMMA FieldsOfAcks ==
  ASSUME NEW pkt, IsLpPacket(pkt), HasFragment(pkt) => pkt.tx # NoSeq
  PROVE  /\ Fields(Bare(pkt)) \in Nat /\ Payload(Bare(pkt)) \in Int
         /\ Fields(Bare(pkt)) > 0 \/ Payload(Bare(pkt)) = 0
         /\ Payload(pkt) = Payload(Bare(pkt))
         /\ Fields(pkt) = Fields(Bare(pkt)) + AckSize * Len(pkt.acks)
<1> DEFINE b == Bare(pkt)
<1>1. b.frag = pkt.frag /\ b.tx = pkt.tx /\ b.acks = << >>
  BY DEF Bare, IsLpPacket
<1> HIDE DEF b
<1>2. Len(pkt.acks) \in Nat /\ Len(b.acks) = 0
  BY <1>1 DEF IsLpPacket
<1>3. CASE HasFragment(pkt)
  <2> DEFINE f == pkt.frag[1]
             x == IF f.count > 1 THEN FragFieldsSize ELSE 0
             y == IF f.seq # NoSeq THEN SequenceSize ELSE 0
  <2>1. f.hdr \in Nat /\ f.begin \in Int /\ f.end \in Int /\ pkt.tx # NoSeq
    BY <1>3 DEF IsLpPacket, IsFragment
  <2>2. HasFragment(b)
    BY <1>1, <1>3 DEF HasFragment
  <2>3. x \in Nat /\ y \in Nat
    BY DEF FragFieldsSize, SequenceSize
  <2>4. Payload(pkt) = f.end - f.begin /\ Payload(b) = f.end - f.begin
    BY <1>1, <1>3, <2>2 DEF Payload
  <2>5. Fields(b) = AckSize * Len(b.acks) + (f.hdr + x + y + TxSequenceSize)
    BY <1>1, <2>1, <2>2 DEF Fields
  <2>6. Fields(pkt) = AckSize * Len(pkt.acks) + (f.hdr + x + y + TxSequenceSize)
    BY <1>3, <2>1 DEF Fields
  <2> HIDE DEF x, y, f
  <2>7. Fields(b) \in Nat /\ Fields(b) > 0 /\ Fields(pkt) = Fields(b) + AckSize * Len(pkt.acks)
    BY SMTT(30), <1>2, <2>1, <2>3, <2>5, <2>6 DEF AckSize, TxSequenceSize
  <2> QED BY <2>1, <2>4, <2>7 DEF b
<1>4. CASE ~HasFragment(pkt)
  <2>1. ~HasFragment(b)
    BY <1>1, <1>4 DEF HasFragment
  <2> QED BY <1>1, <1>2, <1>4, <2>1 DEF b, Fields, Payload, AckSize
<1> QED BY <1>3, <1>4

\* piggyback adds no more Acks than fit, and takes them from the queue.
LEMMA PiggybackKeeps ==
  ASSUME NEW e, DOMAIN e = Member, e.ackQueue \in Seq(TxSequence), IsMtu(e.mtu),
         NEW pkt, IsLpPacket(pkt), pkt.acks = << >>, HasFragment(pkt) => pkt.tx # NoSeq
  PROVE  LET r == Piggyback(e, pkt)
         IN  /\ IsLpPacket(r.pkt) /\ InRoom(e.mtu, r.pkt)
             /\ DOMAIN r.ep = Member /\ r.ep.ackQueue \in Seq(TxSequence)
             /\ Untouched(r.ep, e) /\ r.ep.out = e.out
<1> DEFINE size == SizeOf(pkt)
           reserved == SizeOfVarNumber(MaxNdnPacketSize) - SizeOfVarNumber(size)
           space == (IF e.mtu = MtuUnlimited THEN MaxNdnPacketSize ELSE e.mtu) - reserved - size
           two == {Len(e.ackQueue), IF space < 0 THEN 0 ELSE space \div AckSize}
           n == Min(two)
           r == Piggyback(e, pkt)
           b == Bare(pkt)
<1>1. /\ Fields(b) \in Nat /\ Payload(b) \in Int /\ (Fields(b) > 0 \/ Payload(b) = 0)
      /\ Payload(pkt) = Payload(b) /\ Fields(pkt) = Fields(b) + AckSize * Len(pkt.acks)
  BY FieldsOfAcks
<1>2. Len(pkt.acks) = 0 /\ Len(e.ackQueue) \in Nat
  OBVIOUS
<1> HIDE DEF b
<1>3. size = WireSize(Fields(b), Payload(b))
  <2>1. Fields(pkt) = Fields(b)
    BY <1>1, <1>2 DEF AckSize
  <2> QED BY <1>1, <2>1 DEF SizeOf
<1> HIDE DEF size
<1>4. size \in Int /\ reserved \in Int
  <2>1. size \in Int
    BY <1>1, <1>3 DEF WireSize, SizeOfVarNumber
  <2> QED BY <2>1 DEF SizeOfVarNumber, MaxNdnPacketSize
<1> HIDE DEF reserved
<1>5. space \in Int
  BY <1>4 DEF IsMtu, MaxNdnPacketSize
<1>6. e.mtu # MtuUnlimited => space = e.mtu - reserved - size
  OBVIOUS
<1> HIDE DEF space
<1>7. two \in SUBSET Nat /\ two # {}
  BY <1>2, <1>5 DEF AckSize
<1>8. n \in two /\ \A x \in two : n <= x
  BY ZenonT(30), <1>7, MinOfKeys
<1>9. n \in Nat /\ n <= Len(e.ackQueue)
  BY <1>7, <1>8
<1>10. n = 0 \/ AckSize * n <= space
  BY <1>5, <1>8, <1>9 DEF AckSize
<1> HIDE DEF n
<1>11. /\ r.ep = [e EXCEPT !.ackQueue = SubSeq(@, n + 1, Len(@))]
       /\ r.pkt = [pkt EXCEPT !.acks = SubSeq(e.ackQueue, 1, n)]
  BY DEF Piggyback, n, two, space, reserved, size
<1> HIDE DEF r
<1>12. /\ SubSeq(e.ackQueue, n + 1, Len(e.ackQueue)) \in Seq(TxSequence)
       /\ SubSeq(e.ackQueue, 1, n) \in Seq(TxSequence) /\ Len(SubSeq(e.ackQueue, 1, n)) = n
  BY <1>9
<1>13. IsLpPacket(r.pkt) /\ Len(r.pkt.acks) = n /\ (HasFragment(r.pkt) => r.pkt.tx # NoSeq)
  BY <1>11, <1>12 DEF IsLpPacket, HasFragment
<1>14. Bare(r.pkt) = b
  BY ZenonT(30), <1>11 DEF Bare, b, IsLpPacket
<1>15. Payload(r.pkt) = Payload(b) /\ Fields(r.pkt) = Fields(b) + AckSize * n
  BY <1>13, <1>14, FieldsOfAcks
<1>16. InRoom(e.mtu, r.pkt)
  <2>1. CASE e.mtu = MtuUnlimited
    BY <2>1 DEF InRoom
  <2>2. CASE e.mtu # MtuUnlimited
    <3>1. e.mtu \in Int
      BY DEF IsMtu
    <3>2. n = 0 \/ AckSize * n <= e.mtu - (SizeOfVarNumber(MaxNdnPacketSize) - SizeOfVarNumber(size)) - size
      BY <1>6, <1>10, <2>2 DEF reserved
    <3>3. ~(size <= e.mtu) \/ WireSize(Fields(b) + AckSize * n, Payload(b)) <= e.mtu \/ size \in {253, 254}
      <4> DEFINE f == Fields(b)  p == Payload(b)  m == e.mtu
      <4>1. f \in Nat /\ p \in Int /\ (f > 0 \/ p = 0) /\ m \in Int /\ size = WireSize(f, p)
        BY <1>1, <1>3, <3>1
      <4>2. n = 0 \/ AckSize * n <= m - (SizeOfVarNumber(MaxNdnPacketSize) - SizeOfVarNumber(size)) - size
        BY <3>2
      <4> HIDE DEF f, p, m
      <4>3. ~(size <= m) \/ WireSize(f + AckSize * n, p) <= m \/ size \in {253, 254}
        BY <1>9, <4>1, <4>2, SpaceForAcks
      <4> QED BY <4>3 DEF f, p, m
    <3> QED BY <1>3, <1>14, <1>15, <3>3 DEF InRoom, SizeOf
  <2> QED BY <2>1, <2>2
<1>17. DOMAIN r.ep = Member /\ r.ep.ackQueue \in Seq(TxSequence) /\ Untouched(r.ep, e) /\ r.ep.out = e.out
  BY <1>11, <1>12 DEF Member, Untouched
<1> QED BY <1>13, <1>16, <1>17 DEF r

\* An LpPacket without Acks fits with its Acks if it does without.
LEMMA BareInRoom ==
  ASSUME NEW pkt, IsLpPacket(pkt), pkt.acks = << >>, NEW mtu
  PROVE  InRoom(mtu, pkt)
<1>1. Bare(pkt).frag = pkt.frag /\ Bare(pkt).tx = pkt.tx /\ Bare(pkt).acks = pkt.acks
  BY DEF Bare, IsLpPacket
<1>2. SizeOf(Bare(pkt)) = SizeOf(pkt)
  BY <1>1 DEF SizeOf, Fields, Payload, HasFragment
<1> QED BY <1>2 DEF InRoom

\* A packet joins those the handler has sent.
LEMMA AppendedOut ==
  ASSUME NEW out, Len(out) \in Nat, DOMAIN out = 1 .. Len(out), NEW x
  PROVE  LET s == Append(out, x)
         IN  /\ Len(s) \in Nat /\ DOMAIN s = 1 .. Len(s)
             /\ \A i \in DOMAIN s : (i \in DOMAIN out /\ s[i] = out[i]) \/ s[i] = x
OBVIOUS

\* A fragment, or none, that sendLpPacket may be called with.
Sendable(e, frag, tx) ==
  /\ tx \in TxSequence \cup {NoSeq}
  /\ frag # << >> => IsFragment(frag[1]) /\ (e.enabled => tx # NoSeq)

\* sendLpPacket changes only the queue of Acks and what was sent.
LEMMA SendKeeps ==
  ASSUME NEW e, Reliable(e), NEW frag, NEW tx, Sendable(e, frag, tx)
  PROVE  Reliable(SendLpPacket(e, frag, tx)) /\ Untouched(SendLpPacket(e, frag, tx), e)
<1> DEFINE pkt == [frag |-> frag, tx |-> tx, acks |-> << >>]
           pb == IF e.enabled THEN Piggyback(e, pkt) ELSE [ep |-> e, pkt |-> pkt]
           d == SendLpPacket(e, frag, tx)
<1>1. IsLpPacket(pkt) /\ pkt.acks = << >>
  <2>1. << >> \in Seq(TxSequence)
    OBVIOUS
  <2> QED BY <2>1 DEF IsLpPacket, Sendable, HasFragment
<1>2. /\ DOMAIN e = Member /\ e.ackQueue \in Seq(TxSequence) /\ IsMtu(e.mtu)
      /\ Len(e.out) \in Nat /\ DOMAIN e.out = 1 .. Len(e.out)
      /\ \A i \in DOMAIN e.out : IsLpPacket(e.out[i]) /\ InRoom(e.mtu, e.out[i])
  BY DEF Reliable
<1>3. e.enabled => (HasFragment(pkt) => pkt.tx # NoSeq)
  BY DEF Sendable, HasFragment
<1> HIDE DEF pkt
<1>4. /\ IsLpPacket(pb.pkt) /\ InRoom(e.mtu, pb.pkt)
      /\ DOMAIN pb.ep = Member /\ pb.ep.ackQueue \in Seq(TxSequence)
      /\ Untouched(pb.ep, e) /\ pb.ep.out = e.out
  <2>1. CASE e.enabled
    BY <1>1, <1>2, <1>3, <2>1, PiggybackKeeps
  <2>2. CASE ~e.enabled
    BY <1>1, <1>2, <2>2, BareInRoom DEF Untouched
  <2> QED BY <2>1, <2>2
<1>5. d = [pb.ep EXCEPT !.out = Append(pb.ep.out, pb.pkt)]
  BY DEF SendLpPacket, pkt
<1> HIDE DEF pb, d
<1>6. /\ DOMAIN d = Member /\ d.ackQueue = pb.ep.ackQueue /\ Untouched(d, e)
      /\ d.out = Append(e.out, pb.pkt)
  BY <1>4, <1>5 DEF Member, Untouched
<1>7. /\ Len(d.out) \in Nat /\ DOMAIN d.out = 1 .. Len(d.out)
      /\ \A i \in DOMAIN d.out : (i \in DOMAIN e.out /\ d.out[i] = e.out[i]) \/ d.out[i] = pb.pkt
  BY <1>2, <1>6, AppendedOut
<1>8. \A i \in DOMAIN d.out : IsLpPacket(d.out[i]) /\ InRoom(d.mtu, d.out[i])
  BY <1>2, <1>4, <1>6, <1>7 DEF Untouched
<1>9. Reliable(d)
  BY <1>4, <1>6, <1>7, <1>8 DEF Reliable, Untouched
<1> QED BY <1>6, <1>9 DEF d

----------------------------------------------------------------------------
(* The window and the NetPkts.                                             *)

\* deleteUnackedFrag leaves a window that starts with its oldest fragment.
LEMMA DeleteKeeps ==
  ASSUME NEW e, DOMAIN e = Member, Window(DOMAIN e.unacked, e.first, e.lastTx), NEW ts
  PROVE  LET d == DeleteUnackedFrags(e, ts)
         IN  /\ DOMAIN d = Member /\ Window(DOMAIN d.unacked, d.first, d.lastTx)
             /\ d.unacked = [t \in DOMAIN e.unacked \ ts |-> e.unacked[t]]
             /\ d.netPkts = e.netPkts /\ d.ackQueue = e.ackQueue /\ d.out = e.out
             /\ d.enabled = e.enabled /\ d.mtu = e.mtu
<1> DEFINE left == DOMAIN e.unacked \ ts
           first == IF left # {} /\ e.first \notin ts THEN e.first ELSE NextKey(left, e.first)
           d == DeleteUnackedFrags(e, ts)
<1>1. d = [e EXCEPT !.unacked = [t \in left |-> e.unacked[t]], !.first = first]
  BY DEF DeleteUnackedFrags, Restrict
<1>2. Window(left, first, e.lastTx)
  BY ThinnedWindow
<1> HIDE DEF d, first
<1>3. /\ DOMAIN d = Member /\ d.unacked = [t \in left |-> e.unacked[t]] /\ d.first = first
      /\ d.lastTx = e.lastTx /\ d.netPkts = e.netPkts /\ d.ackQueue = e.ackQueue /\ d.out = e.out
      /\ d.enabled = e.enabled /\ d.mtu = e.mtu
  BY <1>1 DEF Member
<1>4. DOMAIN d.unacked = left
  BY <1>3
<1> QED BY <1>2, <1>3, <1>4 DEF d

\* A packet that is given up leaves with all its fragments.
LEMMA PacketLeaves ==
  ASSUME NEW u, NEW nets, Iterators(u, nets), Records(u, nets), NEW id \in DOMAIN nets
  PROVE  LET v == [t \in DOMAIN u \ nets[id].frags |-> u[t]]
             w == [p \in DOMAIN nets \ {id} |-> nets[p]]
         IN  Iterators(v, w) /\ Records(v, w)
<1> DEFINE v == [t \in DOMAIN u \ nets[id].frags |-> u[t]]
           w == [p \in DOMAIN nets \ {id} |-> nets[p]]
<1>1. \A t \in DOMAIN v : t \in DOMAIN u /\ v[t] = u[t] /\ u[t].frag.net # id
  BY DEF Iterators
<1>2. \A p \in DOMAIN w : p \in DOMAIN nets /\ p # id /\ w[p] = nets[p]
  OBVIOUS
<1>3. Records(v, w)
  BY <1>1, <1>2 DEF Records
<1>4. \A t \in DOMAIN v : v[t].retx \in 0 .. MaxRetx /\ v[t].frag.net \in DOMAIN w
  BY <1>1 DEF Iterators
<1>5. ASSUME NEW p \in DOMAIN w
      PROVE  w[p].frags # {} /\ w[p].frags = {t \in DOMAIN v : v[t].frag.net = p}
  <2>1. nets[p].frags # {} /\ nets[p].frags = {t \in DOMAIN u : u[t].frag.net = p}
    BY <1>2 DEF Iterators
  <2>2. nets[id].frags = {t \in DOMAIN u : u[t].frag.net = id}
    BY DEF Iterators
  <2>3. {t \in DOMAIN u : u[t].frag.net = p} = {t \in DOMAIN v : v[t].frag.net = p}
    BY <1>2, <2>2
  <2> QED BY ZenonT(30), <1>2, <2>1, <2>3
<1> QED BY <1>3, <1>4, <1>5 DEF Iterators

\* The packets when the fragment at tx has been acknowledged.
AckedPackets(u, nets, tx) ==
  LET id == u[tx].frag.net
      left == nets[id].frags \ {tx}
  IN  IF left = {} THEN [p \in DOMAIN nets \ {id} |-> nets[p]] ELSE [nets EXCEPT ![id].frags = left]

\* A fragment that is acknowledged leaves, its packet with the last one.
LEMMA FragmentLeaves ==
  ASSUME NEW u, NEW nets, Iterators(u, nets), Records(u, nets), NEW tx \in DOMAIN u
  PROVE  LET v == [t \in DOMAIN u \ {tx} |-> u[t]]
             w == AckedPackets(u, nets, tx)
         IN  Iterators(v, w) /\ Records(v, w) /\ DOMAIN w \subseteq DOMAIN nets
<1> DEFINE id == u[tx].frag.net
           left == nets[id].frags \ {tx}
           v == [t \in DOMAIN u \ {tx} |-> u[t]]
           w == AckedPackets(u, nets, tx)
<1>1. id \in DOMAIN nets /\ nets[id].frags = {t \in DOMAIN u : u[t].frag.net = id}
  BY DEF Iterators
<1>2. \A t \in DOMAIN v : t \in DOMAIN u /\ t # tx /\ v[t] = u[t]
  OBVIOUS
<1>3. \A p \in DOMAIN w : /\ p \in DOMAIN nets /\ (p # id => w[p] = nets[p])
                          /\ (p = id => left # {} /\ w[p] = [nets[id] EXCEPT !.frags = left])
  BY <1>1 DEF AckedPackets
<1>4. DOMAIN nets \ {id} \subseteq DOMAIN w /\ (left # {} => id \in DOMAIN w)
  BY <1>1 DEF AckedPackets
<1>5. left = {t \in DOMAIN v : u[t].frag.net = id}
  BY <1>1, <1>2
<1> HIDE DEF id, left, w
<1>6. Records(v, w)
  BY <1>1, <1>2, <1>3 DEF Records
<1>7. ASSUME NEW t \in DOMAIN v PROVE v[t].retx \in 0 .. MaxRetx /\ v[t].frag.net \in DOMAIN w
  <2>1. u[t].retx \in 0 .. MaxRetx /\ u[t].frag.net \in DOMAIN nets
    BY <1>2 DEF Iterators
  <2>2. u[t].frag.net = id => t \in left
    BY <1>5
  <2> QED BY <1>2, <1>4, <2>1, <2>2
<1>8. ASSUME NEW p \in DOMAIN w
      PROVE  w[p].frags # {} /\ w[p].frags = {t \in DOMAIN v : v[t].frag.net = p}
  <2>1. CASE p = id
    <3>1. w[p].frags = left /\ left # {}
      BY <1>1, <1>3, <2>1 DEF Records
    <3> QED BY <1>2, <1>5, <2>1, <3>1
  <2>2. CASE p # id
    <3>1. w[p].frags = nets[p].frags /\ nets[p].frags # {} /\ nets[p].frags = {t \in DOMAIN u : u[t].frag.net = p}
      BY <1>3, <2>2 DEF Iterators
    <3>2. {t \in DOMAIN u : u[t].frag.net = p} = {t \in DOMAIN v : v[t].frag.net = p}
      BY <1>2, <2>2 DEF id
    <3> QED BY ZenonT(30), <3>1, <3>2
  <2> QED BY <2>1, <2>2
<1> QED BY ZenonT(30), <1>3, <1>6, <1>7, <1>8 DEF Iterators, w

\* The fragments and the packets when the one at tx moves to new.
MovedFragment(u, tx, new) == [u[tx] EXCEPT !.retx = @ + 1, !.greater = 0]
MovedFragments(u, tx, new) ==
  LET x == Put(u, new, MovedFragment(u, tx, new)) IN [t \in DOMAIN x \ {tx} |-> x[t]]
MovedPackets(u, nets, tx, new) ==
  [nets EXCEPT ![u[tx].frag.net] = [frags |-> (@.frags \ {tx}) \cup {new}, didRetx |-> TRUE]]

\* A fragment that is retransmitted moves to a new number, and so does the
\* iterator of its packet.
LEMMA FragmentMoves ==
  ASSUME NEW u, NEW nets, Iterators(u, nets), Records(u, nets),
         NEW tx \in DOMAIN u, u[tx].retx < MaxRetx, NEW new, new \notin DOMAIN u
  PROVE  /\ Iterators(MovedFragments(u, tx, new), MovedPackets(u, nets, tx, new))
         /\ Records(MovedFragments(u, tx, new), MovedPackets(u, nets, tx, new))
         /\ DOMAIN MovedPackets(u, nets, tx, new) = DOMAIN nets
<1> USE ReliabilityAssumption
<1> DEFINE id == u[tx].frag.net
           entry == MovedFragment(u, tx, new)
           v == MovedFragments(u, tx, new)
           w == MovedPackets(u, nets, tx, new)
<1>1. id \in DOMAIN nets /\ nets[id].frags = {t \in DOMAIN u : u[t].frag.net = id}
  BY DEF Iterators
<1>2. IsUnacked(u[tx]) /\ u[tx].retx \in 0 .. MaxRetx /\ tx # new
  BY DEF Records, Iterators
<1>3. IsUnacked(entry) /\ entry.frag = u[tx].frag /\ entry.retx \in 0 .. MaxRetx
  BY <1>2 DEF IsUnacked, MovedFragment
<1> HIDE DEF entry
<1>4. /\ DOMAIN v = (DOMAIN u \ {tx}) \cup {new} /\ v[new] = entry
      /\ \A t \in DOMAIN u \ {tx} : v[t] = u[t] /\ t # new
  BY <1>2 DEF Put, MovedFragments, entry
<1>5. /\ DOMAIN w = DOMAIN nets /\ \A p \in DOMAIN nets \ {id} : w[p] = nets[p]
      /\ w[id] = [frags |-> (nets[id].frags \ {tx}) \cup {new}, didRetx |-> TRUE]
  BY <1>1 DEF MovedPackets
<1> HIDE DEF v, w, id
<1>6. Records(v, w)
  <2>1. \A t \in DOMAIN v : IsUnacked(v[t])
    BY <1>3, <1>4 DEF Records
  <2>2. \A p \in DOMAIN w : DOMAIN w[p] = {"frags", "didRetx"}
    BY <1>5 DEF Records
  <2> QED BY <2>1, <2>2 DEF Records
<1>7. ASSUME NEW t \in DOMAIN v PROVE v[t].retx \in 0 .. MaxRetx /\ v[t].frag.net \in DOMAIN w
  <2>1. CASE t = new
    BY <1>1, <1>3, <1>4, <1>5, <2>1 DEF id
  <2>2. CASE t # new
    BY <1>4, <1>5, <2>2 DEF Iterators
  <2> QED BY <2>1, <2>2
<1>8. ASSUME NEW p \in DOMAIN w
      PROVE  w[p].frags # {} /\ w[p].frags = {t \in DOMAIN v : v[t].frag.net = p}
  <2>1. CASE p = id
    <3>1. w[p].frags = (nets[id].frags \ {tx}) \cup {new}
      BY <1>5, <2>1
    <3>2. v[new].frag.net = id
      BY <1>3, <1>4 DEF id
    <3>3. (nets[id].frags \ {tx}) \cup {new} = {t \in DOMAIN v : v[t].frag.net = id}
      BY <1>1, <1>4, <3>2
    <3> QED BY <2>1, <3>1, <3>3
  <2>2. CASE p # id
    <3>1. w[p].frags = nets[p].frags /\ nets[p].frags # {} /\ nets[p].frags = {t \in DOMAIN u : u[t].frag.net = p}
      BY <1>5, <2>2 DEF Iterators
    <3>2. v[new].frag.net # p /\ u[tx].frag.net # p
      BY <1>3, <1>4, <2>2 DEF id
    <3>3. {t \in DOMAIN u : u[t].frag.net = p} = {t \in DOMAIN v : v[t].frag.net = p}
      BY <1>4, <3>2
    <3> QED BY <3>1, <3>3
  <2> QED BY <2>1, <2>2
<1> QED BY <1>5, <1>6, <1>7, <1>8 DEF Iterators, w, v

\* v is u with the fragments of packet p, at new keys.
Joined(v, u, keys, p) ==
  /\ keys # {} /\ keys \cap DOMAIN u = {} /\ DOMAIN v = DOMAIN u \cup keys
  /\ \A t \in DOMAIN u \ keys : v[t] = u[t]
  /\ \A t \in keys : IsUnacked(v[t]) /\ v[t].retx = 0 /\ v[t].frag.net = p
JoinedPackets(nets, keys, p) == Put(nets, p, [frags |-> keys, didRetx |-> FALSE])

\* A packet joins with its fragments, which handleOutgoing enters at new keys.
LEMMA PacketJoins ==
  ASSUME NEW u, NEW nets, Iterators(u, nets), Records(u, nets), NEW p, p \notin DOMAIN nets,
         NEW keys, NEW v, Joined(v, u, keys, p)
  PROVE  LET w == JoinedPackets(nets, keys, p)
         IN  Iterators(v, w) /\ Records(v, w)
<1> USE ReliabilityAssumption DEF Joined
<1> DEFINE w == JoinedPackets(nets, keys, p)
<1>1. /\ DOMAIN w = DOMAIN nets \cup {p} /\ w[p] = [frags |-> keys, didRetx |-> FALSE]
      /\ \A q \in DOMAIN nets : q # p /\ w[q] = nets[q]
  BY DEF Put, JoinedPackets
<1> HIDE DEF w
<1>2. \A t \in DOMAIN u : t \notin keys /\ v[t] = u[t] /\ u[t].frag.net # p
  BY DEF Iterators
<1>3. Records(v, w)
  <2>1. \A t \in DOMAIN v : IsUnacked(v[t])
    BY <1>2 DEF Records
  <2>2. \A q \in DOMAIN w : DOMAIN w[q] = {"frags", "didRetx"}
    BY <1>1 DEF Records
  <2> QED BY <2>1, <2>2 DEF Records
<1>4. ASSUME NEW t \in DOMAIN v PROVE v[t].retx \in 0 .. MaxRetx /\ v[t].frag.net \in DOMAIN w
  <2>1. CASE t \in keys
    BY <1>1, <2>1
  <2>2. CASE t \notin keys
    BY <1>1, <1>2, <2>2 DEF Iterators
  <2> QED BY <2>1, <2>2
<1>5. ASSUME NEW q \in DOMAIN w
      PROVE  w[q].frags # {} /\ w[q].frags = {t \in DOMAIN v : v[t].frag.net = q}
  <2>1. CASE q = p
    <3>1. w[q].frags = keys
      BY <1>1, <2>1
    <3> QED BY <1>2, <2>1, <3>1
  <2>2. CASE q # p
    <3>1. w[q].frags = nets[q].frags /\ nets[q].frags # {} /\ nets[q].frags = {t \in DOMAIN u : u[t].frag.net = q}
      BY <1>1, <2>2 DEF Iterators
    <3>2. {t \in DOMAIN u : u[t].frag.net = q} = {t \in DOMAIN v : v[t].frag.net = q}
      BY <1>2, <2>2
    <3> QED BY <3>1, <3>2
  <2> QED BY <2>1, <2>2
<1> QED BY <1>1, <1>3, <1>4, <1>5 DEF Iterators, w

----------------------------------------------------------------------------
(* The handlers of LpReliability.                                          *)

\* Parts of an endpoint that the window does not concern.
SameTraffic(d, e) ==
  d.ackQueue = e.ackQueue /\ d.out = e.out /\ d.mtu = e.mtu /\ d.enabled = e.enabled

\* An endpoint is well formed if its window, records and iterators are.
LEMMA ReliableAgain ==
  ASSUME NEW e, Reliable(e), NEW d, DOMAIN d = Member, SameTraffic(d, e),
         Window(DOMAIN d.unacked, d.first, d.lastTx),
         Iterators(d.unacked, d.netPkts), Records(d.unacked, d.netPkts)
  PROVE  Reliable(d)
BY DEF Reliable, SameTraffic

\* An exception leaves the endpoint as it was.
LEMMA ThrowKeeps ==
  ASSUME NEW e, Reliable(e)
  PROVE  Reliable(Throw(e)) /\ Follows(Throw(e), e)
<1> DEFINE d == Throw(e)
<1>1. DOMAIN e = Member
  BY DEF Reliable
<1>2. /\ DOMAIN d = Member /\ SameTraffic(d, e) /\ d.unacked = e.unacked /\ d.first = e.first
      /\ d.lastTx = e.lastTx /\ d.netPkts = e.netPkts
  BY <1>1 DEF Throw, Member, SameTraffic
<1> HIDE DEF d
<1>3. Reliable(d)
  BY <1>2 DEF Reliable, SameTraffic
<1> QED BY <1>2, <1>3 DEF Follows, SameTraffic, d

\* Giving up a packet.
LEMMA GiveUpKeeps ==
  ASSUME NEW e, Reliable(e), NEW tx \in DOMAIN e.unacked
  PROVE  Reliable(GiveUp(e, tx)) /\ Follows(GiveUp(e, tx), e)
<1> DEFINE id == e.unacked[tx].frag.net
           ts == e.netPkts[id].frags
           gone == DeleteUnackedFrags(e, ts)
           d == GiveUp(e, tx)
<1>1. /\ DOMAIN e = Member /\ Window(DOMAIN e.unacked, e.first, e.lastTx)
      /\ Iterators(e.unacked, e.netPkts) /\ Records(e.unacked, e.netPkts)
  BY DEF Reliable
<1>2. id \in DOMAIN e.netPkts
  BY <1>1 DEF Iterators
<1>3. d = [gone EXCEPT !.netPkts = [p \in DOMAIN gone.netPkts \ {id} |-> gone.netPkts[p]],
                       !.ended = Append(gone.ended, [net |-> id, how |-> "exhausted"])]
  BY DEF GiveUp, Without, Restrict
<1> HIDE DEF id
<1>4. /\ DOMAIN gone = Member /\ Window(DOMAIN gone.unacked, gone.first, gone.lastTx)
      /\ gone.unacked = [t \in DOMAIN e.unacked \ ts |-> e.unacked[t]]
      /\ gone.netPkts = e.netPkts /\ gone.ackQueue = e.ackQueue /\ gone.out = e.out
      /\ gone.enabled = e.enabled /\ gone.mtu = e.mtu
  BY ZenonT(30), <1>1, DeleteKeeps
<1> HIDE DEF gone, d
<1>5. /\ DOMAIN d = Member /\ SameTraffic(d, e) /\ d.unacked = gone.unacked /\ d.first = gone.first
      /\ d.lastTx = gone.lastTx /\ d.netPkts = [p \in DOMAIN e.netPkts \ {id} |-> e.netPkts[p]]
  BY <1>3, <1>4 DEF Member, SameTraffic
<1>6. Iterators(d.unacked, d.netPkts) /\ Records(d.unacked, d.netPkts)
  <2> DEFINE v == [t \in DOMAIN e.unacked \ e.netPkts[id].frags |-> e.unacked[t]]
             w == [p \in DOMAIN e.netPkts \ {id} |-> e.netPkts[p]]
  <2>1. Iterators(v, w) /\ Records(v, w)
    BY <1>1, <1>2, PacketLeaves
  <2>2. d.unacked = v /\ d.netPkts = w
    BY <1>4, <1>5
  <2> QED BY <2>1, <2>2
<1>7. Window(DOMAIN d.unacked, d.first, d.lastTx)
  BY <1>4, <1>5
<1>8. Reliable(d)
  BY <1>5, <1>6, <1>7, ReliableAgain
<1>9. DOMAIN d.netPkts \subseteq DOMAIN e.netPkts
  BY <1>5
<1> QED BY <1>5, <1>8, <1>9 DEF d, Follows, SameTraffic

\* Retransmitting a fragment.
LEMMA RetransmitKeeps ==
  ASSUME NEW e, Reliable(e), NEW tx \in DOMAIN e.unacked, ~(e.unacked[tx].retx >= MaxRetx)
  PROVE  Reliable(Retransmit(e, tx)) /\ Follows(Retransmit(e, tx), e)
<1> USE ReliabilityAssumption, FragmentAssumption
<1> DEFINE lost == e.unacked[tx]
           new == TxAfter(e, 1)
           entry == MovedFragment(e.unacked, tx, new)
           moved == [e EXCEPT !.lastTx = new, !.unacked = Put(e.unacked, new, entry),
                              !.netPkts = MovedPackets(e.unacked, e.netPkts, tx, new)]
           gone == DeleteUnackedFrags(moved, {tx})
<1>1. /\ DOMAIN e = Member /\ Window(DOMAIN e.unacked, e.first, e.lastTx)
      /\ Iterators(e.unacked, e.netPkts) /\ Records(e.unacked, e.netPkts)
  BY DEF Reliable
<1>2. Retransmit(e, tx) = IF new = e.first THEN Throw(e) ELSE SendLpPacket(gone, << lost.frag >>, new)
  BY DEF Retransmit, MovedFragment, MovedPackets
<1> HIDE DEF moved, gone
<1>3. CASE new = e.first
  BY <1>2, <1>3, ThrowKeeps
<1>4. CASE new # e.first
  <2>1. e.lastTx \in TxSequence /\ DOMAIN e.unacked \subseteq TxSequence /\ e.first \in TxSequence /\ DOMAIN e.unacked # {}
    BY <1>1 DEF Window
  <2>2. new \in TxSequence /\ e.first # NoSeq
    BY <2>1 DEF TxAfter, TxSequence, NoSeq
  <2>3. {new} = Following(e.lastTx, 1) /\ 1 \in 1 .. (TxModulus - 1)
    BY DEF TxAfter, Following
  <2>4. new \notin DOMAIN e.unacked /\ Window(DOMAIN e.unacked \cup {new}, e.first, new)
    <3>1. e.first \notin Following(e.lastTx, 1)
      BY <1>4, <2>3
    <3>2. /\ Following(e.lastTx, 1) \cap DOMAIN e.unacked = {}
          /\ Window(DOMAIN e.unacked \cup Following(e.lastTx, 1),
                    IF e.first = NoSeq THEN (e.lastTx + 1) % TxModulus ELSE e.first, (e.lastTx + 1) % TxModulus)
      BY ZenonT(30), <1>1, <2>3, <3>1, ExtendedWindow
    <3>3. (e.lastTx + 1) % TxModulus = new /\ (IF e.first = NoSeq THEN new ELSE e.first) = e.first
      BY <2>2 DEF TxAfter
    <3> HIDE DEF new
    <3>4. Window(DOMAIN e.unacked \cup Following(e.lastTx, 1), e.first, new)
      BY <2>2, <3>2, <3>3
    <3> QED BY ZenonT(30), <2>3, <3>2, <3>4
  <2> HIDE DEF new
  <2>5. /\ DOMAIN moved = Member /\ SameTraffic(moved, e) /\ moved.first = e.first /\ moved.lastTx = new
        /\ moved.unacked = Put(e.unacked, new, entry)
        /\ moved.netPkts = MovedPackets(e.unacked, e.netPkts, tx, new)
    BY <1>1 DEF moved, Member, SameTraffic
  <2>6. DOMAIN moved.unacked = DOMAIN e.unacked \cup {new}
    BY <2>5 DEF Put
  <2>7. /\ DOMAIN gone = Member /\ Window(DOMAIN gone.unacked, gone.first, gone.lastTx)
        /\ gone.unacked = [t \in DOMAIN moved.unacked \ {tx} |-> moved.unacked[t]]
        /\ gone.netPkts = moved.netPkts /\ gone.ackQueue = moved.ackQueue /\ gone.out = moved.out
        /\ gone.enabled = moved.enabled /\ gone.mtu = moved.mtu
    BY <2>4, <2>5, <2>6, DeleteKeeps DEF gone
  <2>8. lost.retx < MaxRetx
    BY <1>1 DEF Iterators
  <2>9. Iterators(gone.unacked, gone.netPkts) /\ Records(gone.unacked, gone.netPkts) /\ DOMAIN gone.netPkts = DOMAIN e.netPkts
    <3>1. gone.unacked = MovedFragments(e.unacked, tx, new)
      BY <2>5, <2>7 DEF MovedFragments
    <3>2. gone.netPkts = MovedPackets(e.unacked, e.netPkts, tx, new)
      BY <2>5, <2>7
    <3> QED BY <1>1, <2>4, <2>8, <3>1, <3>2, FragmentMoves
  <2>10. Reliable(gone)
    BY <2>5, <2>7, <2>9, ReliableAgain DEF SameTraffic
  <2>11. Sendable(gone, << lost.frag >>, new)
    BY <1>1, <2>2 DEF Sendable, Records, IsUnacked, TxSequence, NoSeq
  <2>12. Reliable(SendLpPacket(gone, << lost.frag >>, new)) /\ Untouched(SendLpPacket(gone, << lost.frag >>, new), gone)
    BY <2>10, <2>11, SendKeeps
  <2> QED BY <1>2, <1>4, <2>5, <2>7, <2>9, <2>12 DEF Untouched, Follows, SameTraffic
<1> QED BY <1>3, <1>4

\* onLpPacketLost.
LEMMA LostKeeps ==
  ASSUME NEW e, Reliable(e), NEW tx \in DOMAIN e.unacked
  PROVE  Reliable(OnLpPacketLost(e, tx)) /\ Follows(OnLpPacketLost(e, tx), e)
<1>1. CASE e.unacked[tx].retx >= MaxRetx
  BY <1>1, GiveUpKeeps DEF OnLpPacketLost
<1>2. CASE ~(e.unacked[tx].retx >= MaxRetx)
  BY <1>2, RetransmitKeeps DEF OnLpPacketLost
<1> QED BY <1>1, <1>2

\* Following is transitive.
LEMMA FollowsOn ==
  ASSUME NEW c, NEW d, NEW e, Follows(c, d), Follows(d, e)
  PROVE  Follows(c, e)
BY DEF Follows

\* findLostLpPackets counts Acks and changes nothing else.
LEMMA CountKeeps ==
  ASSUME NEW e, Reliable(e), NEW before
  PROVE  LET d == CountGreater(e, before)
         IN  Reliable(d) /\ Follows(d, e) /\ DOMAIN d.unacked = DOMAIN e.unacked
<1> DEFINE d == CountGreater(e, before)
           u == [t \in DOMAIN e.unacked |->
                   IF t \in before THEN [e.unacked[t] EXCEPT !.greater = @ + 1] ELSE e.unacked[t]]
<1>1. /\ DOMAIN e = Member /\ Window(DOMAIN e.unacked, e.first, e.lastTx)
      /\ Iterators(e.unacked, e.netPkts) /\ Records(e.unacked, e.netPkts)
  BY DEF Reliable
<1>2. /\ DOMAIN d = Member /\ SameTraffic(d, e) /\ d.first = e.first /\ d.lastTx = e.lastTx
      /\ d.netPkts = e.netPkts /\ d.unacked = u
  BY <1>1 DEF CountGreater, Member, SameTraffic
<1>3. DOMAIN u = DOMAIN e.unacked
  OBVIOUS
<1>4. \A t \in DOMAIN e.unacked : IsUnacked(u[t]) /\ u[t].frag = e.unacked[t].frag /\ u[t].retx = e.unacked[t].retx
  BY <1>1 DEF Records, IsUnacked
<1> HIDE DEF u, d
<1>5. Records(u, e.netPkts)
  BY <1>1, <1>3, <1>4 DEF Records
<1>6. Iterators(u, e.netPkts)
  <2>1. \A t \in DOMAIN u : u[t].retx \in 0 .. MaxRetx /\ u[t].frag.net \in DOMAIN e.netPkts
    BY <1>1, <1>3, <1>4 DEF Iterators
  <2>2. ASSUME NEW p \in DOMAIN e.netPkts
        PROVE  e.netPkts[p].frags # {} /\ e.netPkts[p].frags = {t \in DOMAIN u : u[t].frag.net = p}
    <3>1. {t \in DOMAIN u : u[t].frag.net = p} = {t \in DOMAIN e.unacked : e.unacked[t].frag.net = p}
      BY <1>3, <1>4
    <3> QED BY <1>1, <3>1 DEF Iterators
  <2> QED BY <2>1, <2>2 DEF Iterators
<1>7. Reliable(d)
  BY <1>1, <1>2, <1>3, <1>5, <1>6, ReliableAgain
<1> QED BY <1>2, <1>3, <1>7 DEF d, Follows, SameTraffic

\* onLpPacketAcknowledged.
LEMMA AcknowledgedKeeps ==
  ASSUME NEW e, Reliable(e), NEW tx \in DOMAIN e.unacked
  PROVE  Reliable(OnLpPacketAcknowledged(e, tx)) /\ Follows(OnLpPacketAcknowledged(e, tx), e)
<1> DEFINE id == e.unacked[tx].frag.net
           net == e.netPkts[id]
           left == net.frags \ {tx}
           w == AckedPackets(e.unacked, e.netPkts, tx)
           ended == IF left # {} THEN e.ended
                    ELSE Append(e.ended, [net |-> id, how |-> IF net.didRetx THEN "retransmitted" ELSE "acknowledged"])
           kept == [e EXCEPT !.netPkts = w, !.ended = ended]
           d == OnLpPacketAcknowledged(e, tx)
<1>1. /\ DOMAIN e = Member /\ Window(DOMAIN e.unacked, e.first, e.lastTx)
      /\ Iterators(e.unacked, e.netPkts) /\ Records(e.unacked, e.netPkts)
  BY DEF Reliable
<1>2. d = DeleteUnackedFrags(kept, {tx})
  BY DEF OnLpPacketAcknowledged, AckedPackets, Without, Restrict
<1> HIDE DEF id, net, left, w, ended
<1>3. /\ DOMAIN kept = Member /\ SameTraffic(kept, e) /\ kept.unacked = e.unacked
      /\ kept.first = e.first /\ kept.lastTx = e.lastTx /\ kept.netPkts = w
  BY <1>1 DEF Member, SameTraffic
<1> HIDE DEF kept, d
<1>4. /\ DOMAIN d = Member /\ Window(DOMAIN d.unacked, d.first, d.lastTx)
      /\ d.unacked = [t \in DOMAIN e.unacked \ {tx} |-> e.unacked[t]]
      /\ d.netPkts = w /\ SameTraffic(d, e)
  <2>1. Window(DOMAIN kept.unacked, kept.first, kept.lastTx)
    BY <1>1, <1>3
  <2>2. /\ DOMAIN d = Member /\ Window(DOMAIN d.unacked, d.first, d.lastTx)
        /\ d.unacked = [t \in DOMAIN kept.unacked \ {tx} |-> kept.unacked[t]]
        /\ d.netPkts = kept.netPkts /\ d.ackQueue = kept.ackQueue /\ d.out = kept.out
        /\ d.enabled = kept.enabled /\ d.mtu = kept.mtu
    BY SMTT(30), <1>2, <1>3, <2>1, DeleteKeeps
  <2> QED BY <1>3, <2>2 DEF SameTraffic
<1>5. Iterators(d.unacked, d.netPkts) /\ Records(d.unacked, d.netPkts) /\ DOMAIN d.netPkts \subseteq DOMAIN e.netPkts
  <2> DEFINE v == [t \in DOMAIN e.unacked \ {tx} |-> e.unacked[t]]
  <2>1. Iterators(v, w) /\ Records(v, w) /\ DOMAIN w \subseteq DOMAIN e.netPkts
    BY <1>1, FragmentLeaves DEF w
  <2> QED BY <1>4, <2>1
<1>6. Reliable(d)
  BY <1>4, <1>5, ReliableAgain
<1> QED BY <1>4, <1>5, <1>6 DEF d, Follows, SameTraffic

----------------------------------------------------------------------------
(* The loops.  Each is a recursive function; a round of it is described    *)
(* here by a record, so that one induction serves them all.                *)

Round(loop, x, i) ==
  IF loop.kind = "lost" THEN LostUnlessGone(x, loop.lost, (loop.first + i - 1) % TxModulus)
  ELSE IF loop.kind = "acks" THEN HandleAck(x, loop.acks[i])
  ELSE IF loop.kind = "fragments"
    THEN SendLpPacket(x, << loop.frags[i] >>, IF loop.tx = NoSeq THEN NoSeq ELSE (loop.tx + i) % TxModulus)
  ELSE IdleUnlessEmpty(x)

IsLoop(f, n, e, loop) == f = [i \in 0 .. n |-> IF i = 0 THEN e ELSE Round(loop, f[i - 1], i)]

\* A loop of any number of rounds has a value.
LEMMA LoopExists ==
  ASSUME NEW e, NEW loop, NEW n \in Nat
  PROVE  \E f : IsLoop(f, n, e, loop)
<1> DEFINE Exists(m) == \E f : IsLoop(f, m, e, loop)
           S == {m \in Nat : ~Exists(m)}
<1>1. Exists(0)
  <2> DEFINE f == [i \in 0 .. 0 |-> e]
  <2>1. IsLoop(f, 0, e, loop)
    BY DEF IsLoop
  <2> QED BY <2>1
<1>2. ASSUME NEW m \in Nat, Exists(m) PROVE Exists(m + 1)
  <2>1. PICK g : IsLoop(g, m, e, loop)
    BY <1>2
  <2> DEFINE f == [i \in 0 .. (m + 1) |-> IF i = m + 1 THEN Round(loop, g[m], m + 1) ELSE g[i]]
  <2>2. \A i \in 0 .. m : f[i] = g[i] /\ g[i] = IF i = 0 THEN e ELSE Round(loop, g[i - 1], i)
    BY <2>1 DEF IsLoop
  <2>3. f[m + 1] = Round(loop, f[m], m + 1) /\ f[0] = e /\ f = [i \in 0 .. (m + 1) |-> f[i]]
    BY <2>2
  <2> HIDE DEF f
  <2>4. \A i \in 1 .. m : f[i] = Round(loop, f[i - 1], i)
    BY <2>2
  <2>5. ASSUME NEW i \in 0 .. (m + 1) PROVE f[i] = IF i = 0 THEN e ELSE Round(loop, f[i - 1], i)
    <3>1. CASE i = 0
      BY <2>3, <3>1
    <3>2. CASE i \in 1 .. m
      BY <2>4, <3>2
    <3>3. CASE i = m + 1
      BY <2>3, <3>3
    <3> QED BY <3>1, <3>2, <3>3
  <2>6. IsLoop(f, m + 1, e, loop)
    BY ZenonT(30), <2>3, <2>5 DEF IsLoop
  <2> QED BY <2>6
<1> HIDE DEF Exists
<1>3. S = {}
  <2> SUFFICES ASSUME S # {} PROVE FALSE
    OBVIOUS
  <2>1. PICK m \in S : \A x \in S : m <= x
    BY ZenonT(30), LeastNumber
  <2>2. m \in Nat /\ ~Exists(m) /\ m # 0 /\ m - 1 \in Nat /\ m - 1 \notin S
    BY <1>1, <2>1
  <2>3. Exists(m - 1)
    BY <2>2
  <2>4. Exists((m - 1) + 1) /\ (m - 1) + 1 = m
    BY <1>2, <2>2, <2>3
  <2> QED BY <2>2, <2>4
<1>4. Exists(n)
  BY <1>3
<1> QED BY <1>4 DEF Exists

\* A loop keeps the endpoint well formed if every round does.
LEMMA LoopKeeps ==
  ASSUME NEW e, Reliable(e), NEW loop, NEW n \in Nat, NEW f, IsLoop(f, n, e, loop),
         \A x : \A i \in 1 .. n : Reliable(x) /\ Follows(x, e) =>
                                    Reliable(Round(loop, x, i)) /\ Follows(Round(loop, x, i), x)
  PROVE  Reliable(f[n]) /\ Follows(f[n], e)
<1> DEFINE Good(d) == Reliable(d) /\ Follows(d, e)
           S == {m \in 0 .. n : ~Good(f[m])}
<1>1. f[0] = e /\ \A i \in 1 .. n : f[i] = Round(loop, f[i - 1], i)
  BY DEF IsLoop
<1>2. Good(f[0])
  BY <1>1 DEF Follows
<1>3. ASSUME NEW i \in 1 .. n, Good(f[i - 1]) PROVE Good(f[i])
  <2>1. Reliable(f[i]) /\ Follows(f[i], f[i - 1])
    BY <1>1, <1>3
  <2> QED BY <1>3, <2>1, FollowsOn
<1> HIDE DEF Good
<1>4. S = {}
  <2> SUFFICES ASSUME S # {} PROVE FALSE
    OBVIOUS
  <2>1. S \in SUBSET Nat
    OBVIOUS
  <2> HIDE DEF S
  <2>2. PICK m \in S : \A x \in S : m <= x
    BY <2>1, LeastNumber
  <2> USE DEF S
  <2>3. m \in 1 .. n /\ ~Good(f[m]) /\ m - 1 \in 0 .. n /\ m - 1 \notin S
    BY <1>2, <2>2
  <2> QED BY <1>3, <2>3
<1>5. Good(f[n])
  BY <1>4
<1> QED BY <1>5 DEF Good

\* One round of the loop over lost fragments.
LEMMA LostUnlessGoneKeeps ==
  ASSUME NEW e, Reliable(e), NEW lost, NEW t
  PROVE  Reliable(LostUnlessGone(e, lost, t)) /\ Follows(LostUnlessGone(e, lost, t), e)
<1>1. CASE t \in lost \cap DOMAIN e.unacked /\ ~e.thrown
  BY <1>1, LostKeeps DEF LostUnlessGone
<1>2. CASE ~(t \in lost \cap DOMAIN e.unacked /\ ~e.thrown)
  BY <1>2 DEF LostUnlessGone, Follows
<1> QED BY <1>1, <1>2

\* The loop over lost fragments.
LEMMA HandleLostKeeps ==
  ASSUME NEW e, Reliable(e), NEW lost, NEW first
  PROVE  Reliable(HandleLost(e, lost, first)) /\ Follows(HandleLost(e, lost, first), e)
<1> USE ReliabilityAssumption
<1> DEFINE loop == [kind |-> "lost", lost |-> lost, first |-> first]
           Is(g) == g = [i \in 0 .. TxModulus |-> IF i = 0 THEN e
                           ELSE LostUnlessGone(g[i - 1], lost, (first + i - 1) % TxModulus)]
           f == CHOOSE g : Is(g)
<1>1. HandleLost(e, lost, first) = f[TxModulus]
  BY DEF HandleLost
<1>2. \A x, i : Round(loop, x, i) = LostUnlessGone(x, lost, (first + i - 1) % TxModulus)
  BY DEF Round
<1> HIDE DEF loop
<1>3. \A g : Is(g) <=> IsLoop(g, TxModulus, e, loop)
  BY <1>2 DEF IsLoop
<1> HIDE DEF Is
<1>4. IsLoop(f, TxModulus, e, loop)
  BY <1>3, LoopExists
<1> HIDE DEF f
<1>5. \A x : \A i \in 1 .. TxModulus : Reliable(x) /\ Follows(x, e) =>
                                         Reliable(Round(loop, x, i)) /\ Follows(Round(loop, x, i), x)
  BY <1>2, LostUnlessGoneKeeps
<1> QED BY <1>1, <1>4, <1>5, LoopKeeps

\* An Ack.
LEMMA HandleAckKeeps ==
  ASSUME NEW e, Reliable(e), NEW tx
  PROVE  Reliable(HandleAck(e, tx)) /\ Follows(HandleAck(e, tx), e)
<1> DEFINE before == KeysBefore(e, tx)
           counted == CountGreater(e, before)
           lost == {t \in before : counted.unacked[t].greater >= SeqNumLossThreshold}
           acked == OnLpPacketAcknowledged(counted, tx)
<1>1. CASE tx \notin DOMAIN e.unacked \/ e.thrown
  BY <1>1 DEF HandleAck, Follows
<1>2. CASE ~(tx \notin DOMAIN e.unacked \/ e.thrown)
  <2>1. HandleAck(e, tx) = HandleLost(acked, lost, e.first)
    BY <1>2 DEF HandleAck
  <2> HIDE DEF before, lost
  <2>2. Reliable(counted) /\ Follows(counted, e) /\ DOMAIN counted.unacked = DOMAIN e.unacked
    BY CountKeeps
  <2> HIDE DEF counted
  <2>3. Reliable(acked) /\ Follows(acked, counted)
    BY <1>2, <2>2, AcknowledgedKeeps
  <2> HIDE DEF acked
  <2>4. Reliable(HandleLost(acked, lost, e.first)) /\ Follows(HandleLost(acked, lost, e.first), acked)
    BY <2>3, HandleLostKeeps
  <2>5. Follows(acked, e)
    BY <2>2, <2>3, FollowsOn
  <2> QED BY <2>1, <2>4, <2>5, FollowsOn
<1> QED BY <1>1, <1>2

\* The loop over the Acks of a packet.
LEMMA HandleAcksKeeps ==
  ASSUME NEW e, Reliable(e), NEW acks, Len(acks) \in Nat
  PROVE  Reliable(HandleAcks(e, acks)) /\ Follows(HandleAcks(e, acks), e)
<1> DEFINE loop == [kind |-> "acks", acks |-> acks]
           n == Len(acks)
           Is(g) == g = [i \in 0 .. n |-> IF i = 0 THEN e ELSE HandleAck(g[i - 1], acks[i])]
           f == CHOOSE g : Is(g)
<1>1. HandleAcks(e, acks) = f[n]
  BY DEF HandleAcks
<1>2. \A x, i : Round(loop, x, i) = HandleAck(x, acks[i])
  BY DEF Round
<1> HIDE DEF loop, n
<1>3. \A g : Is(g) <=> IsLoop(g, n, e, loop)
  BY <1>2 DEF IsLoop
<1> HIDE DEF Is
<1>4. IsLoop(f, n, e, loop) /\ n \in Nat
  BY <1>3, LoopExists DEF n
<1> HIDE DEF f
<1>5. \A x : \A i \in 1 .. n : Reliable(x) /\ Follows(x, e) =>
                                 Reliable(Round(loop, x, i)) /\ Follows(Round(loop, x, i), x)
  BY <1>2, HandleAckKeeps
<1> QED BY <1>1, <1>4, <1>5, LoopKeeps

\* The loop over the fragments of a packet: with reliability each has a
\* TxSequence.
LEMMA SendFragmentsKeeps ==
  ASSUME NEW e, Reliable(e), NEW frags, Len(frags) \in Nat, \A i \in 1 .. Len(frags) : IsFragment(frags[i]),
         NEW tx \in TxSequence \cup {NoSeq}, e.enabled => tx # NoSeq
  PROVE  Reliable(SendFragments(e, frags, tx)) /\ Follows(SendFragments(e, frags, tx), e)
<1> USE ReliabilityAssumption
<1> DEFINE loop == [kind |-> "fragments", frags |-> frags, tx |-> tx]
           n == Len(frags)
           Number(i) == IF tx = NoSeq THEN NoSeq ELSE (tx + i) % TxModulus
           Is(g) == g = [k \in 0 .. n |-> IF k = 0 THEN e
                           ELSE SendLpPacket(g[k - 1], << frags[k] >>, Number(k))]
           f == CHOOSE g : Is(g)
<1>1. SendFragments(e, frags, tx) = f[n]
  BY DEF SendFragments
<1>2. \A x, i : Round(loop, x, i) = SendLpPacket(x, << frags[i] >>, Number(i))
  BY DEF Round
<1>3. \A i \in 1 .. n : Number(i) \in TxSequence \cup {NoSeq} /\ (e.enabled => Number(i) # NoSeq)
  BY DEF TxSequence, NoSeq
<1> HIDE DEF loop, n, Number
<1>4. \A g : Is(g) <=> IsLoop(g, n, e, loop)
  BY ZenonT(30), <1>2 DEF IsLoop
<1> HIDE DEF Is
<1>5. IsLoop(f, n, e, loop) /\ n \in Nat
  BY <1>4, LoopExists DEF n
<1> HIDE DEF f
<1>6. ASSUME NEW x, NEW i \in 1 .. n, Reliable(x), Follows(x, e)
      PROVE  Reliable(Round(loop, x, i)) /\ Follows(Round(loop, x, i), x)
  <2>1. Sendable(x, << frags[i] >>, Number(i))
    BY <1>3, <1>6 DEF Sendable, Follows, n
  <2> DEFINE d == SendLpPacket(x, << frags[i] >>, Number(i))
  <2>2. Reliable(d) /\ Untouched(d, x)
    BY <1>6, <2>1, SendKeeps
  <2> HIDE DEF d
  <2>3. Follows(d, x)
    BY <2>2 DEF Untouched, Follows
  <2> QED BY <1>2, <2>2, <2>3 DEF d
<1> QED BY <1>1, <1>5, <1>6, LoopKeeps

\* The loop of the idle Ack timer.
LEMMA RequestIdlePacketsKeeps ==
  ASSUME NEW e, Reliable(e)
  PROVE  Reliable(RequestIdlePackets(e)) /\ Follows(RequestIdlePackets(e), e)
<1> DEFINE loop == [kind |-> "idle"]
           n == Len(e.ackQueue)
           Is(g) == g = [i \in 0 .. n |-> IF i = 0 THEN e ELSE IdleUnlessEmpty(g[i - 1])]
           f == CHOOSE g : Is(g)
<1>1. RequestIdlePackets(e) = f[n]
  BY DEF RequestIdlePackets
<1>2. \A x, i : Round(loop, x, i) = IdleUnlessEmpty(x)
  BY DEF Round
<1>3. n \in Nat
  BY DEF Reliable
<1> HIDE DEF loop, n
<1>4. \A g : Is(g) <=> IsLoop(g, n, e, loop)
  BY <1>2 DEF IsLoop
<1> HIDE DEF Is
<1>5. IsLoop(f, n, e, loop)
  BY <1>3, <1>4, LoopExists
<1> HIDE DEF f
<1>6. ASSUME NEW x, NEW i \in 1 .. n, Reliable(x), Follows(x, e)
      PROVE  Reliable(Round(loop, x, i)) /\ Follows(Round(loop, x, i), x)
  <2> DEFINE d == SendLpPacket(x, << >>, NoSeq)
  <2>1. Sendable(x, << >>, NoSeq)
    BY DEF Sendable
  <2>2. Reliable(d) /\ Untouched(d, x)
    BY <1>6, <2>1, SendKeeps
  <2> HIDE DEF d
  <2>3. Follows(d, x) /\ Follows(x, x)
    BY <2>2 DEF Untouched, Follows
  <2> QED BY <1>2, <1>6, <2>2, <2>3 DEF d, IdleUnlessEmpty
<1> QED BY <1>1, <1>3, <1>5, <1>6, LoopKeeps

----------------------------------------------------------------------------
(* Sending a packet.                                                       *)

\* The fragments of packet p.
FragmentsOf(frags, p) ==
  /\ Len(frags) \in 0 .. NMaxFragments /\ DOMAIN frags = 1 .. Len(frags)
  /\ \A k \in DOMAIN frags : IsFragment(frags[k]) /\ frags[k].net = p

\* handleOutgoing.
LEMMA HandleOutgoingKeeps ==
  ASSUME NEW e, Reliable(e), NEW p, p \notin DOMAIN e.netPkts,
         NEW frags, FragmentsOf(frags, p), Len(frags) # 0
  PROVE  LET d == HandleOutgoing(e, p, frags)
         IN  /\ Reliable(d) /\ d.enabled = e.enabled /\ d.mtu = e.mtu
             /\ DOMAIN d.netPkts \subseteq DOMAIN e.netPkts \cup {p}
<1> USE ReliabilityAssumption, FragmentAssumption
<1> DEFINE n == Len(frags)
           keys == Following(e.lastTx, n)
           entry(t) == [frag |-> frags[(t - e.lastTx) % TxModulus], retx |-> 0, greater |-> 0]
           u == [t \in DOMAIN e.unacked \cup keys |-> IF t \in keys THEN entry(t) ELSE e.unacked[t]]
           w == JoinedPackets(e.netPkts, keys, p)
           first == IF e.first = NoSeq THEN (e.lastTx + 1) % TxModulus ELSE e.first
           last == (e.lastTx + n) % TxModulus
           next == [e EXCEPT !.lastTx = last, !.unacked = u, !.netPkts = w, !.first = first]
           d == HandleOutgoing(e, p, frags)
<1>1. /\ DOMAIN e = Member /\ Window(DOMAIN e.unacked, e.first, e.lastTx)
      /\ Iterators(e.unacked, e.netPkts) /\ Records(e.unacked, e.netPkts)
  BY DEF Reliable
<1>2. n \in 1 .. (TxModulus - 1) /\ DOMAIN frags = 1 .. n
  BY DEF FragmentsOf
<1>3. {TxAfter(e, k) : k \in DOMAIN frags} = keys
  BY <1>2 DEF TxAfter, Following
<1>4. d = IF e.first \in keys THEN Throw(e) ELSE next
  BY ZenonT(30), <1>3 DEF HandleOutgoing, TxAfter, JoinedPackets
<1> HIDE DEF next, d
<1>5. CASE e.first \in keys
  <2>1. d = Throw(e)
    BY <1>4, <1>5
  <2> QED BY <2>1, ThrowKeeps DEF Follows, d
<1>6. CASE e.first \notin keys
  <2>1. /\ keys \cap DOMAIN e.unacked = {} /\ Window(DOMAIN e.unacked \cup keys, first, last)
        /\ \A k \in 1 .. n : (((e.lastTx + k) % TxModulus) - e.lastTx) % TxModulus = k
    BY ZenonT(30), <1>1, <1>2, <1>6, ExtendedWindow
  <2>2. keys # {} /\ \A t \in keys : \E k \in 1 .. n : t = (e.lastTx + k) % TxModulus
    BY <1>2 DEF Following
  <2>3. ASSUME NEW t \in keys PROVE IsUnacked(u[t]) /\ u[t].retx = 0 /\ u[t].frag.net = p
    <3>1. PICK k \in 1 .. n : (t - e.lastTx) % TxModulus = k
      BY <2>1, <2>2
    <3>2. u[t] = [frag |-> frags[k], retx |-> 0, greater |-> 0]
      BY <3>1
    <3>3. IsFragment(frags[k]) /\ frags[k].net = p
      BY <1>2 DEF FragmentsOf
    <3> HIDE DEF u
    <3> QED BY <3>2, <3>3 DEF IsUnacked
  <2>4. DOMAIN u = DOMAIN e.unacked \cup keys /\ \A t \in DOMAIN e.unacked \ keys : u[t] = e.unacked[t]
    OBVIOUS
  <2> HIDE DEF keys, u, w, first, last
  <2>5. Iterators(u, w) /\ Records(u, w) /\ DOMAIN w = DOMAIN e.netPkts \cup {p}
    <3>1. Joined(u, e.unacked, keys, p)
      BY <2>1, <2>2, <2>3, <2>4 DEF Joined
    <3>2. Iterators(u, w) /\ Records(u, w)
      BY <1>1, <3>1, PacketJoins DEF w
    <3>3. DOMAIN w = DOMAIN e.netPkts \cup {p}
      BY DEF w, JoinedPackets, Put
    <3> QED BY <3>2, <3>3
  <2>6. /\ DOMAIN next = Member /\ SameTraffic(next, e) /\ next.unacked = u /\ next.netPkts = w
        /\ next.first = first /\ next.lastTx = last
    BY <1>1 DEF next, Member, SameTraffic
  <2>7. Reliable(next)
    BY <2>1, <2>4, <2>5, <2>6, ReliableAgain
  <2> QED BY <1>4, <1>6, <2>5, <2>6, <2>7 DEF SameTraffic, d
<1> QED BY <1>5, <1>6

\* The smaller of two numbers.
LEMMA MinOfTwo ==
  ASSUME NEW a \in Int, NEW b \in Int
  PROVE  Min({a, b}) = IF a <= b THEN a ELSE b
<1>1. CASE a <= b
  BY <1>1 DEF Min
<1>2. CASE ~(a <= b)
  BY <1>2 DEF Min
<1> QED BY <1>1, <1>2

\* Fragments before they have a Sequence.
Pieces(frags) ==
  /\ Len(frags) \in 0 .. NMaxFragments /\ DOMAIN frags = 1 .. Len(frags)
  /\ \A k \in DOMAIN frags : IsFragment(frags[k])

\* A function from 1 to n is a sequence of length n.
LEMMA LengthOf ==
  ASSUME NEW f, NEW n \in Nat, f = [k \in 1 .. n |-> f[k]]
  PROVE  Len(f) = n
<1>1. f \in Seq({f[k] : k \in 1 .. n})
  OBVIOUS
<1> QED BY <1>1

\* LpFragmenter makes no more than NMaxFragments pieces.
LEMMA FragmentPacketMakes ==
  ASSUME NEW p, p.size \in Nat, p.hdr \in Nat, NEW mtu \in Int
  PROVE  Pieces(FragmentPacket(p, mtu))
<1> USE FragmentAssumption
<1>1. Pieces(<< >>)
  BY DEF Pieces
<1>2. Pieces(<< Whole(p) >>)
  BY DEF Pieces, Whole, IsFragment
<1>3. ASSUME ~(MaxFragOverhead + p.hdr + 1 > mtu), ~(Len(Split(p, mtu)) > NMaxFragments)
      PROVE  Pieces(Split(p, mtu))
  <2> DEFINE first == Min({p.size, mtu - p.hdr - MaxFragOverhead})
             payload == mtu - MaxFragOverhead
             rest == p.size - first
             count == 1 + rest \div payload + IF rest % payload # 0 THEN 1 ELSE 0
             Begin(i) == IF i = 0 THEN 0 ELSE first + (i - 1) * payload
             split == [k \in 1 .. count |->
                         [index |-> k - 1, count |-> count, begin |-> Begin(k - 1),
                          end |-> Min({p.size, Begin(k)}), hdr |-> IF k = 1 THEN p.hdr ELSE 0]]
  <2>1. Split(p, mtu) = split
    BY DEF Split
  <2>2. first \in Int /\ first <= p.size /\ payload \in Int /\ payload > 0
    <3> DEFINE room == mtu - p.hdr - MaxFragOverhead
    <3>1. room \in Int /\ payload \in Int /\ payload > 0
      BY <1>3 DEF MaxFragOverhead
    <3> HIDE DEF room, payload
    <3>2. Min({p.size, room}) = IF p.size <= room THEN p.size ELSE room
      BY <3>1, MinOfTwo
    <3> QED BY <3>1, <3>2 DEF room
  <2> HIDE DEF first, payload
  <2>3. rest \in Nat
    BY <2>2
  <2> HIDE DEF rest
  <2>4. count \in Nat
    BY <2>2, <2>3
  <2> HIDE DEF count
  <2>5. ASSUME NEW k \in 1 .. count PROVE IsFragment(split[k])
    <3>1. Begin(k - 1) \in Int /\ Begin(k) \in Int
      BY <2>2, <2>4
    <3> HIDE DEF Begin
    <3>2. Min({p.size, Begin(k)}) \in Int
      BY <3>1, MinOfTwo
    <3> QED BY <3>1, <3>2 DEF IsFragment
  <2>6. DOMAIN split = 1 .. count /\ split = [k \in 1 .. count |-> split[k]]
    OBVIOUS
  <2> HIDE DEF split
  <2>7. Len(split) = count
    BY <2>4, <2>6, LengthOf
  <2> QED BY <1>3, <2>1, <2>4, <2>5, <2>6, <2>7 DEF Pieces
<1> QED BY <1>1, <1>2, <1>3 DEF FragmentPacket

\* The fragments that sendNetPacket makes of a packet.
LEMMA FragmentsMade ==
  ASSUME NEW e, IsMtu(e.mtu), NEW p, p.size \in Nat, p.hdr \in Nat
  PROVE  FragmentsOf(WithSequences(e, p, MakeFragments(e, p)), p)
<1> USE FragmentAssumption
<1> DEFINE made == MakeFragments(e, p)
           frags == WithSequences(e, p, made)
<1>1. Pieces(made)
  <2>1. Pieces(<< Whole(p) >>)
    BY DEF Pieces, Whole, IsFragment
  <2>2. FragmentMtu(e) \in Int
    BY DEF FragmentMtu, IsMtu, TxSequenceSize, CongestionMarkMax
  <2> QED BY <2>1, <2>2, FragmentPacketMakes DEF MakeFragments
<1> HIDE DEF made
<1>2. Len(made) \in Nat /\ DOMAIN made = 1 .. Len(made)
  BY <1>1 DEF Pieces
<1>3. /\ DOMAIN frags = 1 .. Len(made) /\ frags = [k \in 1 .. Len(made) |-> frags[k]]
      /\ \A k \in 1 .. Len(made) :
           frags[k].net = p /\ frags[k].hdr = made[k].hdr /\ frags[k].begin = made[k].begin /\ frags[k].end = made[k].end
  BY <1>2 DEF WithSequences
<1> HIDE DEF frags
<1>4. Len(frags) = Len(made)
  BY <1>2, <1>3, LengthOf
<1>5. FragmentsOf(frags, p)
  BY <1>1, <1>3, <1>4 DEF Pieces, FragmentsOf, IsFragment
<1> QED BY <1>5 DEF frags, made

----------------------------------------------------------------------------
(* The inductive invariant.                                                *)

\* Between handlers nothing waits to be sent, and a packet that has a NetPkt
\* was given to the link service.
Rests(e, given) == Reliable(e) /\ DOMAIN e.out = {} /\ DOMAIN e.netPkts \subseteq given

IInv ==
  /\ scenario \in Scenario /\ DOMAIN ep = Node
  /\ \A n \in Node : Rests(ep[n], sent)
  /\ \A d \in link : IsLpPacket(d.pkt)
  /\ ~AllowMarking => AcksFit

\* The size of the fields is a number.
LEMMA FieldsIsNumber ==
  ASSUME NEW pkt, IsLpPacket(pkt)
  PROVE  Fields(pkt) \in Int /\ IsLpPacket(Bare(pkt))
<1>1. Len(pkt.acks) \in Nat
  BY DEF IsLpPacket
<1>2. Fields(pkt) \in Int
  <2>1. CASE HasFragment(pkt)
    <3>1. pkt.frag[1].hdr \in Nat
      BY <2>1 DEF IsLpPacket, IsFragment
    <3> DEFINE x == IF pkt.frag[1].count > 1 THEN FragFieldsSize ELSE 0
               y == IF pkt.frag[1].seq # NoSeq THEN SequenceSize ELSE 0
               z == IF pkt.tx # NoSeq THEN TxSequenceSize ELSE 0
    <3>2. x \in Nat /\ y \in Nat /\ z \in Nat
      BY DEF FragFieldsSize, SequenceSize, TxSequenceSize
    <3> DEFINE a == AckSize * Len(pkt.acks)
               h == pkt.frag[1].hdr
    <3>3. Fields(pkt) = a + (h + x + y + z)
      BY <2>1, ZenonT(30) DEF Fields
    <3>4. a \in Int /\ h \in Int
      BY <1>1, <3>1 DEF AckSize
    <3> HIDE DEF x, y, z, a, h
    <3> QED BY <3>2, <3>3, <3>4
  <2>2. CASE ~HasFragment(pkt)
    BY <1>1, <2>2 DEF Fields, AckSize
  <2> QED BY <2>1, <2>2
<1>3. IsLpPacket(Bare(pkt))
  <2>1. << >> \in Seq(TxSequence)
    OBVIOUS
  <2> QED BY <2>1 DEF IsLpPacket, Bare, HasFragment
<1> QED BY <1>2, <1>3

\* The end of a handler.
LEMMA TransmitKeeps ==
  ASSUME IInv, NEW n \in Node, NEW e, Reliable(e), DOMAIN e.netPkts \subseteq sent',
         NEW l, \A d \in l : IsLpPacket(d.pkt), Transmit(n, e, l), scenario' = scenario, sent \subseteq sent'
  PROVE  IInv'
<1>1. PICK marks \in [DOMAIN e.out -> IF AllowMarking THEN BOOLEAN ELSE {FALSE}] :
        LET went == {i \in DOMAIN e.out : Fits(e, e.out[i], marks[i])}
            on == l \cup {[to |-> CHOOSE m \in Node : m # n, pkt |-> e.out[i]] : i \in went}
            bare(i) == [e.out[i] EXCEPT !.acks = << >>]
        IN  /\ link' = IF Cardinality(on) <= scenario.inFlight THEN on ELSE l
            /\ ep' = [ep EXCEPT ![n] = IF e.thrown THEN Throw(@) ELSE [e EXCEPT !.out = << >>]]
            /\ oversized' = oversized \cup
                 {SizeOf(bare(i)) : i \in {j \in DOMAIN e.out \ went : Fits(e, bare(j), marks[j])}}
  BY ZenonT(30) DEF Transmit
<1>2. \A i \in DOMAIN e.out : IsLpPacket(e.out[i]) /\ InRoom(e.mtu, e.out[i])
  BY DEF Reliable
<1>3. \A d \in link' : IsLpPacket(d.pkt)
  <2> DEFINE went == {i \in DOMAIN e.out : Fits(e, e.out[i], marks[i])}
             sends == {[to |-> CHOOSE m \in Node : m # n, pkt |-> e.out[i]] : i \in went}
  <2>1. link' \subseteq l \cup sends
    BY <1>1
  <2>2. \A d \in sends : IsLpPacket(d.pkt)
    BY <1>2
  <2> HIDE DEF sends
  <2> QED BY <2>1, <2>2
<1>4. DOMAIN ep = Node /\ Rests(ep[n], sent) /\ \A m \in Node : Rests(ep[m], sent)
  BY DEF IInv
<1>5. DOMAIN ep' = Node /\ \A m \in Node : Rests(ep'[m], sent')
  <2> DEFINE e1 == Throw(ep[n])
             e2 == [e EXCEPT !.out = << >>]
  <2>1. DOMAIN ep' = Node /\ (ep'[n] = e1 \/ ep'[n] = e2) /\ \A m \in Node \ {n} : ep'[m] = ep[m]
    BY <1>1, <1>4
  <2>2. Rests(e1, sent')
    <3>1. Reliable(e1) /\ Follows(e1, ep[n])
      BY <1>4, ThrowKeeps DEF Rests
    <3>2. e1.out = ep[n].out
      BY <1>4 DEF Throw, Rests, Reliable, Member
    <3> HIDE DEF e1
    <3> QED BY <1>4, <3>1, <3>2 DEF Rests, Follows
  <2>3. Rests(e2, sent')
    <3>1. DOMAIN e = Member
      BY DEF Reliable
    <3>2. /\ DOMAIN e2 = Member /\ e2.out = << >> /\ e2.unacked = e.unacked /\ e2.first = e.first
          /\ e2.lastTx = e.lastTx /\ e2.netPkts = e.netPkts /\ e2.ackQueue = e.ackQueue /\ e2.mtu = e.mtu
      BY <3>1 DEF Member
    <3> HIDE DEF e2
    <3>3. DOMAIN e2.out = {} /\ Len(e2.out) = 0
      BY <3>2
    <3>4. Reliable(e2)
      <4>1. /\ Window(DOMAIN e2.unacked, e2.first, e2.lastTx) /\ Iterators(e2.unacked, e2.netPkts)
            /\ Records(e2.unacked, e2.netPkts) /\ e2.ackQueue \in Seq(TxSequence) /\ IsMtu(e2.mtu)
        BY <3>2 DEF Reliable
      <4>2. Len(e2.out) \in Nat /\ DOMAIN e2.out = 1 .. Len(e2.out)
        BY <3>3
      <4> QED BY ZenonT(30), <3>2, <3>3, <4>1, <4>2 DEF Reliable
    <3> QED BY <3>2, <3>3, <3>4 DEF Rests
  <2>4. \A m \in Node \ {n} : Rests(ep'[m], sent')
    BY <1>4, <2>1 DEF Rests
  <2> HIDE DEF e1, e2
  <2> QED BY <2>1, <2>2, <2>3, <2>4
<1>6. ASSUME ~AllowMarking PROVE AcksFit'
  <2> DEFINE over == {j \in DOMAIN e.out : ~Fits(e, e.out[j], FALSE) /\ Fits(e, Bare(e.out[j]), FALSE)}
  <2>1. \A i \in DOMAIN e.out : marks[i] = FALSE
    BY ZenonT(30), <1>1, <1>6
  <2>2. ASSUME NEW s \in oversized', s \notin oversized
        PROVE  \E i \in over : s = SizeOf(Bare(e.out[i]))
    <3>1. PICK i \in DOMAIN e.out :
            /\ s = SizeOf([e.out[i] EXCEPT !.acks = << >>])
            /\ ~Fits(e, e.out[i], marks[i]) /\ Fits(e, [e.out[i] EXCEPT !.acks = << >>], marks[i])
      BY <1>1, <2>2
    <3> QED BY ZenonT(30), <2>1, <3>1 DEF Bare
  <2>3. ASSUME NEW i \in over PROVE SizeOf(Bare(e.out[i])) \in {253, 254}
    <3>1. IsLpPacket(e.out[i]) /\ InRoom(e.mtu, e.out[i]) /\ IsLpPacket(Bare(e.out[i]))
      BY <1>2, FieldsIsNumber
    <3>2. Fields(e.out[i]) \in Int /\ Fields(Bare(e.out[i])) \in Int
      BY <3>1, FieldsIsNumber
    <3>3. /\ ~(e.mtu = MtuUnlimited \/ SizeOf(e.out[i]) <= e.mtu)
          /\ e.mtu = MtuUnlimited \/ SizeOf(Bare(e.out[i])) <= e.mtu
      <4>1. \A f \in Int : f + 0 = f
        OBVIOUS
      <4> QED BY <3>2, <4>1 DEF Fits, SizeOf
    <3> QED BY <3>1, <3>3 DEF InRoom
  <2>4. oversized \subseteq {253, 254}
    BY <1>6 DEF IInv, AcksFit
  <2> HIDE DEF over
  <2>5. ASSUME NEW s \in oversized' PROVE s \in {253, 254}
    <3>1. CASE s \in oversized
      BY <2>4, <3>1
    <3>2. CASE s \notin oversized
      <4>1. PICK i \in over : s = SizeOf(Bare(e.out[i]))
        BY <2>2, <3>2
      <4> QED BY <2>3, <4>1
    <3> QED BY <3>1, <3>2
  <2> QED BY <2>5 DEF AcksFit
<1>7. scenario' \in Scenario
  BY DEF IInv
<1> QED BY <1>3, <1>5, <1>6, <1>7 DEF IInv

\* The same window, packets and output.
Alike(d, e) ==
  /\ DOMAIN d = Member /\ d.unacked = e.unacked /\ d.first = e.first /\ d.lastTx = e.lastTx
  /\ d.netPkts = e.netPkts /\ d.out = e.out

\* The fields that neither the window nor the limit of the MTU is about.
LEMMA OtherFields ==
  ASSUME NEW e, Reliable(e), NEW d, Alike(d, e),
         d.ackQueue \in Seq(TxSequence), IsMtu(d.mtu), d.mtu = e.mtu \/ DOMAIN e.out = {}
  PROVE  Reliable(d)
<1>1. \A i \in DOMAIN d.out : IsLpPacket(d.out[i]) /\ InRoom(d.mtu, d.out[i])
  BY DEF Reliable, Alike
<1> QED BY <1>1 DEF Reliable, Alike

\* No fragments, an empty list.
LEMMA NoFragments ==
  ASSUME NEW f, NEW n \in Nat, f = [k \in 1 .. n |-> f[k]], f # << >>
  PROVE  Len(f) # 0
<1>1. f \in Seq({f[k] : k \in 1 .. n})
  OBVIOUS
<1> QED BY <1>1

\* The sizes of the packets.
LEMMA SizesAreNumbers == \A p \in Packet : p.size \in Nat /\ p.hdr \in Nat
<1>1. \A p \in Packet : p.size \in 1 .. MaxNdnPacketSize /\ p.hdr \in Nat
  BY LinkAssumption, ZenonT(30)
<1>2. 1 .. MaxNdnPacketSize \subseteq Nat
  BY DEF MaxNdnPacketSize
<1> QED BY <1>1, <1>2, ZenonT(30)

\* doSendInterest, doSendData, doSendNack.
LEMMA SendNetPacketKeeps ==
  ASSUME IInv, NEW n \in Node, NEW p \in Packet, SendNetPacket(n, p)
  PROVE  IInv'
<1> DEFINE e == ep[n]
           frags == WithSequences(e, p, MakeFragments(e, p))
           counted == [e EXCEPT !.lastSeq = (@ + Len(frags)) % SeqModulus]
           numbered == IF e.enabled \/ Len(frags) > 1 THEN counted ELSE e
           stored == IF e.enabled THEN HandleOutgoing(numbered, p, frags) ELSE numbered
           tx == IF e.enabled THEN e.lastTx ELSE NoSeq
           done == IF stored.thrown THEN stored ELSE SendFragments(stored, frags, tx)
<1>1. /\ p \notin sent /\ sent' = sent \cup {p} /\ scenario' = scenario
      /\ IF frags = << >> THEN ep' = ep /\ link' = link /\ oversized' = oversized
         ELSE Transmit(n, done, link)
  BY DEF SendNetPacket
<1>2. /\ Reliable(e) /\ DOMAIN e.netPkts \subseteq sent /\ DOMAIN e = Member /\ IsMtu(e.mtu)
      /\ e.lastTx \in TxSequence /\ e.ackQueue \in Seq(TxSequence)
  BY ZenonT(30) DEF IInv, Rests, Reliable, Window
<1>3. FragmentsOf(frags, p)
  <2>1. p.size \in Nat /\ p.hdr \in Nat
    BY SizesAreNumbers
  <2> QED BY <1>2, <2>1, FragmentsMade
<1>4. CASE frags = << >>
  <2>1. ep' = ep /\ link' = link /\ oversized' = oversized
    BY <1>1, <1>4
  <2>2. \A m \in Node : Rests(ep[m], sent')
    BY <1>1 DEF IInv, Rests
  <2> HIDE DEF frags
  <2> QED BY ZenonT(30), <1>1, <2>1, <2>2 DEF IInv, AcksFit
<1>5. CASE frags # << >>
  <2>1. Len(frags) # 0
    <3>1. frags = [k \in 1 .. Len(frags) |-> frags[k]] /\ Len(frags) \in Nat
      <4>1. frags = [k \in DOMAIN frags |-> frags[k]]
        BY ZenonT(30) DEF WithSequences
      <4> HIDE DEF frags
      <4> QED BY <1>3, <4>1, FragmentAssumption DEF FragmentsOf
    <3> HIDE DEF frags
    <3> QED BY <1>5, <3>1, NoFragments
  <2> HIDE DEF frags
  <2>2. Reliable(numbered) /\ Follows(numbered, e) /\ numbered.netPkts = e.netPkts
    <3>1. CASE e.enabled \/ Len(frags) > 1
      <4>1. /\ Alike(counted, e) /\ counted.netPkts = e.netPkts
            /\ counted.ackQueue = e.ackQueue /\ counted.mtu = e.mtu /\ counted.enabled = e.enabled
        BY <1>2 DEF Member, Alike
      <4> HIDE DEF counted, e
      <4>2. Reliable(counted)
        BY <1>2, <4>1, OtherFields
      <4> QED BY <3>1, <4>1, <4>2 DEF Follows
    <3>2. CASE ~(e.enabled \/ Len(frags) > 1)
      BY <1>2, <3>2 DEF Follows
    <3> QED BY <3>1, <3>2
  <2> HIDE DEF numbered, e
  <2>3. Reliable(stored) /\ stored.enabled = e.enabled /\ DOMAIN stored.netPkts \subseteq sent'
    <3>1. CASE e.enabled
      <4>1. p \notin DOMAIN numbered.netPkts
        BY <1>1, <1>2, <2>2
      <4> DEFINE d == HandleOutgoing(numbered, p, frags)
      <4>2. Reliable(d) /\ d.enabled = numbered.enabled /\ DOMAIN d.netPkts \subseteq DOMAIN numbered.netPkts \cup {p}
        <5>1. Reliable(numbered)
          BY <2>2
        <5> QED BY <1>3, <2>1, <4>1, <5>1, HandleOutgoingKeeps
      <4>3. stored = d
        BY <3>1
      <4> HIDE DEF d, stored
      <4> QED BY <1>1, <1>2, <2>2, <4>2, <4>3 DEF Follows
    <3>2. CASE ~e.enabled
      BY <1>1, <1>2, <2>2, <3>2 DEF Follows
    <3> QED BY <3>1, <3>2
  <2> HIDE DEF stored
  <2>4. Reliable(done) /\ DOMAIN done.netPkts \subseteq sent'
    <3>1. tx \in TxSequence \cup {NoSeq} /\ (stored.enabled => tx # NoSeq)
      <4>1. NoSeq \notin TxSequence
        BY DEF NoSeq, TxSequence
      <4> QED BY <1>2, <2>3, <4>1
    <3>2. Len(frags) \in Nat /\ \A i \in 1 .. Len(frags) : IsFragment(frags[i])
      BY <1>3, FragmentAssumption DEF FragmentsOf
    <3> HIDE DEF tx
    <3>3. Reliable(SendFragments(stored, frags, tx)) /\ Follows(SendFragments(stored, frags, tx), stored)
      BY <2>3, <3>1, <3>2, SendFragmentsKeeps
    <3> QED BY <2>3, <3>3 DEF Follows
  <2> HIDE DEF done
  <2>5. Transmit(n, done, link) /\ sent \subseteq sent' /\ \A d \in link : IsLpPacket(d.pkt)
    BY <1>1, <1>5 DEF IInv
  <2> QED BY <1>1, <2>4, <2>5, TransmitKeeps
<1> QED BY <1>4, <1>5

\* The RTO timer of a fragment.
LEMMA RtoTimeoutKeeps ==
  ASSUME IInv, NEW n \in Node, NEW tx, RtoTimeout(n, tx)
  PROVE  IInv'
<1> DEFINE e == OnLpPacketLost(ep[n], tx)
<1>1. /\ tx \in DOMAIN ep[n].unacked /\ Transmit(n, e, link)
      /\ scenario' = scenario /\ sent' = sent
  BY DEF RtoTimeout
<1>2. Reliable(ep[n]) /\ DOMAIN ep[n].netPkts \subseteq sent /\ \A d \in link : IsLpPacket(d.pkt)
  BY DEF IInv, Rests
<1>3. Reliable(e) /\ Follows(e, ep[n])
  BY <1>1, <1>2, LostKeeps
<1> HIDE DEF e
<1>4. DOMAIN e.netPkts \subseteq sent'
  BY <1>1, <1>2, <1>3 DEF Follows
<1> QED BY <1>1, <1>2, <1>3, <1>4, TransmitKeeps

\* The idle Ack timer.
LEMMA IdleAckTimeoutKeeps ==
  ASSUME IInv, NEW n \in Node, IdleAckTimeout(n)
  PROVE  IInv'
<1> DEFINE d == [ep[n] EXCEPT !.idle = FALSE]
           e == RequestIdlePackets(d)
<1>1. Transmit(n, e, link) /\ scenario' = scenario /\ sent' = sent
  BY DEF IdleAckTimeout
<1>2. /\ Reliable(ep[n]) /\ DOMAIN ep[n].netPkts \subseteq sent /\ DOMAIN ep[n] = Member
      /\ ep[n].ackQueue \in Seq(TxSequence) /\ IsMtu(ep[n].mtu)
      /\ \A l \in link : IsLpPacket(l.pkt)
  BY ZenonT(30) DEF IInv, Rests, Reliable
<1>3. Alike(d, ep[n]) /\ d.netPkts = ep[n].netPkts /\ d.ackQueue = ep[n].ackQueue /\ d.mtu = ep[n].mtu
  BY <1>2 DEF Member, Alike
<1> HIDE DEF d
<1>4. Reliable(d)
  BY <1>2, <1>3, OtherFields
<1>5. Reliable(e) /\ Follows(e, d)
  BY <1>4, RequestIdlePacketsKeeps
<1> HIDE DEF e
<1>6. DOMAIN e.netPkts \subseteq sent'
  BY <1>1, <1>2, <1>3, <1>5 DEF Follows
<1> QED BY <1>1, <1>2, <1>5, <1>6, TransmitKeeps

\* LpReassembler::receiveFragment.
LEMMA ReceiveFragmentKeeps ==
  ASSUME NEW e, Reliable(e), NEW frag
  PROVE  LET d == ReceiveFragment(e, frag).ep
         IN  Reliable(d) /\ d.netPkts = e.netPkts
<1> DEFINE d == ReceiveFragment(e, frag).ep
<1>1. DOMAIN e = Member /\ e.ackQueue \in Seq(TxSequence) /\ IsMtu(e.mtu)
  BY DEF Reliable
<1>2. d = e \/ \E x : d = [e EXCEPT !.partial = x]
  <2> DEFINE key == Message(frag)
             old == IF key \in DOMAIN e.partial THEN e.partial[key] ELSE [count |-> frag.count, frags |-> << >>]
             frags == Put(old.frags, frag.index, frag)
             x == Put(e.partial, key, [old EXCEPT !.frags = frags])
             y == Without(x, key)
  <2>1. [[e EXCEPT !.partial = x] EXCEPT !.partial = Without(@, key)] = [e EXCEPT !.partial = y]
    <3>1. [e EXCEPT !.partial = x].partial = x
      BY <1>1 DEF Member
    <3> HIDE DEF x
    <3> QED BY ZenonT(30), <1>1, <3>1 DEF Member
  <2>2. d \in {e, [e EXCEPT !.partial = x], [[e EXCEPT !.partial = x] EXCEPT !.partial = Without(@, key)]}
    BY DEF ReceiveFragment
  <2> HIDE DEF x, y, d
  <2> QED BY <2>1, <2>2
<1> HIDE DEF d
<1>3. ASSUME d = e PROVE Reliable(d) /\ d.netPkts = e.netPkts
  BY <1>3
<1>4. ASSUME NEW x, d = [e EXCEPT !.partial = x] PROVE Reliable(d) /\ d.netPkts = e.netPkts
  <2>1. Alike(d, e) /\ d.netPkts = e.netPkts /\ d.ackQueue = e.ackQueue /\ d.mtu = e.mtu
    BY <1>1, <1>4 DEF Member, Alike
  <2> QED BY <1>1, <2>1, OtherFields
<1> QED BY ZenonT(30), <1>2, <1>3, <1>4 DEF d

\* The TxSequence of a packet with a fragment is queued to be acknowledged.
LEMMA QueueAckKeeps ==
  ASSUME NEW e, Reliable(e), NEW pkt, pkt.tx \in TxSequence, NEW k
  PROVE  LET d == QueueAck(e, pkt, k)
         IN  Reliable(d) /\ d.netPkts = e.netPkts
<1> DEFINE d == QueueAck(e, pkt, k)
<1>1. DOMAIN e = Member /\ e.ackQueue \in Seq(TxSequence) /\ IsMtu(e.mtu)
  BY DEF Reliable
<1>2. Alike(d, e) /\ d.netPkts = e.netPkts /\ d.ackQueue = Append(e.ackQueue, pkt.tx) /\ d.mtu = e.mtu
  BY <1>1 DEF Member, QueueAck, Alike
<1> HIDE DEF d
<1>3. d.ackQueue \in Seq(TxSequence) /\ IsMtu(d.mtu)
  BY <1>1, <1>2
<1>4. Reliable(d)
  BY ZenonT(30), <1>2, <1>3, OtherFields
<1> QED BY <1>2, <1>4 DEF d

\* doReceivePacket.
LEMMA ReceivePacketKeeps ==
  ASSUME IInv, NEW n \in Node, NEW d \in link, NEW k, NEW again, ReceivePacket(n, d, k, again)
  PROVE  IInv'
<1> DEFINE pkt == d.pkt
           e == ep[n]
           tracked == e.enabled /\ HasFragment(pkt) /\ pkt.tx # NoSeq
           acked == IF e.enabled THEN HandleAcks(e, pkt.acks) ELSE e
           noted == IF tracked THEN QueueAck(acked, pkt, k) ELSE acked
           r == IF acked.thrown \/ ~HasFragment(pkt) \/ (tracked /\ IsDuplicate(e, pkt))
                  THEN [ep |-> noted, done |-> {}] ELSE ReceiveFragment(noted, pkt.frag[1])
           l == IF again THEN link ELSE link \ {d}
<1>1. Transmit(n, r.ep, l) /\ scenario' = scenario /\ sent' = sent
  BY ZenonT(30) DEF ReceivePacket
<1>2. /\ Reliable(e) /\ DOMAIN e.netPkts \subseteq sent
      /\ IsLpPacket(pkt) /\ \A x \in link : IsLpPacket(x.pkt)
  BY DEF IInv, Rests
<1>3. \A x \in l : IsLpPacket(x.pkt)
  BY <1>2
<1> HIDE DEF pkt, e, l
<1>4. Len(pkt.acks) \in Nat /\ (tracked => pkt.tx \in TxSequence)
  <2>1. pkt.tx \in TxSequence \cup {NoSeq} /\ pkt.acks \in Seq(TxSequence)
    BY <1>2 DEF IsLpPacket
  <2>2. Len(pkt.acks) \in Nat
    BY <2>1
  <2>3. tracked => pkt.tx # NoSeq
    OBVIOUS
  <2> HIDE DEF tracked
  <2> QED BY <2>1, <2>2, <2>3
<1>5. Reliable(acked) /\ DOMAIN acked.netPkts \subseteq sent
  <2>1. Reliable(HandleAcks(e, pkt.acks)) /\ Follows(HandleAcks(e, pkt.acks), e)
    BY <1>2, <1>4, HandleAcksKeeps
  <2> QED BY <1>2, <2>1 DEF Follows
<1> HIDE DEF acked, tracked
<1>6. Reliable(noted) /\ DOMAIN noted.netPkts \subseteq sent
  <2>1. CASE tracked
    <3>1. Reliable(QueueAck(acked, pkt, k)) /\ QueueAck(acked, pkt, k).netPkts = acked.netPkts
      BY <1>4, <1>5, <2>1, QueueAckKeeps
    <3> QED BY <1>5, <2>1, <3>1
  <2>2. CASE ~tracked
    BY <1>5, <2>2
  <2> QED BY <2>1, <2>2
<1> HIDE DEF noted
<1>7. Reliable(r.ep) /\ DOMAIN r.ep.netPkts \subseteq sent
  <2>1. /\ Reliable(ReceiveFragment(noted, pkt.frag[1]).ep)
        /\ ReceiveFragment(noted, pkt.frag[1]).ep.netPkts = noted.netPkts
    BY <1>6, ReceiveFragmentKeeps
  <2>2. r.ep = noted \/ r.ep = ReceiveFragment(noted, pkt.frag[1]).ep
    OBVIOUS
  <2> HIDE DEF r
  <2> QED BY <1>6, <2>1, <2>2
<1> HIDE DEF r
<1> QED BY <1>1, <1>3, <1>7, TransmitKeeps

\* A datagram is lost.
LEMMA LoseKeeps ==
  ASSUME IInv, NEW d, Lose(d)
  PROVE  IInv'
<1>1. link' \subseteq link /\ ep' = ep /\ sent' = sent /\ scenario' = scenario /\ oversized' = oversized
  BY DEF Lose
<1> QED BY <1>1 DEF IInv, AcksFit

\* One end changes and nothing is sent.
LEMMA SilentStep ==
  ASSUME IInv, NEW n \in Node, NEW e, Rests(e, sent), ep' = [ep EXCEPT ![n] = e],
         UNCHANGED <<scenario, link, sent, oversized>>
  PROVE  IInv'
<1>1. DOMAIN ep' = Node /\ \A m \in Node : (ep'[m] = e /\ m = n) \/ ep'[m] = ep[m]
  BY DEF IInv
<1>2. \A m \in Node : Rests(ep'[m], sent)
  BY <1>1 DEF IInv
<1> QED BY <1>1, <1>2 DEF IInv, AcksFit

\* timeoutPartialPacket.
LEMMA TimeoutPartialPacketKeeps ==
  ASSUME IInv, NEW n \in Node, NEW key, TimeoutPartialPacket(n, key)
  PROVE  IInv'
<1> DEFINE e == [ep[n] EXCEPT !.partial = Without(@, key)]
<1>1. /\ DOMAIN ep = Node /\ DOMAIN ep[n] = Member /\ Reliable(ep[n]) /\ Rests(ep[n], sent)
      /\ ep[n].ackQueue \in Seq(TxSequence) /\ IsMtu(ep[n].mtu)
  BY ZenonT(30) DEF IInv, Rests, Reliable
<1>2. ep' = [ep EXCEPT ![n] = e] /\ UNCHANGED <<scenario, link, sent, oversized>>
  BY DEF TimeoutPartialPacket
<1>3. /\ Alike(e, ep[n]) /\ e.netPkts = ep[n].netPkts /\ e.out = ep[n].out
      /\ e.ackQueue = ep[n].ackQueue /\ e.mtu = ep[n].mtu
  BY <1>1 DEF Member, Alike
<1> HIDE DEF e
<1>4. Reliable(e)
  BY <1>1, <1>3, OtherFields
<1>5. Rests(e, sent)
  BY <1>1, <1>3, <1>4 DEF Rests
<1> QED BY ZenonT(30), <1>2, <1>5, SilentStep

\* setOptions.
LEMMA SetOptionsKeeps ==
  ASSUME IInv, NEW n \in Node, NEW o \in scenario.options[n], SetOptions(n, o)
  PROVE  IInv'
<1> DEFINE idle == ep[n].idle /\ ~(ep[n].enabled /\ ~o.enabled)
           e == [ep[n] EXCEPT !.enabled = o.enabled, !.mtu = o.mtu, !.idle = idle]
<1>1. /\ DOMAIN ep = Node /\ DOMAIN ep[n] = Member /\ Reliable(ep[n]) /\ Rests(ep[n], sent)
      /\ ep[n].ackQueue \in Seq(TxSequence)
  BY ZenonT(30) DEF IInv, Rests, Reliable
<1>2. ep' = [ep EXCEPT ![n] = e] /\ UNCHANGED <<scenario, link, sent, oversized>>
  <2>1. /\ ep' = [ep EXCEPT ![n].enabled = o.enabled, ![n].mtu = o.mtu, ![n].idle = idle]
        /\ UNCHANGED <<scenario, link, sent, oversized>>
    BY <1>1 DEF SetOptions, Member
  <2> HIDE DEF idle
  <2> QED BY ZenonT(30), <1>1, <2>1 DEF Member
<1> HIDE DEF idle
<1>3. /\ Alike(e, ep[n]) /\ e.netPkts = ep[n].netPkts /\ e.out = ep[n].out
      /\ e.ackQueue = ep[n].ackQueue /\ e.mtu = o.mtu
  BY <1>1 DEF Member, Alike
<1>4. IsMtu(o.mtu)
  BY LinkAssumption, ZenonT(30) DEF IInv
<1> HIDE DEF e
<1>5. Reliable(e)
  BY ZenonT(30), <1>1, <1>3, <1>4, OtherFields DEF Rests
<1>6. Rests(e, sent)
  BY <1>1, <1>3, <1>5 DEF Rests
<1> QED BY ZenonT(30), <1>2, <1>6, SilentStep

\* Nothing has been sent yet.
LEMMA InitEstablishes ==
  ASSUME Init
  PROVE  IInv
<1>1. scenario \in Scenario /\ sent = {} /\ link = {} /\ oversized = {} /\ DOMAIN ep = Node
  BY DEF Init
<1>2. ASSUME NEW n \in Node PROVE Rests(ep[n], sent)
  <2> DEFINE e == ep[n]
  <2>1. /\ DOMAIN e = Member /\ e.unacked = << >> /\ e.netPkts = << >> /\ e.first = NoSeq
        /\ e.lastTx = InitialTx /\ e.out = << >> /\ e.ackQueue = << >> /\ e.mtu = scenario.mtu
    BY ZenonT(30) DEF Init, Member
  <2>2. IsMtu(scenario.mtu) /\ InitialTx \in TxSequence
    BY <1>1, LinkAssumption
  <2> HIDE DEF e
  <2>3. DOMAIN e.unacked = {} /\ DOMAIN e.netPkts = {} /\ DOMAIN e.out = {} /\ Len(e.out) = 0
    BY <2>1
  <2>4. Window(DOMAIN e.unacked, e.first, e.lastTx) /\ Iterators(e.unacked, e.netPkts) /\ Records(e.unacked, e.netPkts)
    BY <2>1, <2>2, <2>3 DEF Window, Iterators, Records
  <2>5. e.ackQueue \in Seq(TxSequence)
    BY <2>1
  <2>6. Reliable(e)
    BY <2>1, <2>2, <2>3, <2>4, <2>5 DEF Reliable
  <2>7. Rests(e, sent)
    BY <2>3, <2>6 DEF Rests
  <2> QED BY <2>7 DEF e
<1> QED BY <1>1, <1>2 DEF IInv, AcksFit

\* Every step of the two ends and of the link.
LEMMA NextKeeps ==
  ASSUME IInv, [Next]_vars
  PROVE  IInv'
<1>1. ASSUME NEW d \in link, Lose(d) PROVE IInv'
  BY <1>1, LoseKeeps
<1>2. ASSUME NEW n \in Node, NEW p \in Packet, SendNetPacket(n, p) PROVE IInv'
  BY <1>2, SendNetPacketKeeps
<1>3. ASSUME NEW n \in Node, NEW tx \in TxSequence, RtoTimeout(n, tx) PROVE IInv'
  BY <1>3, RtoTimeoutKeeps
<1>4. ASSUME NEW n \in Node, IdleAckTimeout(n) PROVE IInv'
  BY <1>4, IdleAckTimeoutKeeps
<1>5. ASSUME NEW n \in Node, NEW d \in link, NEW k, NEW again, ReceivePacket(n, d, k, again) PROVE IInv'
  BY <1>5, ReceivePacketKeeps
<1>6. ASSUME NEW n \in Node, NEW key, TimeoutPartialPacket(n, key) PROVE IInv'
  BY <1>6, TimeoutPartialPacketKeeps
<1>7. ASSUME NEW n \in Node, NEW o \in scenario.options[n], SetOptions(n, o) PROVE IInv'
  BY <1>7, SetOptionsKeeps
<1>8. CASE UNCHANGED vars
  BY <1>8 DEF vars, IInv, AcksFit
<1> QED BY ZenonT(30), <1>1, <1>2, <1>3, <1>4, <1>5, <1>6, <1>7, <1>8 DEF Next

\* The inductive invariant holds throughout.
LEMMA IInvAlways == Spec => []IInv
<1>1. Init => IInv
  BY InitEstablishes
<1>2. IInv /\ [Next]_vars => IInv'
  BY NextKeeps
<1> QED BY <1>1, <1>2, PTL DEF Spec

----------------------------------------------------------------------------
(* The theorems.                                                           *)

\* m_firstUnackedFrag always points to the oldest unacknowledged fragment,
\* around the wrap of the TxSequence numbers, whatever arrives, is lost,
\* times out or is surrendered.
THEOREM FirstAlwaysOldest == Spec => []FirstIsOldest
<1>1. IInv => FirstIsOldest
  BY ZenonT(30) DEF IInv, Rests, Reliable, Window, Age, FirstIsOldest
<1> QED BY <1>1, IInvAlways, PTL

\* The iterators that a NetPkt holds are always those of its unacknowledged
\* fragments; a fragment never outlives its packet nor exceeds MaxRetx.
THEOREM IteratorsAlwaysValid == Spec => []IteratorsValid
<1>1. IInv => IteratorsValid
  BY ZenonT(30) DEF IInv, Rests, Reliable, Window, Iterators, IteratorsValid
<1> QED BY <1>1, IInvAlways, PTL

\* Unless packets may carry a congestion mark, which piggyback leaves no room
\* for, Acks never push a packet over the MTU but at the two sizes where the
\* reserve for a longer TLV-LENGTH is missed.
THEOREM AcksAlwaysFit ==
  ASSUME ~AllowMarking
  PROVE  Spec => []AcksFit
<1>1. IInv => AcksFit
  BY DEF IInv
<1> QED BY <1>1, IInvAlways, PTL
=============================================================================
