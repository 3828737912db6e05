-------------------------- MODULE ForwarderProofs --------------------------
(***************************************************************************)
(* Proofs about Forwarder, for every set of faces, packets and routes.     *)
(*                                                                         *)
(* The inductive invariant IInv adds one fact to the three invariants that *)
(* are proved: no in-record expires later than MaxLifetime from now.  It   *)
(* gives the set of expiry times that onContentStoreMiss takes the latest  *)
(* of a bound, hence a maximum.                                            *)
(***************************************************************************)
EXTENDS Forwarder, TLAPS, WellFoundedInduction

\* An entry as Entry() constructs it and the records are changed, before its
\* timer is armed.
Shape(k, e) ==
  /\ e = [rep |-> e.rep, ins |-> e.ins, outs |-> e.outs, timer |-> e.timer,
          satisfied |-> e.satisfied, dataFresh |-> e.dataFresh, supp |-> e.supp]
  /\ e.rep \in AcceptedInterest /\ PitKey(e.rep) = k
  /\ DOMAIN e.ins \subseteq up /\ e.ins \in [DOMAIN e.ins -> InRecord]
  /\ \A f \in DOMAIN e.ins : e.ins[f].expiry <= now + MaxLifetime
  /\ DOMAIN e.outs \subseteq up /\ e.outs \in [DOMAIN e.outs -> OutRecord]
  /\ e.satisfied \in BOOLEAN /\ e.dataFresh \in Nat /\ e.supp \in Nat

Covered(e) == \A f \in DOMAIN e.ins : e.ins[f].expiry <= e.timer

Justified(e) ==
  Covered(e) \/ (e.timer <= now /\ (e.satisfied \/ ~HasPendingOutRecords(e, now)))

Good(k, e) == Shape(k, e) /\ e.timer \in Nat /\ Justified(e)

\* Nexthops are in the FaceTable: cleanupOnFaceRemoval takes the others out.
FibInv == \A p \in DOMAIN fib : DOMAIN fib[p] \subseteq up

IInv ==
  /\ now \in Nat /\ up \subseteq Face
  /\ DOMAIN pit \subseteq Key
  /\ \A k \in DOMAIN pit : Good(k, pit[k])
  /\ DOMAIN cs \subseteq Data
  /\ FibInv
  /\ owed \in [Face -> SUBSET Key]
  /\ InRecordsOwed

\* IInv gives the invariants that the runs check.
LEMMA IInvImplies == IInv => TypeOK /\ InRecordsOwed /\ EarlyTimerJustified
  BY DEF IInv, Good, Shape, Justified, Covered, FibInv, TypeOK, IsEntry, EarlyTimerJustified

----------------------------------------------------------------------------
(* The operators                                                           *)

\* A nonempty bounded set of naturals has a maximum, which std::max_element
\* finds.
LEMMA MaxOfBounded ==
  ASSUME NEW S \in SUBSET Nat, S # {}, NEW B \in Nat, \A x \in S : x <= B
  PROVE  Max(S) \in S /\ \A y \in S : y <= Max(S)
<1> DEFINE T == {B - x : x \in S}
<1>1. T \subseteq Nat /\ T # {}
  <2>1. \A x \in S : B - x \in Nat
    OBVIOUS
  <2> QED BY ZenonT(30), <2>1
<1>2. PICK t \in T : \A u \in T : ~(<<u, t>> \in OpToRel(<, Nat))
  <2> HIDE DEF T
  <2> QED BY ZenonT(30), <1>1, NatLessThanWellFounded, WFMin
<1>3. PICK m \in S : t = B - m
  OBVIOUS
<1>4. \A y \in S : m >= y
  <2> TAKE y \in S
  <2>1. B - y \in T /\ B - y \in Nat /\ t \in Nat
    BY <1>1
  <2>2. ~(B - y < t)
    BY ZenonT(30), <1>2, <2>1 DEF OpToRel
  <2> QED BY <2>1, <2>2, <1>3
<1>5. \E x \in S : \A y \in S : x >= y
  BY <1>4
<1>6. Max(S) \in S /\ \A y \in S : Max(S) >= y
  BY ZenonT(30), <1>5 DEF Max
<1> QED BY <1>6

\* Stripping a hint or decrementing a HopLimit leaves the PIT key alone.
LEMMA AcceptedKey ==
  ASSUME NEW w \in Interest
  PROVE  /\ Accepted(w) \in AcceptedInterest
         /\ PitKey(Accepted(w)) = PitKey(w) /\ PitKey(w) \in Key
         /\ Accepted(w).life \in Nat /\ Accepted(w).nonce \in Nat
<1>1. w \in [name : Seq(Nat), func : Seq(Nat), cbp : BOOLEAN, mbf : BOOLEAN, nonce : Nat,
             life : Nat, hop : Nat \cup {NoHopLimit}, hint : Seq(Seq(Nat)),
             nextHop : Face \cup {NoFace}]
  BY PacketAssumption
<1>2. /\ Accepted(w).name = w.name /\ Accepted(w).func = w.func
      /\ Accepted(w).cbp = w.cbp /\ Accepted(w).mbf = w.mbf
      /\ Accepted(w).life = w.life /\ Accepted(w).nonce = w.nonce
  BY <1>1 DEF Accepted, StripHint, Received
<1> QED BY ZenonT(30), <1>1, <1>2 DEF AcceptedInterest, PitKey, GetNameFunction, Key
\* The entry that Pit::insert finds or creates.
LEMMA EntryForShape ==
  ASSUME IInv, NEW w \in Interest
  PROVE  /\ Shape(PitKey(w), EntryFor(Accepted(w)))
         /\ \A f \in DOMAIN EntryFor(Accepted(w)).ins : PitKey(w) \in owed[f]
<1> DEFINE k == PitKey(w)
           e == EntryFor(Accepted(w))
<1>1. PitKey(Accepted(w)) = k /\ Accepted(w) \in AcceptedInterest
  BY AcceptedKey
<1>2. CASE k \in DOMAIN pit
  BY <1>1, <1>2 DEF EntryFor, IInv, Good, InRecordsOwed
<1>3. CASE k \notin DOMAIN pit
  <2>1. e = NewEntry(Accepted(w))
    BY <1>1, <1>3 DEF EntryFor
  <2>2. DOMAIN << >> = {} /\ << >> \in [{} -> InRecord] /\ << >> \in [{} -> OutRecord]
    OBVIOUS
  <2> QED BY <1>1, <2>1, <2>2 DEF NewEntry, Shape
<1> QED BY <1>2, <1>3

\* onContentStoreMiss: the timer covers every in-record afterwards.
LEMMA RecordedShape ==
  ASSUME now \in Nat, NEW k, NEW e, Shape(k, e), NEW f \in up, NEW w \in Interest
  PROVE  LET r == Recorded(e, f, Accepted(w))
         IN  /\ Shape(k, r) /\ r.timer \in Nat /\ Covered(r)
             /\ DOMAIN r.ins = DOMAIN e.ins \cup {f}
             /\ r.outs = e.outs
<1> DEFINE int == Accepted(w)
           rec == [int |-> int, expiry |-> Expiry(int, now)]
           e1 == InsertOrUpdateInRecord(e, f, int, now)
           S == {e1.ins[g].expiry : g \in DOMAIN e1.ins}
<1>1. /\ rec \in InRecord
      /\ rec.expiry \in Nat /\ rec.expiry <= now + MaxLifetime
  BY AcceptedKey, TimeAssumption DEF InRecord, Expiry
<1>2. /\ e1.ins = Put(e.ins, f, rec)
      /\ e1 = [rep |-> e.rep, ins |-> Put(e.ins, f, rec), outs |-> e.outs, timer |-> e.timer,
               satisfied |-> e.satisfied, dataFresh |-> e.dataFresh, supp |-> e.supp]
  BY DEF InsertOrUpdateInRecord, Shape
<1>3. /\ DOMAIN e1.ins = DOMAIN e.ins \cup {f}
      /\ e1.ins \in [DOMAIN e1.ins -> InRecord]
      /\ \A g \in DOMAIN e1.ins : e1.ins[g].expiry \in Nat /\ e1.ins[g].expiry <= now + MaxLifetime
  <2> HIDE DEF rec
  <2> QED BY <1>1, <1>2 DEF Put, Shape, InRecord
<1>4. S \in SUBSET Nat /\ S # {} /\ now + MaxLifetime \in Nat /\ \A x \in S : x <= now + MaxLifetime
  BY <1>3, TimeAssumption
<1>5. Max(S) \in Nat /\ \A x \in S : x <= Max(S)
  <2> HIDE DEF S
  <2> QED BY ZenonT(30), <1>4, MaxOfBounded
<1>6. Recorded(e, f, int) = [e1 EXCEPT !.timer = Max(S)]
  BY DEF Recorded, SetExpiryTimer, LastExpiry
<1> DEFINE r == Recorded(e, f, int)
<1>7. r = [rep |-> e.rep, ins |-> e1.ins, outs |-> e.outs, timer |-> Max(S),
           satisfied |-> e.satisfied, dataFresh |-> e.dataFresh, supp |-> e.supp]
  BY <1>2, <1>6
<1>8. \A g \in DOMAIN e1.ins : e1.ins[g].expiry <= Max(S)
  BY <1>5
<1> QED
  <2> HIDE DEF S, e1, r
  <2> SUFFICES /\ Shape(k, r) /\ r.timer \in Nat /\ Covered(r)
               /\ DOMAIN r.ins = DOMAIN e.ins \cup {f}
               /\ r.outs = e.outs
    BY DEF r
  <2>1. Shape(k, r)
    BY <1>7, <1>3 DEF Shape
  <2> QED BY <2>1, <1>7, <1>3, <1>5, <1>8 DEF Covered

\* onOutgoingInterest changes only the out-record of the egress.
LEMMA ForwardedShape ==
  ASSUME now \in Nat, NEW k, NEW e, Shape(k, e), NEW g \in up, NEW w \in Interest
  PROVE  LET r == InsertOrUpdateOutRecord(e, g, Accepted(w), now)
         IN  Shape(k, r) /\ r.timer = e.timer /\ r.ins = e.ins
<1> DEFINE int == Accepted(w)
           rec == [nonce |-> int.nonce, expiry |-> Expiry(int, now), renewed |-> now,
                   nack |-> IF g \in DOMAIN e.outs THEN e.outs[g].nack ELSE NotNacked]
           r == InsertOrUpdateOutRecord(e, g, int, now)
<1>1. rec \in OutRecord
  BY AcceptedKey, TimeAssumption DEF OutRecord, Expiry, Shape
<1>2. r = [rep |-> e.rep, ins |-> e.ins, outs |-> Put(e.outs, g, rec), timer |-> e.timer,
           satisfied |-> e.satisfied, dataFresh |-> e.dataFresh, supp |-> e.supp]
  BY DEF InsertOrUpdateOutRecord, Shape
<1>3. /\ DOMAIN Put(e.outs, g, rec) \subseteq up
      /\ Put(e.outs, g, rec) \in [DOMAIN Put(e.outs, g, rec) -> OutRecord]
  <2> HIDE DEF rec
  <2> QED BY <1>1 DEF Put, Shape
<1> QED
  <2> HIDE DEF rec, r
  <2> SUFFICES Shape(k, r) /\ r.timer = e.timer /\ r.ins = e.ins
    BY DEF r
  <2> QED BY <1>2, <1>3 DEF Shape

\* Deleting in-records keeps the entry well formed ...
LEMMA DeletedInShape ==
  ASSUME NEW k, NEW e, Shape(k, e), NEW S
  PROVE  LET r == DeleteInRecords(e, S)
         IN  /\ Shape(k, r)
             /\ r.timer = e.timer /\ r.satisfied = e.satisfied /\ r.outs = e.outs
             /\ DOMAIN r.ins = DOMAIN e.ins \ S
             /\ \A f \in DOMAIN e.ins \ S : r.ins[f] = e.ins[f]
<1> DEFINE r == DeleteInRecords(e, S)
<1>1. r = [rep |-> e.rep, ins |-> Without(e.ins, S), outs |-> e.outs, timer |-> e.timer,
           satisfied |-> e.satisfied, dataFresh |-> e.dataFresh, supp |-> e.supp]
  BY DEF DeleteInRecords, Shape
<1>2. /\ DOMAIN Without(e.ins, S) = DOMAIN e.ins \ S
      /\ \A f \in DOMAIN e.ins \ S : Without(e.ins, S)[f] = e.ins[f]
      /\ Without(e.ins, S) \in [DOMAIN e.ins \ S -> InRecord]
  BY DEF Without, Shape
<1> QED
  <2> HIDE DEF r
  <2> SUFFICES /\ Shape(k, r)
               /\ r.timer = e.timer /\ r.satisfied = e.satisfied /\ r.outs = e.outs
               /\ DOMAIN r.ins = DOMAIN e.ins \ S
               /\ \A f \in DOMAIN e.ins \ S : r.ins[f] = e.ins[f]
    BY DEF r
  <2> QED BY <1>1, <1>2 DEF Shape

\* ... and so does deleting out-records.
LEMMA DeletedOutShape ==
  ASSUME NEW k, NEW e, Shape(k, e), NEW S
  PROVE  LET r == DeleteOutRecords(e, S)
         IN  /\ Shape(k, r)
             /\ r.timer = e.timer /\ r.satisfied = e.satisfied /\ r.ins = e.ins
             /\ DOMAIN r.outs = DOMAIN e.outs \ S
             /\ \A f \in DOMAIN e.outs \ S : r.outs[f] = e.outs[f]
<1> DEFINE r == DeleteOutRecords(e, S)
<1>1. r = [rep |-> e.rep, ins |-> e.ins, outs |-> Without(e.outs, S), timer |-> e.timer,
           satisfied |-> e.satisfied, dataFresh |-> e.dataFresh, supp |-> e.supp]
  BY DEF DeleteOutRecords, Shape
<1>2. /\ DOMAIN Without(e.outs, S) = DOMAIN e.outs \ S
      /\ \A f \in DOMAIN e.outs \ S : Without(e.outs, S)[f] = e.outs[f]
      /\ Without(e.outs, S) \in [DOMAIN e.outs \ S -> OutRecord]
  BY DEF Without, Shape
<1> QED
  <2> HIDE DEF r
  <2> SUFFICES /\ Shape(k, r)
               /\ r.timer = e.timer /\ r.satisfied = e.satisfied /\ r.ins = e.ins
               /\ DOMAIN r.outs = DOMAIN e.outs \ S
               /\ \A f \in DOMAIN e.outs \ S : r.outs[f] = e.outs[f]
    BY DEF r
  <2> QED BY <1>1, <1>2 DEF Shape

\* Replacing one entry, as every pipeline but the Data pipeline does.
LEMMA SetEntryKeepsIInv ==
  ASSUME IInv, NEW k \in Key, NEW e, Good(k, e), SetEntry(k, e),
         UNCHANGED <<now, up, fib, cs>>, owed' \in [Face -> SUBSET Key],
         \A f \in DOMAIN e.ins : k \in owed'[f],
         \A f \in Face, j \in Key \ {k} : j \in owed[f] => j \in owed'[f]
  PROVE  IInv'
<1>1. /\ DOMAIN pit' = DOMAIN pit \cup {k}
      /\ pit'[k] = e
      /\ \A j \in DOMAIN pit \ {k} : pit'[j] = pit[j]
  BY DEF SetEntry, Put
<1>2. \A j \in DOMAIN pit' : Good(j, pit'[j])
  BY <1>1 DEF IInv
<1>3. (\A j \in DOMAIN pit : Good(j, pit[j]))'
  BY <1>2 DEF Good, Shape, Justified, Covered, HasPendingOutRecords
<1>4. InRecordsOwed'
  <2> SUFFICES ASSUME NEW j \in DOMAIN pit', NEW f \in DOMAIN pit'[j].ins
               PROVE  j \in owed'[f]
    BY DEF InRecordsOwed
  <2>1. CASE j = k
    BY <1>1, <2>1
  <2>2. CASE j # k
    <3>1. j \in DOMAIN pit /\ pit'[j] = pit[j] /\ j \in owed[f] /\ f \in Face /\ j \in Key
      BY <1>1, <2>2 DEF IInv, InRecordsOwed, Good, Shape
    <3> QED BY <3>1, <2>2
  <2> QED BY <2>1, <2>2
<1> QED BY <1>1, <1>3, <1>4 DEF IInv, FibInv

----------------------------------------------------------------------------
(* The actions                                                             *)

\* The forwarder starts with an empty PIT and a FIB of live faces.
LEMMA InitIInv == Init => IInv
  BY FibAssumption DEF Init, IInv, FibInv, InRecordsOwed

\* An Interest that is recorded and whose timer covers it keeps IInv.
LEMMA OweKeepsIInv ==
  ASSUME IInv, NEW f \in up, NEW w \in Interest, NEW e,
         Shape(PitKey(w), e), e.timer \in Nat, Covered(e),
         DOMAIN e.ins = DOMAIN EntryFor(Accepted(w)).ins \cup {f},
         SetEntry(PitKey(w), e), Owe(f, PitKey(w)), UNCHANGED <<now, up, fib, cs>>
  PROVE  IInv'
<1> DEFINE k == PitKey(w)
<1>1. k \in Key
  BY AcceptedKey
<1>2. /\ owed' \in [Face -> SUBSET Key]
      /\ \A g \in Face : owed[g] \subseteq owed'[g]
      /\ k \in owed'[f]
  BY <1>1 DEF Owe, IInv
<1>3. \A g \in DOMAIN e.ins : k \in owed'[g]
  BY <1>2, EntryForShape DEF Shape, IInv
<1>4. Good(k, e)
  BY DEF Good, Justified
<1> HIDE DEF k
<1> QED BY <1>1, <1>2, <1>3, <1>4, SetEntryKeepsIInv DEF k

\* The entry after a CS hit or after Data: satisfied and due now.
LEMMA SatisfiedGood ==
  ASSUME now \in Nat, NEW k, NEW e, Shape(k, e), NEW fresh \in Nat, NEW r,
         r = [rep |-> e.rep, ins |-> e.ins, outs |-> e.outs, timer |-> now,
              satisfied |-> TRUE, dataFresh |-> fresh, supp |-> e.supp]
  PROVE  /\ Good(k, r) /\ r.ins = e.ins /\ r.outs = e.outs
         /\ r.timer = now /\ r.satisfied = TRUE
<1>1. Shape(k, r)
  BY DEF Shape
<1> QED BY <1>1 DEF Good, Justified

\* Marking an entry satisfied and due leaves its records as they are.
LEMMA SatisfiedShape ==
  ASSUME now \in Nat, NEW k, NEW e, Shape(k, e), NEW d, d.fresh \in Nat
  PROVE  /\ Shape(k, Satisfied(e, d)) /\ Satisfied(e, d).ins = e.ins
         /\ Satisfied(e, d).timer = now /\ Satisfied(e, d).satisfied = TRUE
<1> DEFINE r == Satisfied(e, d)
<1>1. r = [rep |-> e.rep, ins |-> e.ins, outs |-> e.outs, timer |-> now,
           satisfied |-> TRUE, dataFresh |-> d.fresh, supp |-> e.supp]
  <2>1. r = [e EXCEPT !.timer = now, !.satisfied = TRUE, !.dataFresh = d.fresh]
    BY DEF Satisfied
  <2> HIDE DEF r
  <2> QED BY ZenonT(30), <2>1 DEF Shape
<1> HIDE DEF r
<1>2. Shape(k, r) /\ r.ins = e.ins /\ r.timer = now /\ r.satisfied = TRUE
  BY ZenonT(30), <1>1, SatisfiedGood DEF Good
<1> QED BY <1>2 DEF r

\* onContentStoreHit: the answered in-record goes and the entry is due now.
LEMMA HitKeepsIInv ==
  ASSUME IInv, NEW f \in Face, NEW w \in Interest, OnContentStoreHit(f, w)
  PROVE  IInv'
<1> DEFINE k == PitKey(w)
           e == EntryFor(Accepted(w))
<1>1. PICK d \in CsMatch(Accepted(w)) : SetEntry(k, Hit(e, f, d))
  BY AcceptedKey DEF OnContentStoreHit
<1>2. d \in Data /\ d.fresh \in Nat
  <2>1. CsMatch(Accepted(w)) \subseteq DOMAIN cs
    BY DEF CsMatch, FindImpl, First, FindPrefixRange
  <2> QED BY <2>1, PacketAssumption DEF IInv
<1>3. Shape(k, e) /\ \A g \in DOMAIN e.ins : k \in owed[g]
  BY EntryForShape
<1>4. Shape(k, DeleteInRecords(e, {f})) /\ DOMAIN DeleteInRecords(e, {f}).ins \subseteq DOMAIN e.ins
  BY <1>3, DeletedInShape
<1>5. Good(k, Hit(e, f, d)) /\ Hit(e, f, d).ins = DeleteInRecords(e, {f}).ins
  <2> DEFINE e1 == DeleteInRecords(e, {f})
             h == Hit(e, f, d)
  <2>1. now \in Nat /\ Shape(k, e1)
    BY <1>4 DEF IInv
  <2>2. h = [rep |-> e1.rep, ins |-> e1.ins, outs |-> e1.outs, timer |-> now,
             satisfied |-> TRUE, dataFresh |-> d.fresh, supp |-> e1.supp]
    <3>1. h = [e1 EXCEPT !.satisfied = TRUE, !.dataFresh = d.fresh, !.timer = now]
      BY DEF Hit
    <3> HIDE DEF e1, h, k, e
    <3> QED BY ZenonT(30), <2>1, <3>1 DEF Shape
  <2> HIDE DEF e1, h, k, e
  <2>3. Good(k, h) /\ h.ins = e1.ins
    BY ZenonT(30), <2>1, <2>2, <1>2, SatisfiedGood
  <2> QED BY <2>3 DEF e1, h
<1>6. k \in Key /\ UNCHANGED <<now, up, fib, cs, owed>>
  BY AcceptedKey DEF OnContentStoreHit
<1> HIDE DEF k, e
<1> QED BY ZenonT(30), <1>1, <1>3, <1>4, <1>5, <1>6, SetEntryKeepsIInv DEF IInv

\* What the five outcomes of onContentStoreMiss start from.
LEMMA MissRecords ==
  ASSUME IInv, NEW f \in Face, NEW w \in Interest, Misses(f, w)
  PROVE  LET r == Recorded(EntryFor(Accepted(w)), f, Accepted(w))
         IN  /\ f \in up /\ now \in Nat
             /\ Shape(PitKey(w), r) /\ r.timer \in Nat /\ Covered(r)
             /\ DOMAIN r.ins = DOMAIN EntryFor(Accepted(w)).ins \cup {f}
<1>1. f \in up /\ now \in Nat
  BY DEF Misses, Proceeds, Input, IInv
<1> QED BY <1>1, EntryForShape, RecordedShape

\* Forward keeps what OweKeepsIInv needs.
LEMMA ForwardKeepsIInv ==
  ASSUME IInv, NEW f \in up, NEW w \in Interest, NEW g \in up, NEW e,
         Shape(PitKey(w), e), e.timer \in Nat, Covered(e),
         DOMAIN e.ins = DOMAIN EntryFor(Accepted(w)).ins \cup {f},
         Forward(PitKey(w), e, g, Accepted(w)), Owe(f, PitKey(w)), UNCHANGED <<now, up, fib, cs>>
  PROVE  IInv'
<1> DEFINE r == InsertOrUpdateOutRecord(e, g, Accepted(w), now)
<1>1. Shape(PitKey(w), r) /\ r.timer = e.timer /\ r.ins = e.ins
  BY ForwardedShape DEF IInv
<1>2. Covered(r)
  <2> HIDE DEF r
  <2> QED BY <1>1 DEF Covered
<1>3. SetEntry(PitKey(w), r) \/ SetEntry(PitKey(w), e)
  BY DEF Forward
<1>4. CASE SetEntry(PitKey(w), e)
  BY <1>4, OweKeepsIInv
<1>5. CASE SetEntry(PitKey(w), r)
  <2> HIDE DEF r
  <2> QED BY <1>1, <1>2, <1>5, OweKeepsIInv
<1> QED BY <1>3, <1>4, <1>5

\* The suppression interval and the next one are times.
LEMMA IntervalIsTime ==
  ASSUME NEW k, NEW e, Shape(k, e)
  PROVE  SuppressionInterval(e) \in Nat /\ Backoff(e) \in Nat
<1>1. e.supp \in Nat
  BY DEF Shape
<1>2. SuppressionInterval(e) \in Nat
  BY <1>1, TimeAssumption DEF SuppressionInterval
<1> QED BY <1>2, TimeAssumption DEF Backoff

\* The suppression interval is a StrategyInfo beside the records.
LEMMA IntervalShape ==
  ASSUME NEW k, NEW e, Shape(k, e), e.timer \in Nat, Covered(e), NEW s \in Nat
  PROVE  LET r == [e EXCEPT !.supp = s]
         IN  Shape(k, r) /\ r.timer \in Nat /\ Covered(r) /\ r.ins = e.ins
<1> DEFINE r == [e EXCEPT !.supp = s]
<1>1. r = [rep |-> e.rep, ins |-> e.ins, outs |-> e.outs, timer |-> e.timer,
           satisfied |-> e.satisfied, dataFresh |-> e.dataFresh, supp |-> s]
  BY DEF Shape
<1> HIDE DEF r
<1>2. Shape(k, r) /\ r.timer \in Nat /\ Covered(r) /\ r.ins = e.ins
  BY <1>1 DEF Shape, Covered
<1> QED BY <1>2 DEF r

\* A nexthop that the strategy considers is in the FaceTable.
LEMMA NextHopsUp ==
  ASSUME FibInv, NEW rep, NEW int
  PROVE  DOMAIN LookupFibwithFunction(rep, int) \subseteq up
<1>1. \A n : DOMAIN FindLongestPrefixMatch(n) \subseteq up
  BY DEF FindLongestPrefixMatch, FibInv
<1>2. DOMAIN << >> = {}
  OBVIOUS
<1> QED BY <1>1, <1>2 DEF LookupFibwithFunction, LookupFib

\* onContentStoreMiss, when the Interest is recorded and kept: chosen nexthop,
\* suppressed, forwarded or retransmitted.
LEMMA MissKeepsIInv ==
  ASSUME IInv, NEW f \in Face, NEW w \in Interest,
         \/ MissToChosenNextHop(f, w) \/ MissSuppressed(f, w)
         \/ MissNew(f, w) \/ MissRetransmit(f, w)
  PROVE  IInv'
<1> DEFINE int == Accepted(w)
           e == Recorded(EntryFor(int), f, int)
<1>1. /\ Misses(f, w) /\ Owe(f, PitKey(w)) /\ UNCHANGED <<now, up, fib, cs>>
      /\ PitKey(int) = PitKey(w)
  BY AcceptedKey DEF MissToChosenNextHop, MissSuppressed, MissNew, MissRetransmit
<1>2. /\ f \in up /\ now \in Nat
      /\ Shape(PitKey(w), e) /\ e.timer \in Nat /\ Covered(e)
      /\ DOMAIN e.ins = DOMAIN EntryFor(Accepted(w)).ins \cup {f}
  BY <1>1, MissRecords
<1>3. SuppressionInterval(e) \in Nat /\ Backoff(e) \in Nat
  BY <1>2, IntervalIsTime
<1>4. CASE MissToChosenNextHop(f, w)
  <2>1. \/ w.nextHop \in up /\ Forward(PitKey(w), e, w.nextHop, int)
        \/ SetEntry(PitKey(w), e)
    BY <1>1, <1>4 DEF MissToChosenNextHop
  <2> HIDE DEF e
  <2> QED BY <1>1, <1>2, <2>1, ForwardKeepsIInv, OweKeepsIInv
<1>5. CASE MissSuppressed(f, w)
  <2> DEFINE r == [e EXCEPT !.supp = SuppressionInterval(e)]
  <2>1. SetEntry(PitKey(w), r)
    BY <1>1, <1>5 DEF MissSuppressed
  <2>2. Shape(PitKey(w), r) /\ r.timer \in Nat /\ Covered(r) /\ r.ins = e.ins
    <3> HIDE DEF e
    <3> QED BY <1>2, <1>3, IntervalShape
  <2> HIDE DEF e, r
  <2> QED BY <1>1, <1>2, <2>1, <2>2, OweKeepsIInv
<1>6. CASE MissNew(f, w)
  <2>1. PICK g \in Cheapest(EligibleNextHops(e, f, int), LookupFibwithFunction(e.rep, int)) :
          Forward(PitKey(w), e, g, int)
    BY <1>1, <1>6 DEF MissNew
  <2>2. g \in up
    BY <2>1, NextHopsUp DEF Cheapest, EligibleNextHops, IInv
  <2> HIDE DEF e
  <2> QED BY <1>1, <1>2, <2>1, <2>2, ForwardKeepsIInv
<1>7. CASE MissRetransmit(f, w)
  <2> DEFINE r == [e EXCEPT !.supp = Backoff(e)]
  <2>1. Shape(PitKey(w), r) /\ r.timer \in Nat /\ Covered(r) /\ r.ins = e.ins
    <3> HIDE DEF e
    <3> QED BY <1>2, <1>3, IntervalShape
  <2>2. \/ SetEntry(PitKey(w), r)
        \/ \E g \in EligibleNextHops(r, f, int) : Forward(PitKey(w), r, g, int)
    BY ZenonT(30), <1>1, <1>7 DEF MissRetransmit, Cheapest, UnusedNextHops, EarliestNextHops
  <2>3. EligibleNextHops(r, f, int) \subseteq up
    BY NextHopsUp DEF EligibleNextHops, IInv
  <2> HIDE DEF e, r
  <2> QED BY <1>1, <1>2, <2>1, <2>2, <2>3, ForwardKeepsIInv, OweKeepsIInv
<1> QED BY <1>4, <1>5, <1>6, <1>7

\* A rejected Interest: the entry is due now, and nobody upstream can answer.
LEMMA NoRouteKeepsIInv ==
  ASSUME IInv, NEW f \in Face, NEW w \in Interest, MissNoRoute(f, w)
  PROVE  IInv'
<1> DEFINE k == PitKey(w)
           int == Accepted(w)
           e == Recorded(EntryFor(int), f, int)
           e1 == DeleteInRecords(e, Nackable(e, {f}))
           r == SetExpiryTimer(e1, now)
<1>1. /\ Misses(f, w) /\ UNCHANGED <<now, up, fib, cs>> /\ PitKey(int) = k /\ k \in Key
      /\ SetEntry(k, r) /\ IsNewPitEntry(e)
      /\ owed' = IF IsP2p(f) THEN [owed EXCEPT ![f] = @ \ {k}] ELSE [owed EXCEPT ![f] = @ \cup {k}]
  BY ZenonT(30), AcceptedKey DEF MissNoRoute
<1>2. /\ f \in up /\ now \in Nat /\ Shape(k, e)
      /\ DOMAIN e.ins = DOMAIN EntryFor(int).ins \cup {f}
  BY <1>1, MissRecords
<1>3. /\ Shape(k, e1) /\ e1.outs = e.outs
      /\ DOMAIN e1.ins = DOMAIN e.ins \ Nackable(e, {f})
  <2> HIDE DEF e
  <2> QED BY <1>2, DeletedInShape
<1>4. Nackable(e, {f}) = IF IsP2p(f) THEN {f} ELSE {}
  BY <1>2 DEF Nackable
<1>5. r = [rep |-> e1.rep, ins |-> e1.ins, outs |-> e1.outs, timer |-> now,
           satisfied |-> e1.satisfied, dataFresh |-> e1.dataFresh, supp |-> e1.supp]
  <2> HIDE DEF e1
  <2> QED BY <1>3 DEF SetExpiryTimer, Shape
<1>6. Good(k, r) /\ r.ins = e1.ins
  <2> HIDE DEF e1, e, r
  <2>1. Shape(k, r)
    BY ZenonT(30), <1>3, <1>5 DEF Shape
  <2>2. ~HasPendingOutRecords(r, now)
    BY <1>1, <1>3, <1>5 DEF IsNewPitEntry, HasPendingOutRecords
  <2> QED BY <1>2, <1>5, <2>1, <2>2 DEF Good, Justified
<1>7. /\ owed' \in [Face -> SUBSET Key]
      /\ \A g \in DOMAIN e1.ins : k \in owed'[g]
      /\ \A g \in Face, j \in Key \ {k} : j \in owed[g] => j \in owed'[g]
  <2>1. \A g \in DOMAIN EntryFor(int).ins : k \in owed[g] /\ g \in Face
    BY EntryForShape DEF Shape, IInv
  <2>2. owed \in [Face -> SUBSET Key]
    BY SMTT(30) DEF IInv
  <2> HIDE DEF e1, e, k, int
  <2> QED BY <1>1, <1>2, <1>3, <1>4, <2>1, <2>2
<1> HIDE DEF e1, e, r
<1> QED BY <1>1, <1>6, <1>7, SetEntryKeepsIInv

\* Data: every matching entry is satisfied and due now, and what it is no longer
\* owed has left its in-records.
LEMMA DataKeepsIInv ==
  ASSUME IInv, NEW f \in Face, NEW d \in Data, OnIncomingData(f, d)
  PROVE  IInv'
<1> DEFINE K == FindAllDataMatches(d)
           down == DataDownstreams(K, f)
           gone == ConsumedInRecords(K, down)
           sat(k) == Satisfied(pit[k], d)
           new(k) == DeleteOutRecords(DeleteInRecords(sat(k), gone), {f})
<1>1. /\ UNCHANGED <<now, up, fib>> /\ cs' = Put(cs, d, now + d.fresh)
      /\ pit' = [k \in DOMAIN pit |-> IF k \in K THEN new(k) ELSE pit[k]]
      /\ owed' = [g \in Face |-> IF g \in down THEN owed[g] \ K ELSE owed[g]]
  BY DEF OnIncomingData, CsInsert
<1>2. K \subseteq DOMAIN pit /\ d.fresh \in Nat /\ now \in Nat
  BY PacketAssumption DEF FindAllDataMatches, IInv
<1>a. \A k, e : Shape(k, e) =>
        /\ Shape(k, Satisfied(e, d)) /\ Satisfied(e, d).ins = e.ins
        /\ Satisfied(e, d).timer = now /\ Satisfied(e, d).satisfied = TRUE
  BY ZenonT(30), <1>2, SatisfiedShape
<1>3. ASSUME NEW k \in K
      PROVE  /\ Good(k, new(k))
             /\ DOMAIN new(k).ins = DOMAIN pit[k].ins \ gone
  <2>1. Shape(k, pit[k])
    BY <1>2 DEF IInv, Good
  <2>2. /\ Shape(k, sat(k)) /\ sat(k).timer = now /\ sat(k).satisfied = TRUE
        /\ sat(k).ins = pit[k].ins
    BY <2>1, <1>a
  <2> DEFINE e1 == DeleteInRecords(sat(k), gone)
  <2>3. /\ Shape(k, e1) /\ e1.timer = now /\ e1.satisfied = TRUE
        /\ DOMAIN e1.ins = DOMAIN pit[k].ins \ gone
    <3> HIDE DEF sat, gone
    <3> QED BY <2>2, DeletedInShape
  <2>4. /\ Shape(k, new(k)) /\ new(k).timer = now /\ new(k).satisfied = TRUE
        /\ new(k).ins = e1.ins
    <3> HIDE DEF e1
    <3>1. new(k) = DeleteOutRecords(e1, {f})
      BY DEF e1
    <3> HIDE DEF new
    <3> QED BY <2>3, <3>1, DeletedOutShape
  <2> HIDE DEF new, e1
  <2> QED BY <1>2, <2>3, <2>4 DEF Good, Justified
<1> HIDE DEF new, gone, down, K
<1>4. /\ DOMAIN pit' = DOMAIN pit
      /\ \A k \in DOMAIN pit' : Good(k, pit'[k])
  BY <1>1, <1>3 DEF IInv
<1>5. (\A k \in DOMAIN pit : Good(k, pit[k]))'
  BY SMTT(30), <1>1, <1>4 DEF Good, Shape, Justified, Covered, HasPendingOutRecords
<1>6. (DOMAIN cs \subseteq Data)' /\ FibInv'
  BY <1>1 DEF Put, IInv, FibInv
<1>7. owed' \in [Face -> SUBSET Key]
  BY <1>1 DEF IInv
<1>8. InRecordsOwed'
  <2> SUFFICES ASSUME NEW k \in DOMAIN pit', NEW g \in DOMAIN pit'[k].ins
               PROVE  k \in owed'[g]
    BY DEF InRecordsOwed
  <2>1. k \in DOMAIN pit /\ (k \in K => g \notin gone) /\ g \in DOMAIN pit[k].ins
    BY <1>1, <1>3, <1>4
  <2>2. k \in owed[g] /\ g \in Face
    BY <2>1 DEF IInv, InRecordsOwed, Good, Shape
  <2>3. g \in down => k \notin K
    BY SMTT(30), <2>1, <2>2 DEF gone, ConsumedInRecords
  <2> QED BY <1>1, <2>2, <2>3
<1> QED BY <1>1, <1>4, <1>5, <1>6, <1>7, <1>8 DEF IInv

\* Nack: the timer is brought forward only if no out-record is pending.
LEMMA NackKeepsIInv ==
  ASSUME IInv, NEW f \in Face, NEW w \in Interest, NEW reason \in NackReason \ {None},
         OnIncomingNack(f, w, reason)
  PROVE  IInv'
<1> DEFINE k == PitKey(w)
           e == pit[k]
           e1 == SetIncomingNack(e, f, reason)
           e2 == IF HasPendingOutRecords(e1, now) THEN e1 ELSE SetExpiryTimer(e1, now)
           down == Nackable(e2, NackDownstreams(e2))
           r == DeleteInRecords(e2, down)
<1>1. /\ UNCHANGED <<now, up, fib, cs>> /\ k \in DOMAIN pit /\ f \in DOMAIN e.outs
      /\ SetEntry(k, r)
      /\ owed' = [g \in Face |-> IF g \in down THEN owed[g] \ {k} ELSE owed[g]]
  BY ZenonT(30), AcceptedKey DEF OnIncomingNack
<1>2. Good(k, e) /\ now \in Nat /\ k \in Key
  BY <1>1 DEF IInv
<1> DEFINE outs == Put(e.outs, f, [e.outs[f] EXCEPT !.nack = reason])
<1>3. /\ outs \in [DOMAIN e.outs -> OutRecord] /\ DOMAIN outs = DOMAIN e.outs
      /\ \A g \in DOMAIN e.outs : outs[g].expiry = e.outs[g].expiry
      /\ \A g \in DOMAIN e.outs : outs[g].nack = NotNacked => e.outs[g].nack = NotNacked
  <2>1. e.outs[f] \in OutRecord
    BY ZenonT(30), <1>1, <1>2 DEF Good, Shape
  <2>2. /\ [e.outs[f] EXCEPT !.nack = reason] \in OutRecord
        /\ [e.outs[f] EXCEPT !.nack = reason].expiry = e.outs[f].expiry
        /\ [e.outs[f] EXCEPT !.nack = reason].nack = reason
    BY <2>1 DEF OutRecord
  <2>3. reason # NotNacked
    BY DEF NackReason, NotNacked, None, Congestion, Duplicate, NoRoute
  <2> QED BY <1>1, <1>2, <2>2, <2>3 DEF Put, Good, Shape
<1>4. e1 = [rep |-> e.rep, ins |-> e.ins, outs |-> outs, timer |-> e.timer,
            satisfied |-> e.satisfied, dataFresh |-> e.dataFresh, supp |-> e.supp]
  BY <1>2 DEF SetIncomingNack, Good, Shape
<1>5. Good(k, e1)
  <2> HIDE DEF e1, e, outs
  <2>1. Shape(k, e1)
    BY <1>2, <1>3, <1>4 DEF Good, Shape
  <2>2. HasPendingOutRecords(e1, now) => HasPendingOutRecords(e, now)
    BY ZenonT(30), <1>3, <1>4 DEF HasPendingOutRecords
  <2> QED BY <1>2, <1>4, <2>1, <2>2 DEF Good, Justified, Covered
<1>6. Good(k, e2) /\ e2.ins = e.ins
  <2>1. CASE HasPendingOutRecords(e1, now)
    BY <1>4, <1>5, <2>1
  <2>2. CASE ~HasPendingOutRecords(e1, now)
    <3> DEFINE x == SetExpiryTimer(e1, now)
    <3>1. x = [rep |-> e1.rep, ins |-> e1.ins, outs |-> e1.outs, timer |-> now,
               satisfied |-> e1.satisfied, dataFresh |-> e1.dataFresh, supp |-> e1.supp]
      <4> HIDE DEF e1
      <4> QED BY <1>5 DEF SetExpiryTimer, Good, Shape
    <3>2. e2 = x
      BY <2>2
    <3>3. Good(k, x) /\ x.ins = e1.ins
      <4> HIDE DEF e1, x
      <4>1. Shape(k, x)
        BY <1>5, <3>1 DEF Good, Shape
      <4>2. ~HasPendingOutRecords(x, now)
        BY <2>2, <3>1 DEF HasPendingOutRecords
      <4> QED BY <1>2, <3>1, <4>1, <4>2 DEF Good, Justified
    <3>4. e1.ins = e.ins
      BY SMTT(30), <1>4
    <3> HIDE DEF x, e1, e2, e
    <3> QED BY <3>2, <3>3, <3>4
  <2> QED BY ZenonT(30), <2>1, <2>2
<1>7. Good(k, r) /\ DOMAIN r.ins = DOMAIN e.ins \ down
  <2> HIDE DEF e2, down, e
  <2>0. Shape(k, e2)
    BY <1>6 DEF Good
  <2>1. /\ Shape(k, r) /\ r.timer = e2.timer /\ r.satisfied = e2.satisfied /\ r.outs = e2.outs
        /\ DOMAIN r.ins = DOMAIN e2.ins \ down
        /\ \A g \in DOMAIN e2.ins \ down : r.ins[g] = e2.ins[g]
    BY <2>0, DeletedInShape
  <2> HIDE DEF r
  <2> QED BY <1>6, <2>1 DEF Good, Justified, Covered, HasPendingOutRecords
<1>8. \A g \in DOMAIN e.ins : k \in owed[g] /\ g \in Face
  BY ZenonT(30), <1>1, <1>2 DEF IInv, InRecordsOwed, Good, Shape
<1> HIDE DEF r, down, e, e1, e2
<1>9. /\ owed' \in [Face -> SUBSET Key]
      /\ \A g \in DOMAIN r.ins : k \in owed'[g]
      /\ \A g \in Face, j \in Key \ {k} : j \in owed[g] => j \in owed'[g]
  BY ZenonT(30), <1>1, <1>7, <1>8 DEF IInv
<1> QED BY <1>1, <1>2, <1>7, <1>9, SetEntryKeepsIInv

\* onInterestFinalize erases the entry, and what was owed for it ends.
LEMMA FinalizeKeepsIInv ==
  ASSUME IInv, NEW k \in DOMAIN pit, OnInterestFinalize(k)
  PROVE  IInv'
<1>1. /\ UNCHANGED <<now, up, fib, cs>>
      /\ DOMAIN pit' = DOMAIN pit \ {k} /\ \A j \in DOMAIN pit' : pit'[j] = pit[j]
      /\ owed' = [g \in Face |-> owed[g] \ {k}]
  BY SMTT(30) DEF OnInterestFinalize, Without
<1>2. (\A j \in DOMAIN pit : Good(j, pit[j]))'
  <2>1. \A j \in DOMAIN pit' : Good(j, pit'[j])
    BY <1>1 DEF IInv
  <2> QED BY ZenonT(30), <1>1, <2>1 DEF Good, Shape, Justified, Covered, HasPendingOutRecords
<1>3. InRecordsOwed'
  <2> SUFFICES ASSUME NEW j \in DOMAIN pit', NEW g \in DOMAIN pit'[j].ins
               PROVE  j \in owed'[g]
    BY SMTT(30) DEF InRecordsOwed
  <2>1. j # k /\ j \in owed[g] /\ g \in Face
    BY ZenonT(30), <1>1 DEF IInv, InRecordsOwed, Good, Shape
  <2> QED BY <1>1, <2>1
<1> QED BY ZenonT(30), <1>1, <1>2, <1>3 DEF IInv, FibInv

\* cleanupOnFaceRemoval leaves no trace of the face in the FIB and the PIT.
LEMMA RemoveFaceKeepsIInv ==
  ASSUME IInv, NEW f \in Face, RemoveFace(f)
  PROVE  IInv'
<1>1. /\ UNCHANGED <<now, cs>> /\ up' = up \ {f} /\ fib' = WithoutNextHop(f)
      /\ pit' = [k \in DOMAIN pit |-> DeleteInOutRecords(pit[k], f)]
      /\ owed' = [owed EXCEPT ![f] = {}]
  BY DEF RemoveFace
<1>2. ASSUME NEW k \in DOMAIN pit
      PROVE  LET r == DeleteInOutRecords(pit[k], f)
             IN  /\ Good(k, r)
                 /\ DOMAIN r.ins = DOMAIN pit[k].ins \ {f} /\ f \notin DOMAIN r.outs
  <2> DEFINE e == pit[k]
             e1 == DeleteInRecords(e, {f})
             r == DeleteOutRecords(e1, {f})
  <2>1. Good(k, e)
    BY DEF IInv
  <2>2. /\ Shape(k, e1)
        /\ e1.timer = e.timer /\ e1.satisfied = e.satisfied /\ e1.outs = e.outs
        /\ DOMAIN e1.ins = DOMAIN e.ins \ {f}
        /\ \A g \in DOMAIN e.ins \ {f} : e1.ins[g] = e.ins[g]
    <3> HIDE DEF e
    <3> QED BY <2>1, DeletedInShape DEF Good
  <2>3. /\ Shape(k, r)
        /\ r.timer = e1.timer /\ r.satisfied = e1.satisfied /\ r.ins = e1.ins
        /\ DOMAIN r.outs = DOMAIN e1.outs \ {f}
        /\ \A g \in DOMAIN e1.outs \ {f} : r.outs[g] = e1.outs[g]
    <3> HIDE DEF e1
    <3> QED BY SMTT(30), <2>2, DeletedOutShape
  <2> SUFFICES /\ Good(k, r) /\ DOMAIN r.ins = DOMAIN e.ins \ {f} /\ f \notin DOMAIN r.outs
    BY DEF DeleteInOutRecords
  <2> HIDE DEF e, e1, r
  <2>4. HasPendingOutRecords(r, now) => HasPendingOutRecords(e, now)
    BY <2>2, <2>3 DEF HasPendingOutRecords
  <2> QED BY <2>1, <2>2, <2>3, <2>4 DEF Good, Justified, Covered
<1>3. /\ DOMAIN pit' = DOMAIN pit
      /\ \A k \in DOMAIN pit' : /\ Good(k, pit'[k])
                                /\ DOMAIN pit'[k].ins = DOMAIN pit[k].ins \ {f}
                                /\ f \notin DOMAIN pit'[k].outs
  BY <1>1, <1>2
<1>4. (\A k \in DOMAIN pit : Good(k, pit[k]))'
  <2> SUFFICES ASSUME NEW k \in DOMAIN pit'
               PROVE  Good(k, pit[k])'
    OBVIOUS
  <2>1. Good(k, pit'[k]) /\ f \notin DOMAIN pit'[k].ins /\ f \notin DOMAIN pit'[k].outs
    BY <1>3
  <2>2. Shape(k, pit[k])'
    BY SMTT(30), <1>1, <2>1 DEF Good, Shape
  <2>3. Justified(pit[k])'
    BY <1>1, <2>1 DEF Good, Justified, Covered, HasPendingOutRecords
  <2> QED BY <2>1, <2>2, <2>3 DEF Good
<1>5. InRecordsOwed'
  <2> SUFFICES ASSUME NEW k \in DOMAIN pit', NEW g \in DOMAIN pit'[k].ins
               PROVE  k \in owed'[g]
    BY DEF InRecordsOwed
  <2>1. g # f /\ g \in DOMAIN pit[k].ins /\ k \in DOMAIN pit
    BY SMTT(30), <1>3
  <2>2. k \in owed[g] /\ g \in Face
    BY ZenonT(30), <2>1 DEF IInv, InRecordsOwed, Good, Shape
  <2> QED BY <1>1, <2>1, <2>2 DEF IInv
<1>6. FibInv'
  BY <1>1 DEF IInv, FibInv, WithoutNextHop, Without
<1>7. owed' \in [Face -> SUBSET Key]
  BY <1>1 DEF IInv
<1> QED BY <1>1, <1>3, <1>4, <1>5, <1>6, <1>7 DEF IInv

\* What a FIB command adds is in the FaceTable.
LEMMA FibCommandKeepsFibInv ==
  ASSUME IInv, NEW p, NEW g,
         (\E c \in Cost : AddOrUpdateNextHop(p, g, c)) \/ RemoveNextHop(p, g)
  PROVE  FibInv'
<1>1. CASE \E c \in Cost : AddOrUpdateNextHop(p, g, c)
  <2>1. PICK c \in Cost : AddOrUpdateNextHop(p, g, c)
    BY <1>1
  <2>2. DOMAIN << >> = {}
    OBVIOUS
  <2> DEFINE old == IF p \in DOMAIN fib THEN fib[p] ELSE << >>
  <2>3. g \in up /\ up' = up /\ fib' = Put(fib, p, Put(old, g, c))
    BY <2>1 DEF AddOrUpdateNextHop, Input
  <2>4. DOMAIN old \subseteq up
    BY <2>2 DEF IInv, FibInv
  <2> HIDE DEF old
  <2> QED BY <2>3, <2>4 DEF Put, IInv, FibInv
<1>2. CASE RemoveNextHop(p, g)
  <2>1. /\ up' = up /\ p \in DOMAIN fib
        /\ fib' = Without(fib, {p}) \/ fib' = Put(fib, p, Without(fib[p], {g}))
    BY <1>2 DEF RemoveNextHop
  <2> QED BY SMTT(30), <2>1 DEF Put, Without, IInv, FibInv
<1> QED BY <1>1, <1>2

\* A step that leaves the PIT, the faces and the history alone.
LEMMA OtherKeepsIInv ==
  ASSUME IInv, UNCHANGED <<now, up, pit, owed>>, FibInv', (DOMAIN cs \subseteq Data)'
  PROVE  IInv'
<1>1. (\A k \in DOMAIN pit : Good(k, pit[k]))'
  BY ZenonT(30) DEF IInv, Good, Shape, Justified, Covered, HasPendingOutRecords
<1> QED BY <1>1 DEF IInv, InRecordsOwed

\* Time passes: an out-record may cease to be pending, never start to be.
LEMMA TickKeepsIInv ==
  ASSUME IInv, Tick
  PROVE  IInv'
<1>1. UNCHANGED <<up, fib, pit, cs, owed>> /\ now' = now + 1 /\ now \in Nat
  BY DEF Tick, IInv
<1>2. (\A k \in DOMAIN pit : Good(k, pit[k]))'
  <2> SUFFICES ASSUME NEW k \in DOMAIN pit
               PROVE  Good(k, pit[k])'
    BY <1>1
  <2>1. Shape(k, pit[k])'
    <3>1. Shape(k, pit[k])
      BY DEF IInv, Good
    <3>2. \A f \in DOMAIN pit[k].ins : pit[k].ins[f].expiry \in Nat
      BY <3>1 DEF Shape, InRecord
    <3>3. \A f \in DOMAIN pit[k].ins : pit[k].ins[f].expiry <= now + MaxLifetime
      BY <3>1 DEF Shape
    <3>4. \A f \in DOMAIN pit[k].ins : pit[k].ins[f].expiry <= (now + 1) + MaxLifetime
      BY <1>1, <3>2, <3>3, TimeAssumption
    <3> QED BY ZenonT(30), <1>1, <3>1, <3>4 DEF Shape
  <2>2. Justified(pit[k])'
    <3>1. Justified(pit[k]) /\ pit[k].timer \in Nat /\ Shape(k, pit[k])
      <4>1. Good(k, pit[k])
        BY DEF IInv
      <4> QED BY <4>1 DEF Good
    <3>2. HasPendingOutRecords(pit[k], now + 1) => HasPendingOutRecords(pit[k], now)
      BY SMTT(30), <1>1, <3>1 DEF HasPendingOutRecords, Shape, OutRecord
    <3>3. HasPendingOutRecords(pit[k], now)' = HasPendingOutRecords(pit[k], now + 1)
      BY <1>1 DEF HasPendingOutRecords
    <3>4. CASE Covered(pit[k])
      BY <1>1, <3>4 DEF Justified, Covered
    <3>5. CASE ~Covered(pit[k])
      <4>1. pit[k].timer <= now /\ (pit[k].satisfied \/ ~HasPendingOutRecords(pit[k], now))
        BY <3>1, <3>5 DEF Justified
      <4>2. pit[k].timer <= now + 1
        BY <1>1, <3>1, <4>1
      <4> QED BY <1>1, <3>2, <3>3, <4>1, <4>2 DEF Justified
    <3> QED BY <3>4, <3>5
  <2>3. (pit[k].timer \in Nat)'
    BY <1>1 DEF IInv, Good
  <2> QED BY <1>1, <2>1, <2>2, <2>3 DEF Good
<1>3. InRecordsOwed' /\ FibInv'
  BY <1>1 DEF IInv, InRecordsOwed, FibInv
<1>4. now' \in Nat
  BY <1>1
<1> QED BY <1>1, <1>2, <1>3, <1>4 DEF IInv

\* IInv is inductive: one case per action of the daemon.
LEMMA NextKeepsIInv == IInv /\ [Next]_vars => IInv'
<1> SUFFICES ASSUME IInv, [Next]_vars PROVE IInv'
  OBVIOUS
<1> DEFINE QuietCs == UNCHANGED <<now, up, fib, pit, cs, owed>>
<1>1. QuietCs => IInv'
  <2>1. QuietCs => FibInv' /\ (DOMAIN cs \subseteq Data)'
    BY DEF IInv, FibInv
  <2> QED BY <2>1, OtherKeepsIInv
<1>2. ASSUME NEW f \in Downstream, NEW w \in Interest, OnIncomingInterest(f, w) PROVE IInv'
  <2>1. f \in Face
    BY FaceAssumption
  <2>2. CASE DropInterest(f, w) \/ OnInterestLoop(f, w)
    BY <1>1, <2>2 DEF DropInterest, OnInterestLoop
  <2> QED BY <1>2, <2>1, <2>2, HitKeepsIInv, MissKeepsIInv, NoRouteKeepsIInv DEF OnIncomingInterest
<1>3. ASSUME NEW f \in Face, NEW d \in Data,
             DropData(f, d) \/ OnDataUnsolicited(f, d) \/ OnIncomingData(f, d)
      PROVE  IInv'
  <2>1. CASE DropData(f, d)
    BY <1>1, <2>1 DEF DropData
  <2>2. CASE OnDataUnsolicited(f, d)
    <3>1. /\ UNCHANGED <<now, up, fib, pit, owed>>
          /\ (DOMAIN cs \subseteq Data)'
      BY <2>2 DEF OnDataUnsolicited, CsInsert, Put, IInv
    <3>2. FibInv'
      BY <3>1 DEF IInv, FibInv
    <3> QED BY <3>1, <3>2, OtherKeepsIInv
  <2> QED BY <1>3, <2>1, <2>2, DataKeepsIInv
<1>4. ASSUME NEW p \in FibPrefix, NEW g \in RouteFace,
             (\E c \in Cost : AddOrUpdateNextHop(p, g, c)) \/ RemoveNextHop(p, g)
      PROVE  IInv'
  <2>1. UNCHANGED <<now, up, pit, cs, owed>>
    BY ZenonT(30), <1>4 DEF AddOrUpdateNextHop, RemoveNextHop
  <2>2. FibInv'
    BY ZenonT(30), <1>4, FibCommandKeepsFibInv
  <2> QED BY <2>1, <2>2, OtherKeepsIInv DEF IInv
<1>5. ASSUME NEW d \in DOMAIN cs, CsEvict(d) PROVE IInv'
  <2>1. UNCHANGED <<now, up, fib, pit, owed>> /\ (DOMAIN cs \subseteq Data)'
    BY <1>5 DEF CsEvict, Without, IInv
  <2>2. FibInv'
    BY <2>1 DEF IInv, FibInv
  <2> QED BY <2>1, <2>2, OtherKeepsIInv
<1>6. ASSUME NEW x \in dnl, DnlEvict(x) PROVE IInv'
  BY <1>1, <1>6 DEF DnlEvict
<1>7. CASE UNCHANGED vars
  BY <1>1, <1>7 DEF vars
<1> HIDE DEF QuietCs
<1> QED BY <1>2, <1>3, <1>4, <1>5, <1>6, <1>7, NackKeepsIInv, FinalizeKeepsIInv,
           RemoveFaceKeepsIInv, TickKeepsIInv DEF Next

\* The inductive invariant holds in every reachable state of the pipelines.
THEOREM IInvHolds == Spec => []IInv
  BY InitIInv, NextKeepsIInv, PTL DEF Spec

\* The tables of Forwarder stay well formed: every PIT entry is under its own
\* key, has its expiryTimer armed and, like the FIB, names live faces only.
THEOREM TypeCorrect == Spec => []TypeOK
  BY IInvHolds, IInvImplies, PTL

\* Every in-record stands for an Interest that has not been answered.
THEOREM InRecordsAreOwed == Spec => []InRecordsOwed
  BY IInvHolds, IInvImplies, PTL

\* An entry is due before its last in-record expires only if Data satisfied it
\* or no upstream is left that may answer.
THEOREM TimerIsJustified == Spec => []EarlyTimerJustified
  BY IInvHolds, IInvImplies, PTL

\* Only the Data pipeline sends Data that did not come from the Content Store.
LEMMA OnlyDataPipelineSends ==
  ASSUME NEW p \in sent', p.type = "Data", p.from # NoFace, Next
  PROVE  \E f \in Face, d \in Data : OnIncomingData(f, d)
<1>1. ASSUME NEW f \in Downstream, NEW w \in Interest, OnIncomingInterest(f, w) PROVE FALSE
  <2>1. CASE OnContentStoreHit(f, w)
    <3>1. PICK d : sent' = OnOutgoingData(d, {f}, NoFace)
      BY <2>1 DEF OnContentStoreHit
    <3>2. PICK g : p = SentData(g, d, NoFace)
      BY <3>1 DEF OnOutgoingData
    <3> QED BY <3>2 DEF SentData
  <2>2. CASE DropInterest(f, w) \/ OnInterestLoop(f, w) \/ MissNoRoute(f, w) \/ MissSuppressed(f, w)
    BY <2>2 DEF DropInterest, OnInterestLoop, MissNoRoute, MissSuppressed, OnOutgoingNack, SentNack
  <2>3. CASE MissToChosenNextHop(f, w) \/ MissNew(f, w) \/ MissRetransmit(f, w)
    <3>1. sent' = {} \/ \E g, int : sent' = {SentInterest(g, int)}
      BY <2>3 DEF MissToChosenNextHop, MissNew, MissRetransmit, Forward
    <3> QED BY <3>1 DEF SentInterest
  <2> QED BY SMTT(30), <1>1, <2>1, <2>2, <2>3 DEF OnIncomingInterest
<1>2. ASSUME NEW f \in Face, NEW w \in Interest, NEW r \in NackReason \ {None},
             OnIncomingNack(f, w, r)
      PROVE  FALSE
  <2>1. \E e, S, q : sent' = OnOutgoingNack(e, S, q)
    BY ZenonT(30), <1>2 DEF OnIncomingNack
  <2> QED BY <2>1 DEF OnOutgoingNack, SentNack
<1>3. ASSUME NEW f \in Face, NEW d \in Data, DropData(f, d) \/ OnDataUnsolicited(f, d) PROVE FALSE
  BY <1>3 DEF DropData, OnDataUnsolicited
<1>4. ASSUME \/ \E k \in DOMAIN pit : OnInterestFinalize(k)
             \/ \E f \in Face : RemoveFace(f)
             \/ \E q \in FibPrefix, g \in RouteFace, c \in Cost : AddOrUpdateNextHop(q, g, c)
             \/ \E q \in FibPrefix, g \in RouteFace : RemoveNextHop(q, g)
             \/ \E d \in DOMAIN cs : CsEvict(d)
             \/ \E x \in dnl : DnlEvict(x)
             \/ Tick
      PROVE  FALSE
  BY ZenonT(30), <1>4 DEF OnInterestFinalize, RemoveFace, AddOrUpdateNextHop, RemoveNextHop, CsEvict, DnlEvict, Tick
<1> QED BY <1>1, <1>2, <1>3, <1>4 DEF Next

\* Data that arrives is sent to a face only to answer an unanswered Interest of
\* that face, which it uses up.
THEOREM DataIsBalanced == Spec => FlowBalance
<1> DEFINE Step == \A p \in sent' : p.type = "Data" /\ p.from # NoFace
                     => \E k \in owed[p.face] : k \notin owed'[p.face]
<1>1. IInv /\ Next => Step
  <2> SUFFICES ASSUME IInv, Next, NEW p \in sent', p.type = "Data", p.from # NoFace
               PROVE  \E k \in owed[p.face] : k \notin owed'[p.face]
    OBVIOUS
  <2>1. PICK f \in Face, d \in Data : OnIncomingData(f, d)
    BY OnlyDataPipelineSends
  <2> DEFINE K == FindAllDataMatches(d)
             down == DataDownstreams(K, f)
  <2>2. /\ sent' = OnOutgoingData(d, down, f)
        /\ owed' = [g \in Face |-> IF g \in down THEN owed[g] \ K ELSE owed[g]]
    BY ZenonT(30), <2>1 DEF OnIncomingData
  <2>3. p.face \in down
    BY <2>2 DEF OnOutgoingData, SentData
  <2>4. PICK k \in K : p.face \in DOMAIN pit[k].ins
    BY <2>3 DEF DataDownstreams, PendingDownstreams
  <2>5. k \in DOMAIN pit /\ k \in owed[p.face] /\ p.face \in Face
    BY ZenonT(30), <2>4 DEF FindAllDataMatches, IInv, InRecordsOwed, Good, Shape
  <2> HIDE DEF K, down
  <2> QED BY <2>2, <2>3, <2>4, <2>5
<1>2. IInv /\ [Next]_vars => [Step]_vars
  BY <1>1
<1> QED BY <1>2, IInvHolds, PTL DEF Spec, FlowBalance

----------------------------------------------------------------------------
(* Packets under /localhost leave on local faces only.  A Nack carries the *)
(* Interest of an in-record that an earlier packet left behind, so the     *)
(* invariant is about those: no in-record of a non-local face has a name   *)
(* under /localhost.                                                       *)

InScope(ins) == \A f \in DOMAIN ins : ~ViolatesLocalhost(f, ins[f].int.name)

ScopeInv == \A k \in DOMAIN pit : InScope(pit[k].ins)

\* Decrementing the HopLimit and stripping the hint keep the name and the
\* NextHopFaceId tag.
LEMMA AcceptedName ==
  ASSUME NEW w \in Interest
  PROVE  /\ Accepted(w).name = w.name /\ Accepted(w).nextHop = w.nextHop
         /\ Received(w).name = w.name
<1>1. w \in [name : Seq(Nat), func : Seq(Nat), cbp : BOOLEAN, mbf : BOOLEAN, nonce : Nat,
             life : Nat, hop : Nat \cup {NoHopLimit}, hint : Seq(Seq(Nat)),
             nextHop : Face \cup {NoFace}]
  BY PacketAssumption
<1> QED BY <1>1 DEF Accepted, StripHint, Received

\* Replacing one entry, as every pipeline but the Data pipeline does.
LEMMA SetEntryKeepsScope ==
  ASSUME ScopeInv, NEW k, NEW e, SetEntry(k, e), InScope(e.ins)
  PROVE  ScopeInv'
<1>1. /\ DOMAIN pit' = DOMAIN pit \cup {k}
      /\ pit'[k] = e
      /\ \A j \in DOMAIN pit \ {k} : pit'[j] = pit[j]
  BY DEF SetEntry, Put
<1> SUFFICES ASSUME NEW j \in DOMAIN pit' PROVE InScope(pit'[j].ins)
  BY DEF ScopeInv, InScope
<1> QED BY <1>1 DEF ScopeInv

\* The entry that Pit::insert finds or creates.
LEMMA EntryForInScope ==
  ASSUME ScopeInv, NEW int
  PROVE  InScope(EntryFor(int).ins)
<1>1. CASE PitKey(int) \in DOMAIN pit
  BY <1>1 DEF EntryFor, ScopeInv
<1>2. CASE PitKey(int) \notin DOMAIN pit
  <2>1. EntryFor(int).ins = << >>
    BY <1>2 DEF EntryFor, NewEntry
  <2>2. DOMAIN << >> = {}
    OBVIOUS
  <2> QED BY <2>1, <2>2 DEF InScope
<1> QED BY <1>1, <1>2

\* Deleting in-records, as the answers to an Interest do.
LEMMA DeletedInScope ==
  ASSUME NEW k, NEW e, Shape(k, e), InScope(e.ins), NEW S
  PROVE  InScope(DeleteInRecords(e, S).ins)
<1> DEFINE r == DeleteInRecords(e, S)
<1>1. DOMAIN r.ins = DOMAIN e.ins \ S /\ \A f \in DOMAIN e.ins \ S : r.ins[f] = e.ins[f]
  BY DeletedInShape
<1> HIDE DEF r
<1>2. InScope(r.ins)
  BY <1>1 DEF InScope
<1> QED BY <1>2 DEF r

\* onContentStoreMiss records an Interest that passed the check of its scope.
LEMMA RecordedInScope ==
  ASSUME IInv, ScopeInv, NEW f \in Face, NEW w \in Interest, Misses(f, w)
  PROVE  InScope(Recorded(EntryFor(Accepted(w)), f, Accepted(w)).ins)
<1> DEFINE int == Accepted(w)
           e == EntryFor(int)
           r == Recorded(e, f, int)
           rec == [int |-> int, expiry |-> Expiry(int, now)]
<1>1. InScope(e.ins) /\ Shape(PitKey(w), e)
  BY EntryForInScope, EntryForShape
<1>2. r.ins = Put(e.ins, f, rec)
  <2> HIDE DEF e, int
  <2> QED BY <1>1 DEF Recorded, InsertOrUpdateInRecord, SetExpiryTimer, Shape
<1>3. ~ViolatesLocalhost(f, rec.int.name)
  BY AcceptedName DEF Misses, Proceeds, PassesChecks
<1>4. InScope(r.ins)
  <2> HIDE DEF e, r, rec
  <2> QED BY <1>1, <1>2, <1>3 DEF InScope, Put
<1> QED BY <1>4

----------------------------------------------------------------------------
(* What the outgoing pipelines send                                        *)

StaysLocal(p) ==
  p.face \in Local
  \/ /\ p.type = "Data" => ~IsPrefixOf(<<Localhost>>, p.data.name)
     /\ p.type = "Nack" => ~IsPrefixOf(<<Localhost>>, p.int.name)
     /\ p.type = "Interest" /\ p.int.nextHop = NoFace => ~IsPrefixOf(<<Localhost>>, p.int.name)

AllStayLocal(S) == \A p \in S : StaysLocal(p)

\* onOutgoingData checks the scope of the Data itself.
LEMMA DataStaysLocal ==
  ASSUME NEW d, NEW S, NEW from
  PROVE  AllStayLocal(OnOutgoingData(d, S, from))
BY DEF AllStayLocal, StaysLocal, OnOutgoingData, SentData, ViolatesLocalhost

\* onOutgoingNack relies on the in-record whose Interest it returns.
LEMMA NackStaysLocal ==
  ASSUME NEW e, InScope(e.ins), NEW S, NEW reason
  PROVE  AllStayLocal(OnOutgoingNack(e, S, reason))
<1> SUFFICES ASSUME NEW g \in Nackable(e, S) PROVE StaysLocal(SentNack(g, e.ins[g].int, reason))
  BY DEF AllStayLocal, OnOutgoingNack
<1>1. ~ViolatesLocalhost(g, e.ins[g].int.name)
  BY DEF InScope, Nackable
<1> QED BY ZenonT(30), <1>1 DEF StaysLocal, SentNack, ViolatesLocalhost

\* onOutgoingInterest checks nothing: the nexthop is eligible, or was chosen by
\* the application.
LEMMA InterestStaysLocal ==
  ASSUME NEW f, NEW int, NEW g, IsNextHopEligible(f, int, g) \/ int.nextHop # NoFace
  PROVE  AllStayLocal({SentInterest(g, int)})
BY DEF AllStayLocal, StaysLocal, SentInterest, IsNextHopEligible, WouldViolateScope

\* Forward changes the out-records of an entry only.
LEMMA ForwardKeepsScope ==
  ASSUME ScopeInv, NEW k, NEW e, Shape(k, e), InScope(e.ins), NEW f, NEW g, NEW int,
         IsNextHopEligible(f, int, g) \/ int.nextHop # NoFace, Forward(k, e, g, int)
  PROVE  ScopeInv' /\ AllStayLocal(sent')
<1> DEFINE r == InsertOrUpdateOutRecord(e, g, int, now)
<1>1. r.ins = e.ins
  BY DEF InsertOrUpdateOutRecord, Shape
<1>2. \/ SetEntry(k, r) /\ sent' = {SentInterest(g, int)}
      \/ SetEntry(k, e) /\ sent' = {}
  BY DEF Forward
<1>3. AllStayLocal({})
  BY DEF AllStayLocal
<1> HIDE DEF r
<1> QED BY <1>1, <1>2, <1>3, InterestStaysLocal, SetEntryKeepsScope

----------------------------------------------------------------------------
(* The actions                                                             *)

\* The outcomes of onContentStoreMiss that keep the Interest.
LEMMA MissKeepsScope ==
  ASSUME IInv, ScopeInv, NEW f \in Face, NEW w \in Interest,
         \/ MissToChosenNextHop(f, w) \/ MissSuppressed(f, w)
         \/ MissNew(f, w) \/ MissRetransmit(f, w)
  PROVE  ScopeInv' /\ AllStayLocal(sent')
<1> DEFINE int == Accepted(w)
           k == PitKey(w)
           e == Recorded(EntryFor(int), f, int)
           Supp(s) == [e EXCEPT !.supp = s]
<1>1. Misses(f, w) /\ PitKey(int) = k /\ int.nextHop = w.nextHop
  BY AcceptedKey, AcceptedName
  DEF MissToChosenNextHop, MissSuppressed, MissNew, MissRetransmit
<1>2. Shape(k, e) /\ InScope(e.ins)
  BY ZenonT(30), <1>1, MissRecords, RecordedInScope
<1>3. e.timer \in Nat /\ Covered(e) /\ SuppressionInterval(e) \in Nat /\ Backoff(e) \in Nat
  <2>1. e.timer \in Nat /\ Covered(e)
    BY ZenonT(30), <1>1, MissRecords
  <2>2. SuppressionInterval(e) \in Nat /\ Backoff(e) \in Nat
    BY <1>2, IntervalIsTime
  <2> QED BY <2>1, <2>2
<1>4. \A s \in Nat : Shape(k, Supp(s)) /\ Supp(s).ins = e.ins
  <2> HIDE DEF e
  <2> QED BY <1>2, <1>3, IntervalShape
<1>5. AllStayLocal({})
  BY DEF AllStayLocal
<1>6. CASE MissToChosenNextHop(f, w)
  <2>1. /\ w.nextHop # NoFace
        /\ Forward(k, e, w.nextHop, int) \/ (SetEntry(k, e) /\ sent' = {})
    BY <1>1, <1>6 DEF MissToChosenNextHop
  <2> HIDE DEF e, k, int
  <2> QED BY ZenonT(30), <1>1, <1>2, <1>5, <2>1, ForwardKeepsScope, SetEntryKeepsScope
<1>7. CASE MissSuppressed(f, w)
  <2>1. SetEntry(k, Supp(SuppressionInterval(e))) /\ sent' = {}
    BY <1>1, <1>7 DEF MissSuppressed
  <2>2. InScope(Supp(SuppressionInterval(e)).ins)
    BY <1>2, <1>3, <1>4
  <2> HIDE DEF e, k, Supp
  <2> QED BY <1>5, <2>1, <2>2, SetEntryKeepsScope
<1>8. CASE MissNew(f, w)
  <2>1. \E g \in EligibleNextHops(e, f, int) : Forward(k, e, g, int)
    BY ZenonT(30), <1>1, <1>8 DEF MissNew, Cheapest
  <2>2. \E g : IsNextHopEligible(f, int, g) /\ Forward(k, e, g, int)
    BY <2>1 DEF EligibleNextHops
  <2> HIDE DEF e, k, int
  <2> QED BY <1>2, <2>2, ForwardKeepsScope
<1>9. CASE MissRetransmit(f, w)
  <2> DEFINE r == Supp(Backoff(e))
  <2>1. \/ SetEntry(k, r) /\ sent' = {}
        \/ \E g \in EligibleNextHops(r, f, int) : Forward(k, r, g, int)
    BY ZenonT(30), <1>1, <1>9 DEF MissRetransmit, Cheapest, UnusedNextHops, EarliestNextHops
  <2>2. Shape(k, r) /\ InScope(r.ins)
    BY <1>2, <1>3, <1>4
  <2>3. \/ SetEntry(k, r) /\ sent' = {}
        \/ \E g : IsNextHopEligible(f, int, g) /\ Forward(k, r, g, int)
    <3> HIDE DEF r
    <3> QED BY <2>1 DEF EligibleNextHops
  <2> HIDE DEF r, e, k, int
  <2> QED BY <1>5, <2>2, <2>3, ForwardKeepsScope, SetEntryKeepsScope
<1> QED BY <1>6, <1>7, <1>8, <1>9

\* A hit in the Content Store, and an Interest without a route.
LEMMA AnsweredKeepsScope ==
  ASSUME IInv, ScopeInv, NEW f \in Face, NEW w \in Interest,
         OnContentStoreHit(f, w) \/ MissNoRoute(f, w)
  PROVE  ScopeInv' /\ AllStayLocal(sent')
<1> DEFINE int == Accepted(w)
           k == PitKey(w)
           found == EntryFor(int)
<1>1. PitKey(int) = k
  BY AcceptedKey
<1>2. CASE OnContentStoreHit(f, w)
  <2>1. PICK d : SetEntry(k, Hit(found, f, d)) /\ sent' = OnOutgoingData(d, {f}, NoFace)
    BY <1>1, <1>2 DEF OnContentStoreHit
  <2>2. Shape(k, found) /\ InScope(found.ins)
    BY ZenonT(30), EntryForShape, EntryForInScope
  <2>3. InScope(Hit(found, f, d).ins)
    <3> DEFINE e1 == DeleteInRecords(found, {f})
    <3> HIDE DEF found
    <3>1. Shape(k, e1) /\ InScope(e1.ins)
      BY <2>2, DeletedInShape, DeletedInScope
    <3>2. Hit(found, f, d).ins = e1.ins
      <4>1. Hit(found, f, d) = [e1 EXCEPT !.satisfied = TRUE, !.dataFresh = d.fresh, !.timer = now]
        BY DEF Hit
      <4> HIDE DEF e1
      <4> QED BY <3>1, <4>1 DEF Shape
    <3> QED BY <3>1, <3>2
  <2> HIDE DEF found, k
  <2> QED BY <2>1, <2>3, SetEntryKeepsScope, DataStaysLocal
<1>3. CASE MissNoRoute(f, w)
  <2> DEFINE e == Recorded(found, f, int)
             e1 == DeleteInRecords(e, Nackable(e, {f}))
  <2>1. /\ Misses(f, w) /\ SetEntry(k, SetExpiryTimer(e1, now))
        /\ sent' = OnOutgoingNack(e, {f}, NoRoute)
    BY ZenonT(30), <1>1, <1>3 DEF MissNoRoute
  <2>2. Shape(k, e) /\ InScope(e.ins)
    BY ZenonT(30), <2>1, MissRecords, RecordedInScope
  <2>3. InScope(SetExpiryTimer(e1, now).ins)
    <3> HIDE DEF e
    <3>1. Shape(k, e1) /\ InScope(e1.ins)
      BY <2>2, DeletedInShape, DeletedInScope
    <3> HIDE DEF e1
    <3>2. SetExpiryTimer(e1, now).ins = e1.ins
      BY <3>1 DEF SetExpiryTimer, Shape
    <3> QED BY ZenonT(30), <3>1, <3>2
  <2> HIDE DEF e, e1, k
  <2> QED BY ZenonT(30), <2>1, <2>2, <2>3, SetEntryKeepsScope, NackStaysLocal
<1> QED BY <1>2, <1>3

\* onIncomingNack returns the Interests of in-records to their faces.
LEMMA NackKeepsScope ==
  ASSUME IInv, ScopeInv, NEW f \in Face, NEW w \in Interest, NEW q, OnIncomingNack(f, w, q)
  PROVE  ScopeInv' /\ AllStayLocal(sent')
<1> DEFINE k == PitKey(Accepted(w))
           e1 == SetIncomingNack(pit[k], f, q)
           e2 == IF HasPendingOutRecords(e1, now) THEN e1 ELSE SetExpiryTimer(e1, now)
           down == Nackable(e2, NackDownstreams(e2))
<1>1. /\ k \in DOMAIN pit /\ SetEntry(k, DeleteInRecords(e2, down))
      /\ sent' = OnOutgoingNack(e2, down, LeastSevereReason(e2))
  BY ZenonT(30) DEF OnIncomingNack
<1>2. Shape(k, pit[k]) /\ InScope(pit[k].ins)
  BY ZenonT(30), <1>1 DEF IInv, Good, ScopeInv
<1>3. \E outs, t : e2 = [pit[k] EXCEPT !.outs = outs, !.timer = t]
  <2>1. \E outs : e1 = [pit[k] EXCEPT !.outs = outs]
    BY ZenonT(30) DEF SetIncomingNack
  <2>2. PICK outs : e1 = [pit[k] EXCEPT !.outs = outs]
    BY <2>1
  <2>3. e1 = [pit[k] EXCEPT !.outs = outs, !.timer = e1.timer]
    <3> HIDE DEF e1, k
    <3> QED BY ZenonT(30), <1>2, <2>2 DEF Shape
  <2>4. SetExpiryTimer(e1, now) = [pit[k] EXCEPT !.outs = outs, !.timer = now]
    <3> HIDE DEF e1, k
    <3> QED BY <1>2, <2>2 DEF Shape, SetExpiryTimer
  <2> HIDE DEF e1, k
  <2> QED BY ZenonT(30), <2>3, <2>4
<1>4. PICK outs, t : e2 = [pit[k] EXCEPT !.outs = outs, !.timer = t]
  BY ZenonT(30), <1>3
<1> HIDE DEF e2, k
<1>5. /\ e2.ins = pit[k].ins
      /\ DeleteInRecords(e2, down).ins = Without(pit[k].ins, down)
  BY <1>2, <1>4 DEF Shape, DeleteInRecords
<1>6. InScope(Without(pit[k].ins, down))
  <2> HIDE DEF down
  <2> QED BY <1>2 DEF InScope, Without
<1> HIDE DEF down
<1> QED BY ZenonT(30), <1>1, <1>2, <1>5, <1>6, SetEntryKeepsScope, NackStaysLocal

\* The Data pipeline, finalization and the removal of a face only take
\* in-records away.
LEMMA RemovalKeepsScope ==
  ASSUME ScopeInv, DOMAIN pit' \subseteq DOMAIN pit,
         \A k \in DOMAIN pit' : /\ DOMAIN pit'[k].ins \subseteq DOMAIN pit[k].ins
                                /\ \A f \in DOMAIN pit'[k].ins : pit'[k].ins[f] = pit[k].ins[f]
  PROVE  ScopeInv'
<1> SUFFICES ASSUME NEW k \in DOMAIN pit', NEW f \in DOMAIN pit'[k].ins
             PROVE  ~ViolatesLocalhost(f, pit'[k].ins[f].int.name)
  BY DEF ScopeInv, InScope, ViolatesLocalhost
<1> QED BY DEF ScopeInv, InScope

\* onIncomingData.
LEMMA DataKeepsScope ==
  ASSUME IInv, ScopeInv, NEW f \in Face, NEW d \in Data, OnIncomingData(f, d)
  PROVE  ScopeInv' /\ AllStayLocal(sent')
<1> DEFINE K == FindAllDataMatches(d)
           down == DataDownstreams(K, f)
           gone == ConsumedInRecords(K, down)
           sat(k) == Satisfied(pit[k], d)
           new(k) == DeleteOutRecords(DeleteInRecords(sat(k), gone), {f})
<1>1. /\ pit' = [k \in DOMAIN pit |-> IF k \in K THEN new(k) ELSE pit[k]]
      /\ sent' = OnOutgoingData(d, down, f)
  BY ZenonT(30) DEF OnIncomingData
<1>2. \A k \in DOMAIN pit : new(k).ins = Without(pit[k].ins, gone)
  <2> SUFFICES ASSUME NEW k \in DOMAIN pit PROVE new(k).ins = Without(pit[k].ins, gone)
    OBVIOUS
  <2>1. Shape(k, pit[k])
    BY DEF IInv, Good
  <2> HIDE DEF gone
  <2> QED BY <2>1 DEF Shape, Satisfied, DeleteInRecords, DeleteOutRecords
<1>3. \A k \in DOMAIN pit : /\ DOMAIN new(k).ins \subseteq DOMAIN pit[k].ins
                            /\ \A g \in DOMAIN new(k).ins : new(k).ins[g] = pit[k].ins[g]
  <2> HIDE DEF new, gone
  <2> QED BY ZenonT(30), <1>2 DEF Without
<1> HIDE DEF new, K, down
<1> QED BY <1>1, <1>3, RemovalKeepsScope, DataStaysLocal

\* cleanupOnFaceRemoval.
LEMMA RemoveFaceKeepsScope ==
  ASSUME IInv, ScopeInv, NEW f \in Face, RemoveFace(f)
  PROVE  ScopeInv'
<1> DEFINE new(k) == DeleteInOutRecords(pit[k], f)
<1>1. pit' = [k \in DOMAIN pit |-> new(k)]
  BY ZenonT(30) DEF RemoveFace
<1>2. \A k \in DOMAIN pit : new(k).ins = Without(pit[k].ins, {f})
  <2> SUFFICES ASSUME NEW k \in DOMAIN pit PROVE new(k).ins = Without(pit[k].ins, {f})
    OBVIOUS
  <2>1. Shape(k, pit[k])
    BY DEF IInv, Good
  <2> QED BY <2>1 DEF Shape, DeleteInOutRecords, DeleteInRecords, DeleteOutRecords
<1>3. \A k \in DOMAIN pit : /\ DOMAIN new(k).ins \subseteq DOMAIN pit[k].ins
                            /\ \A g \in DOMAIN new(k).ins : new(k).ins[g] = pit[k].ins[g]
  <2> HIDE DEF new
  <2> QED BY ZenonT(30), <1>2 DEF Without
<1> HIDE DEF new
<1> QED BY <1>1, <1>3, RemovalKeepsScope

\* Every step keeps the in-records in scope and sends packets that stay local.
LEMMA NextKeepsScope ==
  ASSUME IInv, ScopeInv, Next
  PROVE  ScopeInv' /\ AllStayLocal(sent')
<1>1. ASSUME pit' = pit, sent' = {} PROVE ScopeInv' /\ AllStayLocal(sent')
  BY <1>1 DEF ScopeInv, InScope, ViolatesLocalhost, AllStayLocal
<1>2. ASSUME NEW f \in Downstream, NEW w \in Interest, OnIncomingInterest(f, w)
      PROVE  ScopeInv' /\ AllStayLocal(sent')
  <2>1. f \in Face
    BY FaceAssumption
  <2>2. CASE DropInterest(f, w)
    BY <1>1, <2>2 DEF DropInterest
  <2>3. CASE OnInterestLoop(f, w)
    <3>1. /\ pit' = pit /\ ~ViolatesLocalhost(f, w.name)
          /\ sent' = {} \/ \E int \in {Received(w), Accepted(w)} : sent' = {SentNack(f, int, Duplicate)}
      BY <2>3 DEF OnInterestLoop, PassesChecks
    <3>2. ScopeInv'
      BY ZenonT(30), <3>1 DEF ScopeInv, InScope, ViolatesLocalhost
    <3> QED BY <3>1, <3>2, AcceptedName DEF AllStayLocal, StaysLocal, SentNack, ViolatesLocalhost
  <2> QED BY <1>2, <2>1, <2>2, <2>3, AnsweredKeepsScope, MissKeepsScope DEF OnIncomingInterest
<1>3. ASSUME NEW f \in Face, NEW d \in Data, DropData(f, d) \/ OnDataUnsolicited(f, d)
      PROVE  ScopeInv' /\ AllStayLocal(sent')
  BY <1>1, <1>3 DEF DropData, OnDataUnsolicited
<1>4. ASSUME NEW k \in DOMAIN pit, OnInterestFinalize(k)
      PROVE  ScopeInv' /\ AllStayLocal(sent')
  <2>1. pit' = Without(pit, {k}) /\ sent' = {}
    BY ZenonT(30), <1>4 DEF OnInterestFinalize
  <2> QED BY <2>1, RemovalKeepsScope DEF Without, AllStayLocal
<1>5. ASSUME NEW f \in Face, RemoveFace(f)
      PROVE  ScopeInv' /\ AllStayLocal(sent')
  <2>1. sent' = {}
    BY ZenonT(30), <1>5 DEF RemoveFace
  <2> QED BY <1>5, <2>1, RemoveFaceKeepsScope DEF AllStayLocal
<1>6. ASSUME \/ \E p \in FibPrefix, g \in RouteFace, c \in Cost : AddOrUpdateNextHop(p, g, c)
             \/ \E p \in FibPrefix, g \in RouteFace : RemoveNextHop(p, g)
             \/ \E d \in DOMAIN cs : CsEvict(d)
             \/ \E x \in dnl : DnlEvict(x)
             \/ Tick
      PROVE  ScopeInv' /\ AllStayLocal(sent')
  <2>1. pit' = pit /\ sent' = {}
    BY ZenonT(30), <1>6 DEF AddOrUpdateNextHop, RemoveNextHop, CsEvict, DnlEvict, Tick
  <2> QED BY <1>1, <2>1
<1> QED BY <1>2, <1>3, <1>4, <1>5, <1>6, NackKeepsScope, DataKeepsScope DEF Next

\* Packets under /localhost leave on local faces only, whichever Interests the
\* PIT entry aggregates, unless an application chose the nexthop itself.
THEOREM LocalhostIsKept == Spec => []LocalhostStaysLocal
<1> DEFINE Inv == ScopeInv /\ AllStayLocal(sent)
<1>1. Init => Inv
  <2>1. DOMAIN << >> = {}
    OBVIOUS
  <2> QED BY <2>1 DEF Init, ScopeInv, AllStayLocal
<1>2. IInv /\ Inv /\ [Next]_vars => Inv'
  <2>1. IInv /\ Inv /\ Next => Inv'
    BY NextKeepsScope
  <2>2. Inv /\ UNCHANGED vars => Inv'
    BY ZenonT(30) DEF vars, ScopeInv, InScope, ViolatesLocalhost, AllStayLocal, StaysLocal
  <2> QED BY <2>1, <2>2
<1>3. Inv => LocalhostStaysLocal
  BY DEF AllStayLocal, StaysLocal, LocalhostStaysLocal
<1> HIDE DEF Inv
<1> QED BY <1>1, <1>2, <1>3, IInvHolds, PTL DEF Spec

=============================================================================
