----------------------------- MODULE Forwarder -----------------------------
(***************************************************************************)
(* The forwarding pipelines of one NFD-FC node (daemon/fw/forwarder.cpp)   *)
(* with the PIT, the FIB, the Content Store, the Dead Nonce List and the   *)
(* function-chain strategy (daemon/fw/functionchain-strategy.cpp).         *)
(*                                                                         *)
(* The daemon is one event loop: a packet handler, a timer callback or a   *)
(* management command runs to its end, with every pipeline it enters, so   *)
(* each is one action.  The capacity of the Content Store and of the Dead  *)
(* Nonce List is left open: either may lose any entry at any time (their   *)
(* capacities are modelled in ContentStore and DeadNonceList).             *)
(***************************************************************************)
EXTENDS PitEntry

CONSTANTS
  Interest,          \* Interests that may arrive: name, func, cbp, mbf, nonce,
                     \* life, hop, hint (delegations) and nextHop (NextHopFaceId)
  Data,              \* Data packets that may arrive
  Local,             \* the faces whose scope is local
  LinkType,          \* face -> "p2p", "multi-access" or "ad-hoc"
  NoFace,            \* no NextHopFaceId tag; IncomingFaceId of the Content Store
  Downstream,        \* the faces on which Interests arrive
  RouteFace,         \* the faces that FIB entries may point to
  FibPrefix, Cost,   \* names and costs that FIB entries may have
  Region,            \* the network region table
  Strategy,          \* "function-chain" or "best-route"
  AdmitUnsolicited,  \* faces whose unsolicited Data the policy caches
  InitialInterval, MaxInterval,  \* of RetxSuppressionExponential
  DnlLifetime,       \* DeadNonceList::getLifetime
  InitialFib,        \* FIBs configured before traffic starts
  MaxInputs,         \* bound on packets and commands
  MaxTime            \* bound on the clock while no timer is pending

NoHopLimit == -1
Localhost == 99      \* the components /localhost and /localhop
Localhop == 98

ASSUME FaceAssumption ==
  /\ Local \subseteq Face /\ AdmitUnsolicited \subseteq Face
  /\ Downstream \subseteq Face /\ RouteFace \subseteq Face
  /\ NoFace \notin Face /\ IsFiniteSet(Face)
  /\ LinkType \in [Face -> {"p2p", "multi-access", "ad-hoc"}]
ASSUME TimeAssumption ==
  /\ MaxLifetime \in Nat \ {0} /\ MaxTime \in Nat /\ MaxInputs \in Nat
  /\ InitialInterval \in Nat \ {0} /\ MaxInterval \in Nat
  /\ InitialInterval <= MaxInterval /\ DnlLifetime \in Nat
ASSUME PacketAssumption ==
  /\ Interest \subseteq
       [name : Seq(Nat), func : Seq(Nat), cbp : BOOLEAN, mbf : BOOLEAN, nonce : Nat,
        life : Nat, hop : Nat \cup {NoHopLimit}, hint : Seq(Seq(Nat)),
        nextHop : Face \cup {NoFace}]
  /\ \A w \in Interest : w.name # << >>
  /\ Data \subseteq [name : Seq(Nat), func : Seq(Nat), digest : Nat, fresh : Nat]
ASSUME FibAssumption ==
  /\ Cost \subseteq Nat /\ FibPrefix \subseteq Seq(Nat)
  /\ \A b \in InitialFib : \A p \in DOMAIN b : DOMAIN b[p] \subseteq Face

VARIABLES
  now,
  inputs,  \* number of packets and commands so far
  up,      \* faces in the FaceTable
  fib,     \* prefix -> (nexthop face -> cost); no entry without a nexthop
  pit,     \* PitKey -> entry
  cs,      \* stored Data -> the time until which it is fresh
  dnl,     \* names and Nonces of the Dead Nonce List
  sent,    \* packets that the last step sent
  owed     \* history: face -> keys of its Interests not yet answered

vars == <<now, inputs, up, fib, pit, cs, dnl, sent, owed>>

\* A packet from f, or a command about f; f is in the FaceTable.
Input(f) == f \in up /\ inputs < MaxInputs /\ inputs' = inputs + 1

IsP2p(f) == LinkType[f] = "p2p"
ViolatesLocalhost(f, n) == f \notin Local /\ IsPrefixOf(<<Localhost>>, n)
CanReturn(f, g) == g # f \/ LinkType[g] = "ad-hoc"

SentInterest(f, int) == [type |-> "Interest", face |-> f, int |-> int]
SentData(f, d, from) == [type |-> "Data", face |-> f, data |-> d, from |-> from]
SentNack(f, int, reason) == [type |-> "Nack", face |-> f, int |-> int, reason |-> reason]

----------------------------------------------------------------------------
(* Outgoing pipelines                                                      *)

\* onOutgoingData to the faces in S.
OnOutgoingData(d, S, from) ==
  {SentData(g, d, from) : g \in {h \in S \cap up : ~ViolatesLocalhost(h, d.name)}}

\* The faces in S for which onOutgoingNack erases the in-record and sends.
Nackable(e, S) == {g \in S \cap DOMAIN e.ins \cap up : IsP2p(g)}

OnOutgoingNack(e, S, reason) == {SentNack(g, e.ins[g].int, reason) : g \in Nackable(e, S)}

\* onOutgoingInterest drops an exhausted Interest bound for a non-local face.
HopsLeft(int, g) == int.hop # 0 \/ g \in Local

----------------------------------------------------------------------------
(* Strategy: FIB lookup, eligibility and retransmission suppression        *)

\* Fib::findLongestPrefixMatch: the nexthops of the longest matching entry
\* (there is at most one), with their costs.
FindLongestPrefixMatch(n) ==
  LET matching == {p \in DOMAIN fib : IsPrefixOf(p, n)}
      longest == {p \in matching : \A q \in matching : Len(q) <= Len(p)}
  IN  [g \in UNION {DOMAIN fib[p] : p \in longest} |-> fib[CHOOSE p \in longest : TRUE][g]]

\* NameTree::findLongestPrefixMatch of a PIT entry starts at the node of the
\* entry, or deeper if the name ends with an implicit digest that the node lacks.
LookupName(rep) == IF HasFunction(rep) THEN GetNameFunction(rep) ELSE rep.name

\* Strategy::lookupFib: by the forwarding hint of the representative Interest,
\* if it has one, else by its name.
LookupFib(rep) ==
  LET found == {i \in DOMAIN rep.hint : FindLongestPrefixMatch(rep.hint[i]) # << >>}
  IN  IF rep.hint = << >> THEN FindLongestPrefixMatch(LookupName(rep))
      ELSE IF found = {} THEN << >>
      ELSE FindLongestPrefixMatch(rep.hint[Min(found)])

LookupFibwithFunction(rep, int) ==
  IF Strategy = "function-chain" /\ HasFunction(int)
    THEN FindLongestPrefixMatch(int.func)
    ELSE LookupFib(rep)

WouldViolateLocalhop(f, int, g) ==
  g \notin Local /\ IsPrefixOf(<<Localhop>>, int.name) /\ f \notin Local

WouldViolateScope(f, int, g) ==
  /\ g \notin Local
  /\ \/ IsPrefixOf(<<Localhost>>, int.name)
     \/ IsPrefixOf(<<Localhop>>, int.name) /\ f \notin Local

IsNextHopEligible(f, int, g) == CanReturn(f, g) /\ ~WouldViolateScope(f, int, g)

EligibleNextHops(e, f, int) ==
  {g \in DOMAIN LookupFibwithFunction(e.rep, int) : IsNextHopEligible(f, int, g)}

UnusedNextHops(e, f, int) ==
  {g \in EligibleNextHops(e, f, int) : g \in DOMAIN e.outs => e.outs[g].expiry <= now}

EarliestNextHops(e, f, int) ==
  LET hops == EligibleNextHops(e, f, int)
  IN  {g \in hops : \A h \in hops : e.outs[g].renewed <= e.outs[h].renewed}

\* The nexthops of S that a scan in order of cost may meet first: the sort is
\* not stable, so nexthops of equal cost are in either order.
Cheapest(S, costs) == {g \in S : \A h \in S : costs[g] <= costs[h]}

SuppressionInterval(e) == IF e.supp = 0 THEN InitialInterval ELSE e.supp

\* RetxSuppressionExponential::decidePerPitEntry: result and new interval.
IsNewPitEntry(e) == ~HasPendingOutRecords(e, now)
ShouldSuppress(e) == now - GetLastOutgoing(e) < SuppressionInterval(e)
Backoff(e) == LET double == 2 * SuppressionInterval(e)
              IN  IF double < MaxInterval THEN double ELSE MaxInterval

----------------------------------------------------------------------------
(* Interest pipelines                                                      *)

\* onIncomingInterest decrements the HopLimit, if there is one ...
Received(w) == [w EXCEPT !.hop = IF @ = NoHopLimit THEN @ ELSE @ - 1]

IsInProducerRegion(hint) == \E r \in Region, i \in DOMAIN hint : IsPrefixOf(hint[i], r)

\* ... and strips the forwarding hint once the producer region is reached.
StripHint(int) == IF IsInProducerRegion(int.hint) THEN [int EXCEPT !.hint = << >>] ELSE int

Accepted(w) == StripHint(Received(w))

EntryFor(int) == IF PitKey(int) \in DOMAIN pit THEN pit[PitKey(int)] ELSE NewEntry(int)

PassesChecks(f, w) == w.hop # 0 /\ ~ViolatesLocalhost(f, w.name)

IsInDnl(w) == <<w.name, w.nonce>> \in dnl

IsLoop(f, w) ==
  \/ IsInDnl(w)
  \/ HasDuplicateNonce(EntryFor(Accepted(w)), f, w.nonce, IsP2p(f))

CsMatch(int) ==
  IF EntryFor(int).ins # << >> THEN {}
  ELSE FindImpl(DOMAIN cs, int, {d \in DOMAIN cs : cs[d] >= now})

RecordedOwnExpiry(e, f, int) ==
  SetExpiryTimer(InsertOrUpdateInRecord(e, f, int, now), Expiry(int, now))

\* The entry after onContentStoreMiss recorded the Interest and set the timer.
Recorded(e, f, int) ==
  LET e1 == InsertOrUpdateInRecord(e, f, int, now)
  IN  SetExpiryTimer(e1, LastExpiry(e1))

SetEntry(k, e) == pit' = Put(pit, k, e)
Owe(f, k) == owed' = [owed EXCEPT ![f] = @ \cup {k}]

\* HopLimit zero or /localhost from a non-local face: drop.
DropInterest(f, w) ==
  /\ Input(f) /\ ~PassesChecks(f, w)
  /\ sent' = {}
  /\ UNCHANGED <<now, up, fib, pit, cs, dnl, owed>>

OnInterestLoop(f, w) ==
  /\ Input(f) /\ PassesChecks(f, w) /\ IsLoop(f, w)
  /\ LET int == IF IsInDnl(w) THEN Received(w) ELSE Accepted(w)
     IN  sent' = IF IsP2p(f) THEN {SentNack(f, int, Duplicate)} ELSE {}
  /\ UNCHANGED <<now, up, fib, pit, cs, dnl, owed>>

Proceeds(f, w) == Input(f) /\ PassesChecks(f, w) /\ ~IsLoop(f, w)

HitUntimed(e, f, d) ==
  [DeleteInRecords(e, {f}) EXCEPT !.satisfied = TRUE, !.dataFresh = d.fresh]

\* The entry after onContentStoreHit and afterContentStoreHit.
Hit(e, f, d) ==
  [DeleteInRecords(e, {f}) EXCEPT !.satisfied = TRUE, !.dataFresh = d.fresh, !.timer = now]

OnContentStoreHit(f, w) ==
  LET int == Accepted(w)
  IN  /\ Proceeds(f, w)
      /\ \E d \in CsMatch(int) :
           /\ SetEntry(PitKey(int), Hit(EntryFor(int), f, d))
           /\ sent' = OnOutgoingData(d, {f}, NoFace)
      /\ UNCHANGED <<now, up, fib, cs, dnl, owed>>

\* onContentStoreMiss up to the choice of what to do with the Interest.
Misses(f, w) == Proceeds(f, w) /\ CsMatch(Accepted(w)) = {}

\* onOutgoingInterest of int to g, from the entry e of key k.
Forward(k, e, g, int) ==
  IF HopsLeft(int, g)
    THEN /\ SetEntry(k, InsertOrUpdateOutRecord(e, g, int, now))
         /\ sent' = {SentInterest(g, int)}
    ELSE SetEntry(k, e) /\ sent' = {}

\* A NextHopFaceId tag bypasses the strategy, even if its face is gone.
MissToChosenNextHop(f, w) ==
  LET int == Accepted(w)
      e == Recorded(EntryFor(int), f, int)
  IN  /\ Misses(f, w) /\ w.nextHop # NoFace
      /\ IF w.nextHop \in up
           THEN Forward(PitKey(int), e, w.nextHop, int)
           ELSE SetEntry(PitKey(int), e) /\ sent' = {}
      /\ Owe(f, PitKey(int))
      /\ UNCHANGED <<now, up, fib, cs, dnl>>

MissSuppressed(f, w) ==
  LET int == Accepted(w)
      e == Recorded(EntryFor(int), f, int)
  IN  /\ Misses(f, w) /\ w.nextHop = NoFace
      /\ ~IsNewPitEntry(e) /\ ShouldSuppress(e)
      /\ SetEntry(PitKey(int), [e EXCEPT !.supp = SuppressionInterval(e)])
      /\ sent' = {}
      /\ Owe(f, PitKey(int))
      /\ UNCHANGED <<now, up, fib, cs, dnl>>

MissNew(f, w) ==
  LET int == Accepted(w)
      e == Recorded(EntryFor(int), f, int)
  IN  /\ Misses(f, w) /\ w.nextHop = NoFace /\ IsNewPitEntry(e)
      /\ \E g \in Cheapest(EligibleNextHops(e, f, int), LookupFibwithFunction(e.rep, int)) :
           Forward(PitKey(int), e, g, int)
      /\ Owe(f, PitKey(int))
      /\ UNCHANGED <<now, up, fib, cs, dnl>>

\* No nexthop: a Nack to the ingress face and rejectPendingInterest.
MissNoRoute(f, w) ==
  LET int == Accepted(w)
      e == Recorded(EntryFor(int), f, int)
  IN  /\ Misses(f, w) /\ w.nextHop = NoFace /\ IsNewPitEntry(e)
      /\ EligibleNextHops(e, f, int) = {}
      /\ SetEntry(PitKey(int), SetExpiryTimer(DeleteInRecords(e, Nackable(e, {f})), now))
      /\ sent' = OnOutgoingNack(e, {f}, NoRoute)
      /\ owed' = IF IsP2p(f) THEN [owed EXCEPT ![f] = @ \ {PitKey(int)}]
                 ELSE [owed EXCEPT ![f] = @ \cup {PitKey(int)}]
      /\ UNCHANGED <<now, up, fib, cs, dnl>>

\* A retransmission that is not suppressed: an unused upstream, else the one
\* used earliest, else none.
MissRetransmit(f, w) ==
  LET int == Accepted(w)
      e0 == Recorded(EntryFor(int), f, int)
      e == [e0 EXCEPT !.supp = Backoff(e0)]
      unused == UnusedNextHops(e, f, int)
      hops == IF unused # {} THEN unused ELSE EarliestNextHops(e, f, int)
  IN  /\ Misses(f, w) /\ w.nextHop = NoFace
      /\ ~IsNewPitEntry(e0) /\ ~ShouldSuppress(e0)
      /\ IF hops = {} THEN SetEntry(PitKey(int), e) /\ sent' = {}
         ELSE \E g \in Cheapest(hops, LookupFibwithFunction(e.rep, int)) :
                Forward(PitKey(int), e, g, int)
      /\ Owe(f, PitKey(int))
      /\ UNCHANGED <<now, up, fib, cs, dnl>>

----------------------------------------------------------------------------
(* Data pipelines                                                          *)

\* Pit::findAllDataMatches: entries on prefixes of the name and function of
\* the Data whose representative Interest matches its name.
FindAllDataMatches(d) ==
  {k \in DOMAIN pit : IsPrefixOf(k.nf, GetNameFunction(d)) /\ MatchesData(pit[k].rep, d)}

\* insertDeadNonceList: which Nonces of the faces S are recorded.
DeadNonces(e, S) ==
  IF e.satisfied /\ ~(e.rep.mbf /\ e.dataFresh < DnlLifetime) THEN {}
  ELSE {<<e.rep.name, e.outs[g].nonce>> : g \in S \cap DOMAIN e.outs}

Satisfied(e, d) == [e EXCEPT !.timer = now, !.satisfied = TRUE, !.dataFresh = d.fresh]

CsInsert(d) == cs' = Put(cs, d, now + d.fresh)

\* /localhost from a non-local face: drop.
DropData(f, d) ==
  /\ Input(f) /\ ViolatesLocalhost(f, d.name)
  /\ sent' = {}
  /\ UNCHANGED <<now, up, fib, pit, cs, dnl, owed>>

OnDataUnsolicited(f, d) ==
  /\ Input(f) /\ ~ViolatesLocalhost(f, d.name)
  /\ FindAllDataMatches(d) = {}
  /\ IF f \in AdmitUnsolicited THEN CsInsert(d) ELSE UNCHANGED cs
  /\ sent' = {}
  /\ UNCHANGED <<now, up, fib, pit, dnl, owed>>

\* The downstreams of the entries K that get the Data.
DataDownstreams(K, f) ==
  {g \in UNION {PendingDownstreams(pit[k], now) : k \in K} : CanReturn(f, g)}

\* The in-records that go. One match: sendData deletes those it answers.
\* Several matches: clearInRecords.
ConsumedIfSeveral(K, down) == IF \E k \in K : K = {k} THEN {} ELSE Face

ConsumedInRecords(K, down) == IF \E k \in K : K = {k} THEN down ELSE Face

OnIncomingData(f, d) ==
  LET K == FindAllDataMatches(d)
      down == DataDownstreams(K, f)
      gone == ConsumedInRecords(K, down)
  IN  /\ Input(f) /\ ~ViolatesLocalhost(f, d.name)
      /\ K # {}
      /\ CsInsert(d)
      /\ pit' = [k \in DOMAIN pit |->
                   IF k \in K
                     THEN DeleteOutRecords(DeleteInRecords(Satisfied(pit[k], d), gone), {f})
                     ELSE pit[k]]
      /\ dnl' = dnl \cup UNION {DeadNonces(Satisfied(pit[k], d), {f}) : k \in K}
      /\ sent' = OnOutgoingData(d, down, f)
      /\ owed' = [g \in Face |-> IF g \in down THEN owed[g] \ K ELSE owed[g]]
      /\ UNCHANGED <<now, up, fib>>

----------------------------------------------------------------------------
(* Nack pipeline                                                           *)

\* onIncomingNack of a Nack that names an out-record by face and Nonce;
\* any other is dropped.
OnIncomingNack(f, w, reason) ==
  LET int == Accepted(w)
      k == PitKey(int)
  IN  /\ Input(f) /\ IsP2p(f)
      /\ k \in DOMAIN pit /\ f \in DOMAIN pit[k].outs
      /\ w.nonce = pit[k].outs[f].nonce
      /\ LET e1 == SetIncomingNack(pit[k], f, reason)
             e2 == IF HasPendingOutRecords(e1, now) THEN e1 ELSE SetExpiryTimer(e1, now)
             down == Nackable(e2, NackDownstreams(e2))
         IN  /\ SetEntry(k, DeleteInRecords(e2, down))
             /\ sent' = OnOutgoingNack(e2, down, LeastSevereReason(e2))
             /\ owed' = [g \in Face |-> IF g \in down THEN owed[g] \ {k} ELSE owed[g]]
      /\ UNCHANGED <<now, up, fib, cs, dnl>>

----------------------------------------------------------------------------
(* Timers, faces, routes                                                   *)

\* The expiry timer fires, possibly late.
OnInterestFinalize(k) ==
  /\ k \in DOMAIN pit /\ pit[k].timer \in 0 .. now
  /\ dnl' = dnl \cup DeadNonces(pit[k], Face)
  /\ pit' = Without(pit, {k})
  /\ owed' = [g \in Face |-> owed[g] \ {k}]
  /\ sent' = {}
  /\ UNCHANGED <<now, inputs, up, fib, cs>>

\* Fib::removeNextHop on every entry: one without nexthops is erased.
WithoutNextHop(f) ==
  [p \in {q \in DOMAIN fib : DOMAIN fib[q] # {f}} |-> Without(fib[p], {f})]

DeleteOutRecordOf(e, f) == DeleteOutRecords(e, {f})

\* Pit::deleteInOutRecords.
DeleteInOutRecords(e, f) == DeleteOutRecords(DeleteInRecords(e, {f}), {f})

\* FaceTable::remove and cleanupOnFaceRemoval.
RemoveFace(f) ==
  /\ Input(f)
  /\ up' = up \ {f}
  /\ fib' = WithoutNextHop(f)
  /\ pit' = [k \in DOMAIN pit |-> DeleteInOutRecords(pit[k], f)]
  /\ owed' = [owed EXCEPT ![f] = {}]
  /\ sent' = {}
  /\ UNCHANGED <<now, cs, dnl>>

\* Fib::insert and addOrUpdateNextHop; onNewNextHop reaches strategies that
\* do nothing on it.
AddOrUpdateNextHop(p, g, c) ==
  /\ Input(g)
  /\ fib' = Put(fib, p, Put(IF p \in DOMAIN fib THEN fib[p] ELSE << >>, g, c))
  /\ sent' = {}
  /\ UNCHANGED <<now, up, pit, cs, dnl, owed>>

\* FibManager::removeNextHop.
RemoveNextHop(p, g) ==
  /\ Input(g)
  /\ p \in DOMAIN fib /\ g \in DOMAIN fib[p]
  /\ fib' = IF DOMAIN fib[p] = {g} THEN Without(fib, {p})
            ELSE Put(fib, p, Without(fib[p], {g}))
  /\ sent' = {}
  /\ UNCHANGED <<now, up, pit, cs, dnl, owed>>

CsEvict(d) ==
  /\ d \in DOMAIN cs
  /\ cs' = Without(cs, {d}) /\ sent' = {}
  /\ UNCHANGED <<now, inputs, up, fib, pit, dnl, owed>>

DnlEvict(x) ==
  /\ x \in dnl
  /\ dnl' = dnl \ {x} /\ sent' = {}
  /\ UNCHANGED <<now, inputs, up, fib, pit, cs, owed>>

\* The clock stops at MaxTime unless an expiryTimer is still to come.
Tick ==
  /\ now < MaxTime \/ \E k \in DOMAIN pit : pit[k].timer > now
  /\ now' = now + 1 /\ sent' = {}
  /\ UNCHANGED <<inputs, up, fib, pit, cs, dnl, owed>>

----------------------------------------------------------------------------

Init ==
  /\ now = 0 /\ up = Face
  /\ inputs = 0 /\ fib \in InitialFib /\ pit = << >> /\ cs = << >>
  /\ dnl = {} /\ sent = {}
  /\ owed = [f \in Face |-> {}]

OnIncomingInterest(f, w) ==
  \/ DropInterest(f, w)
  \/ OnInterestLoop(f, w)
  \/ OnContentStoreHit(f, w)
  \/ MissToChosenNextHop(f, w)
  \/ MissSuppressed(f, w)
  \/ MissNew(f, w)
  \/ MissNoRoute(f, w)
  \/ MissRetransmit(f, w)

Next ==
  \/ \E f \in Downstream, w \in Interest : OnIncomingInterest(f, w)
  \/ \E f \in Face, d \in Data :
       DropData(f, d) \/ OnDataUnsolicited(f, d) \/ OnIncomingData(f, d)
  \/ \E f \in Face, w \in Interest, r \in NackReason \ {None} : OnIncomingNack(f, w, r)
  \/ \E k \in DOMAIN pit : OnInterestFinalize(k)
  \/ \E f \in Face : RemoveFace(f)
  \/ \E p \in FibPrefix, g \in RouteFace, c \in Cost : AddOrUpdateNextHop(p, g, c)
  \/ \E p \in FibPrefix, g \in RouteFace : RemoveNextHop(p, g)
  \/ \E d \in DOMAIN cs : CsEvict(d)
  \/ \E x \in dnl : DnlEvict(x)
  \/ Tick

Spec == Init /\ [][Next]_vars

\* The event loop runs every timer that is due, and time goes on.
FairSpec ==
  Spec /\ WF_vars(Tick) /\ \A k \in {PitKey(i) : i \in Interest} : WF_vars(OnInterestFinalize(k))

----------------------------------------------------------------------------
(* Properties                                                              *)

Key == {PitKey(i) : i \in Interest}
AcceptedInterest == {Accepted(i) : i \in Interest}
InRecord == [int : AcceptedInterest, expiry : Nat]
OutRecord == [nonce : Nat, expiry : Nat, renewed : Nat,
              nack : NackReason \cup {NotNacked}]

IsEntry(e) ==
  /\ e = [rep |-> e.rep, ins |-> e.ins, outs |-> e.outs, timer |-> e.timer,
          satisfied |-> e.satisfied, dataFresh |-> e.dataFresh, supp |-> e.supp]
  /\ e.rep \in AcceptedInterest
  /\ DOMAIN e.ins \subseteq up /\ e.ins \in [DOMAIN e.ins -> InRecord]
  /\ DOMAIN e.outs \subseteq up /\ e.outs \in [DOMAIN e.outs -> OutRecord]
  /\ e.timer \in Nat /\ e.satisfied \in BOOLEAN /\ e.dataFresh \in Nat /\ e.supp \in Nat

\* Every PIT entry is well formed, is kept under the key of its representative
\* Interest, has its expiryTimer armed (an unarmed one would never be
\* finalized) and, like the FIB, has records of live faces only.
TypeOK ==
  /\ now \in Nat /\ up \subseteq Face
  /\ DOMAIN pit \subseteq Key
  /\ \A k \in DOMAIN pit : IsEntry(pit[k]) /\ PitKey(pit[k].rep) = k
  /\ DOMAIN cs \subseteq Data
  /\ \A p \in DOMAIN fib : DOMAIN fib[p] \subseteq up
  /\ owed \in [Face -> SUBSET Key]

\* An in-record stands for an Interest of its face that has had no answer yet:
\* every path that answers (sendData, clearInRecords, onOutgoingNack) also
\* takes the record away.
InRecordsOwed ==
  \A k \in DOMAIN pit : \A f \in DOMAIN pit[k].ins : k \in owed[f]

\* Flow balance: Data that arrives is sent to a face only to answer an
\* unanswered Interest of that face, and uses that Interest up.
FlowBalance ==
  [][\A p \in sent' : p.type = "Data" /\ p.from # NoFace
       => \E k \in owed[p.face] : k \notin owed'[p.face]]_vars

\* The expiryTimer covers the last in-record to expire. It is due earlier only
\* when Data has satisfied the entry or no upstream is left that may answer
\* (no route, or every out-record expired or Nacked).
EarlyTimerJustified ==
  \A k \in DOMAIN pit :
    \/ \A f \in DOMAIN pit[k].ins : pit[k].ins[f].expiry <= pit[k].timer
    \/ /\ pit[k].timer <= now
       /\ pit[k].satisfied \/ ~HasPendingOutRecords(pit[k], now)

\* Packets under /localhost leave on local faces only, whichever Interests were
\* aggregated in the entry, unless a local application chose the nexthop itself.
LocalhostStaysLocal ==
  \A p \in sent :
    p.face \in Local
    \/ /\ p.type = "Data" => ~IsPrefixOf(<<Localhost>>, p.data.name)
       /\ p.type = "Nack" => ~IsPrefixOf(<<Localhost>>, p.int.name)
       /\ p.type = "Interest" /\ p.int.nextHop = NoFace => ~IsPrefixOf(<<Localhost>>, p.int.name)

\* Every PIT entry is finalized in the end: no path leaves one without a timer,
\* and retransmissions extend it only while they keep coming.
EveryEntryFinalizes == \A k \in Key : k \in DOMAIN pit ~> k \notin DOMAIN pit

----------------------------------------------------------------------------
(* A statement of the documentation                                        *)

\* interest.cpp: the lookup name is to "include FunctionName": Data from
\* upstream answers a face only if it waits for the function of that Data.
DataHasRequestedFunction ==
  [][\A p \in sent' : p.type = "Data" /\ p.from # NoFace
       => \E k \in DOMAIN pit : /\ p.face \in DOMAIN pit[k].ins
                                /\ pit[k].ins[p.face].int.func = p.data.func]_vars

=============================================================================
