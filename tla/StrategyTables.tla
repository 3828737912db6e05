--------------------------- MODULE StrategyTables ---------------------------
(***************************************************************************)
(* The tables of NFD-FC that strategies work on: StrategyChoice and        *)
(* Measurements, with the FIB and PIT, on one name tree                    *)
(* (daemon/table/strategy-choice.cpp, measurements.cpp, cleanup.cpp), and  *)
(* the strategy that uses most of them (daemon/fw/access-strategy.cpp).    *)
(*                                                                         *)
(* The forwarder is reduced to what the tables and the strategy see of it  *)
(* (the pipelines are in Forwarder): PIT entries are made, satisfied and   *)
(* finalized at any time, and differ in their lookup names.  Best-route    *)
(* stands for the strategies without measurements: it sends to one nexthop *)
(* or to none.  Of the StrategyInfo items the two that carry information   *)
(* from packet to packet are modelled: MtInfo on a Measurements entry, by  *)
(* its lastNexthop, and PitInfo on a PIT entry, by its RTO timer.          *)
(*                                                                         *)
(* Times are counted from now on and a unit is the initial lifetime of a   *)
(* Measurements entry, 4 seconds.                                          *)
(***************************************************************************)
EXTENDS NameTree

CONSTANTS
  Face,
  Scenario   \* what arrives: interests, data, nexthops ([prefix, face], to add
             \* and remove), commands ([prefix, type], strategies to set), inputs
             \* (how many of all these); and start, the nexthops of the first state

VARIABLES
  scenario,
  tree,      \* the name tree
  faces,     \* the faces that exist
  fib,       \* prefix -> set of nexthops
  pit,       \* lookup name -> [int, in, out, timer]
  meas,      \* name -> [expiry, mi]
  choices,   \* prefix -> [type, id], an instance of a strategy
  events,    \* scheduled calls of Measurements::cleanup: [name, at]
  lastId,    \* of the instances made so far
  inputs,    \* packets, commands and face removals so far
  left       \* history: empty nodes that removeNextHop left without eraseIfEmpty

\* An Interest with an implicit digest, for which the strategy is looked up below
\* the node of its PIT entry, does not occur.
ASSUME ScenarioAssumption ==
  /\ None \notin Face
  /\ \A s \in Scenario :
       /\ IsFiniteSet(s.start)
       /\ \A h \in s.start \cup s.nexthops : h.prefix \in Name /\ h.face \in Face
       /\ \A c \in s.commands : c.prefix \in Name
       /\ \A i \in s.interests : ~EndsWithDigest(i.name) /\ {i.name, GetNameFunction(i)} \subseteq Name
       /\ \A d \in s.data : {d.name, GetNameFunction(d)} \subseteq Name

vars == <<scenario, tree, faces, fib, pit, meas, choices, events, lastId, inputs, left>>

InitialLifetime == 1
AccessLifetime == 2

Used == DOMAIN fib \cup DOMAIN pit \cup DOMAIN meas \cup DOMAIN choices

\* Of the nodes in `leaving' those that are empty after the step.
Left(leaving) == left' = {n \in leaving \cap Nodes(tree') : IsEmpty(tree', Used', n)}

Input == inputs < scenario.inputs /\ inputs' = inputs + 1

----------------------------------------------------------------------------
(* StrategyChoice                                                          *)

\* findEffectiveStrategy of a name, and of a PIT or Measurements entry.
Effective(name) == choices[CHOOSE n \in FindLongestPrefixMatch(tree, DOMAIN choices, name) : TRUE]
EffectiveAt(nte) == choices[CHOOSE n \in FindUp(tree, DOMAIN choices, nte) : TRUE]

ClearTimers(entries, ntes) ==
  [k \in DOMAIN entries |-> IF k \in ntes THEN [entries[k] EXCEPT !.timer = None] ELSE entries[k]]
ClearMi(entries, ntes) ==
  [n \in DOMAIN entries |-> IF n \in ntes THEN [entries[n] EXCEPT !.mi = None] ELSE entries[n]]

ChangeStrategyPitOnly(t, prefix, old, new) ==
  LET ntes == PartialEnumerate(t, DOMAIN choices, prefix)
  IN  IF old.type = new.type THEN UNCHANGED <<pit, meas>>
      ELSE pit' = ClearTimers(pit, ntes) /\ meas' = meas

\* changeStrategy: what a strategy of another type left in the subtree that the
\* changed entry covers is cleared.
ChangeStrategy(t, prefix, old, new) ==
  LET ntes == PartialEnumerate(t, DOMAIN choices, prefix)
  IN  IF old.type = new.type THEN UNCHANGED <<pit, meas>>
      ELSE pit' = ClearTimers(pit, ntes) /\ meas' = ClearMi(meas, ntes)

\* strategy-choice/set: StrategyChoice::insert.  An instance of the same name
\* changes nothing.
SetStrategy(prefix, type) ==
  /\ Input
  /\ tree' = Lookup(tree, prefix)
  /\ IF prefix \in DOMAIN choices /\ choices[prefix].type = type
       THEN UNCHANGED <<choices, lastId, pit, meas>>
       ELSE LET new == [type |-> type, id |-> lastId + 1]
            IN  /\ ChangeStrategy(tree', prefix, Effective(prefix), new)
                /\ choices' = Put(choices, prefix, new)
                /\ lastId' = lastId + 1
  /\ UNCHANGED <<scenario, faces, fib, events>>
  /\ Left(left)

\* strategy-choice/unset: StrategyChoice::erase, which is not asked for the root.
UnsetStrategy(prefix) ==
  /\ Input /\ prefix # << >> /\ prefix \in DOMAIN choices
  /\ ChangeStrategy(tree, prefix, choices[prefix], Effective(GetPrefix(prefix)))
  /\ choices' = Drop(choices, {prefix})
  /\ UNCHANGED <<scenario, faces, fib, events, lastId>>
  /\ tree' = EraseIfEmpty(tree, Used', prefix)
  /\ Left(left)

----------------------------------------------------------------------------
(* Measurements.  A state s of the tables is [tree, meas, events].         *)

\* Measurements::get.
GetEntry(s, name) ==
  IF name \in DOMAIN s.meas THEN s
  ELSE [tree |-> Lookup(s.tree, name),
        meas |-> Put(s.meas, name, [expiry |-> InitialLifetime, mi |-> None]),
        events |-> s.events \cup {[name |-> name, at |-> InitialLifetime]}]

ExtendLifetimeTwoTimers(s, name, lifetime) ==
  IF s.meas[name].expiry >= lifetime THEN s
  ELSE [s EXCEPT !.meas[name].expiry = lifetime, !.events = @ \cup {[name |-> name, at |-> lifetime]}]

\* extendLifetime: the old event is cancelled.
ExtendLifetime(s, name, lifetime) ==
  IF s.meas[name].expiry >= lifetime THEN s
  ELSE [s EXCEPT !.meas[name].expiry = lifetime,
                 !.events = {e \in @ : e.name # name} \cup {[name |-> name, at |-> lifetime]}]

\* MeasurementsAccessor::filter: a strategy sees the entries of its namespace.
Accessible(s, name, strategy) ==
  \E n \in FindUp(s.tree, DOMAIN choices, name) : choices[n] = strategy

CleanupKeepsNode(name) ==
  /\ [name |-> name, at |-> 0] \in events
  /\ events' = events \ {[name |-> name, at |-> 0]}
  /\ meas' = Drop(meas, {name})
  /\ UNCHANGED <<scenario, tree, faces, fib, pit, choices, lastId, inputs, left>>

\* Measurements::cleanup.
Cleanup(name) ==
  /\ [name |-> name, at |-> 0] \in events
  /\ events' = events \ {[name |-> name, at |-> 0]}
  /\ meas' = Drop(meas, {name})
  /\ UNCHANGED <<scenario, faces, fib, pit, choices, lastId, inputs>>
  /\ tree' = EraseIfEmpty(tree, Used', name)
  /\ Left(left)

Later(t) == IF t = 0 THEN 0 ELSE t - 1

\* A unit of time passes; an event that is due may run late.
Tick ==
  /\ \E e \in events : e.at > 0
  /\ events' = {[e EXCEPT !.at = Later(@)] : e \in events}
  /\ meas' = [n \in DOMAIN meas |-> [meas[n] EXCEPT !.expiry = Later(@)]]
  /\ UNCHANGED <<scenario, tree, faces, fib, pit, choices, lastId, inputs, left>>

----------------------------------------------------------------------------
(* AccessStrategy                                                          *)

\* lookupFib: the nexthops for a PIT entry.
NextHops(t, key) == UNION {fib[n] : n \in FindUp(t, DOMAIN fib, key)}

\* findPrefixMeasurements: lastNexthop of the longest entry, if it is accessible.
LastNexthop(s, int, strategy) ==
  {s.meas[n].mi : n \in {m \in FindLongestPrefixMatch(s.tree, DOMAIN s.meas, int.name) :
                           Accessible(s, m, strategy)}}

Multicast(t, key, entry, inFace, except) ==
  [entry EXCEPT !.out = @ \cup (NextHops(t, key) \ {inFace, except})]

\* afterReceiveInterest of AccessStrategy: a new Interest goes to the last
\* working nexthop under an RTO timer, or to all; a retransmission is
\* suppressed or goes to all.  It counts as new once the out-records expired.
AccessInterest(t, key, entry, f, strategy) ==
  LET s == [tree |-> t, meas |-> meas, events |-> events]
      usable == LastNexthop(s, entry.int, strategy) \cap (NextHops(t, key) \ {f})
      all == Multicast(t, key, entry, f, None)
  IN  (IF entry.out # {} THEN {entry, all} ELSE {})
        \cup (IF usable = {} THEN {all}
              ELSE {[entry EXCEPT !.out = @ \cup {nh},
                                  !.timer = [in |-> f, out |-> nh]] :
                      nh \in usable})

BestRouteInterest(t, key, entry, f) ==
  {entry} \cup {[entry EXCEPT !.out = @ \cup {nh}] : nh \in NextHops(t, key) \ {f}}

\* An Interest arrives and is not a duplicate.
OnInterest(int, f) ==
  LET key == GetNameFunction(int)
      entry == IF key \in DOMAIN pit THEN pit[key]
               ELSE [int |-> int, in |-> {}, out |-> {}, timer |-> None]
      received == [entry EXCEPT !.in = @ \cup {f}]
  IN  /\ Input /\ f \in faces
      /\ tree' = Lookup(tree, key)
      /\ LET strategy == choices[CHOOSE n \in FindUp(tree', DOMAIN choices, key) : TRUE]
         IN  \E e \in IF strategy.type = "access" THEN AccessInterest(tree', key, received, f, strategy)
                      ELSE BestRouteInterest(tree', key, received, f) :
               pit' = Put(pit, key, e)
      /\ UNCHANGED <<scenario, faces, fib, meas, choices, events, lastId>>
      /\ Left(left)

\* afterRtoTimeout; a face that is gone is not asked for.
RtoTimeout(key) ==
  /\ key \in DOMAIN pit /\ pit[key].timer # None
  /\ LET e == [pit[key] EXCEPT !.timer = None]
         timer == pit[key].timer
     IN  pit' = [pit EXCEPT ![key] = IF timer.in \in faces
                                       THEN Multicast(tree, key, e, timer.in, timer.out) ELSE e]
  /\ UNCHANGED <<scenario, tree, faces, fib, meas, choices, events, lastId, inputs, left>>

Measured(s, name, f) ==
  LET s1 == ExtendLifetime(s, name, AccessLifetime) IN [s1 EXCEPT !.meas[name].mi = f]

\* updateMeasurements and addPrefixMeasurements: the entry for the parent of the
\* Data name or, if that is not in the strategy, for the name itself.  An entry
\* made in vain stays for its initial lifetime.  "Data Name must be in this
\* strategy": otherwise anything may happen.
UpdateMeasurements(s, data, f, strategy) ==
  LET parent == GetPrefix(data.name)
      s1 == GetEntry(s, parent)
      s2 == GetEntry(s1, data.name)
  IN  IF Accessible(s1, parent, strategy) THEN Measured(s1, parent, f)
      ELSE IF Accessible(s2, data.name, strategy) THEN Measured(s2, data.name, f)
      ELSE s2

\* beforeSatisfyInterest of AccessStrategy, for the PIT entry with this key.
BeforeSatisfyInterest(s, key, data, f) ==
  IF EffectiveAt(key).type = "access" /\ pit[key].in # {} /\ f \in pit[key].out
    THEN UpdateMeasurements(s, data, f, EffectiveAt(key)) ELSE s

DataMatches(data) ==
  {k \in DOMAIN pit : IsPrefixOf(k, GetNameFunction(data)) /\ MatchesData(pit[k].int, data)}

SatisfiedKeepsTimer(entry, f, several, type) ==
  [entry EXCEPT !.in = IF several THEN {} ELSE @ \cap {f}, !.out = @ \ {f}]

\* What remains of a satisfied entry: Data that matches one entry is not sent
\* back to the face it came from.
Satisfied(entry, f, several, type) ==
  [entry EXCEPT !.in = IF several THEN {} ELSE @ \cap {f}, !.out = @ \ {f},
                !.timer = IF type = "access" THEN None ELSE @]

\* beforeSatisfyInterest of the strategies of all matches, the longest first.
BeforeSatisfyAll(data, f) ==
  LET name == GetNameFunction(data)
      Key(i) == Prefix(name, Len(name) - i + 1)
      g[i \in 0 .. (Len(name) + 1)] ==
        IF i = 0 THEN [tree |-> tree, meas |-> meas, events |-> events]
        ELSE IF Key(i) \in DataMatches(data) THEN BeforeSatisfyInterest(g[i - 1], Key(i), data, f)
        ELSE g[i - 1]
  IN  g[Len(name) + 1]

OnData(data, f) ==
  LET matches == DataMatches(data)
      s == BeforeSatisfyAll(data, f)
  IN  /\ Input /\ f \in faces /\ matches # {}
      /\ tree' = s.tree /\ meas' = s.meas /\ events' = s.events
      /\ pit' = [k \in DOMAIN pit |->
                   IF k \in matches
                     THEN Satisfied(pit[k], f, Cardinality(matches) > 1, EffectiveAt(k).type)
                     ELSE pit[k]]
      /\ UNCHANGED <<scenario, faces, fib, choices, lastId>>
      /\ Left(left)

----------------------------------------------------------------------------
(* PIT, FIB and faces                                                      *)

\* onInterestFinalize: Pit::erase; the timer goes with the entry.
Finalize(key) ==
  /\ key \in DOMAIN pit
  /\ pit' = Drop(pit, {key})
  /\ UNCHANGED <<scenario, faces, fib, meas, choices, events, lastId, inputs>>
  /\ tree' = EraseIfEmpty(tree, Used', key)
  /\ Left(left)

\* fib/add-nexthop: Fib::insert and addOrUpdateNextHop.
AddNextHop(prefix, f) ==
  /\ Input /\ f \in faces
  /\ tree' = Lookup(tree, prefix)
  /\ fib' = Put(fib, prefix, {f} \cup UNION {fib[p] : p \in DOMAIN fib \cap {prefix}})
  /\ UNCHANGED <<scenario, faces, pit, meas, choices, events, lastId>>
  /\ Left(left)

AffectedEntriesBelow(prefix) == DOMAIN pit \cap PartialEnumerate(tree, {}, prefix)

\* The PIT entries for which onNewNextHop tells the strategy of a new nexthop.
\* Neither strategy does anything about it.
AffectedEntries(prefix) == DOMAIN pit \cap PartialEnumerate(tree, DOMAIN fib, prefix)

WithoutNextHop(nexthops, f) ==
  [p \in {q \in DOMAIN nexthops : nexthops[q] # {f}} |-> nexthops[p] \ {f}]

\* fib/remove-nexthop: the node of an entry without nexthops is not erased.
RemoveNextHop(prefix, f) ==
  /\ Input /\ prefix \in DOMAIN fib /\ f \in fib[prefix]
  /\ fib' = [p \in DOMAIN fib \ (IF fib[prefix] = {f} THEN {prefix} ELSE {}) |->
               IF p = prefix THEN fib[p] \ {f} ELSE fib[p]]
  /\ UNCHANGED <<scenario, tree, faces, pit, meas, choices, events, lastId>>
  /\ Left(left \cup {prefix})

\* A face is destroyed: cleanupOnFaceRemoval.
DestroyFace(f) ==
  /\ Input /\ f \in faces
  /\ faces' = faces \ {f}
  /\ fib' = WithoutNextHop(fib, f)
  /\ pit' = [k \in DOMAIN pit |-> [pit[k] EXCEPT !.in = @ \ {f}, !.out = @ \ {f}]]
  /\ UNCHANGED <<scenario, meas, choices, events, lastId>>
  /\ tree' = EraseMaybeEmpty(tree, Used')
  /\ Left({})

----------------------------------------------------------------------------

InitialFib(s) == [p \in {h.prefix : h \in s.start} |-> {h.face : h \in {g \in s.start : g.prefix = p}}]

\* Forwarder::Forwarder sets the default strategy; the rest is as if the routes
\* to start with had been added.
Init ==
  /\ scenario \in Scenario
  /\ faces = Face
  /\ fib = InitialFib(scenario)
  /\ pit = << >> /\ meas = << >> /\ events = {}
  /\ choices = [p \in {<< >>} |-> [type |-> "best-route", id |-> 1]]
  /\ lastId = 1 /\ inputs = 0 /\ left = {}
  /\ tree = TreeOf(DOMAIN fib)

Next ==
  \/ \E c \in scenario.commands : SetStrategy(c.prefix, c.type)
  \/ \E p \in DOMAIN choices : UnsetStrategy(p)
  \/ \E i \in scenario.interests, f \in Face : OnInterest(i, f)
  \/ \E d \in scenario.data, f \in Face : OnData(d, f)
  \/ \E h \in scenario.nexthops : AddNextHop(h.prefix, h.face) \/ RemoveNextHop(h.prefix, h.face)
  \/ \E f \in Face : DestroyFace(f)
  \/ \E k \in DOMAIN pit : Finalize(k) \/ RtoTimeout(k)
  \/ \E e \in events : Cleanup(e.name)
  \/ Tick

\* The event loop runs the timers that are due and time passes: weak fairness of
\* what expires, with the condition under which it is enabled written out.
Expire == Tick \/ (\E e \in events : Cleanup(e.name)) \/ (\E k \in DOMAIN pit : Finalize(k))

Spec == Init /\ [][Next]_vars /\ ([]<>(pit = << >> /\ events = {}) \/ []<><<Expire>>_vars)

----------------------------------------------------------------------------
(* Properties                                                              *)

\* No table has an entry for a face that is gone, or a FIB entry without
\* nexthops; and however often the lifetime of a Measurements entry was
\* extended, it has one scheduled cleanup, at its expiry, and no cleanup is
\* scheduled for an entry that is gone.
TypeOK ==
  /\ \A p \in DOMAIN fib : fib[p] # {} /\ fib[p] \subseteq faces
  /\ \A k \in DOMAIN pit :
       /\ GetNameFunction(pit[k].int) = k /\ pit[k].in \cup pit[k].out \subseteq faces
       /\ pit[k].timer = None \/ pit[k].timer \in [in : Face, out : Face]
  /\ \A n \in DOMAIN meas :
       meas[n].expiry \in 0 .. AccessLifetime /\ meas[n].mi \in Face \cup {None}
  /\ events = {[name |-> n, at |-> meas[n].expiry] : n \in DOMAIN meas}
  /\ << >> \in DOMAIN choices

\* However the hash table was resized, every node is in the one chain where a
\* lookup searches it, once, and nothing else is; it points to the node of its
\* longest proper prefix, and every table entry has its node.  The load of the
\* hash table is at most one half, and at least a tenth unless the table has its
\* minimal size.
TreeIndexed ==
  LET slots == Len(tree.buckets)
      size == Cardinality(Nodes(tree))
  IN  /\ Used \subseteq Nodes(tree)
      /\ \A n \in Nodes(tree) :
           /\ HashFind(tree, n)
           /\ IF n = << >> THEN tree.parent[n] = None
              ELSE tree.parent[n] = GetPrefix(n) /\ GetPrefix(n) \in Nodes(tree)
      /\ \A b \in 1 .. slots : LET chain == tree.buckets[b]
                              IN  /\ \A i, j \in DOMAIN chain : chain[i] = chain[j] => i = j
                                  /\ Range(chain) \subseteq {n \in Nodes(tree) : BucketOf(slots, n) = b}
      /\ 2 * size <= slots /\ (slots = MinSize \/ size >= slots \div 10)

\* After every operation each node has a table entry or a child, except where
\* Fib::removeNextHop left it; after a face was removed there is no exception
\* (the assertion at the end of cleanupOnFaceRemoval).
NoIdleNode == \A n \in Nodes(tree) : IsEmpty(tree, Used, n) => n \in left

\* What a strategy remembers on PIT and Measurements entries is never seen by a
\* strategy of another type, whatever choices were set and unset above and
\* below them meanwhile.
StrategyInfoCurrent ==
  /\ \A k \in DOMAIN pit : pit[k].timer # None => EffectiveAt(k).type = "access"
  /\ \A n \in DOMAIN meas : meas[n].mi # None => EffectiveAt(n).type = "access"

\* The RTO timer runs while the in-record it is for exists, unless its face is
\* gone: "in-record is erased only if Interest is satisfied, and RTO timer
\* should have been cancelled" (afterRtoTimeout).
RtoTimerHasInRecord ==
  \A k \in DOMAIN pit : LET timer == pit[k].timer
                         IN  timer # None /\ timer.in \in faces => timer.in \in pit[k].in

\* A new nexthop of a prefix is announced for the PIT entries whose FIB entry it
\* is, and for no other.
NewNextHopReachesAll ==
  \A p \in DOMAIN fib :
    AffectedEntries(p) = {k \in DOMAIN pit : FindLongestPrefixMatch(tree, DOMAIN fib, k) = {p}}

\* Once no more packets come, only the nodes that routes and strategies need
\* remain, and those that removeNextHop left.
NodesGo ==
  <>[](\A n \in Nodes(tree) :
         \E m \in DOMAIN fib \cup DOMAIN choices \cup left : IsPrefixOf(n, m))
=============================================================================
