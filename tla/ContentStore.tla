---------------------------- MODULE ContentStore ----------------------------
(***************************************************************************)
(* The Content Store of NFD-FC: daemon/table/cs.cpp with either of its     *)
(* replacement policies, cs-policy-lru.cpp or cs-policy-priority-fifo.cpp. *)
(* Every action is one call into the store from the event loop, with the   *)
(* policy callbacks and the evictions that the call makes.                 *)
(***************************************************************************)
EXTENDS CsTable, Containers

CONSTANTS
  Data,          \* the Data packets that may be offered to the store
  Interest,      \* the Interests that may be looked up
  Limit,         \* the capacities management may set
  PolicyName,    \* the policies that the configuration may name
  MaxTime        \* bound on the clock

\* A packet is known by its full name, the digest of its wire encoding
\* included, and no other component of a Data name is an ImplicitSha256Digest.
ASSUME DataAssumption ==
  /\ \A d \in Data : /\ d.name \in Seq(Nat) /\ d.digest \in 0 .. (GenericBase - 1)
                     /\ \A i \in 1 .. Len(d.name) : d.name[i] >= GenericBase
                     /\ d.fresh \in Nat
  /\ \A d, e \in Data : GetFullName(d) = GetFullName(e) => d = e
ASSUME InterestAssumption == \A int \in Interest : int.name \in Seq(Nat)
ASSUME LimitAssumption == Limit \subseteq Nat
ASSUME PolicyAssumption == PolicyName \subseteq {"lru", "priority_fifo"}

VARIABLES
  now,
  table,         \* m_table: stored Data -> [unsolicited, freshUntil]
  policy,        \* the name of m_policy
  queues,        \* the policy's cleanup queues
  staleAt,       \* armed moveToStaleQueue events: Data -> due time
  limit,         \* m_policy->m_limit
  admit, serve,  \* m_shouldAdmit, m_shouldServe
  recency        \* history: <<d, e>> when d was last used before e

vars == <<now, table, policy, queues, staleAt, limit, admit, serve, recency>>

QueueName == {"lru", "unsolicited", "stale", "fifo"}
Stored == DOMAIN table
IsFresh(tab, d) == tab[d].freshUntil >= now
FreshSet == {d \in Stored : IsFresh(table, d)}

----------------------------------------------------------------------------
(* The replacement policies. A policy state is [queues, timers].           *)

EmptyQueues == [q \in QueueName |-> << >>]

DropNoCancel(ps, ds) ==
  [queues |-> [q \in QueueName |-> RemoveAll(ps.queues[q], ds)],
   timers |-> ps.timers]

\* The entries ds leave their queues and their events are cancelled: detachQueue,
\* doBeforeErase, and evictOne before it.
Drop(ps, ds) ==
  [queues |-> [q \in QueueName |-> RemoveAll(ps.queues[q], ds)],
   timers |-> Restrict(ps.timers, DOMAIN ps.timers \ ds)]

QueueFor(tab, d) == IF policy = "lru" THEN "lru"
                    ELSE IF tab[d].unsolicited THEN "unsolicited"
                    ELSE IF ~IsFresh(tab, d) THEN "stale" ELSE "fifo"

AttachQueue(ps, tab, d) ==
  LET q == QueueFor(tab, d)
  IN  [queues |-> [ps.queues EXCEPT ![q] = Append(@, d)],
       timers |-> IF q = "fifo" THEN Put(ps.timers, d, now + d.fresh) ELSE ps.timers]

RequeueNothing(ps, tab, d) == ps

\* insertToQueue of LRU with relocation, detach and attach of priority FIFO.
Requeue(ps, tab, d) == AttachQueue(Drop(ps, {d}), tab, d)

BeforeUseNothing(ps, tab, d) == ps

\* LruPolicy::doBeforeUse relocates; PriorityFifoPolicy::doBeforeUse does not.
BeforeUse(ps, tab, d) == IF policy = "lru" THEN Requeue(ps, tab, d) ELSE ps

EvictionOrder(qs) == qs["lru"] \o qs["unsolicited"] \o qs["stale"] \o qs["fifo"]

\* evictEntries: the entries that go when size() exceeds the limit.
Victims(ps, tab, lim) ==
  LET n == Cardinality(DOMAIN tab) - lim
  IN  IF n <= 0 THEN {} ELSE Range(SubSeq(EvictionOrder(ps.queues), 1, n))

\* Install a policy state and a table after removing the entries ds from both.
Commit(ps, tab, ds) ==
  LET kept == Drop(ps, ds)
  IN  /\ queues' = kept.queues
      /\ staleAt' = kept.timers
      /\ table' = Restrict(tab, DOMAIN tab \ ds)

PolicyState == [queues |-> queues, timers |-> staleAt]

----------------------------------------------------------------------------
(* History: the order of last use of the entries kept in set kept.         *)

Touch(d, kept) ==
  LET others == kept \ {d}
  IN  recency' = {p \in recency : p[1] \in others /\ p[2] \in others}
                   \cup (IF d \in kept THEN others \X {d} ELSE {})

Forget(kept) == recency' = {p \in recency : p[1] \in kept /\ p[2] \in kept}

----------------------------------------------------------------------------
(* Operations                                                              *)

Init ==
  /\ now = 0
  /\ table = << >>
  /\ policy \in PolicyName /\ queues = EmptyQueues
  /\ staleAt = << >>
  /\ limit \in Limit
  /\ admit = TRUE /\ serve = TRUE
  /\ recency = {}

\* Cs::insert of a packet without the NO_CACHE policy.
Insert(d, unsolicited) ==
  /\ admit /\ limit > 0
  /\ LET isNew == d \notin Stored
         entry == [unsolicited |-> unsolicited /\ (isNew \/ table[d].unsolicited),
                   freshUntil |-> now + d.fresh]
         tab == Put(table, d, entry)
         ps == IF isNew THEN AttachQueue(PolicyState, tab, d) ELSE Requeue(PolicyState, tab, d)
         out == IF isNew THEN Victims(ps, tab, limit) ELSE {}
     IN  Commit(ps, tab, out) /\ Touch(d, DOMAIN tab \ out)
  /\ UNCHANGED <<now, policy, limit, admit, serve>>

\* Cs::find with a hit; a miss changes nothing.
Find(int) ==
  /\ serve /\ limit > 0
  /\ \E d \in FindImpl(Stored, int, FreshSet) :
       /\ Commit(BeforeUse(PolicyState, table, d), table, {})
       /\ Touch(d, Stored)
  /\ UNCHANGED <<now, policy, limit, admit, serve>>

\* Cs::erase, as CsManager::erase calls it.
Erase(prefix, n) ==
  LET out == EraseSet(Stored, prefix, n)
  IN  /\ out # {}
      /\ Commit(PolicyState, table, out)
      /\ Forget(Stored \ out)
      /\ UNCHANGED <<now, policy, limit, admit, serve>>

\* The capacity of a CsManager::changeConfig command: Policy::setLimit.
SetLimit(n) ==
  LET out == Victims(PolicyState, table, n)
  IN  /\ limit' = n
      /\ Commit(PolicyState, table, out)
      /\ Forget(Stored \ out)
      /\ UNCHANGED <<now, policy, admit, serve>>

\* TablesConfigSection::processConfig, at start and on a reload: setLimit, and
\* setPolicy if that left the store empty.
ProcessConfig(n, p) ==
  LET out == Victims(PolicyState, table, n)
  IN  /\ limit' = n
      /\ Commit(PolicyState, table, out)
      /\ Forget(Stored \ out)
      /\ policy' = IF out = Stored THEN p ELSE policy
      /\ UNCHANGED <<now, admit, serve>>

EnableAdmit(b) == admit' = b /\ UNCHANGED <<now, table, policy, queues, staleAt, limit, serve, recency>>
EnableServe(b) == serve' = b /\ UNCHANGED <<now, table, policy, queues, staleAt, limit, admit, recency>>

\* The event that attachQueue schedules fires, possibly late.
MoveToStaleQueue(d) ==
  /\ d \in DOMAIN staleAt /\ staleAt[d] <= now
  /\ queues' = [queues EXCEPT !["fifo"] = RemoveAll(@, {d}), !["stale"] = Append(@, d)]
  /\ staleAt' = Restrict(staleAt, DOMAIN staleAt \ {d})
  /\ UNCHANGED <<now, table, policy, limit, admit, serve, recency>>

Tick ==
  /\ now < MaxTime
  /\ now' = now + 1
  /\ UNCHANGED <<table, policy, queues, staleAt, limit, admit, serve, recency>>

PrefixOfData ==
  UNION {{SubSeq(GetFullName(d), 1, k) : k \in 0 .. Len(d.name) + 1} : d \in Data}

Next ==
  \/ \E d \in Data, u \in BOOLEAN : Insert(d, u)
  \/ \E int \in Interest : Find(int)
  \/ \E p \in PrefixOfData, n \in 1 .. 2 : Erase(p, n)
  \/ \E n \in Limit : SetLimit(n)
  \/ \E n \in Limit, p \in PolicyName : ProcessConfig(n, p)
  \/ \E b \in BOOLEAN : EnableAdmit(b) \/ EnableServe(b)
  \/ \E d \in Data : MoveToStaleQueue(d)
  \/ Tick

Spec == Init /\ [][Next]_vars
----------------------------------------------------------------------------
(* Properties                                                              *)

\* "Each Entry should be in exactly one queue at any moment"
\* (cs-policy-priority-fifo.hpp): whatever mix of inserts, refreshes, hits,
\* erasures, evictions and timers ran, the queues hold every stored entry once
\* and no iterator to an entry that is gone; a moveToStaleQueue event is armed
\* exactly for the entries of the FIFO queue; and there are no more entries than
\* the limit allows (the postcondition of Policy::setLimit and afterInsert).
QueuesMatchTable ==
  LET order == EvictionOrder(queues)
  IN  /\ IsInjective(order) /\ Range(order) = Stored /\ Stored \subseteq Data
      /\ DOMAIN staleAt = Range(queues["fifo"])
      /\ Cardinality(Stored) <= limit

CanAnswer(int) == \E d \in Stored : CanSatisfy(int, d, FreshSet)

\* Cs::find calls the miss callback only "if there's no match" (cs.hpp), for
\* Interests that name no function: the range scan meets every entry that
\* could satisfy the Interest.
FindCompleteForPlain ==
  \A int \in Interest :
    ~HasFunction(int) /\ CanAnswer(int) => FindImpl(Stored, int, FreshSet) # {}

EvictionStep == limit' # limit \/ ~(Stored' \subseteq Stored)
Evicted == Stored \ Stored'
Survivor == Stored \cap Stored'

\* LruPolicy: an eviction takes an entry only if every survivor was inserted,
\* refreshed or hit after it.
EvictsLeastRecent ==
  [][policy = "lru" /\ EvictionStep => Evicted \X Survivor \subseteq recency]_vars

IsStale(d) == ~table[d].unsolicited /\ table[d].freshUntil < now
IsFreshSolicited(d) == ~table[d].unsolicited /\ table[d].freshUntil > now

\* PriorityFifoPolicy: a solicited entry is evicted only when no unsolicited
\* one survives, and a fresh one only when no entry survives whose move to the
\* stale queue was carried out.
EvictsByPriority ==
  [][policy = "priority_fifo" /\ EvictionStep =>
       \A d \in Evicted, e \in Survivor :
         /\ table[e].unsolicited => table[d].unsolicited
         /\ IsStale(e) /\ e \notin DOMAIN staleAt => ~IsFreshSolicited(d)]_vars
=============================================================================
