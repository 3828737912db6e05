---------------------------- MODULE DeadNonceList ----------------------------
(***************************************************************************)
(* The Dead Nonce List of NFD-FC (daemon/table/dead-nonce-list.cpp): a     *)
(* queue of hashes without timestamps, whose capacity is adjusted from the *)
(* number of MARKs that it holds so that entries stay about m_lifetime.    *)
(*                                                                         *)
(* One mark interval is m_lifetime / ExpectedMarkCount.  Scheduler events  *)
(* run in the order in which they are due, so between two runs of          *)
(* adjustCapacity there is at least one mark and at most ExpectedMarkCount *)
(* (fewer when the event loop is late: each mark reschedules itself from   *)
(* the time at which it runs).                                             *)
(***************************************************************************)
EXTENDS Integers, Sequences

CONSTANTS
  Dead,               \* pairs of name and Nonce
  MakeEntry,          \* Dead -> their hashes
  Settings            \* sizes and loads: initial, min and max (capacities), marks
                      \* (expected), evict (limit), load (adds per mark interval, at
                      \* most), steady (exactly so many adds, and all marks happen)
                      \* and dead (the pairs that are added)

ASSUME CapacityAssumption == \A s \in Settings :
  /\ s.min \in Nat /\ s.max \in Nat /\ s.initial \in s.min .. s.max
  /\ s.marks \in Nat \ {0} /\ s.marks <= s.min
  /\ s.evict \in Nat /\ s.marks <= s.evict /\ s.dead \subseteq Dead
ASSUME EntryAssumption == MakeEntry \in [Dead -> Nat]

VARIABLES
  queue,     \* m_queue, oldest entry first
  capacity,  \* m_capacity
  counts,    \* m_actualMarkCounts
  nMarks,    \* marks since the last adjustCapacity
  nAdds,     \* adds since the last mark
  setting,   \* the sizes and the load of this behaviour
  recent     \* history: the last MinCapacity entries pushed

vars == <<queue, capacity, counts, nMarks, nAdds, setting, recent>>

InitialCapacity == setting.initial
MinCapacity == setting.min
MaxCapacity == setting.max
ExpectedMarkCount == setting.marks
EvictLimit == setting.evict

MARK == 0

CountMarks(q) == Len(SelectSeq(q, LAMBDA e : e = MARK))

Has(x) == \E i \in DOMAIN queue : queue[i] = MakeEntry[x]

EvictEntriesOneMore(q, c) ==
  LET n == IF Len(q) - c < EvictLimit THEN Len(q) - c + 1 ELSE EvictLimit
  IN  IF n <= 0 THEN q ELSE SubSeq(q, n + 1, Len(q))

\* evictEntries: what is over the capacity c goes, at most EvictLimit at once.
EvictEntries(q, c) ==
  LET n == IF Len(q) - c < EvictLimit THEN Len(q) - c ELSE EvictLimit
  IN  IF n <= 0 THEN q ELSE SubSeq(q, n + 1, Len(q))

Remember(e) ==
  recent' = IF Len(recent) < MinCapacity THEN Append(recent, e) ELSE Append(Tail(recent), e)

\* CAPACITY_UP is 1.2 and CAPACITY_DOWN is 0.9.
Up(c) == IF (c * 12) \div 10 < MaxCapacity THEN (c * 12) \div 10 ELSE MaxCapacity
Down(c) == IF (c * 9) \div 10 > MinCapacity THEN (c * 9) \div 10 ELSE MinCapacity

AdjustedNeverUp(c) == IF \A m \in counts : m > ExpectedMarkCount THEN Down(c) ELSE c

AdjustedBelowMin(c) ==
  IF \A m \in counts : m > ExpectedMarkCount THEN (c * 9) \div 10
  ELSE IF \A m \in counts : m < ExpectedMarkCount THEN Up(c)
  ELSE c

Adjusted(c) ==
  IF \A m \in counts : m > ExpectedMarkCount THEN Down(c)
  ELSE IF \A m \in counts : m < ExpectedMarkCount THEN Up(c)
  ELSE c

----------------------------------------------------------------------------

Init ==
  /\ setting \in Settings
  /\ queue = [i \in 1 .. ExpectedMarkCount |-> MARK]
  /\ capacity = InitialCapacity
  /\ counts = {} /\ nMarks = 0 /\ nAdds = 0
  /\ recent = queue

Add(x) ==
  /\ nAdds < setting.load
  /\ queue' = EvictEntries(Append(queue, MakeEntry[x]), capacity)
  /\ nAdds' = nAdds + 1
  /\ Remember(MakeEntry[x])
  /\ UNCHANGED <<capacity, counts, nMarks, setting>>

Mark ==
  /\ nMarks < ExpectedMarkCount /\ (setting.steady => nAdds = setting.load)
  /\ queue' = Append(queue, MARK)
  /\ counts' = counts \cup {CountMarks(queue')}
  /\ nMarks' = nMarks + 1 /\ nAdds' = 0
  /\ Remember(MARK)
  /\ UNCHANGED <<capacity, setting>>

AdjustCapacity ==
  /\ nMarks > 0 /\ (setting.steady => nMarks = ExpectedMarkCount)
  /\ capacity' = Adjusted(capacity)
  /\ queue' = EvictEntries(queue, capacity')
  /\ counts' = {} /\ nMarks' = 0
  /\ UNCHANGED <<nAdds, setting, recent>>

Next == (\E x \in setting.dead : Add(x)) \/ Mark \/ AdjustCapacity

Spec == Init /\ [][Next]_vars

\* The scheduler runs both events, and the load goes on.
FairSpec == Spec /\ WF_vars(Next)

----------------------------------------------------------------------------
(* Properties                                                              *)

\* The capacity stays between MIN_CAPACITY and MAX_CAPACITY, and the queue
\* never holds more than MAX_CAPACITY entries and the marks since the last
\* adjustment, although mark() does not evict and evictEntries may leave the
\* queue over the capacity after adjustCapacity lowered it.
SizeBounded ==
  /\ capacity \in MinCapacity .. MaxCapacity
  /\ nMarks \in 0 .. ExpectedMarkCount
  /\ Len(queue) <= MaxCapacity + nMarks

\* A dead Nonce is found (has) at least until MIN_CAPACITY later pushes,
\* whatever the load did to the capacity meanwhile: eviction takes the oldest
\* entries only, and never more than the excess.
RecentFound ==
  \A x \in Dead : (\E i \in DOMAIN recent : recent[i] = MakeEntry[x]) => Has(x)

\* Under a steady load the capacity settles where no entry is evicted before
\* ExpectedMarkCount - 1 mark intervals have passed since it was added: "The
\* capacity is adjusted so that every Entry is expected to be kept for
\* m_lifetime" (dead-nonce-list.hpp).
KeepsForLifetime ==
  setting.steady => <>[][Len(queue') <= Len(queue) => CountMarks(queue') >= ExpectedMarkCount - 1]_vars
=============================================================================
