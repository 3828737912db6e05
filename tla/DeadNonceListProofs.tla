------------------------ MODULE DeadNonceListProofs ------------------------
(***************************************************************************)
(* Proofs about DeadNonceList, for every setting and hash function.        *)
(*                                                                         *)
(* RecentFound is not inductive: that an entry is in the queue does not    *)
(* say that it is far enough from the front to survive the next eviction.  *)
(* IInv says where the recent entries are: they are the end of the queue.  *)
(***************************************************************************)
EXTENDS DeadNonceList, TLAPS

\* The entries of r are the last ones of q.
EndsWith(q, r) ==
  /\ Len(r) <= Len(q)
  /\ \A i \in 1 .. Len(r) : r[i] = q[Len(q) - Len(r) + i]

IInv ==
  /\ setting \in Settings
  /\ queue \in Seq(Nat) /\ recent \in Seq(Nat)
  /\ SizeBounded
  /\ Len(recent) <= MinCapacity /\ EndsWith(queue, recent)

\* The sizes of a setting.
LEMMA Sizes ==
  ASSUME setting \in Settings
  PROVE  /\ MinCapacity \in Nat /\ MaxCapacity \in Nat /\ InitialCapacity \in MinCapacity .. MaxCapacity
         /\ ExpectedMarkCount \in Nat \ {0} /\ ExpectedMarkCount <= MinCapacity
         /\ EvictLimit \in Nat /\ ExpectedMarkCount <= EvictLimit
BY CapacityAssumption DEF MinCapacity, MaxCapacity, InitialCapacity, ExpectedMarkCount, EvictLimit

\* What evictEntries leaves: the end of the queue, no shorter than the capacity
\* unless it was, and shorter by EvictLimit if that does not reach it.
LEMMA EvictEntriesLeaves ==
  ASSUME setting \in Settings, NEW q \in Seq(Nat), NEW c \in Nat
  PROVE  /\ EvictEntries(q, c) \in Seq(Nat)
         /\ Len(EvictEntries(q, c)) <= Len(q)
         /\ Len(EvictEntries(q, c)) < c => EvictEntries(q, c) = q
         /\ \/ Len(EvictEntries(q, c)) <= c
            \/ Len(EvictEntries(q, c)) = Len(q) - EvictLimit
         /\ EndsWith(q, EvictEntries(q, c))
<1> DEFINE n == IF Len(q) - c < EvictLimit THEN Len(q) - c ELSE EvictLimit
<1>1. n \in Int /\ n <= Len(q) - c /\ n <= EvictLimit /\ (n = Len(q) - c \/ n = EvictLimit)
  BY Sizes
<1>2. EvictEntries(q, c) = IF n <= 0 THEN q ELSE SubSeq(q, n + 1, Len(q))
  BY DEF EvictEntries
<1>3. EvictLimit > 0
  BY Sizes
<1> HIDE DEF n
<1>4. CASE n <= 0
  <2>1. EvictEntries(q, c) = q /\ Len(q) <= c
    BY <1>1, <1>2, <1>3, <1>4, Sizes
  <2> QED BY <2>1 DEF EndsWith
<1>5. CASE n > 0
  <2> DEFINE r == SubSeq(q, n + 1, Len(q))
  <2>1. r \in Seq(Nat) /\ Len(r) = Len(q) - n /\ \A i \in 1 .. Len(r) : r[i] = q[n + i]
    BY <1>1, <1>5
  <2>2. EvictEntries(q, c) = r
    BY <1>1, <1>2, <1>5
  <2> HIDE DEF r
  <2>3. EndsWith(q, r)
    BY <1>1, <1>5, <2>1 DEF EndsWith
  <2>4. Len(r) <= Len(q) /\ ~(Len(r) < c) /\ (Len(r) <= c \/ Len(r) = Len(q) - EvictLimit)
    <3>1. Len(q) \in Nat /\ EvictLimit \in Nat /\ Len(r) = Len(q) - n
      BY <2>1, Sizes
    <3>2. Len(r) <= Len(q) /\ Len(r) >= c
      BY <1>1, <1>5, <3>1
    <3>3. CASE n = Len(q) - c
      BY <3>1, <3>2, <3>3
    <3>4. CASE n = EvictLimit
      BY <3>1, <3>2, <3>4
    <3> QED BY <1>1, <3>3, <3>4
  <2> QED BY <2>1, <2>2, <2>3, <2>4
<1> QED BY <1>1, <1>4, <1>5

\* Being the end of the queue survives an eviction that leaves enough.
LEMMA EvictionKeepsEnd ==
  ASSUME setting \in Settings, NEW q \in Seq(Nat), NEW c \in Nat,
         NEW r \in Seq(Nat), EndsWith(q, r), Len(r) <= c
  PROVE  EndsWith(EvictEntries(q, c), r)
<1> DEFINE p == EvictEntries(q, c)
<1>1. /\ p \in Seq(Nat) /\ Len(p) <= Len(q) /\ (Len(p) < c => p = q) /\ EndsWith(q, p)
  BY EvictEntriesLeaves
<1> HIDE DEF p
<1>2. CASE Len(p) < c
  BY <1>1, <1>2 DEF p
<1>3. CASE Len(p) >= c
  <2>1. Len(r) <= Len(p)
    BY <1>1, <1>3
  <2>2. \A i \in 1 .. Len(r) : r[i] = p[Len(p) - Len(r) + i]
    <3> TAKE i \in 1 .. Len(r)
    <3>1. Len(p) - Len(r) + i \in 1 .. Len(p)
      BY <1>1, <2>1
    <3>2. p[Len(p) - Len(r) + i] = q[Len(q) - Len(p) + (Len(p) - Len(r) + i)]
      BY <1>1, <3>1 DEF EndsWith
    <3>3. Len(q) - Len(p) + (Len(p) - Len(r) + i) = Len(q) - Len(r) + i
      BY <1>1
    <3> QED BY ZenonT(30), <3>2, <3>3 DEF EndsWith
  <2> QED BY <2>1, <2>2 DEF EndsWith, p
<1> QED BY <1>1, <1>2, <1>3

\* A push: the new entry is the last of the queue and of the recent ones, and
\* the oldest of the recent ones is forgotten once there are MinCapacity.
LEMMA PushKeepsEnd ==
  ASSUME IInv, NEW e \in Nat, Remember(e)
  PROVE  /\ recent' \in Seq(Nat) /\ Len(recent') <= MinCapacity
         /\ EndsWith(Append(queue, e), recent')
<1>0. /\ MinCapacity \in Nat /\ MaxCapacity \in Nat /\ InitialCapacity \in MinCapacity .. MaxCapacity
      /\ ExpectedMarkCount \in Nat \ {0} /\ ExpectedMarkCount <= MinCapacity
      /\ EvictLimit \in Nat /\ ExpectedMarkCount <= EvictLimit
  BY Sizes DEF IInv
<1> USE <1>0
<1>1. queue \in Seq(Nat) /\ recent \in Seq(Nat) /\ Len(recent) <= MinCapacity
      /\ EndsWith(queue, recent) /\ MinCapacity > 0
  BY DEF IInv
<1> DEFINE q == Append(queue, e)
<1>2. /\ q \in Seq(Nat) /\ Len(q) = Len(queue) + 1 /\ q[Len(q)] = e
      /\ \A i \in 1 .. Len(queue) : q[i] = queue[i]
  BY <1>1
<1> HIDE DEF q
<1>3. ASSUME NEW s \in Seq(Nat), EndsWith(queue, s), Len(s) < MinCapacity, recent' = Append(s, e)
      PROVE  recent' \in Seq(Nat) /\ Len(recent') <= MinCapacity /\ EndsWith(q, recent')
  <2>1. /\ recent' \in Seq(Nat) /\ Len(recent') = Len(s) + 1 /\ recent'[Len(s) + 1] = e
        /\ \A i \in 1 .. Len(s) : recent'[i] = s[i]
    BY <1>3
  <2>2. Len(recent') <= Len(q)
    BY <1>1, <1>2, <1>3, <2>1 DEF EndsWith
  <2>3. ASSUME NEW i \in 1 .. Len(recent') PROVE recent'[i] = q[Len(q) - Len(recent') + i]
    <3>1. CASE i = Len(s) + 1
      <4>1. Len(q) - Len(recent') + i = Len(q)
        BY <1>1, <1>2, <1>3, <2>1, <3>1
      <4> QED BY <1>2, <2>1, <3>1, <4>1
    <3>2. CASE i \in 1 .. Len(s)
      <4>1. Len(q) - Len(recent') + i = Len(queue) - Len(s) + i
        BY <1>1, <1>2, <1>3, <2>1
      <4>2. Len(queue) - Len(s) + i \in 1 .. Len(queue)
        BY <1>1, <1>3, <3>2 DEF EndsWith
      <4>3. s[i] = queue[Len(queue) - Len(s) + i]
        BY <1>3, <3>2 DEF EndsWith
      <4> QED BY ZenonT(30), <1>2, <2>1, <3>2, <4>1, <4>2, <4>3
    <3> QED BY <1>3, <2>1, <2>3, <3>1, <3>2
  <2> QED BY <1>3, <2>1, <2>2, <2>3 DEF EndsWith
<1>4. CASE Len(recent) < MinCapacity
  <2>1. recent' = Append(recent, e)
    BY <1>4 DEF Remember
  <2> QED BY <1>1, <1>3, <1>4, <2>1 DEF q
<1>5. CASE Len(recent) >= MinCapacity
  <2> DEFINE t == Tail(recent)
  <2>1. recent' = Append(t, e)
    BY <1>5 DEF Remember
  <2>2. /\ t \in Seq(Nat) /\ Len(t) = Len(recent) - 1
        /\ \A i \in 1 .. (Len(recent) - 1) : t[i] = recent[i + 1]
    BY <1>1, <1>5
  <2> HIDE DEF t
  <2>3. ASSUME NEW i \in 1 .. Len(t) PROVE t[i] = queue[Len(queue) - Len(t) + i]
    <3>1. i + 1 \in 1 .. Len(recent)
          /\ Len(queue) - Len(recent) + (i + 1) = Len(queue) - Len(t) + i
      BY <1>1, <2>2
    <3>2. recent[i + 1] = queue[Len(queue) - Len(recent) + (i + 1)]
      BY <1>1, <3>1 DEF EndsWith
    <3> QED BY ZenonT(30), <2>2, <3>1, <3>2
  <2>4. EndsWith(queue, t) /\ Len(t) < MinCapacity
    BY <1>1, <2>2, <2>3 DEF EndsWith
  <2> QED BY <1>3, <2>1, <2>2, <2>4 DEF q
<1> QED BY <1>1, <1>4, <1>5

\* adjustCapacity keeps the capacity between its limits.
LEMMA AdjustedWithinLimits ==
  ASSUME setting \in Settings, capacity \in MinCapacity .. MaxCapacity
  PROVE  Adjusted(capacity) \in MinCapacity .. MaxCapacity
<1>0. /\ MinCapacity \in Nat /\ MaxCapacity \in Nat /\ InitialCapacity \in MinCapacity .. MaxCapacity
      /\ ExpectedMarkCount \in Nat \ {0} /\ ExpectedMarkCount <= MinCapacity
      /\ EvictLimit \in Nat /\ ExpectedMarkCount <= EvictLimit
  BY Sizes
<1> USE <1>0
<1>1. Up(capacity) \in MinCapacity .. MaxCapacity
  <2>1. (capacity * 12) \div 10 \in Nat /\ (capacity * 12) \div 10 >= capacity
    OBVIOUS
  <2> QED BY <2>1 DEF Up
<1>2. Down(capacity) \in MinCapacity .. MaxCapacity
  <2>1. (capacity * 9) \div 10 \in Nat /\ (capacity * 9) \div 10 <= capacity
    OBVIOUS
  <2> QED BY <2>1 DEF Down
<1> QED BY <1>1, <1>2 DEF Adjusted

\* IInv is inductive: one case per operation of the list.
LEMMA NextKeepsIInv == IInv /\ [Next]_vars => IInv'
<1> SUFFICES ASSUME IInv, [Next]_vars PROVE IInv'
  OBVIOUS
<1>a. setting \in Settings
  BY DEF IInv
<1>0. /\ MinCapacity \in Nat /\ MaxCapacity \in Nat /\ InitialCapacity \in MinCapacity .. MaxCapacity
      /\ ExpectedMarkCount \in Nat \ {0} /\ ExpectedMarkCount <= MinCapacity
      /\ EvictLimit \in Nat /\ ExpectedMarkCount <= EvictLimit
  BY <1>a, Sizes
<1>b. /\ setting' = setting /\ MinCapacity' = MinCapacity /\ MaxCapacity' = MaxCapacity
      /\ ExpectedMarkCount' = ExpectedMarkCount
  <2>1. setting' = setting
    BY DEF Next, Add, Mark, AdjustCapacity, vars
  <2> QED BY <2>1 DEF MinCapacity, MaxCapacity, ExpectedMarkCount
<1> USE <1>0, <1>a, <1>b
<1>1. /\ queue \in Seq(Nat) /\ recent \in Seq(Nat) /\ Len(recent) <= MinCapacity
      /\ EndsWith(queue, recent) /\ capacity \in MinCapacity .. MaxCapacity
      /\ nMarks \in 0 .. ExpectedMarkCount /\ Len(queue) <= MaxCapacity + nMarks
  BY DEF IInv, SizeBounded
<1>2. ASSUME NEW x \in Dead, Add(x) PROVE IInv'
  <2> DEFINE q == Append(queue, MakeEntry[x])
  <2>1. MakeEntry[x] \in Nat
    BY EntryAssumption
  <2>2. q \in Seq(Nat) /\ Len(q) = Len(queue) + 1
    BY <1>1, <2>1
  <2>3. recent' \in Seq(Nat) /\ Len(recent') <= MinCapacity /\ EndsWith(q, recent')
    BY <1>2, <2>1, PushKeepsEnd DEF Add
  <2>4. queue' = EvictEntries(q, capacity) /\ capacity' = capacity /\ nMarks' = nMarks
    BY <1>2 DEF Add
  <2> HIDE DEF q
  <2>5. EndsWith(queue', recent')
    BY <1>1, <2>2, <2>3, <2>4, EvictionKeepsEnd
  <2>6. queue' \in Seq(Nat) /\ (Len(queue') <= capacity \/ Len(queue') = Len(q) - EvictLimit)
    <3>1. capacity \in Nat
      BY <1>1
    <3> QED BY ZenonT(30), <2>2, <2>4, <3>1, EvictEntriesLeaves
  <2> QED BY SMTT(30), <1>1, <2>2, <2>3, <2>4, <2>5, <2>6 DEF IInv, SizeBounded
<1>3. CASE Mark
  <2>1. recent' \in Seq(Nat) /\ Len(recent') <= MinCapacity /\ EndsWith(Append(queue, MARK), recent')
    BY <1>3, PushKeepsEnd DEF Mark, MARK
  <2>2. /\ queue' = Append(queue, MARK) /\ capacity' = capacity
        /\ nMarks < ExpectedMarkCount /\ nMarks' = nMarks + 1
    BY <1>3 DEF Mark
  <2>3. queue' \in Seq(Nat) /\ Len(queue') = Len(queue) + 1
    BY <1>1, <2>2 DEF MARK
  <2> QED BY <1>1, <2>1, <2>2, <2>3 DEF IInv, SizeBounded
<1>4. CASE AdjustCapacity
  <2>1. capacity' \in MinCapacity .. MaxCapacity
    BY <1>1, <1>4, AdjustedWithinLimits DEF AdjustCapacity
  <2>2. queue' = EvictEntries(queue, capacity') /\ nMarks' = 0 /\ recent' = recent
    BY <1>4 DEF AdjustCapacity
  <2>3. EndsWith(queue', recent')
    BY <1>1, <2>1, <2>2, EvictionKeepsEnd
  <2>4. queue' \in Seq(Nat) /\ (Len(queue') <= capacity' \/ Len(queue') = Len(queue) - EvictLimit)
    <3>1. capacity' \in Nat
      BY <2>1
    <3> QED BY <1>1, <2>2, <3>1, EvictEntriesLeaves
  <2> QED BY <1>1, <2>1, <2>2, <2>3, <2>4 DEF IInv, SizeBounded
<1>5. CASE UNCHANGED vars
  BY <1>5 DEF vars, IInv, SizeBounded, EndsWith
<1>6. setting.dead \subseteq Dead
  BY <1>a, CapacityAssumption
<1> QED BY <1>2, <1>3, <1>4, <1>5, <1>6 DEF Next

\* The list starts with ExpectedMarkCount MARKs.
LEMMA InitIInv == Init => IInv
<1> SUFFICES ASSUME Init PROVE IInv
  OBVIOUS
<1>a. setting \in Settings
  BY DEF Init
<1>0. /\ MinCapacity \in Nat /\ MaxCapacity \in Nat /\ InitialCapacity \in MinCapacity .. MaxCapacity
      /\ ExpectedMarkCount \in Nat \ {0} /\ ExpectedMarkCount <= MinCapacity
      /\ EvictLimit \in Nat /\ ExpectedMarkCount <= EvictLimit
  BY <1>a, Sizes
<1> USE <1>0, <1>a
<1>1. queue \in Seq(Nat) /\ Len(queue) = ExpectedMarkCount
  BY DEF Init, MARK
<1>2. recent = queue /\ capacity = InitialCapacity /\ nMarks = 0
  BY DEF Init
<1> QED BY <1>1, <1>2 DEF IInv, SizeBounded, EndsWith

\* The capacity stays within its limits and the queue within MAX_CAPACITY and
\* the marks since the last adjustment, whatever the load and the timers do.
THEOREM SizeIsBounded == Spec => []SizeBounded
<1>1. IInv => SizeBounded
  BY DEF IInv
<1> QED BY <1>1, InitIInv, NextKeepsIInv, PTL DEF Spec

\* A dead Nonce is found until MIN_CAPACITY later entries have been pushed.
THEOREM RecentIsFound == Spec => []RecentFound
<1>1. IInv => RecentFound
  <2> SUFFICES ASSUME IInv, NEW x \in Dead, NEW i \in DOMAIN recent, recent[i] = MakeEntry[x]
               PROVE  Has(x)
    BY DEF RecentFound
  <2>1. queue \in Seq(Nat) /\ recent \in Seq(Nat) /\ EndsWith(queue, recent)
    BY DEF IInv
  <2>2. i \in 1 .. Len(recent) /\ Len(queue) - Len(recent) + i \in DOMAIN queue
    BY <2>1 DEF EndsWith
  <2> QED BY <2>1, <2>2 DEF EndsWith, Has
<1> QED BY <1>1, InitIInv, NextKeepsIInv, PTL DEF Spec
=============================================================================
