--------------------------- MODULE NameTreeProofs ---------------------------
(***************************************************************************)
(* What the operations of the name tree do, for every hash function, every *)
(* set of names closed under prefixes and every minimal size.              *)
(*                                                                         *)
(* IsTree says what every operation keeps: the nodes are closed under      *)
(* prefixes and point to their longest proper prefixes, each is in the one *)
(* chain where it is searched, once, and the load of the hash table is     *)
(* within its thresholds.  In such a tree a search by hash and one along   *)
(* the parents find the same node, the longest prefix (Longest), and the   *)
(* enumeration of a subtree finds every node below (Covered).              *)
(*                                                                         *)
(* The loops are recursive functions.  That they are defined, and what     *)
(* they compute, is shown by induction over their rounds (LoopExists,      *)
(* Rounds).                                                                *)
(***************************************************************************)
EXTENDS NameTree, FiniteSetTheorems, WellFoundedInduction, TLAPS

----------------------------------------------------------------------------
(* Induction over numbers                                                  *)

\* A nonempty set of natural numbers has a least element.
LEMMA LeastNumber ==
  ASSUME NEW S \in SUBSET Nat, S # {}
  PROVE  \E m \in S : \A x \in S : m <= x
<1>1. PICK m \in S : \A x \in S : ~(<<x, m>> \in OpToRel(<, Nat))
  BY ZenonT(30), NatLessThanWellFounded, WFMin
<1>2. \A x \in S : ~(x < m)
  BY ZenonT(30), <1>1 DEF OpToRel
<1> QED BY <1>2

\* What holds before a loop and is kept by its rounds holds after each.
LEMMA Rounds ==
  ASSUME NEW n \in Nat, NEW S, 0 \in S, \A i \in 1 .. n : i - 1 \in S => i \in S
  PROVE  \A i \in 0 .. n : i \in S
<1> DEFINE T == {i \in 0 .. n : i \notin S}
<1>1. T = {}
  <2> SUFFICES ASSUME T # {} PROVE FALSE
    OBVIOUS
  <2>1. T \in SUBSET Nat
    OBVIOUS
  <2> HIDE DEF T
  <2>2. PICK m \in T : \A x \in T : m <= x
    BY <2>1, LeastNumber
  <2> USE DEF T
  <2>3. m \in 1 .. n /\ m \notin S /\ m - 1 \in 0 .. n /\ m - 1 \notin T
    BY <2>2
  <2> QED BY <2>3
<1> QED BY <1>1

----------------------------------------------------------------------------
(* Names                                                                   *)

\* A name is a sequence.
LEMMA NameIsSeq ==
  ASSUME NEW n \in Name
  PROVE  n \in Seq(Nat) /\ Len(n) \in Nat /\ n # None /\ Hash(n) \in Nat
BY NameAssumption

\* The prefixes of a sequence.
LEMMA PrefixOfSeq ==
  ASSUME NEW n \in Seq(Nat), NEW i \in 0 .. Len(n)
  PROVE  /\ Prefix(n, i) \in Seq(Nat) /\ Len(Prefix(n, i)) = i
         /\ \A j \in 1 .. i : Prefix(n, i)[j] = n[j]
BY DEF Prefix

\* Sequences of equal length and members are equal.
LEMMA SeqEqual ==
  ASSUME NEW m \in Seq(Nat), NEW n \in Seq(Nat), Len(m) = Len(n), \A i \in 1 .. Len(n) : m[i] = n[i]
  PROVE  m = n
OBVIOUS

\* The prefixes of a prefix.
LEMMA PrefixOfPrefix ==
  ASSUME NEW n \in Seq(Nat), NEW i \in 0 .. Len(n)
  PROVE  /\ Prefix(n, 0) = << >> /\ Prefix(n, Len(n)) = n
         /\ \A j \in 0 .. i : Prefix(Prefix(n, i), j) = Prefix(n, j)
         /\ i > 0 => GetPrefix(Prefix(n, i)) = Prefix(n, i - 1)
<1>1. Prefix(n, 0) = << >> /\ Prefix(n, Len(n)) = n
  BY DEF Prefix
<1> DEFINE p == Prefix(n, i)
<1>2. p \in Seq(Nat) /\ Len(p) = i /\ \A j \in 1 .. i : p[j] = n[j]
  BY PrefixOfSeq
<1> HIDE DEF p
<1>3. ASSUME NEW j \in 0 .. i PROVE Prefix(p, j) = Prefix(n, j)
  <2>1. /\ Prefix(p, j) \in Seq(Nat) /\ Len(Prefix(p, j)) = j
        /\ \A k \in 1 .. j : Prefix(p, j)[k] = p[k]
    BY SMTT(30), <1>2, PrefixOfSeq
  <2>2. j \in 0 .. Len(n)
    OBVIOUS
  <2>3. /\ Prefix(n, j) \in Seq(Nat) /\ Len(Prefix(n, j)) = j
        /\ \A k \in 1 .. j : Prefix(n, j)[k] = n[k]
    BY <2>2, PrefixOfSeq
  <2>4. ASSUME NEW k \in 1 .. j PROVE Prefix(p, j)[k] = Prefix(n, j)[k]
    <3>1. k \in 1 .. i
      OBVIOUS
    <3> QED BY ZenonT(30), <1>2, <2>1, <2>3, <3>1
  <2> QED BY <2>1, <2>3, <2>4, SeqEqual
<1>4. i > 0 => GetPrefix(p) = Prefix(p, i - 1) /\ i - 1 \in 0 .. i
  BY <1>2 DEF GetPrefix, Prefix
<1> QED BY <1>1, <1>3, <1>4 DEF p

\* The prefixes of a name are names.
LEMMA PrefixOfName ==
  ASSUME NEW n \in Name, NEW i \in 0 .. Len(n)
  PROVE  Prefix(n, i) \in Name
<1> DEFINE S == {k \in 0 .. Len(n) : Prefix(n, Len(n) - k) \in Name}
<1>1. n \in Seq(Nat) /\ Len(n) \in Nat
  BY NameIsSeq
<1>2. 0 \in S
  BY <1>1, PrefixOfPrefix
<1>3. ASSUME NEW k \in 1 .. Len(n), k - 1 \in S PROVE k \in S
  <2> DEFINE j == Len(n) - (k - 1)
  <2>1. j \in 1 .. Len(n) /\ j - 1 = Len(n) - k /\ Prefix(n, j) \in Name
    BY <1>1, <1>3
  <2> HIDE DEF j
  <2>2. GetPrefix(Prefix(n, j)) = Prefix(n, j - 1) /\ Len(Prefix(n, j)) = j
    BY <1>1, <2>1, PrefixOfPrefix, PrefixOfSeq
  <2>3. Prefix(n, j) # << >>
    BY <2>1, <2>2
  <2>4. Prefix(n, j - 1) \in Name
    BY <2>1, <2>2, <2>3, NameAssumption
  <2> QED BY <1>3, <2>1, <2>4
<1> HIDE DEF S
<1>4. \A k \in 0 .. Len(n) : k \in S
  BY ZenonT(30), <1>1, <1>2, <1>3, Rounds
<1>5. Len(n) - i \in 0 .. Len(n) /\ Len(n) - (Len(n) - i) = i
  BY <1>1
<1> QED BY <1>4, <1>5 DEF S

----------------------------------------------------------------------------
(* The loops.  A round of each is described by a record, so that one       *)
(* induction serves them all.                                              *)

Round(loop, x, i) ==
  IF loop.kind = "attach" THEN Attach(x, loop.chain[i])
  ELSE IF loop.kind = "rehash" THEN AttachAll(x, loop.old[i])
  ELSE IF loop.kind = "lookup" THEN WithNode(x, Prefix(loop.name, i - 1))
  ELSE IF loop.kind = "erase" THEN EraseEntry(x, loop.used)
  ELSE IF loop.kind = "up" THEN NextUp(loop.tree, loop.selected, x)
  ELSE IF loop.kind = "below" THEN x \cup Below(loop.tree, loop.rejected, x)
  ELSE IF loop.kind = "clean" THEN EraseNext(x, loop.used)
  ELSE LookupNext(x)

IsLoop(f, n, e, loop) == f = [i \in 0 .. n |-> IF i = 0 THEN e ELSE Round(loop, f[i - 1], i)]

\* A loop of any number of rounds has a value.
LEMMA LoopExists ==
  ASSUME NEW e, NEW loop, NEW n \in Nat
  PROVE  \E f : IsLoop(f, n, e, loop)
<1> DEFINE Exists(m) == \E f : IsLoop(f, m, e, loop)
           S == {m \in 0 .. n : Exists(m)}
<1>1. Exists(0)
  <2> DEFINE f == [i \in 0 .. 0 |-> e]
  <2>1. IsLoop(f, 0, e, loop)
    BY DEF IsLoop
  <2> QED BY <2>1
<1>2. ASSUME NEW m \in Nat, Exists(m) PROVE Exists(m + 1)
  <2>1. PICK g : IsLoop(g, m, e, loop)
    BY <1>2
  <2> DEFINE f == [i \in 0 .. (m + 1) |-> IF i = m + 1 THEN Round(loop, g[m], m + 1) ELSE g[i]]
  <2>2. \A i \in 0 .. m : f[i] = g[i] /\ g[i] = IF i = 0 THEN e ELSE Round(loop, g[i - 1], i)
    BY <2>1 DEF IsLoop
  <2>3. f[m + 1] = Round(loop, f[m], m + 1) /\ f[0] = e /\ f = [i \in 0 .. (m + 1) |-> f[i]]
    BY <2>2
  <2> HIDE DEF f
  <2>4. \A i \in 1 .. m : f[i] = Round(loop, f[i - 1], i)
    BY <2>2
  <2>5. ASSUME NEW i \in 0 .. (m + 1) PROVE f[i] = IF i = 0 THEN e ELSE Round(loop, f[i - 1], i)
    <3>1. CASE i = 0
      BY <2>3, <3>1
    <3>2. CASE i \in 1 .. m
      BY <2>4, <3>2
    <3>3. CASE i = m + 1
      BY <2>3, <3>3
    <3> QED BY <3>1, <3>2, <3>3
  <2>6. IsLoop(f, m + 1, e, loop)
    BY ZenonT(30), <2>3, <2>5 DEF IsLoop
  <2> QED BY <2>6
<1> HIDE DEF Exists
<1>3. 0 \in S
  BY <1>1
<1>4. ASSUME NEW i \in 1 .. n, i - 1 \in S PROVE i \in S
  <2>1. i - 1 \in Nat /\ Exists(i - 1) /\ (i - 1) + 1 = i
    BY <1>4
  <2>2. Exists((i - 1) + 1)
    BY <1>2, <2>1
  <2> QED BY <2>1, <2>2
<1> HIDE DEF S
<1>5. \A i \in 0 .. n : i \in S
  BY <1>3, <1>4, Rounds
<1>6. n \in S
  BY <1>5
<1> QED BY <1>6 DEF S, Exists

\* AttachAll as a loop.
LEMMA AttachAllUnfolds ==
  ASSUME NEW buckets, NEW chain, Len(chain) \in Nat
  PROVE  \E f : /\ f[0] = buckets
                /\ \A i \in 1 .. Len(chain) : f[i] = Attach(f[i - 1], chain[i])
                /\ AttachAll(buckets, chain) = f[Len(chain)]
<1> DEFINE n == Len(chain)
           e == buckets
           loop == [kind |-> "attach", chain |-> chain]
           Is(g) == g = [i \in 0 .. n |-> IF i = 0 THEN e ELSE Attach(g[i - 1], chain[i])]
           f == CHOOSE g : Is(g)
<1>1. n \in Nat /\ AttachAll(buckets, chain) = f[n]
  BY DEF AttachAll
<1>2. \A x, i : Round(loop, x, i) = Attach(x, chain[i])
  BY DEF Round
<1> HIDE DEF loop, n, e
<1>3. \A g : Is(g) <=> IsLoop(g, n, e, loop)
  BY <1>2 DEF IsLoop
<1> HIDE DEF Is
<1>4. IsLoop(f, n, e, loop)
  BY <1>1, <1>3, LoopExists
<1> HIDE DEF f
<1>5. f[0] = e /\ \A i \in 1 .. n : f[i] = Round(loop, f[i - 1], i)
  BY <1>1, <1>4 DEF IsLoop
<1> QED BY <1>1, <1>2, <1>5 DEF n, e

\* Rehashed as a loop.
LEMMA RehashedUnfolds ==
  ASSUME NEW old, NEW nBuckets, Len(old) \in Nat
  PROVE  \E f : /\ f[0] = NoChains(nBuckets)
                /\ \A i \in 1 .. Len(old) : f[i] = AttachAll(f[i - 1], old[i])
                /\ Rehashed(old, nBuckets) = f[Len(old)]
<1> DEFINE n == Len(old)
           e == NoChains(nBuckets)
           loop == [kind |-> "rehash", old |-> old]
           Is(g) == g = [i \in 0 .. n |-> IF i = 0 THEN e ELSE AttachAll(g[i - 1], old[i])]
           f == CHOOSE g : Is(g)
<1>1. n \in Nat /\ Rehashed(old, nBuckets) = f[n]
  BY DEF Rehashed
<1>2. \A x, i : Round(loop, x, i) = AttachAll(x, old[i])
  BY DEF Round
<1> HIDE DEF loop, n, e
<1>3. \A g : Is(g) <=> IsLoop(g, n, e, loop)
  BY <1>2 DEF IsLoop
<1> HIDE DEF Is
<1>4. IsLoop(f, n, e, loop)
  BY <1>1, <1>3, LoopExists
<1> HIDE DEF f
<1>5. f[0] = e /\ \A i \in 1 .. n : f[i] = Round(loop, f[i - 1], i)
  BY <1>1, <1>4 DEF IsLoop
<1> QED BY <1>1, <1>2, <1>5 DEF n, e

\* Lookup as a loop.
LEMMA LookupUnfolds ==
  ASSUME NEW t, NEW name, Len(name) \in Nat
  PROVE  \E f : /\ f[0] = t
                /\ \A i \in 1 .. (Len(name) + 1) : f[i] = WithNode(f[i - 1], Prefix(name, i - 1))
                /\ Lookup(t, name) = f[Len(name) + 1]
<1> DEFINE n == Len(name) + 1
           e == t
           loop == [kind |-> "lookup", name |-> name]
           Is(g) == g = [i \in 0 .. n |-> IF i = 0 THEN e ELSE WithNode(g[i - 1], Prefix(name, i - 1))]
           f == CHOOSE g : Is(g)
<1>1. n \in Nat /\ Lookup(t, name) = f[n]
  BY DEF Lookup
<1>2. \A x, i : Round(loop, x, i) = WithNode(x, Prefix(name, i - 1))
  BY DEF Round
<1> HIDE DEF loop, n, e
<1>3. \A g : Is(g) <=> IsLoop(g, n, e, loop)
  BY <1>2 DEF IsLoop
<1> HIDE DEF Is
<1>4. IsLoop(f, n, e, loop)
  BY <1>1, <1>3, LoopExists
<1> HIDE DEF f
<1>5. f[0] = e /\ \A i \in 1 .. n : f[i] = Round(loop, f[i - 1], i)
  BY <1>1, <1>4 DEF IsLoop
<1> QED BY <1>1, <1>2, <1>5 DEF n, e

\* EraseIfEmpty as a loop.
LEMMA EraseIfEmptyUnfolds ==
  ASSUME NEW t, NEW used, NEW n, Len(n) \in Nat
  PROVE  \E f : /\ f[0] = [tree |-> t, entry |-> n]
                /\ \A i \in 1 .. (Len(n) + 1) : f[i] = EraseEntry(f[i - 1], used)
                /\ EraseIfEmpty(t, used, n) = f[Len(n) + 1].tree
<1> DEFINE k == Len(n) + 1
           e == [tree |-> t, entry |-> n]
           loop == [kind |-> "erase", used |-> used]
           Is(g) == g = [i \in 0 .. k |-> IF i = 0 THEN e ELSE EraseEntry(g[i - 1], used)]
           f == CHOOSE g : Is(g)
<1>1. k \in Nat /\ EraseIfEmpty(t, used, n) = f[k].tree
  BY DEF EraseIfEmpty
<1>2. \A x, i : Round(loop, x, i) = EraseEntry(x, used)
  BY DEF Round
<1> HIDE DEF loop, k, e
<1>3. \A g : Is(g) <=> IsLoop(g, k, e, loop)
  BY <1>2 DEF IsLoop
<1> HIDE DEF Is
<1>4. IsLoop(f, k, e, loop)
  BY <1>1, <1>3, LoopExists
<1> HIDE DEF f
<1>5. f[0] = e /\ \A i \in 1 .. k : f[i] = Round(loop, f[i - 1], i)
  BY <1>1, <1>4 DEF IsLoop
<1> QED BY <1>1, <1>2, <1>5 DEF k, e

UpFrom(f, t, selected, n) ==
  /\ f[0] = n /\ \A i \in 1 .. (Len(n) + 1) : f[i] = NextUp(t, selected, f[i - 1])
  /\ FindUp(t, selected, n) = {f[Len(n) + 1]} \ {None}

\* FindUp as a loop.
LEMMA FindUpUnfolds ==
  ASSUME NEW t, NEW selected, NEW n, Len(n) \in Nat
  PROVE  \E f : UpFrom(f, t, selected, n)
<1> DEFINE k == Len(n) + 1
           e == n
           loop == [kind |-> "up", tree |-> t, selected |-> selected]
           Is(g) == g = [i \in 0 .. k |-> IF i = 0 THEN e ELSE NextUp(t, selected, g[i - 1])]
           f == CHOOSE g : Is(g)
<1>1. k \in Nat /\ FindUp(t, selected, n) = {f[k]} \ {None}
  BY DEF FindUp
<1>2. \A x, i : Round(loop, x, i) = NextUp(t, selected, x)
  BY DEF Round
<1> HIDE DEF loop, k, e
<1>3. \A g : Is(g) <=> IsLoop(g, k, e, loop)
  BY <1>2 DEF IsLoop
<1> HIDE DEF Is
<1>4. IsLoop(f, k, e, loop)
  BY <1>1, <1>3, LoopExists
<1> HIDE DEF f
<1>5. f[0] = e /\ \A i \in 1 .. k : f[i] = Round(loop, f[i - 1], i)
  BY <1>1, <1>4 DEF IsLoop
<1> QED BY <1>1, <1>2, <1>5 DEF k, e, UpFrom

DownFrom(f, t, rejected, n, size) ==
  /\ f[0] = {n} /\ \A i \in 1 .. size : f[i] = f[i - 1] \cup Below(t, rejected, f[i - 1])
  /\ PartialEnumerate(t, rejected, n) = f[size]

\* PartialEnumerate as a loop.
LEMMA PartialEnumerateUnfolds ==
  ASSUME NEW t, NEW rejected, NEW n, Cardinality(Nodes(t)) \in Nat
  PROVE  \E f : DownFrom(f, t, rejected, n, Cardinality(Nodes(t)))
<1> DEFINE k == Cardinality(Nodes(t))
           e == {n}
           loop == [kind |-> "below", tree |-> t, rejected |-> rejected]
           Is(g) == g = [i \in 0 .. k |-> IF i = 0 THEN e ELSE g[i - 1] \cup Below(t, rejected, g[i - 1])]
           f == CHOOSE g : Is(g)
<1>1. k \in Nat /\ PartialEnumerate(t, rejected, n) = f[k]
  BY DEF PartialEnumerate
<1>2. \A x, i : Round(loop, x, i) = x \cup Below(t, rejected, x)
  BY DEF Round
<1> HIDE DEF loop, k, e
<1>3. \A g : Is(g) <=> IsLoop(g, k, e, loop)
  BY ZenonT(30), <1>2 DEF IsLoop
<1> HIDE DEF Is
<1>4. IsLoop(f, k, e, loop)
  BY <1>1, <1>3, LoopExists
<1> HIDE DEF f
<1>5. f[0] = e /\ \A i \in 1 .. k : f[i] = Round(loop, f[i - 1], i)
  BY <1>1, <1>4 DEF IsLoop
<1> QED BY <1>1, <1>2, <1>5 DEF k, e, DownFrom

\* EraseMaybeEmpty as a loop.
LEMMA EraseMaybeEmptyUnfolds ==
  ASSUME NEW t, NEW used, Cardinality(Nodes(t) \ used) \in Nat
  PROVE  \E f : /\ f[0] = [tree |-> t, rest |-> Nodes(t) \ used]
                /\ \A i \in 1 .. Cardinality(Nodes(t) \ used) : f[i] = EraseNext(f[i - 1], used)
                /\ EraseMaybeEmpty(t, used) = f[Cardinality(Nodes(t) \ used)].tree
<1> DEFINE n == Cardinality(Nodes(t) \ used)
           e == [tree |-> t, rest |-> Nodes(t) \ used]
           loop == [kind |-> "clean", used |-> used]
           Is(g) == g = [i \in 0 .. n |-> IF i = 0 THEN e ELSE EraseNext(g[i - 1], used)]
           f == CHOOSE g : Is(g)
<1>1. n \in Nat /\ EraseMaybeEmpty(t, used) = f[n].tree
  BY DEF EraseMaybeEmpty
<1>2. \A x, i : Round(loop, x, i) = EraseNext(x, used)
  BY DEF Round
<1> HIDE DEF loop, n, e
<1>3. \A g : Is(g) <=> IsLoop(g, n, e, loop)
  BY <1>2 DEF IsLoop
<1> HIDE DEF Is
<1>4. IsLoop(f, n, e, loop)
  BY <1>1, <1>3, LoopExists
<1> HIDE DEF f
<1>5. f[0] = e /\ \A i \in 1 .. n : f[i] = Round(loop, f[i - 1], i)
  BY <1>1, <1>4 DEF IsLoop
<1> QED BY ZenonT(30), <1>1, <1>2, <1>5 DEF n, e

\* TreeOf as a loop.
LEMMA TreeOfUnfolds ==
  ASSUME NEW names, Cardinality(names) \in Nat
  PROVE  \E f : /\ f[0] = [tree |-> Lookup(EmptyTree, << >>), rest |-> names]
                /\ \A i \in 1 .. Cardinality(names) : f[i] = LookupNext(f[i - 1])
                /\ TreeOf(names) = f[Cardinality(names)].tree
<1> DEFINE n == Cardinality(names)
           e == [tree |-> Lookup(EmptyTree, << >>), rest |-> names]
           loop == [kind |-> "initial"]
           Is(g) == g = [i \in 0 .. n |-> IF i = 0 THEN e ELSE LookupNext(g[i - 1])]
           f == CHOOSE g : Is(g)
<1>1. n \in Nat /\ TreeOf(names) = f[n].tree
  BY DEF TreeOf
<1>2. \A x, i : Round(loop, x, i) = LookupNext(x)
  BY DEF Round
<1> HIDE DEF loop, n, e
<1>3. \A g : Is(g) <=> IsLoop(g, n, e, loop)
  BY <1>2 DEF IsLoop
<1> HIDE DEF Is
<1>4. IsLoop(f, n, e, loop)
  BY <1>1, <1>3, LoopExists
<1> HIDE DEF f
<1>5. f[0] = e /\ \A i \in 1 .. n : f[i] = Round(loop, f[i - 1], i)
  BY <1>1, <1>4 DEF IsLoop
<1> QED BY <1>1, <1>2, <1>5 DEF n, e

----------------------------------------------------------------------------
(* The hash table                                                          *)

\* A chain with the nodes T, each once.
Linked(chain, T) ==
  /\ chain \in Seq(Name) /\ Range(chain) = T
  /\ \A i, j \in 1 .. Len(chain) : chain[i] = chain[j] => i = j

InBucket(S, nBuckets, j) == {n \in S : BucketOf(nBuckets, n) = j}

\* The nodes S, each in the chain where it is searched.
Spread(buckets, S) ==
  /\ buckets \in Seq(Seq(Name)) /\ Len(buckets) \in Nat \ {0}
  /\ \A j \in 1 .. Len(buckets) : Linked(buckets[j], InBucket(S, Len(buckets), j))

\* The hash of a name selects a bucket.
LEMMA BucketInRange ==
  ASSUME NEW k \in Nat \ {0}, NEW n \in Name
  PROVE  BucketOf(k, n) \in 1 .. k
<1>1. Hash(n) \in Nat
  BY NameIsSeq
<1>2. Hash(n) % k \in 0 .. (k - 1)
  BY <1>1
<1> QED BY <1>2 DEF BucketOf

\* A node joins a chain at its head.
LEMMA LinkedMore ==
  ASSUME NEW c, NEW T, Linked(c, T), NEW n \in Name, n \notin T
  PROVE  Linked(<<n>> \o c, T \cup {n})
<1> DEFINE d == <<n>> \o c
<1>1. c \in Seq(Name) /\ Range(c) = T /\ \A i, j \in 1 .. Len(c) : c[i] = c[j] => i = j
  BY DEF Linked
<1>2. d \in Seq(Name) /\ Len(d) = Len(c) + 1 /\ d[1] = n /\ \A i \in 2 .. (Len(c) + 1) : d[i] = c[i - 1]
  BY <1>1
<1> HIDE DEF d
<1>3. \A i \in 1 .. Len(c) : c[i] \in T /\ c[i] = d[i + 1]
  BY <1>1, <1>2 DEF Range
<1>4. Range(d) = T \cup {n}
  <2>1. DOMAIN d = 1 .. (Len(c) + 1) /\ DOMAIN c = 1 .. Len(c) /\ Len(c) \in Nat
    BY <1>1, <1>2
  <2>2. ASSUME NEW x \in Range(d) PROVE x \in T \cup {n}
    <3>1. PICK i \in 1 .. (Len(c) + 1) : x = d[i]
      BY <2>1 DEF Range
    <3>2. i = 1 \/ i - 1 \in 1 .. Len(c)
      BY <2>1, <3>1
    <3> QED BY <1>2, <1>3, <3>1, <3>2
  <2>3. ASSUME NEW x \in T PROVE x \in Range(d)
    <3>1. PICK i \in 1 .. Len(c) : x = c[i]
      BY <1>1, <2>1 DEF Range
    <3>2. i + 1 \in DOMAIN d /\ d[i + 1] = x
      BY <1>3, <2>1, <3>1
    <3> QED BY <3>2 DEF Range
  <2>4. n \in Range(d)
    BY <1>2, <2>1 DEF Range
  <2> QED BY <2>2, <2>3, <2>4
<1>5. ASSUME NEW i \in 1 .. Len(d), NEW j \in 1 .. Len(d), d[i] = d[j] PROVE i = j
  <2>1. (i = 1 \/ i - 1 \in 1 .. Len(c)) /\ (j = 1 \/ j - 1 \in 1 .. Len(c)) /\ Len(c) \in Nat
    BY <1>1, <1>2
  <2>2. i # 1 => d[i] = c[i - 1] /\ c[i - 1] \in T
    BY <1>2, <1>3, <2>1
  <2>3. j # 1 => d[j] = c[j - 1] /\ c[j - 1] \in T
    BY <1>2, <1>3, <2>1
  <2> QED BY <1>1, <1>2, <1>5, <2>1, <2>2, <2>3
<1> QED BY <1>2, <1>4, <1>5 DEF Linked, d

\* A node leaves a chain.
LEMMA LinkedLess ==
  ASSUME NEW c, NEW T, Linked(c, T), NEW n \in T
  PROVE  Linked(Unlinked(c, n), T \ {n})
<1> DEFINE a == CHOOSE i \in DOMAIN c : c[i] = n
           d == Unlinked(c, n)
<1>1. c \in Seq(Name) /\ Range(c) = T /\ \A i, j \in 1 .. Len(c) : c[i] = c[j] => i = j
  BY DEF Linked
<1>2. a \in 1 .. Len(c) /\ c[a] = n /\ Len(c) \in Nat /\ DOMAIN c = 1 .. Len(c)
  BY <1>1 DEF Range
<1>3. d = [k \in 1 .. (Len(c) - 1) |-> IF k < a THEN c[k] ELSE c[k + 1]]
  BY DEF Unlinked
<1> HIDE DEF a, d
<1>4. \A k \in 1 .. (Len(c) - 1) : d[k] \in Name /\ d[k] = IF k < a THEN c[k] ELSE c[k + 1]
  BY <1>1, <1>2, <1>3
<1>5. d \in Seq(Name) /\ Len(d) = Len(c) - 1 /\ DOMAIN d = 1 .. (Len(c) - 1)
  BY <1>2, <1>3, <1>4
<1>6. Range(d) = T \ {n}
  <2>1. ASSUME NEW x \in Range(d) PROVE x \in T \ {n}
    <3>1. PICK k \in 1 .. (Len(c) - 1) : x = d[k]
      BY <1>5 DEF Range
    <3>2. PICK i \in 1 .. Len(c) : x = c[i] /\ i # a
      BY <1>2, <1>4, <3>1
    <3> QED BY <1>1, <1>2, <3>2 DEF Range
  <2>2. ASSUME NEW x \in T \ {n} PROVE x \in Range(d)
    <3>1. PICK i \in 1 .. Len(c) : x = c[i] /\ i # a
      BY <1>1, <1>2 DEF Range
    <3>2. CASE i < a
      <4>1. i \in 1 .. (Len(c) - 1) /\ d[i] = x
        BY <1>2, <1>4, <3>1, <3>2
      <4> QED BY <1>5, <4>1 DEF Range
    <3>3. CASE i > a
      <4>1. i - 1 \in 1 .. (Len(c) - 1) /\ ~(i - 1 < a) /\ (i - 1) + 1 = i
        BY <1>2, <3>1, <3>3
      <4>2. d[i - 1] = x
        BY <1>4, <3>1, <4>1
      <4> QED BY <1>5, <4>1, <4>2 DEF Range
    <3> QED BY <1>2, <3>1, <3>2, <3>3
  <2> QED BY <2>1, <2>2
<1>7. \A i, j \in 1 .. Len(d) : d[i] = d[j] => i = j
  BY <1>1, <1>2, <1>4, <1>5
<1> QED BY <1>5, <1>6, <1>7 DEF Linked, d

\* What changes in one bucket.
LEMMA SpreadAgain ==
  ASSUME NEW b, NEW S, Spread(b, S), NEW T, NEW n \in Name, T \ {n} = S \ {n}, NEW c \in Seq(Name),
         Linked(c, InBucket(T, Len(b), BucketOf(Len(b), n)))
  PROVE  /\ Spread([b EXCEPT ![BucketOf(Len(b), n)] = c], T)
         /\ Len([b EXCEPT ![BucketOf(Len(b), n)] = c]) = Len(b)
<1> DEFINE k == BucketOf(Len(b), n)
           d == [b EXCEPT ![k] = c]
<1>1. b \in Seq(Seq(Name)) /\ Len(b) \in Nat \ {0} /\ k \in 1 .. Len(b)
  BY BucketInRange DEF Spread
<1>2. d \in Seq(Seq(Name)) /\ Len(d) = Len(b) /\ \A j \in 1 .. Len(b) : d[j] = IF j = k THEN c ELSE b[j]
  BY <1>1
<1>3. ASSUME NEW j \in 1 .. Len(b), j # k PROVE InBucket(T, Len(b), j) = InBucket(S, Len(b), j)
  BY <1>3 DEF InBucket
<1> HIDE DEF d
<1>4. \A j \in 1 .. Len(b) : Linked(b[j], InBucket(S, Len(b), j))
  BY DEF Spread
<1>5. \A j \in 1 .. Len(b) : Linked(d[j], InBucket(T, Len(b), j))
  BY ZenonT(30), <1>2, <1>3, <1>4
<1>6. Spread(d, T)
  BY <1>1, <1>2, <1>5 DEF Spread
<1> QED BY <1>2, <1>6 DEF d

\* The chain of a node.
LEMMA ChainOf ==
  ASSUME NEW b, NEW S, Spread(b, S), NEW n \in Name
  PROVE  /\ BucketOf(Len(b), n) \in 1 .. Len(b)
         /\ Linked(b[BucketOf(Len(b), n)], InBucket(S, Len(b), BucketOf(Len(b), n)))
         /\ n \in Range(b[BucketOf(Len(b), n)]) <=> n \in S
<1> DEFINE k == BucketOf(Len(b), n)
<1>1. k \in 1 .. Len(b)
  BY BucketInRange DEF Spread
<1>2. Linked(b[k], InBucket(S, Len(b), k))
  BY <1>1 DEF Spread
<1> QED BY <1>1, <1>2 DEF Linked, InBucket

\* attach keeps every node where it is searched.
LEMMA AttachSpread ==
  ASSUME NEW b, NEW S, Spread(b, S), NEW n \in Name, n \notin S
  PROVE  Spread(Attach(b, n), S \cup {n}) /\ Len(Attach(b, n)) = Len(b)
<1> DEFINE k == BucketOf(Len(b), n)
<1>1. k \in 1 .. Len(b) /\ Linked(b[k], InBucket(S, Len(b), k)) /\ n \notin InBucket(S, Len(b), k)
  BY ZenonT(30), ChainOf DEF InBucket
<1>2. Linked(<<n>> \o b[k], InBucket(S, Len(b), k) \cup {n})
  BY <1>1, LinkedMore
<1>3. InBucket(S, Len(b), k) \cup {n} = InBucket(S \cup {n}, Len(b), k)
  BY DEF InBucket
<1>4. <<n>> \o b[k] \in Seq(Name)
  BY <1>2 DEF Linked
<1>5. Attach(b, n) = [b EXCEPT ![k] = <<n>> \o b[k]]
  BY <1>1 DEF Attach
<1>6. (S \cup {n}) \ {n} = S \ {n} /\ Linked(<<n>> \o b[k], InBucket(S \cup {n}, Len(b), k))
  BY ZenonT(30), <1>2, <1>3
<1> DEFINE c == <<n>> \o b[k]
           T == S \cup {n}
<1> HIDE DEF c, T, k
<1>7. c \in Seq(Name) /\ T \ {n} = S \ {n} /\ Linked(c, InBucket(T, Len(b), k))
  BY <1>4, <1>6 DEF c, T
<1>8. Spread([b EXCEPT ![k] = c], T) /\ Len([b EXCEPT ![k] = c]) = Len(b)
  BY <1>7, SpreadAgain DEF k
<1> QED BY <1>5, <1>8 DEF c, T

\* detach keeps every other node where it is searched.
LEMMA DetachSpread ==
  ASSUME NEW b, NEW S, Spread(b, S), NEW n \in Name, n \in S
  PROVE  Spread(Detach(b, n), S \ {n}) /\ Len(Detach(b, n)) = Len(b)
<1> DEFINE k == BucketOf(Len(b), n)
           c == Unlinked(b[k], n)
           T == S \ {n}
<1>1. k \in 1 .. Len(b) /\ Linked(b[k], InBucket(S, Len(b), k)) /\ n \in InBucket(S, Len(b), k)
  BY ChainOf DEF InBucket
<1>2. Linked(c, InBucket(S, Len(b), k) \ {n})
  BY <1>1, LinkedLess
<1>3. InBucket(S, Len(b), k) \ {n} = InBucket(T, Len(b), k)
  BY DEF InBucket
<1>4. Detach(b, n) = [b EXCEPT ![k] = c]
  BY <1>1 DEF Detach
<1>5. T \ {n} = S \ {n}
  OBVIOUS
<1> HIDE DEF c, T, k
<1>6. c \in Seq(Name) /\ Linked(c, InBucket(T, Len(b), k))
  BY <1>2, <1>3 DEF Linked
<1>7. Spread([b EXCEPT ![k] = c], T) /\ Len([b EXCEPT ![k] = c]) = Len(b)
  BY <1>5, <1>6, SpreadAgain DEF k
<1> QED BY <1>4, <1>7 DEF T

\* All the nodes of a chain are attached.
LEMMA AttachAllSpread ==
  ASSUME NEW b, NEW S, Spread(b, S), NEW chain, NEW T, Linked(chain, T), S \cap T = {}
  PROVE  Spread(AttachAll(b, chain), S \cup T) /\ Len(AttachAll(b, chain)) = Len(b)
<1>1. /\ chain \in Seq(Name) /\ Range(chain) = T /\ Len(chain) \in Nat
      /\ \A i, j \in 1 .. Len(chain) : chain[i] = chain[j] => i = j
  BY DEF Linked
<1>2. PICK f : /\ f[0] = b
               /\ \A i \in 1 .. Len(chain) : f[i] = Attach(f[i - 1], chain[i])
               /\ AttachAll(b, chain) = f[Len(chain)]
  BY <1>1, AttachAllUnfolds
<1> DEFINE Upto(i) == S \cup {chain[j] : j \in 1 .. i}
           G == {i \in 0 .. Len(chain) : Spread(f[i], Upto(i)) /\ Len(f[i]) = Len(b)}
<1>3. 0 \in G
  <2>1. Upto(0) = S
    OBVIOUS
  <2> HIDE DEF Upto
  <2> QED BY <1>1, <1>2, <2>1
<1>4. ASSUME NEW i \in 1 .. Len(chain), i - 1 \in G PROVE i \in G
  <2>1. Upto(i) = Upto(i - 1) \cup {chain[i]}
    BY <1>1
  <2>2. chain[i] \in Name /\ chain[i] \in T
    BY <1>1 DEF Range
  <2>3. chain[i] \notin Upto(i - 1)
    BY <1>1, <2>2
  <2> DEFINE R == Upto(i - 1)
  <2>4. Spread(f[i - 1], R) /\ Len(f[i - 1]) = Len(b)
    BY <1>4
  <2> HIDE DEF R
  <2>5. Spread(Attach(f[i - 1], chain[i]), R \cup {chain[i]}) /\ Len(Attach(f[i - 1], chain[i])) = Len(b)
    BY ZenonT(30), <2>2, <2>3, <2>4, AttachSpread DEF R
  <2> HIDE DEF Upto
  <2>6. Spread(f[i], Upto(i)) /\ Len(f[i]) = Len(b)
    BY <1>2, <2>1, <2>5 DEF R
  <2> QED BY <1>1, <2>6
<1> HIDE DEF G
<1>5. \A i \in 0 .. Len(chain) : i \in G
  BY ZenonT(30), <1>1, <1>3, <1>4, Rounds
<1>6. Len(chain) \in G
  BY <1>1, <1>5
<1>7. Upto(Len(chain)) = S \cup T
  BY <1>1 DEF Range
<1> QED BY ZenonT(30), <1>2, <1>6, <1>7 DEF G

\* A table without nodes.
LEMMA NoChainsSpread ==
  ASSUME NEW k \in Nat \ {0}
  PROVE  Spread(NoChains(k), {}) /\ Len(NoChains(k)) = k
<1>1. NoChains(k) \in Seq(Seq(Name)) /\ Len(NoChains(k)) = k /\ \A j \in 1 .. k : NoChains(k)[j] = << >>
  BY DEF NoChains
<1>2. Linked(<< >>, {})
  BY DEF Linked, Range
<1>3. \A j : InBucket({}, k, j) = {}
  BY DEF InBucket
<1> QED BY ZenonT(30), <1>1, <1>2, <1>3 DEF Spread

\* resize keeps the nodes and puts each where it is searched.
THEOREM RehashedSpread ==
  ASSUME NEW old, NEW S \in SUBSET Name, Spread(old, S), NEW k \in Nat \ {0}
  PROVE  Spread(Rehashed(old, k), S) /\ Len(Rehashed(old, k)) = k
<1> DEFINE w == Len(old)
           Upto(i) == {n \in S : BucketOf(w, n) \in 1 .. i}
<1>1. old \in Seq(Seq(Name)) /\ w \in Nat \ {0} /\ \A j \in 1 .. w : Linked(old[j], InBucket(S, w, j))
  BY DEF Spread
<1>2. PICK f : /\ f[0] = NoChains(k)
               /\ \A i \in 1 .. w : f[i] = AttachAll(f[i - 1], old[i])
               /\ Rehashed(old, k) = f[w]
  BY <1>1, RehashedUnfolds
<1> DEFINE G == {i \in 0 .. w : Spread(f[i], Upto(i)) /\ Len(f[i]) = k}
<1> HIDE DEF w
<1>3. 0 \in G
  <2>1. Upto(0) = {}
    OBVIOUS
  <2> HIDE DEF Upto
  <2>2. Spread(f[0], Upto(0)) /\ Len(f[0]) = k
    BY ZenonT(30), <1>2, <2>1, NoChainsSpread
  <2> QED BY <1>1, <2>2
<1>4. ASSUME NEW i \in 1 .. w, i - 1 \in G PROVE i \in G
  <2> DEFINE T == InBucket(S, w, i)
             R == Upto(i - 1)
  <2>1. i - 1 \in 0 .. w /\ i \in 0 .. w
    BY <1>1
  <2>2. Upto(i) = R \cup T /\ R \cap T = {}
    <3>1. \A n \in S : BucketOf(w, n) \in 1 .. w
      BY <1>1, BucketInRange
    <3> QED BY <1>1, <3>1 DEF InBucket
  <2>3. Spread(f[i - 1], R) /\ Len(f[i - 1]) = k /\ Linked(old[i], T)
    BY <1>1, <1>4
  <2> HIDE DEF R, T, Upto
  <2>4. Spread(AttachAll(f[i - 1], old[i]), R \cup T) /\ Len(AttachAll(f[i - 1], old[i])) = k
    BY ZenonT(30), <2>2, <2>3, AttachAllSpread
  <2> QED BY ZenonT(30), <1>2, <2>1, <2>2, <2>4
<1> HIDE DEF G
<1>5. \A i \in 0 .. w : i \in G
  BY ZenonT(30), <1>1, <1>3, <1>4, Rounds
<1>6. w \in G
  BY <1>1, <1>5
<1>7. Upto(w) = S
  BY <1>1, BucketInRange
<1> QED BY ZenonT(30), <1>2, <1>6, <1>7 DEF G

----------------------------------------------------------------------------
(* The tree                                                                *)

Thresholds(t) == t.expand = Len(t.buckets) \div 2 /\ t.shrink = Len(t.buckets) \div 10

Load(t, size) == size <= t.expand /\ (Len(t.buckets) = MinSize \/ size >= t.shrink)

\* A hash table with its nodes, but for their number.
IsTable(t) ==
  /\ DOMAIN t = {"buckets", "parent", "expand", "shrink"}
  /\ Nodes(t) \in SUBSET Name /\ IsFiniteSet(Nodes(t))
  /\ Spread(t.buckets, Nodes(t)) /\ Thresholds(t)

\* The nodes, but for one, point to the nodes of their longest proper prefixes.
Pointing(t, but) ==
  \A n \in Nodes(t) \ but :
    IF n = << >> THEN t.parent[n] = None
    ELSE t.parent[n] = GetPrefix(n) /\ GetPrefix(n) \in Nodes(t)

IsTree(t) ==
  IsTable(t) /\ Load(t, Cardinality(Nodes(t))) /\ Pointing(t, {})

\* The load factors leave room: after the table grew, and after it shrank, its
\* size is within the new thresholds.
LEMMA LoadWithinThresholds ==
  ASSUME NEW w \in Nat \ {0}, NEW size \in Nat
  PROVE  /\ size - 1 <= w \div 2 /\ size > w \div 2 => size <= (2 * w) \div 2 /\ size >= (2 * w) \div 10
         /\ size + 1 >= w \div 10 /\ size < w \div 10 => size <= (w \div 2) \div 2 /\ size >= (w \div 2) \div 10
         /\ size < w \div 10 => \A v \in Nat : v >= w \div 2 => size <= v \div 2
OBVIOUS

\* resize changes the chains only.
LEMMA ResizeTable ==
  ASSUME NEW t, IsTable(t), NEW k \in Nat \ {0}
  PROVE  /\ IsTable(Resize(t, k)) /\ Resize(t, k).parent = t.parent /\ Len(Resize(t, k).buckets) = k
<1>1. CASE k = Len(t.buckets)
  BY <1>1 DEF Resize
<1>2. CASE k # Len(t.buckets)
  <2> DEFINE b == Rehashed(t.buckets, k)
             r == Resize(t, k)
  <2>1. Spread(b, Nodes(t)) /\ Len(b) = k
    BY RehashedSpread DEF IsTable
  <2>2. /\ DOMAIN r = {"buckets", "parent", "expand", "shrink"}
        /\ r.buckets = b /\ r.parent = t.parent /\ r.expand = k \div 2 /\ r.shrink = k \div 10
    BY <1>2 DEF Resize, WithThresholds, IsTable
  <2> HIDE DEF b, r
  <2>3. Nodes(r) = Nodes(t)
    BY <2>2 DEF Nodes
  <2>4. IsTable(r)
    BY <2>1, <2>2, <2>3 DEF IsTable, Thresholds
  <2> QED BY <2>1, <2>2, <2>4 DEF r
<1> QED BY <1>1, <1>2

\* A node that is not in the table is added to it, and the table grows if need be.
LEMMA InsertTable ==
  ASSUME NEW t, IsTable(t), Load(t, Cardinality(Nodes(t))), NEW n \in Name, n \notin Nodes(t)
  PROVE  /\ IsTable(HashInsert(t, n)) /\ Load(HashInsert(t, n), Cardinality(Nodes(HashInsert(t, n))))
         /\ HashInsert(t, n).parent = Put(t.parent, n, None)
<1> DEFINE a == [t EXCEPT !.buckets = Attach(@, n), !.parent = Put(@, n, None)]
           w == Len(t.buckets)
           size == Cardinality(Nodes(a))
           grown == Resize(a, 2 * Len(a.buckets))
<1>1. w \in Nat \ {0} /\ Spread(t.buckets, Nodes(t)) /\ IsFiniteSet(Nodes(t)) /\ Nodes(t) \in SUBSET Name
  BY DEF IsTable, Spread
<1>2. Spread(Attach(t.buckets, n), Nodes(t) \cup {n}) /\ Len(Attach(t.buckets, n)) = w
  BY <1>1, AttachSpread
<1>3. /\ DOMAIN a = {"buckets", "parent", "expand", "shrink"}
      /\ a.buckets = Attach(t.buckets, n) /\ a.parent = Put(t.parent, n, None)
      /\ a.expand = w \div 2 /\ a.shrink = w \div 10
  BY DEF IsTable, Thresholds
<1>4. HashInsert(t, n) = IF size > a.expand THEN grown ELSE a
  BY DEF HashInsert
<1> HIDE DEF a, w
<1>5. Nodes(a) = Nodes(t) \cup {n}
  BY <1>3 DEF Nodes, Put
<1>6. IsTable(a)
  BY <1>1, <1>2, <1>3, <1>5, FS_AddElement DEF IsTable, Thresholds
<1>7. size \in Nat /\ size = Cardinality(Nodes(t)) + 1 /\ Cardinality(Nodes(t)) \in Nat
  BY <1>1, <1>5, FS_AddElement, FS_CardinalityType
<1> HIDE DEF size
<1>8. size - 1 <= w \div 2
  BY <1>7 DEF Load, IsTable, Thresholds, w
<1>9. CASE size > a.expand
  <2>1. 2 * w \in Nat \ {0} /\ Len(a.buckets) = w
    BY <1>1, <1>2, <1>3
  <2>2. IsTable(grown) /\ grown.parent = a.parent /\ Len(grown.buckets) = 2 * w
    BY ZenonT(30), <1>6, <2>1, ResizeTable
  <2> HIDE DEF grown
  <2>3. size <= (2 * w) \div 2 /\ size >= (2 * w) \div 10
    BY <1>1, <1>3, <1>7, <1>8, <1>9, LoadWithinThresholds
  <2>4. grown.expand = (2 * w) \div 2 /\ grown.shrink = (2 * w) \div 10
    BY <2>2 DEF IsTable, Thresholds
  <2>5. Load(grown, size)
    BY <2>3, <2>4 DEF Load
  <2>6. Nodes(grown) = Nodes(a)
    BY <2>2 DEF Nodes
  <2> QED BY <1>3, <1>4, <1>9, <2>2, <2>5, <2>6 DEF size
<1>10. CASE ~(size > a.expand)
  <2>1. size <= a.expand
    BY <1>1, <1>3, <1>7, <1>10
  <2>2. w = MinSize \/ size >= a.shrink
    <3>1. w = MinSize \/ Cardinality(Nodes(t)) >= w \div 10
      BY DEF Load, IsTable, Thresholds, w
    <3> QED BY <1>1, <1>3, <1>7, <3>1
  <2>3. Load(a, size)
    BY <1>2, <1>3, <2>1, <2>2 DEF Load
  <2> QED BY <1>3, <1>4, <1>6, <1>10, <2>3 DEF size
<1> QED BY <1>9, <1>10

\* A node is removed from the table, and the table shrinks if need be.
LEMMA EraseTable ==
  ASSUME NEW t, IsTable(t), Load(t, Cardinality(Nodes(t))), NEW n \in Nodes(t)
  PROVE  /\ IsTable(HashErase(t, n)) /\ Load(HashErase(t, n), Cardinality(Nodes(HashErase(t, n))))
         /\ HashErase(t, n).parent = Drop(t.parent, {n})
<1> DEFINE a == [t EXCEPT !.buckets = Detach(@, n), !.parent = Drop(@, {n})]
           w == Len(t.buckets)
           v == Halved(w)
           size == Cardinality(Nodes(a))
           less == Resize(a, Halved(Len(a.buckets)))
<1>1. w \in Nat \ {0} /\ Spread(t.buckets, Nodes(t)) /\ IsFiniteSet(Nodes(t)) /\ Nodes(t) \in SUBSET Name
  BY DEF IsTable, Spread
<1>2. Spread(Detach(t.buckets, n), Nodes(t) \ {n}) /\ Len(Detach(t.buckets, n)) = w
  BY ZenonT(30), <1>1, DetachSpread
<1>3. /\ DOMAIN a = {"buckets", "parent", "expand", "shrink"}
      /\ a.buckets = Detach(t.buckets, n) /\ a.parent = Drop(t.parent, {n})
      /\ a.expand = w \div 2 /\ a.shrink = w \div 10
  BY DEF IsTable, Thresholds
<1>4. HashErase(t, n) = IF size < a.shrink THEN less ELSE a
  BY DEF HashErase
<1> HIDE DEF a, w
<1>5. Nodes(a) = Nodes(t) \ {n}
  BY <1>3 DEF Nodes, Drop
<1>6. IsTable(a)
  BY <1>1, <1>2, <1>3, <1>5, FS_RemoveElement DEF IsTable, Thresholds
<1>7. size \in Nat /\ size = Cardinality(Nodes(t)) - 1 /\ Cardinality(Nodes(t)) \in Nat
  BY <1>1, <1>5, <1>6, FS_RemoveElement, FS_CardinalityType DEF IsTable
<1> HIDE DEF size
<1>8. size + 1 <= w \div 2 /\ (w = MinSize \/ size + 1 >= w \div 10)
  BY <1>7 DEF Load, IsTable, Thresholds, w
<1>9. CASE size < a.shrink
  <2>1. /\ v \in Nat \ {0} /\ Len(a.buckets) = w /\ v >= w \div 2
        /\ v = MinSize \/ (v = w \div 2 /\ w # MinSize)
    BY <1>1, <1>2, <1>3, SizeAssumption DEF Halved
  <2>2. IsTable(less) /\ less.parent = a.parent /\ Len(less.buckets) = v
    BY ZenonT(30), <1>6, <2>1, ResizeTable
  <2> HIDE DEF less, v
  <2>3. size <= v \div 2 /\ (v = MinSize \/ size >= v \div 10)
    BY <1>1, <1>3, <1>7, <1>8, <1>9, <2>1, LoadWithinThresholds
  <2>4. less.expand = v \div 2 /\ less.shrink = v \div 10
    BY <2>2 DEF IsTable, Thresholds
  <2>5. Load(less, size)
    BY <2>2, <2>3, <2>4 DEF Load
  <2>6. Nodes(less) = Nodes(a)
    BY <2>2 DEF Nodes
  <2> QED BY <1>3, <1>4, <1>9, <2>2, <2>5, <2>6 DEF size
<1>10. CASE ~(size < a.shrink)
  <2>1. size <= a.expand /\ size >= a.shrink
    BY <1>1, <1>3, <1>7, <1>8, <1>10
  <2>2. Load(a, size)
    BY <2>1 DEF Load
  <2> QED BY <1>3, <1>4, <1>6, <1>10, <2>2 DEF size
<1> QED BY <1>9, <1>10

\* In a tree a search by hash finds the nodes and nothing else.
LEMMA FindsNodes ==
  ASSUME NEW t, IsTable(t), NEW n \in Name
  PROVE  HashFind(t, n) <=> n \in Nodes(t)
BY ChainOf DEF HashFind, Chain, IsTable

\* The longest proper prefix is a name, and it is shorter.
LEMMA ParentIsName ==
  ASSUME NEW n \in Name, n # << >>
  PROVE  GetPrefix(n) \in Name /\ Len(GetPrefix(n)) = Len(n) - 1 /\ Len(n) \in Nat \ {0} /\ GetPrefix(n) # n
<1>1. n \in Seq(Nat) /\ GetPrefix(n) \in Name
  BY NameAssumption
<1>2. Len(n) \in Nat \ {0}
  BY <1>1
<1>3. Len(GetPrefix(n)) = Len(n) - 1
  <2>1. GetPrefix(n) = Prefix(n, Len(n) - 1) /\ Len(n) - 1 \in 0 .. Len(n)
    BY <1>2 DEF GetPrefix, Prefix
  <2> QED BY <1>1, <2>1, PrefixOfSeq
<1> QED BY <1>1, <1>2, <1>3

\* The node of a name whose parent has one is made if need be.
LEMMA WithNodeTree ==
  ASSUME NEW t, IsTree(t), NEW n \in Name, n = << >> \/ GetPrefix(n) \in Nodes(t)
  PROVE  IsTree(WithNode(t, n)) /\ Nodes(WithNode(t, n)) = Nodes(t) \cup {n}
<1>1. CASE n \in Nodes(t)
  BY <1>1, FindsNodes DEF WithNode, IsTree
<1>2. CASE n \notin Nodes(t)
  <2> DEFINE r == HashInsert(t, n)
             s == WithNode(t, n)
  <2>1. IsTable(r) /\ Load(r, Cardinality(Nodes(r))) /\ r.parent = Put(t.parent, n, None)
    BY <1>2, InsertTable DEF IsTree
  <2>2. s = IF n = << >> THEN r ELSE SetParent(r, n)
    BY <1>2, FindsNodes DEF WithNode, IsTree
  <2> HIDE DEF r, s
  <2>3. Nodes(r) = Nodes(t) \cup {n}
    BY <2>1 DEF Nodes, Put
  <2>4. \A m \in Nodes(t) : r.parent[m] = t.parent[m]
    BY <1>2, <2>1 DEF Nodes, Put
  <2>5. \A m \in Nodes(t) : IF m = << >> THEN r.parent[m] = None
                            ELSE r.parent[m] = GetPrefix(m) /\ GetPrefix(m) \in Nodes(r)
    BY <2>3, <2>4 DEF IsTree, Pointing
  <2>6. CASE n = << >>
    <3>1. r.parent[n] = None
      BY <2>1 DEF Put
    <3>2. Pointing(r, {})
      BY <2>3, <2>5, <2>6, <3>1 DEF Pointing
    <3> QED BY ZenonT(30), <2>1, <2>2, <2>3, <2>6, <3>2 DEF IsTree, s
  <2>7. CASE n # << >>
    <3>1. /\ DOMAIN s = {"buckets", "parent", "expand", "shrink"}
          /\ s.buckets = r.buckets /\ s.expand = r.expand /\ s.shrink = r.shrink
          /\ s.parent = [r.parent EXCEPT ![n] = GetPrefix(n)]
      BY <2>1, <2>2, <2>7 DEF SetParent, IsTable
    <3>2. Nodes(s) = Nodes(r)
      BY <3>1 DEF Nodes
    <3>3. s.parent[n] = GetPrefix(n) /\ \A m \in Nodes(t) : s.parent[m] = r.parent[m]
      BY <1>2, <2>3, <3>1 DEF Nodes
    <3>4. GetPrefix(n) \in Nodes(s)
      BY <2>3, <2>7, <3>2
    <3>5. Pointing(s, {})
      BY <2>3, <2>5, <2>7, <3>2, <3>3, <3>4 DEF Pointing
    <3>6. IsTable(s) /\ Load(s, Cardinality(Nodes(s)))
      BY <2>1, <3>1, <3>2 DEF IsTable, Load, Thresholds
    <3> QED BY <2>3, <3>2, <3>5, <3>6 DEF IsTree, s
  <2> QED BY <2>6, <2>7
<1> QED BY <1>1, <1>2

Prefixes(n) == {Prefix(n, i) : i \in 0 .. Len(n)}

\* lookup makes the nodes of the prefixes of the name, and no other, and keeps the
\* tree in order, whatever resizes it causes.
THEOREM LookupTree ==
  ASSUME NEW t, IsTree(t), NEW name \in Name
  PROVE  IsTree(Lookup(t, name)) /\ Nodes(Lookup(t, name)) = Nodes(t) \cup Prefixes(name)
<1>1. name \in Seq(Nat) /\ Len(name) \in Nat /\ Len(name) + 1 \in Nat
  BY NameIsSeq
<1>2. PICK f : /\ f[0] = t
               /\ \A i \in 1 .. (Len(name) + 1) : f[i] = WithNode(f[i - 1], Prefix(name, i - 1))
               /\ Lookup(t, name) = f[Len(name) + 1]
  BY <1>1, LookupUnfolds
<1> DEFINE Upto(i) == Nodes(t) \cup {Prefix(name, j - 1) : j \in 1 .. i}
           G == {i \in 0 .. (Len(name) + 1) : IsTree(f[i]) /\ Nodes(f[i]) = Upto(i)}
<1>3. 0 \in G
  <2>1. Upto(0) = Nodes(t)
    OBVIOUS
  <2>2. IsTree(f[0]) /\ Nodes(f[0]) = Upto(0)
    BY <1>2, <2>1
  <2> HIDE DEF Upto
  <2> QED BY <1>1, <2>2
<1>4. ASSUME NEW i \in 1 .. (Len(name) + 1), i - 1 \in G PROVE i \in G
  <2> DEFINE p == Prefix(name, i - 1)
             s == f[i - 1]
  <2>1. i - 1 \in 0 .. Len(name) /\ p \in Name
    BY <1>1, PrefixOfName
  <2>2. Upto(i) = Upto(i - 1) \cup {p}
    BY <1>1
  <2>3. IsTree(s) /\ Nodes(s) = Upto(i - 1)
    BY <1>4
  <2>4. p = << >> \/ GetPrefix(p) \in Nodes(s)
    <3>1. CASE i = 1
      BY <1>1, <3>1, PrefixOfPrefix
    <3>2. CASE i # 1
      <4>1. GetPrefix(p) = Prefix(name, (i - 1) - 1) /\ i - 1 \in 1 .. (i - 1)
        BY <1>1, <2>1, <3>2, PrefixOfPrefix
      <4> QED BY <2>3, <4>1
    <3> QED BY <3>1, <3>2
  <2>5. f[i] = WithNode(s, p)
    BY <1>2
  <2> HIDE DEF p, s, Upto
  <2>6. IsTree(f[i]) /\ Nodes(f[i]) = Upto(i)
    BY <2>1, <2>2, <2>3, <2>4, <2>5, WithNodeTree
  <2> QED BY <1>1, <2>6
<1> HIDE DEF G
<1>5. \A i \in 0 .. (Len(name) + 1) : i \in G
  BY ZenonT(30), <1>1, <1>3, <1>4, Rounds
<1>6. Len(name) + 1 \in G
  BY <1>1, <1>5
<1>7. Upto(Len(name) + 1) = Nodes(t) \cup Prefixes(name)
  <2>1. \A i \in 0 .. Len(name) : i + 1 \in 1 .. (Len(name) + 1) /\ (i + 1) - 1 = i
    BY <1>1
  <2>2. \A i \in 1 .. (Len(name) + 1) : i - 1 \in 0 .. Len(name)
    BY <1>1
  <2> QED BY ZenonT(30), <2>1, <2>2 DEF Prefixes
<1> QED BY <1>2, <1>6, <1>7 DEF G

\* The nodes of a tree are closed under prefixes.
LEMMA PrefixIsNode ==
  ASSUME NEW t, IsTree(t), NEW n \in Nodes(t), NEW i \in 0 .. Len(n)
  PROVE  Prefix(n, i) \in Nodes(t)
<1>1. n \in Name /\ n \in Seq(Nat) /\ Len(n) \in Nat
  BY NameIsSeq DEF IsTree, IsTable
<1> DEFINE G == {k \in 0 .. Len(n) : Prefix(n, Len(n) - k) \in Nodes(t)}
<1>2. 0 \in G
  BY <1>1, PrefixOfPrefix
<1>3. ASSUME NEW k \in 1 .. Len(n), k - 1 \in G PROVE k \in G
  <2> DEFINE j == Len(n) - (k - 1)
  <2>1. j \in 1 .. Len(n) /\ j \in 0 .. Len(n) /\ j > 0 /\ j - 1 = Len(n) - k /\ Prefix(n, j) \in Nodes(t)
    BY <1>1, <1>3
  <2> HIDE DEF j
  <2>2. GetPrefix(Prefix(n, j)) = Prefix(n, j - 1) /\ Len(Prefix(n, j)) = j
    BY <1>1, <2>1, PrefixOfPrefix, PrefixOfSeq
  <2>3. Prefix(n, j) # << >>
    BY <2>1, <2>2
  <2>4. Prefix(n, j - 1) \in Nodes(t)
    BY <2>1, <2>2, <2>3 DEF IsTree, Pointing
  <2> QED BY <1>3, <2>1, <2>4
<1> HIDE DEF G
<1>4. \A k \in 0 .. Len(n) : k \in G
  BY ZenonT(30), <1>1, <1>2, <1>3, Rounds
<1>5. Len(n) - i \in 0 .. Len(n) /\ Len(n) - (Len(n) - i) = i
  BY <1>1
<1> QED BY <1>4, <1>5 DEF G

\* The children of a node are the nodes of which it is the longest proper prefix.
LEMMA ChildrenByName ==
  ASSUME NEW t, IsTree(t), NEW n \in Name
  PROVE  Children(t, n) = {m \in Nodes(t) : m # << >> /\ GetPrefix(m) = n}
<1>1. n # None
  BY NameIsSeq
<1> QED BY <1>1 DEF Children, IsTree, Pointing

Idle(t, used) == {n \in Nodes(t) : IsEmpty(t, used, n)}

\* lookup leaves no node idle, but those that were idle before.
LEMMA LookupIdle ==
  ASSUME NEW t, IsTree(t), NEW name \in Name, NEW used, NEW more, used \cup {name} \subseteq more
  PROVE  Idle(Lookup(t, name), more) \subseteq Idle(t, used)
<1> DEFINE r == Lookup(t, name)
<1>1. IsTree(r) /\ Nodes(r) = Nodes(t) \cup Prefixes(name)
  BY LookupTree
<1> HIDE DEF r
<1> SUFFICES ASSUME NEW m \in Nodes(r), Children(r, m) = {}, m \notin more
             PROVE  m \in Nodes(t) /\ Children(t, m) = {}
  BY DEF Idle, IsEmpty, r
<1>2. m \in Name
  BY <1>1 DEF IsTree, IsTable
<1>3. \A c \in Nodes(r) : c = << >> \/ GetPrefix(c) # m
  BY <1>1, <1>2, ChildrenByName
<1>4. ASSUME m \notin Nodes(t) PROVE FALSE
  <2>1. name \in Seq(Nat) /\ Len(name) \in Nat
    BY NameIsSeq
  <2>2. PICK i \in 0 .. Len(name) : m = Prefix(name, i)
    BY <1>1, <1>4 DEF Prefixes
  <2>3. i # Len(name)
    BY <2>1, <2>2, PrefixOfPrefix
  <2>4. i + 1 \in 0 .. Len(name) /\ i + 1 > 0 /\ (i + 1) - 1 = i
    BY <2>1, <2>2, <2>3
  <2>5. GetPrefix(Prefix(name, i + 1)) = m /\ Len(Prefix(name, i + 1)) = i + 1
    BY <2>1, <2>2, <2>4, PrefixOfPrefix, PrefixOfSeq
  <2>6. Prefix(name, i + 1) \in Nodes(r) /\ Prefix(name, i + 1) # << >>
    BY <1>1, <2>4, <2>5 DEF Prefixes
  <2> QED BY <1>3, <2>5, <2>6
<1>5. Children(t, m) = {}
  BY <1>1, <1>2, <1>3, ChildrenByName
<1> QED BY <1>4, <1>5

\* A node without children is erased.
LEMMA EraseLeaf ==
  ASSUME NEW t, IsTree(t), NEW n \in Nodes(t), Children(t, n) = {}
  PROVE  IsTree(HashErase(t, n)) /\ Nodes(HashErase(t, n)) = Nodes(t) \ {n}
<1> DEFINE r == HashErase(t, n)
<1>1. IsTable(r) /\ Load(r, Cardinality(Nodes(r))) /\ r.parent = Drop(t.parent, {n})
  BY EraseTable DEF IsTree
<1> HIDE DEF r
<1>2. Nodes(r) = Nodes(t) \ {n} /\ \A m \in Nodes(t) \ {n} : r.parent[m] = t.parent[m]
  BY <1>1 DEF Nodes, Drop
<1>3. \A m \in Nodes(t) : t.parent[m] # n
  BY DEF Children
<1>4. Pointing(r, {})
  BY <1>2, <1>3 DEF Pointing, IsTree
<1> QED BY <1>1, <1>2, <1>4 DEF IsTree, r

\* When a node goes only its parent may become idle.
LEMMA EraseIdle ==
  ASSUME NEW t, IsTree(t), NEW used, NEW n \in Nodes(t), Children(t, n) = {}
  PROVE  Idle(HashErase(t, n), used) \subseteq (Idle(t, used) \ {n}) \cup {t.parent[n]}
<1> DEFINE r == HashErase(t, n)
<1>1. IsTree(r) /\ Nodes(r) = Nodes(t) \ {n}
  BY EraseLeaf
<1> HIDE DEF r
<1> SUFFICES ASSUME NEW m \in Nodes(r), Children(r, m) = {}, m # t.parent[n]
             PROVE  Children(t, m) = {}
  BY <1>1 DEF Idle, IsEmpty, r
<1>2. m \in Name /\ n \in Name
  BY <1>1 DEF IsTree, IsTable
<1>3. \A c \in Nodes(r) : c = << >> \/ GetPrefix(c) # m
  BY <1>1, <1>2, ChildrenByName
<1>4. n = << >> \/ GetPrefix(n) # m
  BY DEF IsTree, Pointing
<1> QED BY <1>1, <1>2, <1>3, <1>4, ChildrenByName

\* What erasing nodes leaves of a tree.
Remains(t, r, used) == IsTree(r) /\ Nodes(r) \subseteq Nodes(t) /\ used \cap Nodes(t) \subseteq Nodes(r)

\* eraseIfEmpty goes on at an entry, the one that may have become idle ...
GoesOn(t, used, n, s, i) ==
  /\ s.entry \in Nodes(s.tree) /\ Len(s.entry) = Len(n) - i
  /\ Idle(s.tree, used) \subseteq (Idle(t, used) \ {n}) \cup {s.entry}

\* ... or is done.
IsDone(t, used, n, s) ==
  /\ s.entry = None \/ (s.entry \in Nodes(s.tree) /\ s.entry \notin Idle(s.tree, used))
  /\ Idle(s.tree, used) \subseteq Idle(t, used) \ {n}

\* One round of eraseIfEmpty.
LEMMA EraseRound ==
  ASSUME NEW t, NEW used, NEW n \in Name, NEW s, NEW i \in Nat, Remains(t, s.tree, used),
         GoesOn(t, used, n, s, i - 1) \/ IsDone(t, used, n, s)
  PROVE  LET d == EraseEntry(s, used)
         IN  Remains(t, d.tree, used) /\ (GoesOn(t, used, n, d, i) \/ IsDone(t, used, n, d))
<1> DEFINE d == EraseEntry(s, used)
           e == s.entry
           u == s.tree
<1>1. IsTree(u) /\ Nodes(u) \subseteq Nodes(t) /\ used \cap Nodes(t) \subseteq Nodes(u) /\ Nodes(u) \subseteq Name
  BY DEF Remains, IsTree, IsTable
<1>2. CASE IsDone(t, used, n, s)
  <2>1. d = s
    BY <1>2 DEF IsDone, EraseEntry, Idle
  <2> QED BY <1>2, <2>1
<1>3. CASE GoesOn(t, used, n, s, i - 1) /\ e \notin Idle(u, used)
  <2>1. d = s
    BY <1>3 DEF GoesOn, EraseEntry, Idle
  <2>2. IsDone(t, used, n, s)
    BY <1>3 DEF GoesOn, IsDone
  <2> QED BY <2>1, <2>2
<1>4. CASE GoesOn(t, used, n, s, i - 1) /\ e \in Idle(u, used)
  <2>1. /\ e \in Nodes(u) /\ e \in Name /\ Len(e) = Len(n) - (i - 1) /\ Children(u, e) = {} /\ e \notin used
        /\ Idle(u, used) \subseteq (Idle(t, used) \ {n}) \cup {e}
    BY <1>1, <1>4 DEF GoesOn, Idle, IsEmpty
  <2>2. e # None /\ Len(n) \in Nat
    BY <2>1, NameIsSeq
  <2>3. d.tree = HashErase(u, e) /\ d.entry = u.parent[e]
    BY <1>4, <2>2 DEF EraseEntry, Idle
  <2> DEFINE p == u.parent[e]
             r == HashErase(u, e)
  <2>4. IsTree(r) /\ Nodes(r) = Nodes(u) \ {e}
    BY <1>1, <2>1, EraseLeaf
  <2>5. Idle(r, used) \subseteq (Idle(u, used) \ {e}) \cup {p}
    BY <1>1, <2>1, EraseIdle
  <2>6. (p = None /\ e = << >>) \/ (e # << >> /\ p = GetPrefix(e) /\ p \in Nodes(u))
    BY <1>1, <2>1 DEF IsTree, Pointing
  <2> HIDE DEF p, r, e, u, d
  <2>7. Remains(t, r, used)
    BY <1>1, <2>1, <2>4 DEF Remains
  <2>8. Idle(r, used) \subseteq (Idle(t, used) \ {n}) \cup {p}
    BY <2>1, <2>5
  <2>9. CASE p = None
    <3>1. None \notin Idle(r, used)
      BY <1>1, <2>4, NameAssumption DEF Idle
    <3>2. IsDone(t, used, n, d)
      BY <2>3, <2>8, <2>9, <3>1 DEF IsDone, r, p
    <3> QED BY <2>3, <2>7, <3>2 DEF d, r
  <2>10. CASE e # << >> /\ p = GetPrefix(e) /\ p \in Nodes(u)
    <3>1. Len(p) = Len(e) - 1 /\ p # e
      BY ZenonT(30), <2>1, <2>10, ParentIsName
    <3>2. Len(p) = Len(n) - i
      BY <2>1, <2>2, <3>1
    <3>3. GoesOn(t, used, n, d, i)
      BY <2>3, <2>4, <2>8, <2>10, <3>1, <3>2 DEF GoesOn, r, p
    <3> QED BY <2>3, <2>7, <3>3 DEF d, r
  <2> QED BY <2>6, <2>9, <2>10
<1> QED BY <1>2, <1>3, <1>4

\* eraseIfEmpty erases no node that is used, and leaves no node idle that was not
\* idle before, nor the one it is called for.
THEOREM EraseIfEmptyTree ==
  ASSUME NEW t, IsTree(t), NEW used, NEW n \in Nodes(t)
  PROVE  /\ Remains(t, EraseIfEmpty(t, used, n), used)
         /\ Idle(EraseIfEmpty(t, used, n), used) \subseteq Idle(t, used) \ {n}
<1>1. n \in Name /\ Len(n) \in Nat /\ Len(n) + 1 \in Nat
  BY NameIsSeq DEF IsTree, IsTable
<1>2. PICK f : /\ f[0] = [tree |-> t, entry |-> n]
               /\ \A i \in 1 .. (Len(n) + 1) : f[i] = EraseEntry(f[i - 1], used)
               /\ EraseIfEmpty(t, used, n) = f[Len(n) + 1].tree
  BY <1>1, EraseIfEmptyUnfolds
<1> DEFINE Good(i) == Remains(t, f[i].tree, used) /\ (GoesOn(t, used, n, f[i], i) \/ IsDone(t, used, n, f[i]))
           G == {i \in 0 .. (Len(n) + 1) : Good(i)}
<1>3. Good(0)
  <2>1. f[0].tree = t /\ f[0].entry = n
    BY <1>2
  <2>2. GoesOn(t, used, n, f[0], 0)
    BY <1>1, <2>1 DEF GoesOn
  <2> QED BY <2>1, <2>2 DEF Remains
<1>4. ASSUME NEW i \in 1 .. (Len(n) + 1), Good(i - 1) PROVE Good(i)
  <2> DEFINE s == f[i - 1]
  <2>1. i \in Nat /\ f[i] = EraseEntry(s, used)
    BY <1>1, <1>2
  <2>2. Remains(t, s.tree, used) /\ (GoesOn(t, used, n, s, i - 1) \/ IsDone(t, used, n, s))
    BY <1>4
  <2> HIDE DEF s
  <2> QED BY <1>1, <2>1, <2>2, EraseRound
<1> HIDE DEF Good
<1>5. 0 \in G /\ \A i \in 1 .. (Len(n) + 1) : i - 1 \in G => i \in G
  BY <1>1, <1>3, <1>4
<1> HIDE DEF G
<1>6. \A i \in 0 .. (Len(n) + 1) : i \in G
  BY ZenonT(30), <1>1, <1>5, Rounds
<1>7. Good(Len(n) + 1)
  BY <1>1, <1>6 DEF G
<1> DEFINE s == f[Len(n) + 1]
<1>8. Remains(t, s.tree, used) /\ (GoesOn(t, used, n, s, Len(n) + 1) \/ IsDone(t, used, n, s))
  BY <1>7 DEF Good
<1> HIDE DEF s
<1>9. ~GoesOn(t, used, n, s, Len(n) + 1)
  <2> SUFFICES ASSUME s.entry \in Nodes(s.tree), Len(s.entry) = Len(n) - (Len(n) + 1) PROVE FALSE
    BY DEF GoesOn
  <2>1. Len(s.entry) \in Nat
    BY <1>8, NameIsSeq DEF Remains, IsTree, IsTable
  <2> QED BY <1>1, <2>1
<1> QED BY <1>2, <1>8, <1>9 DEF IsDone, s

\* A set without one of its members.
LEMMA OneLess ==
  ASSUME NEW S, IsFiniteSet(S), NEW n \in S
  PROVE  IsFiniteSet(S \ {n}) /\ Cardinality(S \ {n}) = Cardinality(S) - 1
BY FS_RemoveElement

\* Among some names one is the longest.
LEMMA LongestExists ==
  ASSUME NEW names \in SUBSET Name, names # {}
  PROVE  LongestOf(names) \in names /\ \A m \in names : Len(m) <= Len(LongestOf(names))
<1> DEFINE S == {MaxDepth - Len(m) : m \in names}
<1>1. \A m \in names : Len(m) \in Nat /\ Len(m) <= MaxDepth /\ MaxDepth \in Nat
  BY NameAssumption DEF MaxDepth
<1>2. S \in SUBSET Nat /\ S # {}
  BY <1>1
<1> HIDE DEF S
<1>3. PICK k \in S : \A x \in S : k <= x
  BY <1>2, LeastNumber
<1>4. PICK n \in names : k = MaxDepth - Len(n)
  BY <1>3 DEF S
<1>5. ASSUME NEW m \in names PROVE Len(m) <= Len(n)
  <2>1. MaxDepth - Len(m) \in S
    BY DEF S
  <2> QED BY <1>1, <1>3, <1>4, <2>1
<1> QED BY <1>5 DEF LongestOf

\* cleanupOnFaceRemoval on its way: a node remains to be looked at, is used, or
\* has a child that was looked at and stays.
Cleaning(t, used, s, left) ==
  /\ Remains(t, s.tree, used) /\ s.rest \subseteq Nodes(s.tree) \ used
  /\ IsFiniteSet(s.rest) /\ Cardinality(s.rest) = left
  /\ \A m \in Nodes(s.tree) : m \in s.rest \cup used \/ \E c \in Nodes(s.tree) \ s.rest :
                                                            c # << >> /\ GetPrefix(c) = m

\* One round of the second loop of cleanupOnFaceRemoval.
LEMMA EraseNextCleans ==
  ASSUME NEW t, NEW used, NEW s, NEW left \in Nat \ {0}, Cleaning(t, used, s, left)
  PROVE  Cleaning(t, used, EraseNext(s, used), left - 1)
<1> DEFINE n == LongestOf(s.rest)
           u == s.tree
           d == EraseNext(s, used)
<1>1. /\ IsTree(u) /\ Nodes(u) \in SUBSET Name /\ s.rest \subseteq Nodes(u) \ used
      /\ IsFiniteSet(s.rest) /\ Cardinality(s.rest) = left
  BY DEF Cleaning, Remains, IsTree, IsTable
<1>2. s.rest # {} /\ s.rest \in SUBSET Name
  BY <1>1, FS_EmptySet
<1>3. n \in s.rest /\ \A m \in s.rest : Len(m) <= Len(n)
  BY <1>2, LongestExists
<1>4. d.tree = (IF IsEmpty(u, used, n) THEN HashErase(u, n) ELSE u) /\ d.rest = s.rest \ {n}
  BY DEF EraseNext
<1> HIDE DEF n, d
<1>5. n \in Nodes(u) /\ n \in Name /\ n \notin used
  BY <1>1, <1>3
<1>6. IsFiniteSet(d.rest) /\ Cardinality(d.rest) = left - 1
  BY <1>1, <1>3, <1>4, OneLess
<1>7. \A m \in Nodes(u) : m \in s.rest \cup used \/ \E c \in Nodes(u) \ s.rest : c # << >> /\ GetPrefix(c) = m
  BY DEF Cleaning
<1>8. CASE IsEmpty(u, used, n)
  <2>1. d.tree = HashErase(u, n) /\ Children(u, n) = {}
    BY <1>4, <1>8 DEF IsEmpty
  <2>2. IsTree(d.tree) /\ Nodes(d.tree) = Nodes(u) \ {n}
    BY <1>1, <1>5, <2>1, EraseLeaf
  <2>3. Remains(t, d.tree, used)
    BY <1>5, <2>2 DEF Cleaning, Remains
  <2>4. d.rest \subseteq Nodes(d.tree) \ used
    BY <1>1, <1>4, <2>2
  <2>5. ASSUME NEW m \in Nodes(d.tree)
        PROVE  m \in d.rest \cup used \/ \E c \in Nodes(d.tree) \ d.rest : c # << >> /\ GetPrefix(c) = m
    <3>1. CASE m \in s.rest \cup used
      BY <1>4, <2>2, <2>5, <3>1
    <3>2. CASE \E c \in Nodes(u) \ s.rest : c # << >> /\ GetPrefix(c) = m
      BY <1>3, <1>4, <2>2, <3>2
    <3> QED BY <1>7, <2>2, <3>1, <3>2
  <2> QED BY <1>6, <2>3, <2>4, <2>5 DEF Cleaning, d
<1>9. CASE ~IsEmpty(u, used, n)
  <2>1. d.tree = u
    BY <1>4, <1>9
  <2>2. PICK c \in Nodes(u) : c # << >> /\ GetPrefix(c) = n
    BY <1>1, <1>5, <1>9, ChildrenByName DEF IsEmpty
  <2>3. c \notin s.rest
    <3>1. Len(n) = Len(c) - 1 /\ Len(c) \in Nat
      BY <1>1, <2>2, ParentIsName
    <3> QED BY <1>3, <3>1
  <2>4. ASSUME NEW m \in Nodes(u)
        PROVE  m \in d.rest \cup used \/ \E k \in Nodes(u) \ d.rest : k # << >> /\ GetPrefix(k) = m
    <3>1. CASE m = n
      BY <1>4, <2>2, <2>3, <3>1
    <3>2. CASE m # n
      BY <1>4, <1>7, <3>2
    <3> QED BY <3>1, <3>2
  <2>5. d.rest \subseteq Nodes(u) \ used /\ Remains(t, u, used)
    BY <1>1, <1>4 DEF Cleaning
  <2> QED BY <1>6, <2>1, <2>4, <2>5 DEF Cleaning, d
<1> QED BY <1>8, <1>9

\* After cleanupOnFaceRemoval no node is idle.
THEOREM EraseMaybeEmptyTree ==
  ASSUME NEW t, IsTree(t), NEW used
  PROVE  Remains(t, EraseMaybeEmpty(t, used), used) /\ Idle(EraseMaybeEmpty(t, used), used) = {}
<1> DEFINE rest == Nodes(t) \ used
           k == Cardinality(rest)
<1>1. IsFiniteSet(rest) /\ k \in Nat
  BY ZenonT(30), FS_Difference, FS_CardinalityType DEF IsTree, IsTable
<1>2. PICK f : /\ f[0] = [tree |-> t, rest |-> rest]
               /\ \A i \in 1 .. k : f[i] = EraseNext(f[i - 1], used)
               /\ EraseMaybeEmpty(t, used) = f[k].tree
  BY <1>1, EraseMaybeEmptyUnfolds
<1> HIDE DEF k
<1> DEFINE Good(i) == Cleaning(t, used, f[i], k - i)
           G == {i \in 0 .. k : Good(i)}
<1>3. Good(0)
  <2>1. f[0].tree = t /\ f[0].rest = rest /\ k - 0 = k
    BY <1>1, <1>2
  <2>2. \A m \in Nodes(t) : m \in rest \cup used
    OBVIOUS
  <2> QED BY <1>1, <2>1, <2>2 DEF Cleaning, Remains, k
<1>4. ASSUME NEW i \in 1 .. k, Good(i - 1) PROVE Good(i)
  <2>1. k - (i - 1) \in Nat \ {0} /\ (k - (i - 1)) - 1 = k - i
    BY <1>1
  <2>2. Cleaning(t, used, EraseNext(f[i - 1], used), (k - (i - 1)) - 1)
    BY <1>4, <2>1, EraseNextCleans
  <2> QED BY <1>2, <2>1, <2>2
<1> HIDE DEF Good
<1>5. 0 \in G /\ \A i \in 1 .. k : i - 1 \in G => i \in G
  BY <1>1, <1>3, <1>4
<1> HIDE DEF G
<1>6. \A i \in 0 .. k : i \in G
  BY <1>1, <1>5, Rounds
<1>7. Good(k)
  BY <1>1, <1>6 DEF G
<1> DEFINE s == f[k]
<1>8. Cleaning(t, used, s, 0)
  BY <1>1, <1>7 DEF Good
<1> HIDE DEF s
<1>9. s.rest = {} /\ IsTree(s.tree) /\ Nodes(s.tree) \in SUBSET Name
  BY <1>8, FS_EmptySet DEF Cleaning, Remains, IsTree, IsTable
<1>10. ASSUME NEW m \in Idle(s.tree, used) PROVE FALSE
  <2>1. m \in Nodes(s.tree) /\ m \notin used /\ Children(s.tree, m) = {}
    BY DEF Idle, IsEmpty
  <2>2. PICK c \in Nodes(s.tree) : c # << >> /\ GetPrefix(c) = m
    BY <1>8, <1>9, <2>1 DEF Cleaning
  <2> QED BY <1>9, <2>1, <2>2, ChildrenByName
<1> QED BY <1>2, <1>8, <1>10 DEF Cleaning, s

\* A tree that is being built: the names that were looked up have their nodes.
Building(names, s, left) ==
  /\ IsTree(s.tree) /\ << >> \in Nodes(s.tree) /\ names \ s.rest \subseteq Nodes(s.tree)
  /\ Idle(s.tree, {<< >>} \cup (names \ s.rest)) = {}
  /\ s.rest \subseteq names /\ IsFiniteSet(s.rest) /\ Cardinality(s.rest) = left

\* The empty tree.
LEMMA EmptyTreeIsTree == IsTree(EmptyTree) /\ Nodes(EmptyTree) = {}
<1>1. Spread(EmptyTree.buckets, {}) /\ Len(EmptyTree.buckets) = MinSize
  BY SizeAssumption, NoChainsSpread DEF EmptyTree
<1>2. /\ DOMAIN EmptyTree = {"buckets", "parent", "expand", "shrink"} /\ Nodes(EmptyTree) = {}
      /\ EmptyTree.expand = MinSize \div 2 /\ EmptyTree.shrink = MinSize \div 10
  BY DEF EmptyTree, Nodes
<1>3. IsTable(EmptyTree)
  BY <1>1, <1>2, FS_EmptySet DEF IsTable, Thresholds
<1>4. Load(EmptyTree, Cardinality(Nodes(EmptyTree)))
  BY <1>1, <1>2, FS_EmptySet, SizeAssumption DEF Load
<1> QED BY <1>2, <1>3, <1>4 DEF IsTree, Pointing

\* One more name is looked up.
LEMMA LookupNextBuilds ==
  ASSUME NEW names \in SUBSET Name, NEW s, NEW left \in Nat \ {0}, Building(names, s, left)
  PROVE  Building(names, LookupNext(s), left - 1)
<1> DEFINE S == s.rest
           n == CHOOSE x \in S : TRUE
           u == s.tree
           d == LookupNext(s)
           used == {<< >>} \cup (names \ S)
           more == {<< >>} \cup (names \ (S \ {n}))
<1>1. /\ IsTree(u) /\ << >> \in Nodes(u) /\ names \ S \subseteq Nodes(u) /\ Idle(u, used) = {}
      /\ S \subseteq names /\ IsFiniteSet(S) /\ Cardinality(S) = left
  BY ZenonT(30) DEF Building
<1>2. d.tree = Lookup(u, n) /\ d.rest = S \ {n}
  BY DEF LookupNext
<1>3. n \in S
  <2>1. S # {}
    BY <1>1, FS_EmptySet
  <2> QED BY <2>1
<1> HIDE DEF S, n, u, d
<1>4. n \in Name /\ used \cup {n} \subseteq more
  BY <1>1, <1>3
<1>5. IsFiniteSet(d.rest) /\ Cardinality(d.rest) = left - 1
  BY <1>1, <1>2, <1>3, OneLess
<1> HIDE DEF used, more
<1>6. IsTree(d.tree) /\ Nodes(d.tree) = Nodes(u) \cup Prefixes(n)
  BY <1>1, <1>2, <1>4, LookupTree
<1>7. n \in Prefixes(n)
  <2>1. n \in Seq(Nat) /\ Len(n) \in Nat
    BY <1>4, NameIsSeq
  <2>2. Prefix(n, Len(n)) = n /\ Len(n) \in 0 .. Len(n)
    BY <2>1, PrefixOfPrefix
  <2> QED BY <2>2 DEF Prefixes
<1>8. Idle(d.tree, more) = {}
  BY <1>1, <1>2, <1>4, LookupIdle
<1>9. names \ d.rest \subseteq Nodes(d.tree)
  BY <1>1, <1>2, <1>6, <1>7
<1> QED BY ZenonT(30), <1>1, <1>2, <1>5, <1>6, <1>8, <1>9 DEF Building, d, more

\* The first tree has the root and the given nodes, and no node is idle.
LEMMA TreeOfTree ==
  ASSUME NEW names \in SUBSET Name, IsFiniteSet(names)
  PROVE  /\ IsTree(TreeOf(names)) /\ {<< >>} \cup names \subseteq Nodes(TreeOf(names))
         /\ Idle(TreeOf(names), {<< >>} \cup names) = {}
<1> DEFINE k == Cardinality(names)
           root == Lookup(EmptyTree, << >>)
<1>1. k \in Nat
  BY FS_CardinalityType
<1>2. PICK f : /\ f[0] = [tree |-> root, rest |-> names]
               /\ \A i \in 1 .. k : f[i] = LookupNext(f[i - 1])
               /\ TreeOf(names) = f[k].tree
  BY <1>1, TreeOfUnfolds
<1> HIDE DEF k
<1> DEFINE Good(i) == Building(names, f[i], k - i)
           G == {i \in 0 .. k : Good(i)}
<1>3. Good(0)
  <2>1. f[0].tree = root /\ f[0].rest = names /\ k - 0 = k
    BY <1>1, <1>2
  <2>2. << >> \in Name
    BY NameAssumption
  <2>3. IsTree(root) /\ Nodes(root) = Nodes(EmptyTree) \cup Prefixes(<< >>)
    BY ZenonT(30), <2>2, EmptyTreeIsTree, LookupTree
  <2>4. << >> \in Prefixes(<< >>)
    BY DEF Prefixes, Prefix
  <2>5. Idle(root, {<< >>}) \subseteq Idle(EmptyTree, {})
    BY <2>2, EmptyTreeIsTree, LookupIdle
  <2>6. Idle(EmptyTree, {}) = {}
    BY EmptyTreeIsTree DEF Idle
  <2> HIDE DEF root
  <2>7. {<< >>} \cup (names \ names) = {<< >>}
    OBVIOUS
  <2>8. Idle(root, {<< >>} \cup (names \ names)) = {}
    BY ZenonT(30), <2>5, <2>6, <2>7
  <2> QED BY ZenonT(30), <2>1, <2>3, <2>4, <2>8 DEF Building, k
<1>4. ASSUME NEW i \in 1 .. k, Good(i - 1) PROVE Good(i)
  <2>1. k - (i - 1) \in Nat \ {0} /\ (k - (i - 1)) - 1 = k - i
    BY <1>1
  <2>2. Building(names, LookupNext(f[i - 1]), (k - (i - 1)) - 1)
    BY <1>4, <2>1, LookupNextBuilds
  <2> QED BY <1>2, <2>1, <2>2
<1> HIDE DEF Good
<1>5. 0 \in G /\ \A i \in 1 .. k : i - 1 \in G => i \in G
  BY <1>1, <1>3, <1>4
<1> HIDE DEF G
<1>6. \A i \in 0 .. k : i \in G
  BY <1>1, <1>5, Rounds
<1>7. Good(k)
  BY <1>1, <1>6 DEF G
<1> DEFINE s == f[k]
<1>8. Building(names, s, 0)
  BY <1>1, <1>7 DEF Good
<1> HIDE DEF s
<1>9. s.rest = {}
  BY <1>8, FS_EmptySet DEF Building
<1>10. names \ s.rest = names
  BY <1>9
<1> QED BY ZenonT(30), <1>2, <1>8, <1>10 DEF Building, s

----------------------------------------------------------------------------
(* Searches                                                                *)

\* The prefix of length i is the longest one that is selected.
LongestAt(selected, n, i) ==
  i \in 0 .. Len(n) /\ Prefix(n, i) \in selected /\ \A j \in (i + 1) .. Len(n) : Prefix(n, j) \notin selected

\* The longest prefix of n that is selected, if there is one.
Longest(selected, n) == {Prefix(n, i) : i \in {j \in 0 .. Len(n) : LongestAt(selected, n, j)}}

\* There is one longest prefix, or no prefix is selected.
LEMMA LongestIsOne ==
  ASSUME NEW selected, NEW n \in Name
  PROVE  /\ \A i : LongestAt(selected, n, i) => Longest(selected, n) = {Prefix(n, i)}
         /\ (\A i \in 0 .. Len(n) : Prefix(n, i) \notin selected) => Longest(selected, n) = {}
         /\ \A i \in 0 .. Len(n) : Prefix(n, i) \in selected => \E k \in i .. Len(n) : LongestAt(selected, n, k)
<1>1. Len(n) \in Nat
  BY NameIsSeq
<1>2. ASSUME NEW i, LongestAt(selected, n, i) PROVE Longest(selected, n) = {Prefix(n, i)}
  <2>1. ASSUME NEW k \in 0 .. Len(n), LongestAt(selected, n, k) PROVE k = i
    BY <1>1, <1>2, <2>1 DEF LongestAt
  <2>2. i \in 0 .. Len(n)
    BY <1>2 DEF LongestAt
  <2> QED BY <1>2, <2>1, <2>2 DEF Longest
<1>3. ASSUME NEW i \in 0 .. Len(n), Prefix(n, i) \in selected
      PROVE  \E k \in i .. Len(n) : LongestAt(selected, n, k)
  <2> DEFINE S == {j \in 0 .. Len(n) : Prefix(n, Len(n) - j) \in selected}
  <2>1. S \in SUBSET Nat /\ Len(n) - i \in S
    BY <1>1, <1>3
  <2> HIDE DEF S
  <2>2. PICK j \in S : \A x \in S : j <= x
    BY <2>1, LeastNumber
  <2> USE DEF S
  <2>3. j \in 0 .. Len(n) /\ j <= Len(n) - i /\ Prefix(n, Len(n) - j) \in selected
    BY <2>1, <2>2
  <2>4. ASSUME NEW x \in (Len(n) - j + 1) .. Len(n) PROVE Prefix(n, x) \notin selected
    <3>1. Len(n) - x \in 0 .. Len(n) /\ Len(n) - x < j /\ Len(n) - (Len(n) - x) = x
      BY <1>1, <2>3
    <3> QED BY <2>2, <2>3, <3>1
  <2>5. Len(n) - j \in i .. Len(n) /\ Len(n) - j \in 0 .. Len(n)
    BY <1>1, <2>3
  <2> QED BY <2>3, <2>4, <2>5 DEF LongestAt
<1>4. (\A i \in 0 .. Len(n) : Prefix(n, i) \notin selected) => Longest(selected, n) = {}
  BY DEF Longest, LongestAt
<1> QED BY <1>2, <1>3, <1>4

\* The search by hash, from the longest prefix on, finds the longest one.
LEMMA FindByHash ==
  ASSUME NEW t, IsTree(t), NEW selected, selected \subseteq Nodes(t), NEW n \in Name
  PROVE  FindLongestPrefixMatch(t, selected, n) = Longest(selected, n)
<1> DEFINE found == {i \in 0 .. Len(n) : HashFind(t, Prefix(n, i)) /\ Prefix(n, i) \in selected}
           hits == {i \in 0 .. Len(n) : Prefix(n, i) \in selected}
<1>1. FindLongestPrefixMatch(t, selected, n) = IF found = {} THEN {} ELSE {Prefix(n, Max(found))}
  BY DEF FindLongestPrefixMatch
<1>2. found = hits
  BY PrefixOfName, FindsNodes DEF IsTree
<1>3. CASE hits = {}
  BY <1>1, <1>2, <1>3, LongestIsOne
<1>4. CASE hits # {}
  <2>1. PICK i : LongestAt(selected, n, i)
    BY ZenonT(30), <1>4, LongestIsOne
  <2>2. i \in hits /\ \A j \in hits : i >= j
    <3>1. Len(n) \in Nat
      BY NameIsSeq
    <3> QED BY <2>1, <3>1 DEF LongestAt
  <2>3. \A x \in hits : (\A y \in hits : x >= y) => x = i
    <3>1. Len(n) \in Nat
      BY NameIsSeq
    <3> QED BY <2>2, <3>1
  <2> HIDE DEF hits
  <2>4. Max(hits) = i
    BY <2>2, <2>3 DEF Max
  <2> QED BY ZenonT(30), <1>1, <1>2, <1>4, <2>1, <2>4, LongestIsOne
<1> QED BY <1>3, <1>4

\* The search up the tree finds the longest prefix, too.
LEMMA FindByParents ==
  ASSUME NEW t, IsTree(t), NEW selected, NEW n \in Nodes(t)
  PROVE  FindUp(t, selected, n) = Longest(selected, n)
<1>1. n \in Name /\ n \in Seq(Nat) /\ Len(n) \in Nat /\ Len(n) + 1 \in Nat
  BY NameIsSeq DEF IsTree, IsTable
<1> PICK f : UpFrom(f, t, selected, n)
  BY ZenonT(30), <1>1, FindUpUnfolds
<1>2. /\ f[0] = n /\ \A i \in 1 .. (Len(n) + 1) : f[i] = NextUp(t, selected, f[i - 1])
      /\ FindUp(t, selected, n) = {f[Len(n) + 1]} \ {None}
  BY DEF UpFrom
<1> DEFINE Searching(i) == /\ i <= Len(n) /\ f[i] = Prefix(n, Len(n) - i)
                           /\ \A j \in (Len(n) - i + 1) .. Len(n) : Prefix(n, j) \notin selected
           Found(i) == \E k \in 0 .. Len(n) : LongestAt(selected, n, k) /\ f[i] = Prefix(n, k)
           Nothing(i) == f[i] = None /\ \A j \in 0 .. Len(n) : Prefix(n, j) \notin selected
           Good(i) == Searching(i) \/ Found(i) \/ Nothing(i)
           G == {i \in 0 .. (Len(n) + 1) : Good(i)}
<1>3. Good(0)
  BY <1>1, <1>2, PrefixOfPrefix
<1>4. ASSUME NEW i \in 1 .. (Len(n) + 1), Good(i - 1) PROVE Good(i)
  <2>1. f[i] = NextUp(t, selected, f[i - 1])
    BY <1>2
  <2>2. CASE Found(i - 1)
    <3>1. PICK k \in 0 .. Len(n) : LongestAt(selected, n, k) /\ f[i - 1] = Prefix(n, k)
      BY <2>2
    <3>2. f[i - 1] # None /\ f[i - 1] \in selected
      BY <1>1, <3>1, PrefixOfName, NameIsSeq DEF LongestAt
    <3> QED BY <2>1, <3>1, <3>2 DEF NextUp
  <2>3. CASE Nothing(i - 1)
    BY <2>1, <2>3 DEF NextUp
  <2>4. CASE Searching(i - 1)
    <3> DEFINE k == Len(n) - (i - 1)
               p == Prefix(n, k)
    <3>1. k \in 0 .. Len(n) /\ k = Len(n) - i + 1
      BY <1>1, <2>4
    <3>2. f[i - 1] = p /\ \A j \in (k + 1) .. Len(n) : Prefix(n, j) \notin selected
      BY <2>4
    <3> HIDE DEF k
    <3>3. p \in Nodes(t) /\ p \in Name /\ p # None /\ Len(p) = k
      BY <1>1, <3>1, PrefixIsNode, PrefixOfName, NameIsSeq, PrefixOfSeq
    <3>4. CASE p \in selected
      <4>1. LongestAt(selected, n, k)
        BY <3>1, <3>2, <3>4 DEF LongestAt
      <4>2. f[i] = p
        BY <2>1, <3>2, <3>3, <3>4 DEF NextUp
      <4> QED BY <3>1, <4>1, <4>2
    <3>5. CASE p \notin selected /\ k = 0
      <4>1. p = << >>
        BY <1>1, <3>5, PrefixOfPrefix
      <4>2. f[i] = None
        BY <2>1, <3>2, <3>3, <3>5, <4>1 DEF NextUp, IsTree, Pointing
      <4>3. \A j \in 0 .. Len(n) : Prefix(n, j) \notin selected
        BY <1>1, <3>2, <3>5
      <4> QED BY <4>2, <4>3
    <3>6. CASE p \notin selected /\ k # 0
      <4>1. GetPrefix(p) = Prefix(n, k - 1) /\ p # << >>
        BY <1>1, <3>1, <3>3, <3>6, PrefixOfPrefix
      <4>2. f[i] = Prefix(n, k - 1)
        BY <2>1, <3>2, <3>3, <3>6, <4>1 DEF NextUp, IsTree, Pointing
      <4>3. k - 1 = Len(n) - i /\ i <= Len(n)
        BY <1>1, <3>1, <3>6
      <4>4. \A j \in (Len(n) - i + 1) .. Len(n) : Prefix(n, j) \notin selected
        BY <1>1, <3>1, <3>2, <3>6
      <4> QED BY <4>2, <4>3, <4>4
    <3> QED BY <3>4, <3>5, <3>6
  <2> QED BY <1>4, <2>2, <2>3, <2>4
<1> HIDE DEF Good
<1>5. 0 \in G /\ \A i \in 1 .. (Len(n) + 1) : i - 1 \in G => i \in G
  BY <1>1, <1>3, <1>4
<1> HIDE DEF G
<1>6. \A i \in 0 .. (Len(n) + 1) : i \in G
  BY ZenonT(30), <1>1, <1>5, Rounds
<1>7. Good(Len(n) + 1)
  BY <1>1, <1>6 DEF G
<1>8. Found(Len(n) + 1) \/ Nothing(Len(n) + 1)
  BY <1>1, <1>7 DEF Good
<1>9. CASE Found(Len(n) + 1)
  <2>1. PICK k \in 0 .. Len(n) : LongestAt(selected, n, k) /\ f[Len(n) + 1] = Prefix(n, k)
    BY <1>9
  <2>2. Prefix(n, k) # None
    BY <1>1, PrefixOfName, NameIsSeq
  <2> QED BY <1>1, <1>2, <2>1, <2>2, LongestIsOne
<1>10. CASE Nothing(Len(n) + 1)
  BY <1>1, <1>2, <1>10, LongestIsOne
<1> QED BY <1>8, <1>9, <1>10

\* Pit and StrategyChoice search from an entry, Fib and Measurements by name: both
\* overloads of findLongestPrefixMatch find the same node.
THEOREM MatchesAgree ==
  ASSUME NEW t, IsTree(t), NEW selected, selected \subseteq Nodes(t), NEW n \in Nodes(t)
  PROVE  FindUp(t, selected, n) = FindLongestPrefixMatch(t, selected, n)
<1>1. n \in Name
  BY DEF IsTree, IsTable
<1> QED BY <1>1, FindByHash, FindByParents

\* The nodes in the subtree of n that no rejected node below n cuts off.
Covered(t, rejected, n) ==
  {m \in Nodes(t) : /\ Len(n) <= Len(m) /\ Prefix(m, Len(n)) = n
                    /\ \A j \in (Len(n) + 1) .. Len(m) : Prefix(m, j) \notin rejected}

\* A tree has more nodes than the longest name has components.
LEMMA DepthBelowSize ==
  ASSUME NEW t, IsTree(t), NEW m \in Nodes(t)
  PROVE  Len(m) < Cardinality(Nodes(t)) /\ Cardinality(Nodes(t)) \in Nat
<1>1. m \in Name /\ m \in Seq(Nat) /\ Len(m) \in Nat /\ IsFiniteSet(Nodes(t))
  BY NameIsSeq DEF IsTree, IsTable
<1> DEFINE f == [i \in 0 .. Len(m) |-> Prefix(m, i)]
<1>2. \A i \in 0 .. Len(m) : Prefix(m, i) \in Nodes(t) /\ Len(Prefix(m, i)) = i
  BY <1>1, PrefixIsNode, PrefixOfSeq
<1>3. f \in Injection(0 .. Len(m), Nodes(t))
  BY <1>2 DEF Injection, IsInjective
<1>4. Cardinality(0 .. Len(m)) <= Cardinality(Nodes(t))
  BY <1>1, <1>3, FS_Injection
<1>5. Cardinality(0 .. Len(m)) = Len(m) + 1
  BY <1>1, FS_Interval
<1>6. Cardinality(Nodes(t)) \in Nat
  BY <1>1, FS_CardinalityType
<1> QED BY <1>1, <1>4, <1>5, <1>6

\* A node is in the covered subtree if its parent is and it is not rejected.
LEMMA CoveredChild ==
  ASSUME NEW t, IsTree(t), NEW rejected, NEW n \in Name, NEW m \in Nodes(t), Len(m) > Len(n)
  PROVE  /\ m # << >> /\ t.parent[m] = GetPrefix(m) /\ GetPrefix(m) \in Nodes(t)
         /\ Len(GetPrefix(m)) = Len(m) - 1
         /\ m \in Covered(t, rejected, n) <=> m \notin rejected /\ GetPrefix(m) \in Covered(t, rejected, n)
<1> DEFINE p == GetPrefix(m)
           k == Len(n)
           w == Len(m)
<1>1. m \in Seq(Nat) /\ m \in Name /\ k \in Nat /\ w \in Nat /\ w > k
  BY NameIsSeq DEF IsTree, IsTable
<1>2. m # << >>
  BY <1>1
<1>3. t.parent[m] = p /\ p \in Nodes(t)
  BY <1>2 DEF IsTree, Pointing
<1>4. Len(p) = w - 1
  BY <1>1, <1>2, ParentIsName
<1>5. Prefix(m, w) = m /\ p = Prefix(m, w - 1)
  BY <1>1, PrefixOfPrefix DEF GetPrefix, Prefix
<1>6. w - 1 \in 0 .. w /\ \A j \in 0 .. (w - 1) : Prefix(p, j) = Prefix(m, j)
  BY <1>1, <1>5, PrefixOfPrefix
<1> HIDE DEF p, k, w
<1>7. Prefix(p, k) = Prefix(m, k) /\ k <= w - 1 /\ k <= w
  BY <1>1, <1>6
<1>8. (\A j \in (k + 1) .. w : Prefix(m, j) \notin rejected)
        <=> m \notin rejected /\ \A j \in (k + 1) .. (w - 1) : Prefix(p, j) \notin rejected
  <2>1. \A j \in (k + 1) .. (w - 1) : Prefix(p, j) = Prefix(m, j) /\ j \in (k + 1) .. w
    BY <1>1, <1>6
  <2>2. w \in (k + 1) .. w /\ \A j \in (k + 1) .. w : j = w \/ j \in (k + 1) .. (w - 1)
    BY <1>1
  <2> QED BY <1>5, <2>1, <2>2
<1> QED BY <1>2, <1>3, <1>4, <1>7, <1>8 DEF Covered, p, k, w

\* partialEnumerate finds the nodes of the subtree that are not cut off, and no
\* other.
THEOREM EnumerateCovered ==
  ASSUME NEW t, IsTree(t), NEW rejected, NEW n \in Nodes(t)
  PROVE  PartialEnumerate(t, rejected, n) = Covered(t, rejected, n)
<1>1. n \in Name /\ n \in Seq(Nat) /\ Len(n) \in Nat /\ Nodes(t) \in SUBSET Name
  BY NameIsSeq DEF IsTree, IsTable
<1> DEFINE size == Cardinality(Nodes(t))
           C == Covered(t, rejected, n)
<1>2. size \in Nat /\ \A m \in Nodes(t) : Len(m) < size /\ Len(m) \in Nat
  BY <1>1, DepthBelowSize, NameIsSeq
<1> PICK f : DownFrom(f, t, rejected, n, size)
  BY <1>2, PartialEnumerateUnfolds
<1> HIDE DEF size
<1>3. /\ f[0] = {n} /\ \A i \in 1 .. size : f[i] = f[i - 1] \cup Below(t, rejected, f[i - 1])
      /\ PartialEnumerate(t, rejected, n) = f[size]
  BY DEF DownFrom
<1> DEFINE Upto(i) == {m \in C : Len(m) <= Len(n) + i}
           G == {i \in 0 .. size : f[i] = Upto(i)}
<1>4. ASSUME NEW m \in C PROVE m \in Nodes(t) /\ m \in Name /\ Len(m) \in Nat /\ Len(m) >= Len(n)
  BY <1>1, <1>2 DEF Covered
<1>5. f[0] = Upto(0)
  <2>1. n \in C
    BY <1>1, PrefixOfPrefix DEF Covered
  <2>2. ASSUME NEW m \in C, Len(m) <= Len(n) PROVE m = n
    <3>1. Len(m) = Len(n) /\ Prefix(m, Len(n)) = n /\ m \in Seq(Nat)
      BY <1>1, <1>4, <2>2, NameIsSeq DEF Covered
    <3> QED BY <3>1, PrefixOfPrefix
  <2> HIDE DEF C
  <2> QED BY <1>1, <1>3, <2>1, <2>2
<1>6. ASSUME NEW i \in 1 .. size, f[i - 1] = Upto(i - 1) PROVE f[i] = Upto(i)
  <2> DEFINE F == f[i - 1]
  <2>1. f[i] = F \cup Below(t, rejected, F)
    BY <1>3
  <2>2. F = {m \in C : Len(m) <= Len(n) + (i - 1)}
    BY <1>6
  <2>3. ASSUME NEW m \in Below(t, rejected, F) PROVE m \in Upto(i)
    <3>1. m \in Nodes(t) /\ m \notin rejected /\ t.parent[m] \in F
      BY DEF Below
    <3> DEFINE p == t.parent[m]
    <3>2. p \in C /\ Len(p) <= Len(n) + (i - 1) /\ p # None
      BY <1>4, <2>2, <3>1, NameIsSeq
    <3>3. m # << >> /\ p = GetPrefix(m)
      BY <3>1, <3>2 DEF IsTree, Pointing
    <3>4. Len(p) = Len(m) - 1 /\ Len(m) \in Nat
      BY <1>1, <3>1, <3>3, ParentIsName
    <3>5. Len(m) > Len(n)
      BY <1>1, <1>4, <3>2, <3>4
    <3>6. m \in C
      BY <1>1, <3>1, <3>2, <3>3, <3>5, CoveredChild
    <3> QED BY <1>1, <3>2, <3>4, <3>6
  <2>4. ASSUME NEW m \in Upto(i), m \notin F PROVE m \in Below(t, rejected, F)
    <3>1. m \in C /\ m \in Nodes(t) /\ Len(m) = Len(n) + i /\ Len(m) > Len(n)
      BY <1>1, <1>4, <2>2, <2>4
    <3>2. t.parent[m] = GetPrefix(m) /\ Len(GetPrefix(m)) = Len(m) - 1
      BY <1>1, <3>1, CoveredChild
    <3>3. m \notin rejected /\ GetPrefix(m) \in C
      BY <1>1, <3>1, CoveredChild
    <3>4. t.parent[m] \in F
      BY <1>1, <2>2, <3>1, <3>2, <3>3
    <3> QED BY <3>1, <3>3, <3>4 DEF Below
  <2>5. F \subseteq Upto(i)
    BY <1>1, <1>4, <2>2
  <2> HIDE DEF F, C, Upto
  <2> QED BY <2>1, <2>3, <2>4, <2>5
<1> HIDE DEF C, Upto
<1>7. 0 \in G /\ \A i \in 1 .. size : i - 1 \in G => i \in G
  BY <1>2, <1>5, <1>6
<1> HIDE DEF G
<1>8. \A i \in 0 .. size : i \in G
  BY ZenonT(30), <1>2, <1>7, Rounds
<1>9. f[size] = Upto(size)
  BY <1>2, <1>8 DEF G
<1>10. Upto(size) = C
  BY <1>1, <1>2, <1>4 DEF Upto
<1> QED BY <1>3, <1>9, <1>10 DEF C
=============================================================================
