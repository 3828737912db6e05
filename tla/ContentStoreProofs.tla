------------------------- MODULE ContentStoreProofs -------------------------
(***************************************************************************)
(* Proofs about ContentStore, for names of any length and for every set of *)
(* packets, capacities and policies: the queues match the table, a plain   *)
(* Interest finds what is there, and each policy evicts in its order.      *)
(*                                                                         *)
(* The index: the order of its std::set is a strict total order, and the   *)
(* range scan of Cs::findImpl meets every entry that satisfies a plain     *)
(* Interest.                                                               *)
(*                                                                         *)
(* The policies: entries join at the back of a queue, leave from anywhere  *)
(* and move between queues while the others keep their order, and those    *)
(* evicted are first in the order of eviction.                             *)
(*                                                                         *)
(* QueuesMatchTable is not inductive: which queue an entry is in, and what *)
(* that says of the entry, decides what attachQueue, moveToStaleQueue and  *)
(* evictOne do next.  IInv says it for each queue.                         *)
(***************************************************************************)
EXTENDS ContentStore, FiniteSetTheorems, WellFoundedInduction, TLAPS

----------------------------------------------------------------------------
(* The index                                                               *)

Names == Seq(Nat)

\* A nonempty set of naturals has a least element.
LEMMA LeastNatural ==
  ASSUME NEW S \in SUBSET Nat, S # {}
  PROVE  \E m \in S : \A x \in S : m <= x
<1>1. PICK m \in S : \A x \in S : ~(<<x, m>> \in OpToRel(<, Nat))
  BY ZenonT(30), NatLessThanWellFounded, WFMin
<1>2. \A x \in S : ~(x < m)
  BY ZenonT(30), <1>1 DEF OpToRel
<1> QED BY <1>2

\* What Name::compare calls a proper prefix is the shorter name.
LEMMA ProperPrefixIsShorter ==
  ASSUME NEW a \in Names, NEW b \in Names, IsPrefixOf(a, b), a # b
  PROVE  Len(a) < Len(b)
<1> SUFFICES ASSUME Len(a) = Len(b) PROVE FALSE
  BY DEF IsPrefixOf, Names
<1>1. \A i \in 1 .. Len(a) : a[i] = b[i]
  BY DEF IsPrefixOf, Names
<1> QED BY <1>1 DEF Names

\* Name::compare is irreflexive.
LEMMA NameLessIrreflexive ==
  ASSUME NEW a \in Names
  PROVE  ~NameLess(a, a)
BY DEF NameLess, Names

\* Name::compare is transitive.
LEMMA NameLessTransitive ==
  ASSUME NEW a \in Names, NEW b \in Names, NEW c \in Names, NameLess(a, b), NameLess(b, c)
  PROVE  NameLess(a, c)
<1> DEFINE Differs(x, y, i) == /\ i \in 1 .. Len(x) /\ i <= Len(y) /\ x[i] < y[i]
                               /\ \A j \in 1 .. (i - 1) : x[j] = y[j]
<1>1. \A x, y : NameLess(x, y) <=> (IsPrefixOf(x, y) /\ x # y) \/ \E i : Differs(x, y, i)
  BY DEF NameLess
<1>2. Len(a) \in Nat /\ Len(b) \in Nat /\ Len(c) \in Nat
  BY DEF Names
<1>3. /\ \A i \in 1 .. Len(a) : a[i] \in Nat
      /\ \A i \in 1 .. Len(b) : b[i] \in Nat
      /\ \A i \in 1 .. Len(c) : c[i] \in Nat
  BY DEF Names
<1>4. CASE IsPrefixOf(a, b) /\ a # b /\ IsPrefixOf(b, c) /\ b # c
  <2>1. Len(a) < Len(b) /\ Len(b) < Len(c)
    BY <1>4, ProperPrefixIsShorter
  <2>2. IsPrefixOf(a, c) /\ a # c
    BY <1>2, <1>4, <2>1 DEF IsPrefixOf
  <2> QED BY <1>1, <2>2
<1>5. ASSUME IsPrefixOf(a, b), NEW i, Differs(b, c, i)
      PROVE  NameLess(a, c)
  <2>1. CASE i <= Len(a)
    <3>1. Differs(a, c, i)
      BY <1>2, <1>5, <2>1 DEF IsPrefixOf
    <3> QED BY <1>1, <3>1
  <2>2. CASE ~(i <= Len(a))
    <3>1. IsPrefixOf(a, c) /\ Len(a) < Len(c)
      BY <1>2, <1>5, <2>2 DEF IsPrefixOf
    <3> QED BY <1>1, <1>2, <3>1
  <2> QED BY <2>1, <2>2
<1>6. ASSUME IsPrefixOf(b, c), NEW i, Differs(a, b, i)
      PROVE  NameLess(a, c)
  <2>1. Differs(a, c, i)
    BY <1>2, <1>6 DEF IsPrefixOf
  <2> QED BY <1>1, <2>1
<1>7. ASSUME NEW i, Differs(a, b, i), NEW j, Differs(b, c, j)
      PROVE  NameLess(a, c)
  <2>1. i \in 1 .. Len(a) /\ j \in 1 .. Len(b) /\ i \in Int /\ j \in Int
    BY <1>2, <1>7
  <2>2. CASE i < j
    <3>1. Differs(a, c, i)
      BY <1>2, <1>7, <2>1, <2>2
    <3> QED BY <1>1, <3>1
  <2>3. CASE i = j
    <3>1. Differs(a, c, i)
      BY <1>2, <1>3, <1>7, <2>1, <2>3
    <3> QED BY <1>1, <3>1
  <2>4. CASE j < i
    <3>1. Differs(a, c, j)
      BY <1>2, <1>7, <2>1, <2>4
    <3> QED BY <1>1, <3>1
  <2> QED BY <2>1, <2>2, <2>3, <2>4
<1> QED BY <1>1, <1>4, <1>5, <1>6, <1>7

\* Name::compare is total.
LEMMA NameLessTotal ==
  ASSUME NEW a \in Names, NEW b \in Names
  PROVE  a = b \/ NameLess(a, b) \/ NameLess(b, a)
<1> DEFINE D == {i \in 1 .. Len(a) : i <= Len(b) /\ a[i] # b[i]}
<1>1. Len(a) \in Nat /\ Len(b) \in Nat /\ D \in SUBSET Nat
  BY DEF Names
<1>2. CASE D = {}
  <2>1. IsPrefixOf(a, b) \/ IsPrefixOf(b, a)
    BY <1>1, <1>2 DEF IsPrefixOf
  <2> QED BY <2>1 DEF NameLess
<1>3. CASE D # {}
  <2>1. PICK m \in D : \A x \in D : m <= x
    <3> HIDE DEF D
    <3> QED BY <1>1, <1>3, LeastNatural
  <2>2. \A j \in 1 .. (m - 1) : a[j] = b[j]
    BY <1>1, <2>1
  <2>3. a[m] \in Nat /\ b[m] \in Nat /\ a[m] # b[m]
    BY <1>1, <2>1 DEF Names
  <2>4. m \in 1 .. Len(a) /\ m \in 1 .. Len(b)
    BY <1>1, <2>1
  <2>5. CASE a[m] < b[m]
    BY <1>1, <2>2, <2>4, <2>5 DEF NameLess
  <2>6. CASE b[m] < a[m]
    BY <1>1, <2>2, <2>4, <2>6 DEF NameLess
  <2> QED BY <2>3, <2>5, <2>6
<1> QED BY <1>2, <1>3
----------------------------------------------------------------------------
(* The std::set and its first element                                      *)

\* A set of Data that a store can hold: a packet is known by its full name, and
\* no name has an ImplicitSha256Digest component of its own.
IsStore(stored) ==
  /\ IsFiniteSet(stored)
  /\ \A d \in stored : /\ d.name \in Names /\ d.digest \in 0 .. (GenericBase - 1)
                       /\ \A i \in 1 .. Len(d.name) : d.name[i] >= GenericBase
  /\ \A d, e \in stored : d.name = e.name /\ d.digest = e.digest => d = e

\* operator<(Entry, Entry) is a strict total order on what a store holds, as
\* std::set requires, although it does not look at the function name.
THEOREM EntriesAreOrdered ==
  ASSUME NEW stored, IsStore(stored)
  PROVE  /\ \A d \in stored : ~CompareDataWithData(d, d)
         /\ \A d, e, x \in stored : CompareDataWithData(d, e) /\ CompareDataWithData(e, x)
                                     => CompareDataWithData(d, x)
         /\ \A d, e \in stored : d = e \/ CompareDataWithData(d, e) \/ CompareDataWithData(e, d)
<1>1. \A d \in stored : d.name \in Names /\ d.digest \in Int
  BY DEF IsStore, GenericBase
<1>2. \A d \in stored : ~CompareDataWithData(d, d)
  BY <1>1, NameLessIrreflexive DEF CompareDataWithData
<1>3. ASSUME NEW d \in stored, NEW e \in stored, NEW x \in stored,
             CompareDataWithData(d, e), CompareDataWithData(e, x)
      PROVE  CompareDataWithData(d, x)
  BY <1>1, <1>3, NameLessTransitive DEF CompareDataWithData
<1>4. ASSUME NEW d \in stored, NEW e \in stored
      PROVE  d = e \/ CompareDataWithData(d, e) \/ CompareDataWithData(e, d)
  BY <1>1, NameLessTotal DEF CompareDataWithData, IsStore
<1> QED BY <1>2, <1>3, <1>4

\* A nonempty range of the std::set has a first entry.
LEMMA FirstExists ==
  ASSUME NEW stored, IsStore(stored), NEW range \in SUBSET stored, range # {}
  PROVE  First(range) # {}
<1> DEFINE Below(d) == {e \in range : CompareDataWithData(e, d)}
           Sizes == {Cardinality(Below(d)) : d \in range}
<1>1. IsFiniteSet(range)
  BY FS_Subset DEF IsStore
<1>2. \A d \in range : IsFiniteSet(Below(d)) /\ Cardinality(Below(d)) \in Nat
  <2> SUFFICES ASSUME NEW d \in range
               PROVE  IsFiniteSet(Below(d)) /\ Cardinality(Below(d)) \in Nat
    OBVIOUS
  <2>1. Below(d) \subseteq range
    OBVIOUS
  <2> HIDE DEF Below
  <2> QED BY <1>1, <2>1, FS_Subset, FS_CardinalityType
<1>3. PICK m \in Sizes : \A x \in Sizes : m <= x
  <2>1. Sizes \in SUBSET Nat /\ Sizes # {}
    <3> HIDE DEF Below
    <3> QED BY <1>2
  <2> HIDE DEF Sizes
  <2> QED BY <2>1, LeastNatural
<1>4. PICK d \in range : m = Cardinality(Below(d))
  OBVIOUS
<1>5. ASSUME NEW e \in Below(d) PROVE FALSE
  <2>1. e \in range /\ Below(e) \subseteq Below(d) /\ e \notin Below(e)
    BY <1>5, EntriesAreOrdered
  <2>2. Cardinality(Below(e)) < Cardinality(Below(d))
    <3>1. Below(e) # Below(d)
      BY <1>5, <2>1
    <3> HIDE DEF Below
    <3> QED BY <1>2, <2>1, <3>1, FS_Subset
  <2>3. m <= Cardinality(Below(e))
    BY <1>3, <2>1
  <2> HIDE DEF Below
  <2> QED BY <1>2, <1>4, <2>1, <2>2, <2>3
<1>6. \A e \in range \ {d} : CompareDataWithData(d, e)
  BY <1>5, EntriesAreOrdered
<1> QED BY <1>6 DEF First
----------------------------------------------------------------------------
(* Cs::findImpl                                                            *)

\* Name::getPrefix keeps the components it does not drop.
LEMMA PrefixOfName ==
  ASSUME NEW p \in Seq(Nat), NEW n \in Nat, n <= Len(p)
  PROVE  LET t == SubSeq(p, 1, n)
         IN  t \in Seq(Nat) /\ Len(t) = n /\ \A i \in 1 .. n : t[i] = p[i]
<1> DEFINE t == SubSeq(p, 1, n)
<1>1. \A i \in 1 .. n : p[i] \in Nat
  OBVIOUS
<1>2. t \in Seq(Nat)
  BY <1>1
<1>3. Len(t) = n /\ \A i \in 1 .. n : t[i] = p[i]
  OBVIOUS
<1> QED BY <1>2, <1>3

\* The lookup name of a plain Interest is a prefix of the name of every Data
\* that matches: an implicit digest is taken off.
LEMMA LookupNameIsPrefix ==
  ASSUME NEW int, int.name \in Names, int.func = << >>,
         NEW d, d.name \in Names, \A i \in 1 .. Len(d.name) : d.name[i] >= GenericBase,
         MatchesData(int, d)
  PROVE  LET p == GetNameFunction(int) IN p \in Names /\ IsPrefixOf(p, d.name)
<1> DEFINE n == int.name
           p == GetNameFunction(int)
<1>1. Len(n) \in Nat /\ Len(d.name) \in Nat /\ \A s \in Names : s \o << >> = s
  BY DEF Names
<1>2. CASE Len(n) = Len(d.name) + 1
  <2>1. n = Append(d.name, d.digest) /\ IsImplicitSha256Digest(GetLast(n))
    BY <1>2 DEF MatchesData, GetFullName
  <2>2. n # << >> /\ EndsWithDigest(n)
    BY <1>1, <1>2, <2>1 DEF EndsWithDigest
  <2>3. p = GetPrefix(n) \o << >>
    BY <2>2 DEF GetNameFunction
  <2>4. d.digest \in Nat
    BY <1>1, <1>2, <2>1 DEF Names
  <2>5. GetPrefix(n) = d.name
    BY <1>1, <1>2, <2>1, <2>4 DEF GetPrefix, Names
  <2>6. p = d.name
    BY <1>1, <2>3, <2>5
  <2>7. IsPrefixOf(d.name, d.name)
    BY DEF IsPrefixOf, Names
  <2> QED BY <2>6, <2>7
<1>3. CASE Len(n) # Len(d.name) + 1
  <2>1. IsPrefixOf(n, d.name)
    BY <1>1, <1>3 DEF MatchesData, IsPrefixOf
  <2>2. ~EndsWithDigest(n)
    <3> SUFFICES ASSUME EndsWithDigest(n) PROVE FALSE
      OBVIOUS
    <3>1. Len(n) \in 1 .. Len(n) /\ n[Len(n)] < GenericBase /\ n[Len(n)] \in Nat
      BY <1>1 DEF EndsWithDigest, GetLast, IsImplicitSha256Digest, Names
    <3>2. d.name[Len(n)] = n[Len(n)] /\ Len(n) \in 1 .. Len(d.name)
      BY <1>1, <2>1, <3>1 DEF IsPrefixOf
    <3> QED BY <3>1, <3>2 DEF GenericBase
  <2>3. p = n
    BY <1>1, <2>2 DEF GetNameFunction
  <2> QED BY <2>1, <2>3
<1> QED BY <1>2, <1>3

\* findPrefixRange spans every entry whose name has the prefix: lower_bound of
\* the prefix is not above it, lower_bound of the successor not below it.
LEMMA RangeHoldsExtensions ==
  ASSUME NEW stored, NEW d \in stored, d.name \in Names,
         \A i \in 1 .. Len(d.name) : d.name[i] >= GenericBase,
         NEW p \in Names, IsPrefixOf(p, d.name)
  PROVE  d \in FindPrefixRange(stored, p)
<1> DEFINE s == GetSuccessor(p)
           L == Len(p)
<1>1. L \in Nat /\ Len(d.name) \in Nat /\ L <= Len(d.name)
      /\ \A i \in 1 .. L : p[i] \in Nat /\ p[i] = d.name[i] /\ p[i] >= GenericBase
  BY DEF Names, IsPrefixOf, GenericBase
<1>2. p # << >> => L \in 1 .. L
  BY <1>1 DEF Names
<1>3. ~EndsWithDigest(p)
  BY <1>1, <1>2 DEF EndsWithDigest, GetLast, IsImplicitSha256Digest, GenericBase
<1>4. NotBelowQuery(d, p)
  BY <1>3 DEF NotBelowQuery, NameLess
<1>5. ASSUME p # << >> PROVE ~NotBelowQuery(d, s)
  <2>1. /\ s \in Names /\ Len(s) = L /\ s[L] = p[L] + 1
        /\ \A i \in 1 .. (L - 1) : s[i] = p[i]
    <3> DEFINE t == SubSeq(p, 1, L - 1)
    <3>1. p \in Seq(Nat) /\ L - 1 \in Nat /\ L - 1 <= Len(p) /\ p[L] \in Nat
      BY <1>1, <1>2, <1>5 DEF Names
    <3>2. t \in Seq(Nat) /\ Len(t) = L - 1 /\ \A i \in 1 .. (L - 1) : t[i] = p[i]
      BY ZenonT(30), <3>1, PrefixOfName
    <3>3. s = Append(t, p[L] + 1)
      BY DEF GetSuccessor, GetPrefix, GetLast
    <3> HIDE DEF t, s
    <3> QED BY <1>1, <3>1, <3>2, <3>3 DEF Names
  <2> HIDE DEF s
  <2>2. ~EndsWithDigest(s)
    BY <1>1, <1>2, <1>5, <2>1 DEF EndsWithDigest, GetLast, IsImplicitSha256Digest, GenericBase
  <2>3. s[L] > d.name[L] /\ \A i \in 1 .. (L - 1) : s[i] = d.name[i] /\ s[i] \in Nat
    BY <1>1, <1>2, <1>5, <2>1
  <2>4. s # d.name /\ ~IsPrefixOf(s, d.name)
    BY <1>1, <1>2, <1>5, <2>1, <2>3 DEF IsPrefixOf
  <2>5. ~NameLess(s, d.name)
    BY <1>1, <1>2, <1>5, <2>1, <2>3, <2>4 DEF NameLess
  <2> QED BY <2>2, <2>4, <2>5 DEF NotBelowQuery
<1> QED BY <1>4, <1>5 DEF FindPrefixRange

\* Cs::find calls miss "if there's no match" (cs.hpp): for an Interest without
\* a function it does so only if no stored Data can satisfy it.
THEOREM FindIsComplete ==
  ASSUME NEW stored, IsStore(stored), NEW fresh,
         NEW int, int.name \in Names, int.func = << >>,
         NEW d \in stored, CanSatisfy(int, d, fresh)
  PROVE  FindImpl(stored, int, fresh) # {}
<1> DEFINE range == {e \in FindPrefixRange(stored, GetNameFunction(int)) : CanSatisfy(int, e, fresh)}
<1>1. GetNameFunction(int) \in Names /\ IsPrefixOf(GetNameFunction(int), d.name)
  BY LookupNameIsPrefix DEF IsStore, CanSatisfy, MatchesDataWFunction
<1>2. d \in range
  BY <1>1, RangeHoldsExtensions DEF IsStore
<1>3. range \in SUBSET stored
  BY DEF FindPrefixRange
<1> HIDE DEF range
<1>4. First(range) # {}
  BY <1>2, <1>3, FirstExists
<1> QED BY ZenonT(30), <1>4 DEF FindImpl, range

----------------------------------------------------------------------------
(* Queues                                                                  *)

\* x stands before y in q.
Before(q, x, y) == \E i, j \in 1 .. Len(q) : i < j /\ q[i] = x /\ q[j] = y

\* r is q without the members of ds: f tells where in q each entry of r stood.
IsThinned(r, q, ds) ==
  \E f \in [1 .. Len(r) -> 1 .. Len(q)] :
    /\ \A a, b \in 1 .. Len(r) : a < b => f[a] < f[b]
    /\ \A a \in 1 .. Len(r) : r[a] = q[f[a]] /\ q[f[a]] \notin ds
    /\ \A i \in 1 .. Len(q) : q[i] \notin ds => \E a \in 1 .. Len(r) : f[a] = i

\* RemoveAll, std::list::erase of several entries, keeps the others in order.
LEMMA RemoveAllThins ==
  ASSUME NEW S, NEW q \in Seq(S), NEW ds
  PROVE  RemoveAll(q, ds) \in Seq(S) /\ IsThinned(RemoveAll(q, ds), q, ds)
<1> DEFINE K == {i \in 1 .. Len(q) : q[i] \notin ds}
           To(i) == {j \in K : j <= i}
           n == Cardinality(K)
           g == [i \in K |-> Cardinality(To(i))]
           f == [k \in 1 .. n |-> CHOOSE i \in K : Cardinality(To(i)) = k]
           r == RemoveAll(q, ds)
<1>1. Len(q) \in Nat /\ K \subseteq 1 .. Len(q) /\ IsFiniteSet(K) /\ n \in Nat
  <2>1. Len(q) \in Nat /\ K \subseteq 1 .. Len(q) /\ IsFiniteSet(1 .. Len(q))
    BY FS_Interval
  <2> HIDE DEF K
  <2>2. IsFiniteSet(K)
    BY ZenonT(30), <2>1, FS_Subset
  <2> QED BY <2>1, <2>2, FS_CardinalityType
<1>2. \A i \in K : /\ To(i) \subseteq K /\ i \in To(i) /\ IsFiniteSet(To(i))
                   /\ Cardinality(To(i)) \in 1 .. n
  <2> SUFFICES ASSUME NEW i \in K
               PROVE  /\ To(i) \subseteq K /\ i \in To(i) /\ IsFiniteSet(To(i))
                      /\ Cardinality(To(i)) \in 1 .. n
    OBVIOUS
  <2>1. To(i) \subseteq K /\ i \in To(i)
    BY <1>1
  <2> HIDE DEF K, To
  <2>2. IsFiniteSet(To(i)) /\ Cardinality(To(i)) <= n /\ Cardinality(To(i)) \in Nat
    BY <1>1, <2>1, FS_Subset, FS_CardinalityType
  <2>3. Cardinality(To(i)) # 0
    BY <2>1, <2>2, FS_EmptySet
  <2> HIDE DEF n
  <2> QED BY <1>1, <2>1, <2>2, <2>3
<1>3. \A i, j \in K : i < j => Cardinality(To(i)) < Cardinality(To(j))
  <2> SUFFICES ASSUME NEW i \in K, NEW j \in K, i < j
               PROVE  Cardinality(To(i)) < Cardinality(To(j))
    OBVIOUS
  <2>1. To(i) \subseteq To(j) /\ j \in To(j) /\ j \notin To(i)
    BY <1>1
  <2> HIDE DEF K, To
  <2>2. Cardinality(To(i)) <= Cardinality(To(j)) /\ Cardinality(To(i)) # Cardinality(To(j))
    BY <1>2, <2>1, FS_Subset
  <2> QED BY <1>2, <2>2
<1> HIDE DEF K, To
<1>4. \A k \in 1 .. n : \E i \in K : Cardinality(To(i)) = k
  <2>1. g \in [K -> 1 .. n] /\ \A i, j \in K : g[i] = g[j] => i = j
    <3>1. g \in [K -> 1 .. n]
      BY <1>2
    <3>2. ASSUME NEW i \in K, NEW j \in K, g[i] = g[j] PROVE i = j
      <4>1. i \in Int /\ j \in Int /\ Cardinality(To(i)) = Cardinality(To(j))
        BY <1>1, <3>2
      <4>2. Cardinality(To(i)) \in Int
        BY <1>2
      <4> QED BY <1>3, <4>1, <4>2
    <3> QED BY <3>1, <3>2
  <2> HIDE DEF g
  <2>2. g \in Injection(K, 1 .. n)
    BY <2>1 DEF Injection, IsInjective
  <2>3. IsFiniteSet(1 .. n) /\ Cardinality(1 .. n) = n
    BY <1>1, FS_Interval
  <2>4. g \in Surjection(K, 1 .. n)
    BY <2>2, <2>3, FS_Injection
  <2>5. \A k \in 1 .. n : \E i \in K : g[i] = k
    BY <2>4 DEF Surjection
  <2>6. \A i \in K : g[i] = Cardinality(To(i))
    BY DEF g
  <2> QED BY <2>5, <2>6
<1>5. r = [k \in 1 .. n |-> q[f[k]]]
  BY DEF RemoveAll, K, To
<1>6. \A k \in 1 .. n : f[k] \in K /\ Cardinality(To(f[k])) = k
  <2> SUFFICES ASSUME NEW k \in 1 .. n
               PROVE  f[k] \in K /\ Cardinality(To(f[k])) = k
    OBVIOUS
  <2>1. PICK i \in K : Cardinality(To(i)) = k
    BY <1>4
  <2>2. f[k] = CHOOSE x \in K : Cardinality(To(x)) = k
    OBVIOUS
  <2> QED BY <2>1, <2>2
<1> HIDE DEF f, n, r
<1>7. f \in [1 .. n -> 1 .. Len(q)]
  BY ZenonT(30), <1>1, <1>6 DEF f
<1>8. r \in Seq(S) /\ Len(r) = n /\ \A a \in 1 .. n : r[a] = q[f[a]] /\ q[f[a]] \notin ds
  <2>1. \A a \in 1 .. n : r[a] = q[f[a]] /\ q[f[a]] \in S /\ q[f[a]] \notin ds
    BY <1>5, <1>6, <1>7 DEF K
  <2>2. r \in [1 .. n -> S]
    BY <1>5, <2>1
  <2> QED BY <1>1, <2>1, <2>2
<1>9. \A a, b \in 1 .. n : a < b => f[a] < f[b]
  <2> SUFFICES ASSUME NEW a \in 1 .. n, NEW b \in 1 .. n, a < b, ~(f[a] < f[b])
               PROVE  FALSE
    OBVIOUS
  <2>1. f[a] \in K /\ f[b] \in K /\ f[a] \in Int /\ f[b] \in Int
    BY <1>1, <1>6, <1>7
  <2>2. Cardinality(To(f[a])) = a /\ Cardinality(To(f[b])) = b
    BY <1>6
  <2>3. f[b] < f[a] \/ f[b] = f[a]
    BY <2>1
  <2> QED BY <1>1, <1>3, <2>1, <2>2, <2>3
<1>10. \A i \in 1 .. Len(q) : q[i] \notin ds => \E a \in 1 .. n : f[a] = i
  <2> SUFFICES ASSUME NEW i \in K PROVE \E a \in 1 .. n : f[a] = i
    BY DEF K
  <2>1. Cardinality(To(i)) \in 1 .. n
    BY <1>2
  <2>2. PICK a \in 1 .. n : a = Cardinality(To(i))
    BY <2>1
  <2>3. f[a] \in K /\ Cardinality(To(f[a])) = a /\ a \in Int
    BY <1>1, <1>6
  <2>4. f[a] \in Int /\ i \in Int
    BY <1>1, <1>7
  <2>5. ~(f[a] < i) /\ ~(i < f[a])
    BY <1>3, <2>2, <2>3
  <2> QED BY <2>4, <2>5
<1>11. RemoveAll(q, ds) = r /\ Len(r) = n
  BY <1>8 DEF r
<1>12. f \in [1 .. Len(r) -> 1 .. Len(q)]
  BY <1>7, <1>11
<1>13. IsThinned(r, q, ds)
  <2>1. \A a, b \in 1 .. Len(r) : a < b => f[a] < f[b]
    BY <1>9, <1>11
  <2>2. \A a \in 1 .. Len(r) : r[a] = q[f[a]] /\ q[f[a]] \notin ds
    BY <1>8, <1>11
  <2>3. \A i \in 1 .. Len(q) : q[i] \notin ds => \E a \in 1 .. Len(r) : f[a] = i
    BY <1>10, <1>11
  <2> QED BY <1>12, <2>1, <2>2, <2>3, ZenonT(30) DEF IsThinned
<1> QED BY <1>8, <1>11, <1>13

\* The members of a sequence by their positions.
LEMMA RangeByPosition ==
  ASSUME NEW S, NEW q \in Seq(S)
  PROVE  /\ DOMAIN q = 1 .. Len(q) /\ Len(q) \in Nat
         /\ \A x : x \in Range(q) <=> \E i \in 1 .. Len(q) : q[i] = x
         /\ \A i \in 1 .. Len(q) : q[i] \in S
         /\ IsInjective(q) <=> \A i, j \in 1 .. Len(q) : q[i] = q[j] => i = j
BY DEF Range, IsInjective

\* What a queue is after some entries have left it.
LEMMA ThinnedQueue ==
  ASSUME NEW S, NEW q \in Seq(S), NEW ds
  PROVE  /\ RemoveAll(q, ds) \in Seq(S)
         /\ Range(RemoveAll(q, ds)) = Range(q) \ ds
         /\ IsInjective(q) => IsInjective(RemoveAll(q, ds))
         /\ q = << >> => RemoveAll(q, ds) = << >>
         /\ \A x, y : Before(RemoveAll(q, ds), x, y) => Before(q, x, y)
<1> DEFINE r == RemoveAll(q, ds)
<1>1. r \in Seq(S) /\ IsThinned(r, q, ds)
  BY RemoveAllThins
<1> HIDE DEF r
<1>2. PICK f \in [1 .. Len(r) -> 1 .. Len(q)] :
        /\ \A a, b \in 1 .. Len(r) : a < b => f[a] < f[b]
        /\ \A a \in 1 .. Len(r) : r[a] = q[f[a]] /\ q[f[a]] \notin ds
        /\ \A i \in 1 .. Len(q) : q[i] \notin ds => \E a \in 1 .. Len(r) : f[a] = i
  BY ZenonT(30), <1>1 DEF IsThinned
<1>3. \A x : x \in Range(r) <=> x \in Range(q) \ ds
  <2>1. \A x : x \in Range(r) <=> \E i \in 1 .. Len(r) : r[i] = x
    BY <1>1, RangeByPosition
  <2>2. \A x : x \in Range(q) <=> \E i \in 1 .. Len(q) : q[i] = x
    BY RangeByPosition
  <2>3. ASSUME NEW x \in Range(r) PROVE x \in Range(q) \ ds
    <3>1. PICK a \in 1 .. Len(r) : r[a] = x
      BY <2>1
    <3>2. f[a] \in 1 .. Len(q) /\ q[f[a]] = x /\ x \notin ds
      BY <1>2, <3>1
    <3> QED BY <2>2, <3>2
  <2>4. ASSUME NEW x \in Range(q), x \notin ds PROVE x \in Range(r)
    <3>1. PICK i \in 1 .. Len(q) : q[i] = x
      BY <2>2
    <3>2. PICK a \in 1 .. Len(r) : f[a] = i
      BY <1>2, <2>4, <3>1
    <3> QED BY <1>2, <2>1, <3>1, <3>2
  <2> QED BY <2>3, <2>4
<1>4. ASSUME IsInjective(q) PROVE IsInjective(r)
  <2> SUFFICES ASSUME NEW a \in 1 .. Len(r), NEW b \in 1 .. Len(r), r[a] = r[b] PROVE a = b
    BY <1>1, RangeByPosition
  <2>1. q[f[a]] = q[f[b]] /\ f[a] \in 1 .. Len(q) /\ f[b] \in 1 .. Len(q) /\ a \in Int /\ b \in Int
    BY <1>1, <1>2
  <2>2. f[a] = f[b] /\ f[a] \in Int
    BY <1>4, <2>1, RangeByPosition
  <2> QED BY <1>2, <2>1, <2>2
<1>5. ASSUME q = << >> PROVE r = << >>
  <2>1. Len(r) \in Nat /\ ~(1 \in 1 .. Len(r))
    BY <1>1, <1>2, <1>5
  <2> QED BY <1>1, <2>1
<1>6. ASSUME NEW x, NEW y, Before(r, x, y) PROVE Before(q, x, y)
  BY <1>2, <1>6 DEF Before
<1> QED BY <1>1, <1>3, <1>4, <1>5, <1>6 DEF r

\* What a queue is after an entry has joined it.
LEMMA ExtendedQueue ==
  ASSUME NEW S, NEW q \in Seq(S), NEW d \in S
  PROVE  /\ Append(q, d) \in Seq(S)
         /\ Range(Append(q, d)) = Range(q) \cup {d}
         /\ IsInjective(q) /\ d \notin Range(q) => IsInjective(Append(q, d))
         /\ \A x, y : Before(Append(q, d), x, y) => Before(q, x, y) \/ (y = d /\ x \in Range(q))
<1> DEFINE r == Append(q, d)
<1>1. /\ r \in Seq(S) /\ Len(r) = Len(q) + 1 /\ Len(q) \in Nat
      /\ \A i \in 1 .. Len(q) : r[i] = q[i]
      /\ r[Len(q) + 1] = d
  OBVIOUS
<1> HIDE DEF r
<1>2. \A i \in 1 .. Len(r) : i \in 1 .. Len(q) \/ i = Len(q) + 1
  BY <1>1
<1>3. \A i \in 1 .. Len(q) : i \in 1 .. Len(r)
  BY <1>1
<1>4. Len(q) + 1 \in 1 .. Len(r)
  BY <1>1
<1>5. \A x : x \in Range(r) <=> x \in Range(q) \cup {d}
  BY <1>1, <1>2, <1>3, <1>4, RangeByPosition
<1>6. ASSUME IsInjective(q), d \notin Range(q) PROVE IsInjective(r)
  <2> SUFFICES ASSUME NEW a \in 1 .. Len(r), NEW b \in 1 .. Len(r), r[a] = r[b] PROVE a = b
    BY <1>1, RangeByPosition
  <2> QED BY <1>1, <1>2, <1>6, RangeByPosition
<1>7. ASSUME NEW x, NEW y, Before(r, x, y) PROVE Before(q, x, y) \/ (y = d /\ x \in Range(q))
  <2>1. PICK i \in 1 .. Len(r), j \in 1 .. Len(r) : i < j /\ r[i] = x /\ r[j] = y
    BY <1>7 DEF Before
  <2>2. i \in 1 .. Len(q) /\ r[i] = q[i]
    BY <1>1, <2>1
  <2>3. CASE j = Len(q) + 1
    BY <1>1, <2>1, <2>2, <2>3, RangeByPosition
  <2>4. CASE j \in 1 .. Len(q)
    BY <1>1, <2>1, <2>2, <2>4 DEF Before
  <2> QED BY <1>2, <2>3, <2>4
<1> QED BY <1>1, <1>5, <1>6, <1>7 DEF r

\* Two queues without a common entry, one after the other.
LEMMA JoinedQueues ==
  ASSUME NEW S, NEW p \in Seq(S), NEW q \in Seq(S),
         IsInjective(p), IsInjective(q), Range(p) \cap Range(q) = {}
  PROVE  /\ p \o q \in Seq(S)
         /\ Range(p \o q) = Range(p) \cup Range(q)
         /\ IsInjective(p \o q)
         /\ \A x, y : Before(p \o q, x, y) /\ y \in Range(p) => Before(p, x, y)
<1> DEFINE r == p \o q
<1>1. /\ r \in Seq(S) /\ Len(r) = Len(p) + Len(q) /\ Len(p) \in Nat /\ Len(q) \in Nat
      /\ \A i \in 1 .. Len(r) : r[i] = IF i <= Len(p) THEN p[i] ELSE q[i - Len(p)]
  OBVIOUS
<1> HIDE DEF r
<1>2. \A i \in 1 .. Len(r) : \/ i \in 1 .. Len(p) /\ r[i] = p[i]
                             \/ i - Len(p) \in 1 .. Len(q) /\ r[i] = q[i - Len(p)]
  BY <1>1
<1>3. \A i \in 1 .. Len(p) : i \in 1 .. Len(r) /\ r[i] = p[i]
  BY <1>1
<1>4. \A i \in 1 .. Len(q) : i + Len(p) \in 1 .. Len(r) /\ r[i + Len(p)] = q[i]
  BY <1>1
<1>5. \A x : x \in Range(r) <=> x \in Range(p) \cup Range(q)
  <2>1. \A x : x \in Range(r) <=> \E i \in 1 .. Len(r) : r[i] = x
    BY SMTT(30), <1>1, RangeByPosition
  <2>2. \A x : x \in Range(p) <=> \E i \in 1 .. Len(p) : p[i] = x
    BY RangeByPosition
  <2>3. \A x : x \in Range(q) <=> \E i \in 1 .. Len(q) : q[i] = x
    BY RangeByPosition
  <2>4. ASSUME NEW x \in Range(r) PROVE x \in Range(p) \cup Range(q)
    BY <1>2, <2>1, <2>2, <2>3
  <2>5. ASSUME NEW x \in Range(p) PROVE x \in Range(r)
    BY <1>3, <2>1, <2>2
  <2>6. ASSUME NEW x \in Range(q) PROVE x \in Range(r)
    BY <1>4, <2>1, <2>3
  <2> QED BY <2>4, <2>5, <2>6
<1>6. \A i \in 1 .. Len(r), j \in 1 .. Len(r) :
        r[i] = r[j] => (i \in 1 .. Len(p) <=> j \in 1 .. Len(p))
  <2>1. \A i \in 1 .. Len(p), j \in 1 .. Len(q) : p[i] # q[j]
    BY RangeByPosition
  <2> QED BY ZenonT(30), <1>1, <1>2, <1>3, <2>1
<1>7. IsInjective(r)
  <2> SUFFICES ASSUME NEW a \in 1 .. Len(r), NEW b \in 1 .. Len(r), r[a] = r[b] PROVE a = b
    BY <1>1, RangeByPosition
  <2>1. CASE a \in 1 .. Len(p) /\ b \in 1 .. Len(p)
    BY <1>3, <2>1, RangeByPosition
  <2>2. CASE a \notin 1 .. Len(p) /\ b \notin 1 .. Len(p)
    <3>1. a - Len(p) \in 1 .. Len(q) /\ b - Len(p) \in 1 .. Len(q) /\ q[a - Len(p)] = q[b - Len(p)]
      BY <1>2, <2>2
    <3>2. a - Len(p) = b - Len(p) /\ a \in Int /\ b \in Int
      BY <1>1, <3>1, RangeByPosition
    <3> QED BY <1>1, <3>2
  <2> QED BY <1>6, <2>1, <2>2
<1>8. ASSUME NEW x, NEW y, Before(r, x, y), y \in Range(p) PROVE Before(p, x, y)
  <2>1. PICK i \in 1 .. Len(r), j \in 1 .. Len(r) : i < j /\ r[i] = x /\ r[j] = y
    BY <1>8 DEF Before
  <2>2. PICK k \in 1 .. Len(p) : p[k] = y
    BY <1>8, RangeByPosition
  <2>3. j \in 1 .. Len(p)
    BY <1>3, <1>6, <2>1, <2>2
  <2>4. i \in 1 .. Len(p)
    BY <1>1, <2>1, <2>3
  <2> QED BY <1>3, <2>1, <2>3, <2>4 DEF Before
<1> QED BY <1>1, <1>5, <1>7, <1>8 DEF r
----------------------------------------------------------------------------
(* The inductive invariant                                                 *)

\* Each entry of the table is in exactly one queue, once.
QueuesHold(qs, stored) ==
  /\ qs \in [QueueName -> Seq(Data)]
  /\ \A n \in QueueName : IsInjective(qs[n])
  /\ \A n, m \in QueueName : n # m => Range(qs[n]) \cap Range(qs[m]) = {}
  /\ stored = UNION {Range(qs[n]) : n \in QueueName}

\* What being in a queue says of an entry, and which events are armed, when
\* the policy state is ps and the table is tab.
PolicyHolds(ps, tab) ==
  /\ QueuesHold(ps.queues, DOMAIN tab)
  /\ DOMAIN ps.timers = Range(ps.queues["fifo"])
  /\ \A d \in DOMAIN ps.timers : ps.timers[d] = tab[d].freshUntil
  /\ policy = "lru" => \A n \in QueueName \ {"lru"} : ps.queues[n] = << >>
  /\ policy # "lru" => /\ ps.queues["lru"] = << >>
                       /\ \A d \in DOMAIN tab : d \in Range(ps.queues["unsolicited"]) <=> tab[d].unsolicited
  /\ \A d \in Range(ps.queues["stale"]) : tab[d].freshUntil <= now

\* The table of a store: entries of Data.
IsTable(tab) ==
  /\ tab \in [DOMAIN tab -> [unsolicited : BOOLEAN, freshUntil : Nat]]
  /\ DOMAIN tab \subseteq Data

\* The LRU queue is in the order of last use.
QueueIsRecency(q, rec) == \A i, j \in 1 .. Len(q) : i < j => <<q[i], q[j]>> \in rec

IInv ==
  /\ now \in Nat /\ limit \in Limit /\ policy \in PolicyName
  /\ IsTable(table) /\ Cardinality(Stored) <= limit
  /\ PolicyHolds(PolicyState, table)
  /\ policy = "lru" => QueueIsRecency(queues["lru"], recency)

\* The queues one after the other hold what each of them holds, and who stands
\* before an entry of one queue is in that queue or in one that is served first.
LEMMA OrderOfQueues ==
  ASSUME NEW qs, NEW stored, QueuesHold(qs, stored)
  PROVE  /\ EvictionOrder(qs) \in Seq(Data) /\ IsInjective(EvictionOrder(qs))
         /\ Range(EvictionOrder(qs)) = stored
         /\ \A x, y : Before(EvictionOrder(qs), x, y) =>
              /\ y \in Range(qs["lru"]) => Before(qs["lru"], x, y)
              /\ y \in Range(qs["unsolicited"]) => x \in Range(qs["lru"]) \cup Range(qs["unsolicited"])
              /\ y \in Range(qs["stale"]) =>
                   x \in Range(qs["lru"]) \cup Range(qs["unsolicited"]) \cup Range(qs["stale"])
<1> DEFINE l == qs["lru"]
           u == qs["unsolicited"]
           s == qs["stale"]
           f == qs["fifo"]
<1>1. /\ l \in Seq(Data) /\ u \in Seq(Data) /\ s \in Seq(Data) /\ f \in Seq(Data)
      /\ IsInjective(l) /\ IsInjective(u) /\ IsInjective(s) /\ IsInjective(f)
      /\ Range(l) \cap Range(u) = {} /\ Range(l) \cap Range(s) = {} /\ Range(l) \cap Range(f) = {}
      /\ Range(u) \cap Range(s) = {} /\ Range(u) \cap Range(f) = {} /\ Range(s) \cap Range(f) = {}
  BY DEF QueuesHold, QueueName
<1>2. stored = Range(l) \cup Range(u) \cup Range(s) \cup Range(f)
  <2>1. \A n : n \in QueueName <=> n \in {"lru", "unsolicited", "stale", "fifo"}
    BY DEF QueueName
  <2> QED BY ZenonT(30), <2>1 DEF QueuesHold
<1>3. EvictionOrder(qs) = ((l \o u) \o s) \o f
  BY DEF EvictionOrder
<1> HIDE DEF l, u, s, f
<1>4. /\ l \o u \in Seq(Data) /\ Range(l \o u) = Range(l) \cup Range(u) /\ IsInjective(l \o u)
      /\ \A x, y : Before(l \o u, x, y) /\ y \in Range(l) => Before(l, x, y)
  BY <1>1, JoinedQueues
<1> DEFINE lu == l \o u
<1> HIDE DEF lu
<1>5. /\ lu \o s \in Seq(Data) /\ Range(lu \o s) = Range(lu) \cup Range(s) /\ IsInjective(lu \o s)
      /\ \A x, y : Before(lu \o s, x, y) /\ y \in Range(lu) => Before(lu, x, y)
  <2>1. Range(lu) \cap Range(s) = {} /\ lu \in Seq(Data) /\ IsInjective(lu)
    BY <1>1, <1>4 DEF lu
  <2> QED BY <1>1, <2>1, JoinedQueues
<1> DEFINE lus == lu \o s
<1> HIDE DEF lus
<1>6. /\ lus \o f \in Seq(Data) /\ Range(lus \o f) = Range(lus) \cup Range(f) /\ IsInjective(lus \o f)
      /\ \A x, y : Before(lus \o f, x, y) /\ y \in Range(lus) => Before(lus, x, y)
  <2>1. Range(lus) \cap Range(f) = {} /\ lus \in Seq(Data) /\ IsInjective(lus)
    BY <1>1, <1>4, <1>5 DEF lus, lu
  <2> QED BY <1>1, <2>1, JoinedQueues
<1>7. EvictionOrder(qs) = lus \o f
  BY <1>3 DEF lus, lu
<1>8. \A q \in Seq(Data) : \A x, y : Before(q, x, y) => x \in Range(q)
  BY RangeByPosition DEF Before
<1>9. Range(lu) = Range(l) \cup Range(u) /\ Range(lus) = Range(lu) \cup Range(s)
      /\ lu \in Seq(Data) /\ lus \in Seq(Data)
  BY <1>4, <1>5 DEF lu, lus
<1>10. ASSUME NEW x, NEW y, Before(lus \o f, x, y)
       PROVE  /\ y \in Range(l) => Before(l, x, y)
              /\ y \in Range(u) => x \in Range(l) \cup Range(u)
              /\ y \in Range(s) => x \in Range(l) \cup Range(u) \cup Range(s)
  <2>1. y \in Range(lus) => Before(lus, x, y) /\ x \in Range(lus)
    BY <1>6, <1>8, <1>9, <1>10
  <2>2. y \in Range(lu) => Before(lu, x, y) /\ x \in Range(lu)
    BY <1>5, <1>8, <1>9, <2>1 DEF lus
  <2>3. y \in Range(l) => Before(l, x, y)
    BY <1>4, <1>9, <2>2 DEF lu
  <2> QED BY <1>9, <2>1, <2>2, <2>3
<1> QED BY <1>2, <1>6, <1>7, <1>9, <1>10 DEF l, u, s

\* evictEntries takes the entries at the front, as many as exceed the limit.
LEMMA VictimsAreFirst ==
  ASSUME NEW ps, NEW tab, QueuesHold(ps.queues, DOMAIN tab), NEW lim \in Nat
  PROVE  /\ IsFiniteSet(DOMAIN tab) /\ Victims(ps, tab, lim) \subseteq DOMAIN tab
         /\ Cardinality(DOMAIN tab \ Victims(ps, tab, lim)) <= lim
         /\ \A x \in Victims(ps, tab, lim), y \in DOMAIN tab \ Victims(ps, tab, lim) :
              Before(EvictionOrder(ps.queues), x, y)
<1> DEFINE o == EvictionOrder(ps.queues)
           D == DOMAIN tab
           n == Cardinality(D) - lim
           out == Victims(ps, tab, lim)
<1>1. o \in Seq(Data) /\ IsInjective(o) /\ Range(o) = D
  BY OrderOfQueues
<1>2. out = IF n <= 0 THEN {} ELSE Range(SubSeq(o, 1, n))
  BY DEF Victims
<1> HIDE DEF o, D, out
<1>3. Len(o) \in Nat /\ (\A x : x \in D <=> \E i \in 1 .. Len(o) : o[i] = x)
      /\ \A i, j \in 1 .. Len(o) : o[i] = o[j] => i = j
  BY <1>1, RangeByPosition
<1>4. IsFiniteSet(D) /\ Cardinality(D) = Len(o)
  <2>1. o \in Bijection(1 .. Len(o), D)
    <3>1. o \in [1 .. Len(o) -> D]
      BY <1>1, <1>3
    <3> QED BY <1>3, <3>1 DEF Bijection, Injection, Surjection, IsInjective
  <2>2. ExistsBijection(1 .. Len(o), D)
    BY <2>1 DEF ExistsBijection
  <2>3. IsFiniteSet(D)
    BY <1>3, <2>2, FS_NatBijection
  <2> QED BY <1>3, <2>2, <2>3, FS_CountingElements
<1>5. CASE n <= 0
  BY <1>2, <1>3, <1>4, <1>5 DEF D, out
<1>6. CASE ~(n <= 0)
  <2>1. n \in 1 .. Len(o) /\ n \in Nat
    BY <1>3, <1>4, <1>6
  <2> DEFINE v == SubSeq(o, 1, n)
  <2>2. v \in Seq(Data) /\ Len(v) = n /\ \A i \in 1 .. n : v[i] = o[i]
    BY <1>1, <2>1
  <2> HIDE DEF v, n
  <2>3. \A x : x \in out <=> \E i \in 1 .. n : o[i] = x
    <3>1. \A x : x \in Range(v) <=> \E i \in 1 .. Len(v) : v[i] = x
      BY <2>2, RangeByPosition
    <3>2. out = Range(v)
      BY <1>2, <1>6 DEF v
    <3> QED BY <2>2, <3>1, <3>2
  <2>4. out \subseteq D
    BY <1>3, <2>1, <2>3
  <2>5. Cardinality(out) = n
    <3>1. IsInjective(v) /\ Range(v) = out
      <4>1. \A i, j \in 1 .. Len(v) : v[i] = v[j] => i = j
        BY <1>3, <2>1, <2>2
      <4>2. IsInjective(v)
        BY <2>2, <4>1, RangeByPosition
      <4> QED BY <1>2, <1>6, <4>2 DEF v
    <3>2. v \in [1 .. n -> out]
      BY <2>2, <3>1, RangeByPosition
    <3>3. v \in Bijection(1 .. n, out)
      BY <2>2, <3>1, <3>2, RangeByPosition
         DEF Bijection, Injection, Surjection, IsInjective
    <3>4. ExistsBijection(1 .. n, out)
      BY <3>3 DEF ExistsBijection
    <3> QED BY <2>1, <3>4, FS_CountingElements
  <2>6. Cardinality(D \ out) = Cardinality(D) - Cardinality(out)
    <3>1. D \cap out = out
      BY <2>4
    <3>2. Cardinality(D \ out) = Cardinality(D) - Cardinality(D \cap out)
      BY ZenonT(30), <1>4, FS_Difference
    <3> QED BY <3>1, <3>2
  <2>7. Cardinality(D \ out) <= lim
    BY <1>3, <1>4, <2>5, <2>6 DEF n
  <2>8. ASSUME NEW x \in out, NEW y \in D \ out PROVE Before(o, x, y)
    <3>1. PICK i \in 1 .. n : o[i] = x
      BY <2>3
    <3>2. PICK j \in 1 .. Len(o) : o[j] = y
      BY <1>3
    <3>3. ~(j \in 1 .. n)
      BY <2>3, <3>2
    <3> QED BY <2>1, <3>1, <3>2, <3>3 DEF Before
  <2> QED BY <1>4, <2>4, <2>7, <2>8 DEF D, out, o
<1> QED BY <1>5, <1>6

\* An entry is stored when some queue holds its iterator.
LEMMA InOneQueue ==
  ASSUME NEW qs, NEW stored, QueuesHold(qs, stored)
  PROVE  \A d : d \in stored <=> \E n \in QueueName : d \in Range(qs[n])
BY DEF QueuesHold

\* doBeforeErase and evictOne: entries leave the queues and the table together.
LEMMA DropKeeps ==
  ASSUME NEW ps, NEW tab, PolicyHolds(ps, tab), NEW ds
  PROVE  PolicyHolds(Drop(ps, ds), Restrict(tab, DOMAIN tab \ ds))
<1> DEFINE qs == ps.queues
           kept == Drop(ps, ds)
           left == Restrict(tab, DOMAIN tab \ ds)
<1>1. /\ kept.queues = [n \in QueueName |-> RemoveAll(qs[n], ds)]
      /\ kept.timers = [d \in DOMAIN ps.timers \ ds |-> ps.timers[d]]
      /\ left = [d \in DOMAIN tab \ ds |-> tab[d]]
  BY DEF Drop, Restrict
<1>2. QueuesHold(qs, DOMAIN tab) /\ qs \in [QueueName -> Seq(Data)]
  BY ZenonT(30) DEF PolicyHolds, QueuesHold
<1>3. /\ \A d : d \in DOMAIN tab <=> \E n \in QueueName : d \in Range(qs[n])
      /\ {"lru", "unsolicited", "stale", "fifo"} = QueueName
  BY <1>2, InOneQueue DEF QueueName
<1>4. \A n \in QueueName : /\ RemoveAll(qs[n], ds) \in Seq(Data)
                           /\ Range(RemoveAll(qs[n], ds)) = Range(qs[n]) \ ds
                           /\ IsInjective(qs[n]) => IsInjective(RemoveAll(qs[n], ds))
                           /\ qs[n] = << >> => RemoveAll(qs[n], ds) = << >>
  BY <1>2, ThinnedQueue
<1> HIDE DEF qs, kept, left
<1>5. QueuesHold(kept.queues, DOMAIN left)
  <2>1. \A n \in QueueName : /\ kept.queues[n] \in Seq(Data) /\ IsInjective(kept.queues[n])
                             /\ Range(kept.queues[n]) = Range(qs[n]) \ ds
    BY <1>1, <1>2, <1>4 DEF QueuesHold
  <2>2. kept.queues \in [QueueName -> Seq(Data)]
    BY <1>1, <1>4
  <2>3. \A n, m \in QueueName : n # m => Range(kept.queues[n]) \cap Range(kept.queues[m]) = {}
    BY ZenonT(30), <1>2, <2>1 DEF QueuesHold
  <2>4. \A d : d \in DOMAIN left <=> \E n \in QueueName : d \in Range(kept.queues[n])
    BY ZenonT(30), <1>1, <1>3, <2>1
  <2>5. DOMAIN left = UNION {Range(kept.queues[n]) : n \in QueueName}
    BY ZenonT(30), <2>4
  <2> QED BY ZenonT(30), <2>1, <2>2, <2>3, <2>5 DEF QueuesHold
<1>6. DOMAIN kept.timers = Range(kept.queues["fifo"])
  BY ZenonT(30), <1>1, <1>3, <1>4 DEF PolicyHolds, qs
<1>7. \A d \in DOMAIN kept.timers : kept.timers[d] = left[d].freshUntil
  BY <1>1, <1>3 DEF PolicyHolds, qs
<1>8. policy = "lru" => \A n \in QueueName \ {"lru"} : kept.queues[n] = << >>
  BY <1>1, <1>4 DEF PolicyHolds, qs
<1>9. policy # "lru" => kept.queues["lru"] = << >>
  BY <1>1, <1>3, <1>4 DEF PolicyHolds, qs
<1>10. policy # "lru" => \A d \in DOMAIN left :
         d \in Range(kept.queues["unsolicited"]) <=> left[d].unsolicited
  BY <1>1, <1>3, <1>4 DEF PolicyHolds, qs
<1>11. \A d \in Range(kept.queues["stale"]) : left[d].freshUntil <= now
  <2>1. \A d \in Range(kept.queues["stale"]) : d \in Range(qs["stale"]) /\ d \notin ds
    BY ZenonT(30), <1>1, <1>3, <1>4
  <2>2. \A d \in Range(qs["stale"]) : d \in DOMAIN tab /\ tab[d].freshUntil <= now
    BY <1>3 DEF PolicyHolds, qs
  <2> QED BY <1>1, <2>1, <2>2
<1> QED BY ZenonT(30), <1>5, <1>6, <1>7, <1>8, <1>9, <1>10, <1>11 DEF PolicyHolds, kept, left

\* The queue that attachQueue chooses.
LEMMA QueueForCases ==
  ASSUME NEW tab, NEW d, tab[d].unsolicited \in BOOLEAN
  PROVE  /\ QueueFor(tab, d) \in QueueName
         /\ policy = "lru" <=> QueueFor(tab, d) = "lru"
         /\ policy # "lru" => (QueueFor(tab, d) = "unsolicited" <=> tab[d].unsolicited)
         /\ QueueFor(tab, d) = "stale" => ~IsFresh(tab, d)
<1>1. CASE policy = "lru"
  BY <1>1 DEF QueueFor, QueueName
<1>2. CASE policy # "lru" /\ tab[d].unsolicited = TRUE
  BY <1>2 DEF QueueFor, QueueName
<1>3. CASE policy # "lru" /\ tab[d].unsolicited = FALSE /\ ~IsFresh(tab, d)
  BY <1>3 DEF QueueFor, QueueName
<1>4. CASE policy # "lru" /\ tab[d].unsolicited = FALSE /\ IsFresh(tab, d)
  BY <1>4 DEF QueueFor, QueueName
<1> QED BY ZenonT(30), <1>1, <1>2, <1>3, <1>4

\* attachQueue: an entry that is in the table and in no queue joins one.
LEMMA AttachKeeps ==
  ASSUME NEW ps, NEW old, PolicyHolds(ps, old), now \in Nat,
         NEW d \in Data \ DOMAIN old, NEW tab, DOMAIN tab = DOMAIN old \cup {d},
         \A x \in DOMAIN old : tab[x] = old[x], tab[d] \in [unsolicited : BOOLEAN, freshUntil : Nat],
         policy = "lru" \/ tab[d].freshUntil = now + d.fresh
  PROVE  PolicyHolds(AttachQueue(ps, tab, d), tab)
<1> DEFINE qs == ps.queues
           c == QueueFor(tab, d)
           new == AttachQueue(ps, tab, d)
<1>1. /\ new.queues = [qs EXCEPT ![c] = Append(@, d)]
      /\ new.timers = IF c = "fifo" THEN Put(ps.timers, d, now + d.fresh) ELSE ps.timers
  BY DEF AttachQueue
<1>2. QueuesHold(qs, DOMAIN old) /\ qs \in [QueueName -> Seq(Data)]
  BY ZenonT(30) DEF PolicyHolds, QueuesHold
<1>3. /\ \A x : x \in DOMAIN old <=> \E n \in QueueName : x \in Range(qs[n])
      /\ {"lru", "unsolicited", "stale", "fifo"} = QueueName
  BY <1>2, InOneQueue DEF QueueName
<1>4. /\ c \in QueueName /\ (policy = "lru" <=> c = "lru")
      /\ policy # "lru" => (c = "unsolicited" <=> tab[d].unsolicited)
      /\ c = "stale" => tab[d].freshUntil <= now
  BY QueueForCases DEF IsFresh
<1> HIDE DEF qs, c, new
<1>5. /\ Append(qs[c], d) \in Seq(Data) /\ Range(Append(qs[c], d)) = Range(qs[c]) \cup {d}
      /\ IsInjective(Append(qs[c], d))
  <2>1. qs[c] \in Seq(Data) /\ IsInjective(qs[c]) /\ d \notin Range(qs[c])
    BY <1>2, <1>3, <1>4 DEF QueuesHold
  <2> QED BY <2>1, ExtendedQueue
<1>6. \A n \in QueueName : /\ n # c => new.queues[n] = qs[n]
                           /\ Range(new.queues[n]) = IF n = c THEN Range(qs[n]) \cup {d} ELSE Range(qs[n])
  BY ZenonT(30), <1>1, <1>2, <1>5
<1>7. QueuesHold(new.queues, DOMAIN tab)
  <2>1. \A n \in QueueName : new.queues[n] \in Seq(Data) /\ IsInjective(new.queues[n])
    BY <1>1, <1>2, <1>5 DEF QueuesHold
  <2>2. new.queues \in [QueueName -> Seq(Data)]
    BY ZenonT(30), <1>1, <1>2, <1>5
  <2>3. \A n, m \in QueueName : n # m => Range(new.queues[n]) \cap Range(new.queues[m]) = {}
    <3> SUFFICES ASSUME NEW n \in QueueName, NEW m \in QueueName, n # m,
                        NEW x \in Range(new.queues[n]), x \in Range(new.queues[m])
                 PROVE  FALSE
      OBVIOUS
    <3>1. d \notin Range(qs[n]) /\ d \notin Range(qs[m]) /\ Range(qs[n]) \cap Range(qs[m]) = {}
      BY <1>2, <1>3 DEF QueuesHold
    <3> QED BY ZenonT(30), <1>6, <3>1
  <2>4. \A x : x \in DOMAIN tab <=> \E n \in QueueName : x \in Range(new.queues[n])
    BY ZenonT(30), <1>3, <1>4, <1>6
  <2>5. DOMAIN tab = UNION {Range(new.queues[n]) : n \in QueueName}
    BY <2>4
  <2> QED BY ZenonT(30), <2>1, <2>2, <2>3, <2>5 DEF QueuesHold
<1>8. DOMAIN new.timers = Range(new.queues["fifo"])
  <2>1. DOMAIN ps.timers = Range(qs["fifo"]) /\ "fifo" \in QueueName
    BY <1>3 DEF PolicyHolds, qs
  <2>2. CASE c = "fifo"
    BY ZenonT(30), <1>1, <1>6, <2>1, <2>2 DEF Put
  <2>3. CASE c # "fifo"
    BY <1>1, <1>6, <2>1, <2>3
  <2> QED BY <2>2, <2>3
<1>9. \A x \in DOMAIN new.timers : new.timers[x] = tab[x].freshUntil
  <2>1. \A x \in DOMAIN ps.timers : x \in DOMAIN old /\ x # d /\ ps.timers[x] = tab[x].freshUntil
    BY <1>3 DEF PolicyHolds, qs
  <2>2. CASE c = "fifo"
    <3>1. new.timers = Put(ps.timers, d, now + d.fresh) /\ tab[d].freshUntil = now + d.fresh
      BY <1>1, <1>4, <2>2
    <3> QED BY <2>1, <3>1 DEF Put
  <2>3. CASE c # "fifo"
    BY <1>1, <2>1, <2>3
  <2> QED BY <2>2, <2>3
<1>10. policy = "lru" => \A n \in QueueName \ {"lru"} : new.queues[n] = << >>
  BY ZenonT(30), <1>4, <1>6 DEF PolicyHolds, qs
<1>11. policy # "lru" => new.queues["lru"] = << >>
  BY ZenonT(30), <1>3, <1>4, <1>6 DEF PolicyHolds, qs
<1>12. policy # "lru" => \A x \in DOMAIN tab :
         x \in Range(new.queues["unsolicited"]) <=> tab[x].unsolicited
  <2> SUFFICES ASSUME policy # "lru", NEW x \in DOMAIN tab
               PROVE  x \in Range(new.queues["unsolicited"]) <=> tab[x].unsolicited
    OBVIOUS
  <2>1. Range(new.queues["unsolicited"]) =
          IF c = "unsolicited" THEN Range(qs["unsolicited"]) \cup {d} ELSE Range(qs["unsolicited"])
    BY ZenonT(30), <1>3, <1>6
  <2>2. CASE x = d
    BY <1>3, <1>4, <2>1, <2>2
  <2>3. CASE x # d
    <3>1. x \in DOMAIN old /\ (x \in Range(qs["unsolicited"]) <=> tab[x].unsolicited)
      BY <2>3 DEF PolicyHolds, qs
    <3> QED BY <2>1, <2>3, <3>1
  <2> QED BY <2>2, <2>3
<1>13. \A x \in Range(new.queues["stale"]) : tab[x].freshUntil <= now
  <2> SUFFICES ASSUME NEW x \in Range(new.queues["stale"]) PROVE tab[x].freshUntil <= now
    OBVIOUS
  <2>1. Range(new.queues["stale"]) = IF c = "stale" THEN Range(qs["stale"]) \cup {d} ELSE Range(qs["stale"])
    BY <1>3, <1>6
  <2>2. CASE x = d
    BY <1>3, <1>4, <2>1, <2>2
  <2>3. CASE x # d
    <3>1. x \in Range(qs["stale"])
      BY <2>1, <2>3
    <3>2. old[x].freshUntil <= now /\ x \in DOMAIN old
      BY <1>3, <3>1 DEF PolicyHolds, qs
    <3> QED BY <3>2
  <2> QED BY <2>2, <2>3
<1> QED BY <1>7, <1>8, <1>9, <1>10, <1>11, <1>12, <1>13 DEF PolicyHolds, new

\* detachQueue and attachQueue, or insertToQueue of LRU for an old entry.
LEMMA RequeueKeeps ==
  ASSUME NEW ps, NEW old, PolicyHolds(ps, old), now \in Nat,
         NEW d \in Data \cap DOMAIN old, NEW tab, DOMAIN tab = DOMAIN old,
         \A x \in DOMAIN old \ {d} : tab[x] = old[x],
         tab[d] \in [unsolicited : BOOLEAN, freshUntil : Nat],
         policy = "lru" \/ tab[d].freshUntil = now + d.fresh
  PROVE  PolicyHolds(Requeue(ps, tab, d), tab)
<1> DEFINE mid == Restrict(old, DOMAIN old \ {d})
<1>1. PolicyHolds(Drop(ps, {d}), mid)
  BY DropKeeps
<1>2. DOMAIN mid = DOMAIN old \ {d} /\ \A x \in DOMAIN mid : mid[x] = old[x]
  BY DEF Restrict
<1> HIDE DEF mid
<1>3. d \in Data \ DOMAIN mid /\ DOMAIN tab = DOMAIN mid \cup {d} /\ \A x \in DOMAIN mid : tab[x] = mid[x]
  BY ZenonT(30), <1>2
<1>4. PolicyHolds(AttachQueue(Drop(ps, {d}), tab, d), tab)
  BY <1>1, <1>3, AttachKeeps
<1> QED BY <1>4 DEF Requeue

\* LruPolicy::evictEntries takes the entries used least recently.
LEMMA VictimsLeastRecent ==
  ASSUME NEW ps, NEW tab, PolicyHolds(ps, tab), NEW lim \in Nat, policy = "lru",
         NEW x \in Victims(ps, tab, lim), NEW y \in DOMAIN tab \ Victims(ps, tab, lim)
  PROVE  Before(ps.queues["lru"], x, y)
<1>1. QueuesHold(ps.queues, DOMAIN tab)
  BY DEF PolicyHolds
<1>2. Before(EvictionOrder(ps.queues), x, y)
  BY ZenonT(30), <1>1, VictimsAreFirst
<1>3. y \in Range(ps.queues["lru"])
  <2>1. PICK n \in QueueName : y \in Range(ps.queues[n])
    BY <1>1, InOneQueue
  <2>2. n # "lru" => ps.queues[n] = << >>
    BY DEF PolicyHolds
  <2>3. Range(<< >>) = {}
    BY DEF Range
  <2> QED BY <2>1, <2>2, <2>3
<1> QED BY <1>1, <1>2, <1>3, OrderOfQueues

\* PriorityFifoPolicy::evictOne: unsolicited entries first, then those moved to
\* the stale queue, then the others.
LEMMA VictimsByPriority ==
  ASSUME NEW ps, NEW tab, PolicyHolds(ps, tab), NEW lim \in Nat, policy # "lru",
         NEW x \in Victims(ps, tab, lim), NEW y \in DOMAIN tab \ Victims(ps, tab, lim)
  PROVE  /\ tab[y].unsolicited => tab[x].unsolicited
         /\ ~tab[y].unsolicited /\ y \notin DOMAIN ps.timers =>
              tab[x].unsolicited \/ tab[x].freshUntil <= now
<1> DEFINE qs == ps.queues
<1>1. QueuesHold(qs, DOMAIN tab)
  BY DEF PolicyHolds
<1>2. Before(EvictionOrder(qs), x, y) /\ x \in DOMAIN tab
  BY ZenonT(30), <1>1, VictimsAreFirst
<1>3. /\ y \in Range(qs["unsolicited"]) => x \in Range(qs["lru"]) \cup Range(qs["unsolicited"])
      /\ y \in Range(qs["stale"]) => x \in Range(qs["lru"]) \cup Range(qs["unsolicited"]) \cup Range(qs["stale"])
  BY <1>1, <1>2, OrderOfQueues
<1>4. Range(qs["lru"]) = {}
  BY DEF PolicyHolds, Range
<1>5. /\ tab[x].unsolicited <=> x \in Range(qs["unsolicited"])
      /\ tab[y].unsolicited <=> y \in Range(qs["unsolicited"])
      /\ DOMAIN ps.timers = Range(qs["fifo"])
      /\ \A d \in Range(qs["stale"]) : tab[d].freshUntil <= now
  BY <1>2 DEF PolicyHolds
<1>6. \/ y \in Range(qs["lru"]) \/ y \in Range(qs["unsolicited"])
      \/ y \in Range(qs["stale"]) \/ y \in Range(qs["fifo"])
  BY <1>1, InOneQueue DEF QueueName
<1> HIDE DEF qs
<1> QED BY <1>3, <1>4, <1>5, <1>6

\* Cs with its policy removes entries from table and queues alike.
LEMMA CommitKeeps ==
  ASSUME NEW ps, NEW tab, PolicyHolds(ps, tab), IsTable(tab), NEW ds, Commit(ps, tab, ds),
         UNCHANGED <<now, policy>>
  PROVE  /\ PolicyHolds(PolicyState, table)' /\ IsTable(table)'
         /\ DOMAIN table' = DOMAIN tab \ ds
         /\ queues'["lru"] = RemoveAll(ps.queues["lru"], ds)
<1> DEFINE kept == Drop(ps, ds)
<1>1. PolicyHolds(kept, Restrict(tab, DOMAIN tab \ ds))
  BY DropKeeps
<1>2. table' = Restrict(tab, DOMAIN tab \ ds) /\ queues' = kept.queues /\ staleAt' = kept.timers
  BY DEF Commit
<1>3. queues'["lru"] = RemoveAll(ps.queues["lru"], ds)
  BY <1>2 DEF Drop, QueueName
<1>4. IsTable(table)' /\ DOMAIN table' = DOMAIN tab \ ds
  BY <1>2 DEF Restrict, IsTable
<1>5. PolicyState' = kept
  BY <1>2 DEF PolicyState, Drop
<1> HIDE DEF kept
<1>6. PolicyHolds(PolicyState', table')
  BY <1>1, <1>2, <1>5
<1>7. PolicyHolds(PolicyState, table)'
  BY <1>6 DEF PolicyHolds
<1> QED BY <1>3, <1>4, <1>7

\* The LRU queue stays in the order of last use when entry d is used.
LEMMA TouchKeeps ==
  ASSUME NEW t \in Seq(Data), NEW d \in Data, d \notin Range(t), QueueIsRecency(t, recency),
         NEW ds, NEW kept, Range(RemoveAll(Append(t, d), ds)) \subseteq kept, Touch(d, kept)
  PROVE  QueueIsRecency(RemoveAll(Append(t, d), ds), recency')
<1> DEFINE a == Append(t, d)
           r == RemoveAll(a, ds)
<1>1. a \in Seq(Data) /\ \A x, y : Before(a, x, y) => Before(t, x, y) \/ (y = d /\ x \in Range(t))
  BY ExtendedQueue
<1> HIDE DEF a
<1>2. r \in Seq(Data) /\ \A x, y : Before(r, x, y) => Before(a, x, y)
  BY <1>1, ThinnedQueue
<1> HIDE DEF r
<1>3. ASSUME NEW i \in 1 .. Len(r), NEW j \in 1 .. Len(r), i < j
      PROVE  <<r[i], r[j]>> \in recency'
  <2> DEFINE x == r[i]
             y == r[j]
  <2>1. Before(a, x, y) /\ x \in kept /\ y \in kept
    <3>1. Before(r, x, y)
      BY <1>3 DEF Before
    <3>2. x \in Range(r) /\ y \in Range(r)
      BY <1>2, RangeByPosition
    <3> QED BY <1>2, <3>1, <3>2 DEF r, a
  <2>2. CASE Before(t, x, y)
    <3>1. x # d /\ y # d
      BY <2>2, RangeByPosition DEF Before
    <3>2. <<x, y>> \in recency
      BY <2>2 DEF Before, QueueIsRecency
    <3> QED BY <2>1, <3>1, <3>2 DEF Touch
  <2>3. CASE y = d /\ x \in Range(t)
    BY <2>1, <2>3 DEF Touch
  <2> QED BY <1>1, <2>1, <2>2, <2>3
<1> QED BY <1>3 DEF QueueIsRecency, r, a

\* ... and when entries leave it.
LEMMA ForgetKeeps ==
  ASSUME NEW t \in Seq(Data), QueueIsRecency(t, recency), NEW ds,
         NEW kept, Range(RemoveAll(t, ds)) \subseteq kept, Forget(kept)
  PROVE  QueueIsRecency(RemoveAll(t, ds), recency')
<1> DEFINE r == RemoveAll(t, ds)
<1>1. r \in Seq(Data) /\ \A x, y : Before(r, x, y) => Before(t, x, y)
  BY ThinnedQueue
<1> HIDE DEF r
<1>2. ASSUME NEW i \in 1 .. Len(r), NEW j \in 1 .. Len(r), i < j
      PROVE  <<r[i], r[j]>> \in recency'
  <2>1. Before(t, r[i], r[j])
    <3>1. Before(r, r[i], r[j])
      BY <1>2 DEF Before
    <3> QED BY <1>1, <3>1
  <2>2. r[i] \in kept /\ r[j] \in kept
    BY <1>1, RangeByPosition DEF r
  <2>3. <<r[i], r[j]>> \in recency
    BY <2>1 DEF Before, QueueIsRecency
  <2> QED BY <2>2, <2>3 DEF Forget
<1> QED BY <1>2 DEF QueueIsRecency, r

----------------------------------------------------------------------------
(* The invariant is kept                                                   *)

\* A store starts empty.
LEMMA InitKeeps == Init => IInv
<1> SUFFICES ASSUME Init PROVE IInv
  OBVIOUS
<1>1. queues = [n \in QueueName |-> << >>] /\ DOMAIN table = {} /\ DOMAIN staleAt = {}
  BY DEF Init, EmptyQueues
<1>2. /\ Range(<< >>) = {} /\ IsInjective(<< >>) /\ << >> \in Seq(Data)
      /\ {"lru", "unsolicited", "stale", "fifo"} = QueueName
  BY DEF Range, IsInjective, QueueName
<1>3. QueuesHold(queues, DOMAIN table)
  BY <1>1, <1>2 DEF QueuesHold
<1>4. PolicyHolds(PolicyState, table)
  BY <1>1, <1>2, <1>3 DEF PolicyHolds, PolicyState
<1>5. Cardinality(Stored) <= limit /\ limit \in Limit
  BY <1>1, LimitAssumption, FS_EmptySet DEF Init, Stored
<1>6. IsTable(table)
  BY <1>1 DEF IsTable, Init
<1>7. QueueIsRecency(queues["lru"], recency)
  BY <1>1, <1>2 DEF QueueIsRecency
<1> QED BY <1>4, <1>5, <1>6, <1>7 DEF IInv, Init

\* What Cs::insert does to the policy and the table before it evicts.
InsertTable(d, unsolicited) ==
  Put(table, d, [unsolicited |-> unsolicited /\ (d \notin Stored \/ table[d].unsolicited),
                 freshUntil |-> now + d.fresh])
InsertPolicy(d, tab) ==
  IF d \notin Stored THEN AttachQueue(PolicyState, tab, d) ELSE Requeue(PolicyState, tab, d)
InsertOut(d, tab) ==
  IF d \notin Stored THEN Victims(InsertPolicy(d, tab), tab, limit) ELSE {}

\* Cs::insert installs these three and records the use of the packet.
LEMMA InsertParts ==
  ASSUME NEW d \in Data, NEW u \in BOOLEAN, Insert(d, u)
  PROVE  LET tab == InsertTable(d, u)
         IN  /\ Commit(InsertPolicy(d, tab), tab, InsertOut(d, tab))
             /\ Touch(d, DOMAIN tab \ InsertOut(d, tab))
             /\ UNCHANGED <<now, policy, limit, admit, serve>>
BY ZenonT(30) DEF Insert, InsertTable, InsertPolicy, InsertOut

\* Before it evicts, the table and the queues hold the packet.
LEMMA InsertHolds ==
  ASSUME IInv, NEW d \in Data, NEW u \in BOOLEAN
  PROVE  LET tab == InsertTable(d, u)
         IN  /\ IsTable(tab) /\ DOMAIN tab = Stored \cup {d}
             /\ \A x \in Stored \ {d} : tab[x] = table[x]
             /\ PolicyHolds(InsertPolicy(d, tab), tab)
<1> DEFINE tab == InsertTable(d, u)
<1>1. now \in Nat /\ d.fresh \in Nat /\ PolicyHolds(PolicyState, table)
      /\ DOMAIN table = Stored /\ Stored \subseteq Data
      /\ \A x \in Stored : table[x] \in [unsolicited : BOOLEAN, freshUntil : Nat]
  BY DataAssumption DEF IInv, IsTable, Stored
<1>2. DOMAIN tab = Stored \cup {d} /\ (\A x \in Stored \ {d} : tab[x] = table[x])
      /\ tab[d] \in [unsolicited : BOOLEAN, freshUntil : Nat] /\ tab[d].freshUntil = now + d.fresh
  BY <1>1 DEF InsertTable, Put
<1>3. IsTable(tab)
  <2>1. \A x \in DOMAIN tab : tab[x] \in [unsolicited : BOOLEAN, freshUntil : Nat]
    BY <1>1, <1>2
  <2>2. tab = [x \in DOMAIN tab |-> tab[x]]
    BY DEF InsertTable, Put
  <2> HIDE DEF tab
  <2> QED BY <1>1, <1>2, <2>1, <2>2 DEF IsTable
<1> HIDE DEF tab
<1>4. CASE d \notin Stored
  <2>1. d \in Data \ DOMAIN table /\ DOMAIN tab = DOMAIN table \cup {d}
        /\ \A x \in DOMAIN table : tab[x] = table[x]
    BY <1>1, <1>2, <1>4
  <2>2. PolicyHolds(AttachQueue(PolicyState, tab, d), tab)
    BY <1>1, <1>2, <2>1, AttachKeeps
  <2> QED BY <1>2, <1>3, <1>4, <2>2 DEF InsertPolicy, tab
<1>5. CASE d \in Stored
  <2>1. d \in Data \cap DOMAIN table /\ DOMAIN tab = DOMAIN table
        /\ \A x \in DOMAIN table \ {d} : tab[x] = table[x]
    BY <1>1, <1>2, <1>5
  <2>2. PolicyHolds(Requeue(PolicyState, tab, d), tab)
    BY <1>1, <1>2, <2>1, RequeueKeeps
  <2> QED BY <1>2, <1>3, <1>5, <2>2 DEF InsertPolicy, tab
<1> QED BY ZenonT(30), <1>4, <1>5

\* Fewer entries are in the order of last use as well.
LEMMA ThinnedRecency ==
  ASSUME NEW q \in Seq(Data), NEW rec, QueueIsRecency(q, rec), NEW ds
  PROVE  QueueIsRecency(RemoveAll(q, ds), rec)
<1> DEFINE r == RemoveAll(q, ds)
<1>1. \A x, y : Before(r, x, y) => Before(q, x, y)
  BY ThinnedQueue
<1> HIDE DEF r
<1>2. ASSUME NEW i \in 1 .. Len(r), NEW j \in 1 .. Len(r), i < j
      PROVE  <<r[i], r[j]>> \in rec
  <2>1. Before(r, r[i], r[j])
    BY <1>2 DEF Before
  <2>2. Before(q, r[i], r[j])
    BY <1>1, <2>1
  <2> QED BY <2>2 DEF Before, QueueIsRecency
<1> QED BY <1>2 DEF QueueIsRecency, r

\* LruPolicy::insertToQueue puts the entry at the end of the queue.
LEMMA LruQueueAfter ==
  ASSUME policy = "lru", NEW ps, NEW tab, NEW d, ps.queues \in [QueueName -> Seq(Data)]
  PROVE  /\ AttachQueue(ps, tab, d).queues["lru"] = Append(ps.queues["lru"], d)
         /\ Requeue(ps, tab, d).queues["lru"] = Append(RemoveAll(ps.queues["lru"], {d}), d)
<1>1. "lru" \in QueueName
  BY DEF QueueName
<1>2. \A x : x.queues = [n \in QueueName |-> x.queues[n]] =>
               AttachQueue(x, tab, d).queues["lru"] = Append(x.queues["lru"], d)
  BY <1>1 DEF AttachQueue, QueueFor
<1>3. Drop(ps, {d}).queues = [n \in QueueName |-> RemoveAll(ps.queues[n], {d})]
  BY DEF Drop
<1>4. Drop(ps, {d}).queues["lru"] = RemoveAll(ps.queues["lru"], {d})
  BY ZenonT(30), <1>1, <1>3
<1>5. Drop(ps, {d}).queues = [n \in QueueName |-> Drop(ps, {d}).queues[n]]
  BY ZenonT(30), <1>3
<1> QED BY ZenonT(30), <1>2, <1>4, <1>5 DEF Requeue

\* Cs::insert.
LEMMA InsertKeeps ==
  ASSUME IInv, NEW d \in Data, NEW u \in BOOLEAN, Insert(d, u)
  PROVE  IInv'
<1> DEFINE tab == InsertTable(d, u)
           ps == InsertPolicy(d, tab)
           out == InsertOut(d, tab)
<1>1. Commit(ps, tab, out) /\ Touch(d, DOMAIN tab \ out) /\ UNCHANGED <<now, policy, limit, admit, serve>>
  BY InsertParts
<1>2. /\ IsTable(tab) /\ DOMAIN tab = Stored \cup {d} /\ PolicyHolds(ps, tab)
  BY ZenonT(30), InsertHolds
<1> HIDE DEF tab
<1>3. out = IF d \notin Stored THEN Victims(ps, tab, limit) ELSE {}
  BY DEF InsertOut
<1>4. /\ limit \in Limit /\ limit \in Nat /\ Cardinality(Stored) <= limit
      /\ policy \in PolicyName /\ now \in Nat
  BY LimitAssumption DEF IInv
<1> HIDE DEF ps, out
<1>5. /\ PolicyHolds(PolicyState, table)' /\ IsTable(table)' /\ DOMAIN table' = DOMAIN tab \ out
      /\ queues'["lru"] = RemoveAll(ps.queues["lru"], out)
  BY <1>1, <1>2, CommitKeeps
<1>6. Cardinality(Stored') <= limit
  <2>1. CASE d \notin Stored
    <3>1. Cardinality(DOMAIN tab \ Victims(ps, tab, limit)) <= limit
      BY <1>2, <1>4, VictimsAreFirst DEF PolicyHolds
    <3> QED BY <1>3, <1>5, <2>1, <3>1 DEF Stored
  <2>2. CASE d \in Stored
    <3>1. DOMAIN table' = Stored
      BY <1>2, <1>3, <1>5, <2>2
    <3> QED BY <1>4, <3>1 DEF Stored
  <2> QED BY <2>1, <2>2
<1>7. ASSUME policy = "lru" PROVE QueueIsRecency(queues'["lru"], recency')
  <2>1. /\ queues \in [QueueName -> Seq(Data)] /\ "lru" \in QueueName /\ PolicyState.queues = queues
        /\ QueueIsRecency(queues["lru"], recency)
        /\ \A n \in QueueName : Range(queues[n]) \subseteq Stored
    BY <1>7 DEF IInv, PolicyHolds, QueuesHold, PolicyState, QueueName, Stored
  <2> DEFINE q == queues["lru"]
             t == IF d \notin Stored THEN q ELSE RemoveAll(q, {d})
  <2>2. q \in Seq(Data) /\ QueueIsRecency(q, recency)
    BY <2>1
  <2>3. RemoveAll(q, {d}) \in Seq(Data) /\ Range(RemoveAll(q, {d})) = Range(q) \ {d}
        /\ QueueIsRecency(RemoveAll(q, {d}), recency)
    BY <2>2, ThinnedQueue, ThinnedRecency
  <2>4. t \in Seq(Data) /\ d \notin Range(t) /\ QueueIsRecency(t, recency)
    BY ZenonT(30), <2>1, <2>2, <2>3
  <2>5. ps.queues["lru"] = Append(t, d)
    BY ZenonT(30), <1>7, <2>1, LruQueueAfter DEF ps, InsertPolicy
  <2> HIDE DEF t, q
  <2>6. queues'["lru"] = RemoveAll(Append(t, d), out)
    BY <1>5, <2>5
  <2>7. Range(queues'["lru"]) \subseteq DOMAIN tab \ out
    <3>1. QueuesHold(queues', DOMAIN table')
      BY <1>5 DEF PolicyHolds, PolicyState
    <3> QED BY ZenonT(30), <1>5, <2>1, <3>1, InOneQueue
  <2> QED BY <1>1, <2>4, <2>6, <2>7, TouchKeeps
<1> QED BY <1>1, <1>4, <1>5, <1>6, <1>7 DEF IInv

\* Cs::find with a hit on entry d.
LEMMA FindKeeps ==
  ASSUME IInv, NEW int \in Interest, Find(int)
  PROVE  IInv'
<1>1. PICK d \in FindImpl(Stored, int, FreshSet) :
        Commit(BeforeUse(PolicyState, table, d), table, {}) /\ Touch(d, Stored)
  BY DEF Find
<1>2. UNCHANGED <<now, policy, limit, admit, serve>>
  BY DEF Find
<1> DEFINE ps == BeforeUse(PolicyState, table, d)
<1>3. d \in Stored /\ Stored \subseteq Data /\ DOMAIN table = Stored
      /\ table[d] \in [unsolicited : BOOLEAN, freshUntil : Nat]
  BY <1>1 DEF FindImpl, First, FindPrefixRange, IInv, IsTable, Stored
<1>4. PolicyHolds(PolicyState, table) /\ IsTable(table) /\ now \in Nat
  BY DEF IInv
<1>5. PolicyHolds(ps, table)
  <2>1. CASE policy = "lru"
    <3>1. PolicyHolds(Requeue(PolicyState, table, d), table)
      BY <1>3, <1>4, <2>1, RequeueKeeps
    <3> QED BY <2>1, <3>1 DEF BeforeUse
  <2>2. CASE policy # "lru"
    BY <1>4, <2>2 DEF BeforeUse
  <2> QED BY <2>1, <2>2
<1> HIDE DEF ps
<1>6. /\ PolicyHolds(PolicyState, table)' /\ IsTable(table)' /\ DOMAIN table' = DOMAIN table \ {}
      /\ queues'["lru"] = RemoveAll(ps.queues["lru"], {})
  BY <1>1, <1>2, <1>4, <1>5, CommitKeeps DEF ps
<1>7. Stored' = Stored
  BY <1>6 DEF Stored
<1>8. ASSUME policy = "lru" PROVE QueueIsRecency(queues'["lru"], recency')
  <2>1. /\ queues \in [QueueName -> Seq(Data)] /\ "lru" \in QueueName /\ PolicyState.queues = queues
        /\ QueueIsRecency(queues["lru"], recency)
    BY <1>8 DEF IInv, PolicyHolds, QueuesHold, PolicyState, QueueName
  <2> DEFINE t == RemoveAll(queues["lru"], {d})
  <2>0. queues["lru"] \in Seq(Data)
    BY <2>1
  <2>2. t \in Seq(Data) /\ d \notin Range(t) /\ QueueIsRecency(t, recency)
    <3>1. t \in Seq(Data) /\ Range(t) = Range(queues["lru"]) \ {d}
      BY <2>0, ThinnedQueue
    <3>2. QueueIsRecency(t, recency)
      BY <2>0, <2>1, ThinnedRecency
    <3> HIDE DEF t
    <3> QED BY <3>1, <3>2
  <2>3. ps.queues["lru"] = Append(t, d)
    BY ZenonT(30), <1>8, <2>1, LruQueueAfter DEF ps, BeforeUse
  <2> HIDE DEF t
  <2>4. queues'["lru"] = RemoveAll(Append(t, d), {})
    BY ZenonT(30), <1>6, <2>3
  <2>5. Range(queues'["lru"]) \subseteq Stored
    <3>1. QueuesHold(queues', Stored')
      BY <1>6 DEF PolicyHolds, PolicyState, Stored
    <3> QED BY <1>7, <2>1, <3>1, InOneQueue
  <2>6. d \in Data
    BY <1>3
  <2> QED BY <1>1, <2>2, <2>4, <2>5, <2>6, TouchKeeps
<1> QED BY <1>2, <1>6, <1>7, <1>8 DEF IInv

\* Entries ds leave the store: what Cs::erase and Policy::setLimit have in common.
LEMMA LeaveKeeps ==
  ASSUME IInv, NEW ds, Commit(PolicyState, table, ds), Forget(Stored \ ds), UNCHANGED <<now, policy>>
  PROVE  /\ PolicyHolds(PolicyState, table)' /\ IsTable(table)' /\ Stored' = Stored \ ds
         /\ policy = "lru" => QueueIsRecency(queues'["lru"], recency')
<1>1. PolicyHolds(PolicyState, table) /\ IsTable(table)
  BY DEF IInv
<1>2. /\ PolicyHolds(PolicyState, table)' /\ IsTable(table)' /\ DOMAIN table' = DOMAIN table \ ds
      /\ queues'["lru"] = RemoveAll(PolicyState.queues["lru"], ds)
  BY <1>1, CommitKeeps
<1>3. Stored' = Stored \ ds
  BY <1>2 DEF Stored
<1>4. ASSUME policy = "lru" PROVE QueueIsRecency(queues'["lru"], recency')
  <2>1. /\ queues \in [QueueName -> Seq(Data)] /\ "lru" \in QueueName /\ PolicyState.queues = queues
        /\ QueueIsRecency(queues["lru"], recency)
    BY ZenonT(30), <1>4 DEF IInv, PolicyHolds, QueuesHold, PolicyState, QueueName
  <2>2. queues["lru"] \in Seq(Data) /\ queues'["lru"] = RemoveAll(queues["lru"], ds)
    BY <1>2, <2>1
  <2>3. Range(queues'["lru"]) \subseteq Stored \ ds
    <3>1. QueuesHold(queues', Stored')
      BY ZenonT(30), <1>2 DEF PolicyHolds, PolicyState, Stored
    <3> QED BY ZenonT(30), <1>3, <2>1, <3>1, InOneQueue
  <2> QED BY <2>1, <2>2, <2>3, ForgetKeeps
<1> QED BY <1>2, <1>3, <1>4

\* Cs::erase.
LEMMA EraseKeeps ==
  ASSUME IInv, NEW p \in PrefixOfData, NEW n \in 1 .. 2, Erase(p, n)
  PROVE  IInv'
<1> DEFINE out == EraseSet(Stored, p, n)
<1>1. Commit(PolicyState, table, out) /\ Forget(Stored \ out) /\ UNCHANGED <<now, policy, limit, admit, serve>>
  BY DEF Erase
<1> HIDE DEF out
<1>2. /\ PolicyHolds(PolicyState, table)' /\ IsTable(table)' /\ Stored' = Stored \ out
      /\ policy = "lru" => QueueIsRecency(queues'["lru"], recency')
  BY <1>1, LeaveKeeps
<1>3. Cardinality(Stored') <= limit
  <2>1. IsFiniteSet(Stored) /\ Cardinality(Stored) <= limit /\ limit \in Nat
    <3>1. QueuesHold(PolicyState.queues, DOMAIN table) /\ Cardinality(Stored) <= limit /\ limit \in Nat
      BY LimitAssumption DEF IInv, PolicyHolds
    <3>2. IsFiniteSet(DOMAIN table)
      BY ZenonT(30), <3>1, VictimsAreFirst
    <3> QED BY <3>1, <3>2 DEF Stored
  <2>2. Cardinality(Stored \ out) <= Cardinality(Stored) /\ IsFiniteSet(Stored \ out)
    BY <2>1, FS_Subset
  <2>3. Cardinality(Stored \ out) \in Nat /\ Cardinality(Stored) \in Nat
    BY <2>1, <2>2, FS_CardinalityType
  <2> QED BY <1>2, <2>1, <2>2, <2>3
<1> QED BY <1>1, <1>2, <1>3 DEF IInv

\* Policy::setLimit.
LEMMA SetLimitKeeps ==
  ASSUME IInv, NEW n \in Limit, SetLimit(n)
  PROVE  IInv'
<1> DEFINE out == Victims(PolicyState, table, n)
<1>1. /\ Commit(PolicyState, table, out) /\ Forget(Stored \ out) /\ limit' = n
      /\ UNCHANGED <<now, policy, admit, serve>>
  BY DEF SetLimit
<1>2. Cardinality(Stored \ out) <= n
  BY VictimsAreFirst, LimitAssumption DEF IInv, PolicyHolds, Stored
<1> HIDE DEF out
<1>3. /\ PolicyHolds(PolicyState, table)' /\ IsTable(table)' /\ Stored' = Stored \ out
      /\ policy = "lru" => QueueIsRecency(queues'["lru"], recency')
  BY <1>1, LeaveKeeps
<1> QED BY <1>1, <1>2, <1>3 DEF IInv

\* When everything is evicted, the policy is left with nothing: any policy may
\* take over, as Cs::setPolicyImpl requires with its "size() == 0".
LEMMA EverythingLeaves ==
  ASSUME IInv, Commit(PolicyState, table, Stored)
  PROVE  /\ IsTable(table') /\ DOMAIN table' = {} /\ DOMAIN staleAt' = {}
         /\ queues' \in [QueueName -> Seq(Data)] /\ \A n \in QueueName : queues'[n] = << >>
<1>1. QueuesHold(queues, Stored) /\ DOMAIN staleAt = Range(queues["fifo"])
  BY DEF IInv, PolicyHolds, PolicyState, Stored
<1>2. \A n \in QueueName : queues[n] \in Seq(Data) /\ Range(queues[n]) \subseteq Stored
  BY <1>1 DEF QueuesHold
<1>3. ASSUME NEW n \in QueueName PROVE RemoveAll(queues[n], Stored) = << >>
  <2>1. RemoveAll(queues[n], Stored) \in Seq(Data) /\ Range(RemoveAll(queues[n], Stored)) = Range(queues[n]) \ Stored
    BY <1>2, ThinnedQueue
  <2> DEFINE r == RemoveAll(queues[n], Stored)
  <2>2. r \in Seq(Data) /\ Range(r) = {}
    BY <1>2, <2>1
  <2> HIDE DEF r
  <2>3. \A i \in 1 .. Len(r) : FALSE
    BY <2>2, RangeByPosition
  <2> QED BY <2>2, <2>3 DEF r
<1>4. queues' = [n \in QueueName |-> RemoveAll(queues[n], Stored)]
  BY DEF Commit, Drop, PolicyState
<1>5. queues' \in [QueueName -> Seq(Data)] /\ \A n \in QueueName : queues'[n] = << >>
  <2>1. \A n \in QueueName : queues'[n] = << >>
    BY <1>3, <1>4
  <2>2. << >> \in Seq(Data)
    OBVIOUS
  <2>3. \A n \in QueueName : queues'[n] \in Seq(Data)
    BY ZenonT(30), <2>1, <2>2
  <2> QED BY <1>4, <2>1, <2>3
<1>6. DOMAIN staleAt' = {}
  <2>1. DOMAIN staleAt \subseteq Stored
    BY <1>1, <1>2 DEF QueueName
  <2> QED BY <2>1 DEF Commit, Drop, PolicyState, Restrict
<1>7. table' = [x \in {} |-> table[x]]
  BY DEF Commit, Restrict, Stored
<1>8. IsTable(table') /\ DOMAIN table' = {}
  BY <1>7 DEF IsTable
<1> QED BY <1>5, <1>6, <1>8

\* TablesConfigSection::processConfig.
LEMMA ProcessConfigKeeps ==
  ASSUME IInv, NEW n \in Limit, NEW p \in PolicyName, ProcessConfig(n, p)
  PROVE  IInv'
<1> DEFINE out == Victims(PolicyState, table, n)
<1>1. /\ Commit(PolicyState, table, out) /\ Forget(Stored \ out) /\ limit' = n
      /\ policy' = (IF out = Stored THEN p ELSE policy) /\ UNCHANGED <<now, admit, serve>>
  BY DEF ProcessConfig
<1>2. Cardinality(Stored \ out) <= n
  BY VictimsAreFirst, LimitAssumption DEF IInv, PolicyHolds, Stored
<1> HIDE DEF out
<1>3. now' \in Nat /\ limit' \in Limit /\ policy' \in PolicyName
  BY <1>1 DEF IInv
<1>4. CASE out # Stored
  <2>1. /\ PolicyHolds(PolicyState, table)' /\ IsTable(table)' /\ Stored' = Stored \ out
        /\ policy = "lru" => QueueIsRecency(queues'["lru"], recency')
    BY <1>1, <1>4, LeaveKeeps
  <2> QED BY ZenonT(30), <1>1, <1>2, <1>3, <1>4, <2>1 DEF IInv
<1>5. CASE out = Stored
  <2>1. /\ IsTable(table') /\ DOMAIN table' = {} /\ DOMAIN staleAt' = {}
        /\ queues' \in [QueueName -> Seq(Data)] /\ \A q \in QueueName : queues'[q] = << >>
    BY <1>1, <1>5, EverythingLeaves
  <2>2. Range(<< >>) = {} /\ IsInjective(<< >>)
    BY DEF Range, IsInjective
  <2>3. QueuesHold(queues', {})
    BY <2>1, <2>2 DEF QueuesHold
  <2>4. PolicyHolds(PolicyState, table)'
    BY <2>1, <2>2, <2>3 DEF PolicyHolds, PolicyState, QueueName
  <2>5. Cardinality(Stored') <= limit'
    BY ZenonT(30), <1>1, <1>2, <1>5, <2>1 DEF Stored
  <2>6. QueueIsRecency(queues'["lru"], recency')
    BY <2>1 DEF QueueIsRecency, QueueName
  <2> QED BY <1>3, <2>1, <2>4, <2>5, <2>6 DEF IInv
<1> QED BY <1>4, <1>5

\* PriorityFifoPolicy::moveToStaleQueue.
LEMMA MoveToStaleQueueKeeps ==
  ASSUME IInv, NEW d \in Data, MoveToStaleQueue(d)
  PROVE  IInv'
<1>1. /\ d \in DOMAIN staleAt /\ staleAt[d] <= now
      /\ staleAt' = [x \in DOMAIN staleAt \ {d} |-> staleAt[x]]
      /\ UNCHANGED <<now, table, policy, limit, admit, serve, recency>>
  BY DEF MoveToStaleQueue, Restrict
<1>2. /\ queues \in [QueueName -> Seq(Data)]
      /\ \A n \in QueueName : IsInjective(queues[n])
      /\ \A n, m \in QueueName : n # m => Range(queues[n]) \cap Range(queues[m]) = {}
      /\ DOMAIN table = UNION {Range(queues[n]) : n \in QueueName}
      /\ DOMAIN staleAt = Range(queues["fifo"])
  <2>1. PolicyHolds(PolicyState, table) /\ PolicyState.queues = queues /\ PolicyState.timers = staleAt
    BY DEF IInv, PolicyState
  <2>2. QueuesHold(queues, DOMAIN table) /\ DOMAIN staleAt = Range(queues["fifo"])
    BY <2>1 DEF PolicyHolds
  <2> QED BY <2>2 DEF QueuesHold
<1> DEFINE f == RemoveAll(queues["fifo"], {d})
           t == Append(queues["stale"], d)
<1>3. d \in Range(queues["fifo"]) /\ d \notin Range(queues["stale"])
  BY <1>1, <1>2 DEF QueueName
<1>4. f \in Seq(Data) /\ Range(f) = Range(queues["fifo"]) \ {d} /\ IsInjective(f)
  <2>1. queues["fifo"] \in Seq(Data) /\ IsInjective(queues["fifo"])
    BY <1>2 DEF QueueName
  <2> QED BY ZenonT(30), <2>1, ThinnedQueue
<1>5. t \in Seq(Data) /\ Range(t) = Range(queues["stale"]) \cup {d} /\ IsInjective(t)
  <2>1. queues["stale"] \in Seq(Data) /\ IsInjective(queues["stale"])
    BY <1>2 DEF QueueName
  <2> QED BY <1>3, <2>1, ExtendedQueue
<1>6. queues' = [queues EXCEPT !["fifo"] = f, !["stale"] = t]
  BY <1>2 DEF MoveToStaleQueue, QueueName
<1> HIDE DEF f, t
<1>7. /\ queues' \in [QueueName -> Seq(Data)] /\ queues'["fifo"] = f /\ queues'["stale"] = t
      /\ queues'["lru"] = queues["lru"] /\ queues'["unsolicited"] = queues["unsolicited"]
  BY <1>2, <1>4, <1>5, <1>6 DEF QueueName
<1>8. QueuesHold(queues', DOMAIN table)
  <2>1. \A n \in QueueName : IsInjective(queues'[n])
    BY <1>2, <1>4, <1>5, <1>7 DEF QueueName
  <2>2. /\ Range(queues'["fifo"]) = Range(queues["fifo"]) \ {d} /\ Range(queues'["lru"]) = Range(queues["lru"])
        /\ Range(queues'["stale"]) = Range(queues["stale"]) \cup {d}
        /\ Range(queues'["unsolicited"]) = Range(queues["unsolicited"])
    BY <1>4, <1>5, <1>7
  <2>3. \A n, m \in QueueName : n # m => Range(queues'[n]) \cap Range(queues'[m]) = {}
    BY <1>2, <1>3, <2>2 DEF QueueName
  <2>4. DOMAIN table = UNION {Range(queues'[n]) : n \in QueueName}
    BY <1>2, <1>3, <2>2 DEF QueueName
  <2> QED BY <1>7, <2>1, <2>3, <2>4 DEF QueuesHold
<1>9. policy # "lru" /\ table[d].freshUntil <= now
  <2>1. policy = "lru" => queues["fifo"] = << >>
    BY DEF IInv, PolicyHolds, PolicyState, QueueName
  <2>2. staleAt[d] = table[d].freshUntil
    BY ZenonT(30), <1>1 DEF IInv, PolicyHolds, PolicyState
  <2>3. Range(<< >>) = {}
    BY DEF Range
  <2> QED BY <1>1, <1>3, <2>1, <2>2, <2>3
<1>10. PolicyHolds([queues |-> queues', timers |-> staleAt'], table)
  <2>1. /\ \A x \in DOMAIN staleAt : staleAt[x] = table[x].freshUntil
        /\ queues["lru"] = << >>
        /\ \A x \in DOMAIN table : x \in Range(queues["unsolicited"]) <=> table[x].unsolicited
        /\ \A x \in Range(queues["stale"]) : table[x].freshUntil <= now
    BY ZenonT(30), <1>9 DEF IInv, PolicyHolds, PolicyState
  <2>2. DOMAIN staleAt' = Range(queues'["fifo"])
    BY <1>1, <1>2, <1>4, <1>7
  <2>3. \A x \in DOMAIN staleAt' : staleAt'[x] = table[x].freshUntil
    BY <1>1, <2>1
  <2>4. \A x \in Range(queues'["stale"]) : table[x].freshUntil <= now
    BY <1>5, <1>7, <1>9, <2>1
  <2> QED BY <1>7, <1>8, <1>9, <2>1, <2>2, <2>3, <2>4 DEF PolicyHolds
<1>11. PolicyHolds(PolicyState, table)'
  BY ZenonT(30), <1>1, <1>10 DEF PolicyHolds, PolicyState
<1> QED BY <1>1, <1>9, <1>11 DEF IInv, IsTable, Stored

\* The clock moves on: entries stay stale.
LEMMA TickKeeps ==
  ASSUME IInv, Tick
  PROVE  IInv'
<1>1. now' = now + 1 /\ UNCHANGED <<table, policy, queues, staleAt, limit, admit, serve, recency>>
  BY DEF Tick
<1>2. \A d \in Range(queues["stale"]) : table[d].freshUntil <= now'
  <2>1. now \in Nat /\ \A d \in Range(queues["stale"]) : d \in DOMAIN table /\ table[d].freshUntil <= now
    BY ZenonT(30) DEF IInv, PolicyHolds, PolicyState, QueuesHold, QueueName
  <2>2. \A d \in DOMAIN table : table[d].freshUntil \in Nat
    BY DEF IInv, IsTable
  <2>3. now' = now + 1
    BY <1>1
  <2> TAKE d \in Range(queues["stale"])
  <2>4. table[d].freshUntil \in Nat /\ table[d].freshUntil <= now
    BY <2>1, <2>2
  <2> QED BY <2>1, <2>3, <2>4
<1>3. PolicyHolds(PolicyState, table)'
  BY ZenonT(30), <1>1, <1>2 DEF IInv, PolicyHolds, PolicyState
<1> QED BY <1>1, <1>3 DEF IInv, IsTable, Stored
----------------------------------------------------------------------------
(* The theorems                                                            *)

\* Every call into the store preserves the inductive invariant.
LEMMA NextKeeps == IInv /\ [Next]_vars => IInv'
<1> SUFFICES ASSUME IInv, [Next]_vars PROVE IInv'
  OBVIOUS
<1>1. ASSUME NEW d \in Data, NEW u \in BOOLEAN, Insert(d, u) PROVE IInv'
  BY <1>1, InsertKeeps
<1>2. ASSUME NEW int \in Interest, Find(int) PROVE IInv'
  BY <1>2, FindKeeps
<1>3. ASSUME NEW p \in PrefixOfData, NEW n \in 1 .. 2, Erase(p, n) PROVE IInv'
  BY <1>3, EraseKeeps
<1>4. ASSUME NEW n \in Limit, SetLimit(n) PROVE IInv'
  BY <1>4, SetLimitKeeps
<1>5. ASSUME NEW n \in Limit, NEW p \in PolicyName, ProcessConfig(n, p) PROVE IInv'
  BY <1>5, ProcessConfigKeeps
<1>6. ASSUME NEW d \in Data, MoveToStaleQueue(d) PROVE IInv'
  BY <1>6, MoveToStaleQueueKeeps
<1>7. CASE Tick
  BY <1>7, TickKeeps
<1>8. ASSUME UNCHANGED <<now, table, policy, queues, staleAt, limit, recency>> PROVE IInv'
  <2>1. PolicyHolds(PolicyState, table)'
    BY ZenonT(30), <1>8 DEF IInv, PolicyHolds, PolicyState
  <2> QED BY <1>8, <2>1 DEF IInv, IsTable, Stored
<1>9. ASSUME NEW b \in BOOLEAN, EnableAdmit(b) \/ EnableServe(b) PROVE IInv'
  BY <1>8, <1>9 DEF EnableAdmit, EnableServe
<1>10. CASE UNCHANGED vars
  BY <1>8, <1>10 DEF vars
<1> QED BY <1>1, <1>2, <1>3, <1>4, <1>5, <1>6, <1>7, <1>9, <1>10 DEF Next

\* The inductive invariant holds in every state of the store.
LEMMA AlwaysIInv == Spec => []IInv
BY InitKeeps, NextKeeps, PTL DEF Spec

\* "Each Entry should be in exactly one queue at any moment", with an armed
\* moveToStaleQueue event exactly for the entries of the FIFO queue and never
\* more entries than the limit, for every set of packets, Interests, limits and
\* policies.
THEOREM QueuesAlwaysMatchTable == Spec => []QueuesMatchTable
<1>1. IInv => QueuesMatchTable
  <2> SUFFICES ASSUME IInv PROVE QueuesMatchTable
    OBVIOUS
  <2>1. QueuesHold(queues, Stored) /\ DOMAIN staleAt = Range(queues["fifo"])
    BY ZenonT(30) DEF IInv, PolicyHolds, PolicyState, Stored
  <2>2. IsInjective(EvictionOrder(queues)) /\ Range(EvictionOrder(queues)) = Stored
    BY <2>1, OrderOfQueues
  <2>3. Stored \subseteq Data /\ Cardinality(Stored) <= limit
    BY DEF IInv, IsTable, Stored
  <2> QED BY <2>1, <2>2, <2>3 DEF QueuesMatchTable
<1> QED BY <1>1, AlwaysIInv, PTL

\* Cs::find misses a plain Interest only if no stored packet can satisfy it.
THEOREM FindAlwaysCompleteForPlain == Spec => []FindCompleteForPlain
<1>1. IInv => FindCompleteForPlain
  <2> SUFFICES ASSUME IInv, NEW int \in Interest, ~HasFunction(int),
                      NEW d \in Stored, CanSatisfy(int, d, FreshSet)
               PROVE  FindImpl(Stored, int, FreshSet) # {}
    BY DEF FindCompleteForPlain, CanAnswer
  <2>1. Stored \subseteq Data /\ IsFiniteSet(Stored)
    <3>1. QueuesHold(PolicyState.queues, DOMAIN table) /\ limit \in Nat
      BY ZenonT(30), LimitAssumption DEF IInv, PolicyHolds
    <3>2. IsFiniteSet(DOMAIN table)
      BY ZenonT(30), <3>1, VictimsAreFirst
    <3> QED BY <3>2 DEF IInv, IsTable, Stored
  <2>2. \A x \in Data : /\ x.name \in Seq(Nat) /\ x.digest \in 0 .. (GenericBase - 1)
                        /\ \A i \in 1 .. Len(x.name) : x.name[i] >= GenericBase
    BY DataAssumption
  <2>3. \A x, y \in Data : x.name = y.name /\ x.digest = y.digest => x = y
    BY DataAssumption DEF GetFullName
  <2>4. IsStore(Stored)
    BY <2>1, <2>2, <2>3 DEF IsStore, Names
  <2>5. int.name \in Names /\ int.func = << >>
    BY InterestAssumption DEF Names, HasFunction
  <2> QED BY <2>4, <2>5, FindIsComplete
<1> QED BY <1>1, AlwaysIInv, PTL
----------------------------------------------------------------------------
(* What an eviction may take                                               *)

\* A step of the store that evicts what evictEntries takes for limit lim, when
\* the policy state is ps and the table is tab. These differ from the current
\* ones only in a packet that is being inserted.
EvictsFrom(ps, tab, lim) ==
  /\ PolicyHolds(ps, tab) /\ Stored \subseteq DOMAIN tab
  /\ \A x \in Stored : tab[x] = table[x]
  /\ DOMAIN ps.timers \cap Stored \subseteq DOMAIN staleAt
  /\ policy = "lru" => \A x, y \in Stored : Before(ps.queues["lru"], x, y) => Before(queues["lru"], x, y)
  /\ Stored' = DOMAIN tab \ Victims(ps, tab, lim)

\* An eviction takes what the policy promises to take first.
EvictsInOrder ==
  /\ policy = "lru" => Evicted \X Survivor \subseteq recency
  /\ policy = "priority_fifo" =>
       \A d \in Evicted, e \in Survivor :
         /\ table[e].unsolicited => table[d].unsolicited
         /\ IsStale(e) /\ e \notin DOMAIN staleAt => ~IsFreshSolicited(d)

\* Policy::evictEntries keeps to that order.
LEMMA EvictsFromQueues ==
  ASSUME IInv, NEW ps, NEW tab, NEW lim \in Nat, EvictsFrom(ps, tab, lim)
  PROVE  EvictsInOrder
<1> DEFINE out == Victims(ps, tab, lim)
<1>1. /\ PolicyHolds(ps, tab) /\ \A x \in Stored : tab[x] = table[x]
      /\ DOMAIN ps.timers \cap Stored \subseteq DOMAIN staleAt
      /\ policy = "lru" => \A x, y \in Stored : Before(ps.queues["lru"], x, y) => Before(queues["lru"], x, y)
      /\ Stored \subseteq DOMAIN tab /\ Stored' = DOMAIN tab \ out
  BY DEF EvictsFrom
<1>2. \A d \in Evicted : d \in out /\ d \in Stored
  BY <1>1 DEF Evicted
<1>3. \A e \in Survivor : e \in DOMAIN tab \ out /\ e \in Stored
  BY <1>1 DEF Survivor
<1>4. ASSUME policy = "lru", NEW d \in Evicted, NEW e \in Survivor PROVE <<d, e>> \in recency
  <2>1. Before(ps.queues["lru"], d, e)
    BY <1>1, <1>2, <1>3, <1>4, VictimsLeastRecent
  <2>2. Before(queues["lru"], d, e)
    BY <1>1, <1>2, <1>3, <1>4, <2>1
  <2> QED BY <1>4, <2>2 DEF IInv, QueueIsRecency, Before
<1>5. ASSUME policy = "priority_fifo", NEW d \in Evicted, NEW e \in Survivor
      PROVE  /\ table[e].unsolicited => table[d].unsolicited
             /\ IsStale(e) /\ e \notin DOMAIN staleAt => ~IsFreshSolicited(d)
  <2>1. /\ tab[e].unsolicited => tab[d].unsolicited
        /\ ~tab[e].unsolicited /\ e \notin DOMAIN ps.timers =>
             tab[d].unsolicited \/ tab[d].freshUntil <= now
    BY <1>1, <1>2, <1>3, <1>5, VictimsByPriority
  <2>2. tab[d] = table[d] /\ tab[e] = table[e] /\ table[d].freshUntil \in Nat /\ now \in Nat
    BY <1>1, <1>2, <1>3 DEF IInv, IsTable, Stored
  <2>3. e \notin DOMAIN staleAt => e \notin DOMAIN ps.timers
    BY <1>1, <1>3
  <2> QED BY <2>1, <2>2, <2>3 DEF IsStale, IsFreshSolicited
<1> QED BY <1>4, <1>5 DEF EvictsInOrder

\* Cs::insert of a new packet evicts from queues to which the packet was added.
LEMMA InsertEvicts ==
  ASSUME IInv, NEW d \in Data, NEW u \in BOOLEAN, Insert(d, u), d \notin Stored
  PROVE  EvictsFrom(InsertPolicy(d, InsertTable(d, u)), InsertTable(d, u), limit)
<1> DEFINE tab == InsertTable(d, u)
           ps == InsertPolicy(d, tab)
<1>1. Commit(ps, tab, InsertOut(d, tab)) /\ UNCHANGED <<now, policy>>
  BY ZenonT(30), InsertParts
<1>2. /\ IsTable(tab) /\ DOMAIN tab = Stored \cup {d} /\ PolicyHolds(ps, tab)
      /\ \A x \in Stored : tab[x] = table[x]
  BY InsertHolds
<1> HIDE DEF tab
<1>3. InsertOut(d, tab) = Victims(ps, tab, limit) /\ ps = AttachQueue(PolicyState, tab, d)
  BY DEF InsertOut, InsertPolicy
<1>4. Stored' = DOMAIN tab \ Victims(ps, tab, limit)
  BY <1>1, <1>3 DEF Commit, Restrict, Stored
<1>5. DOMAIN ps.timers \subseteq DOMAIN staleAt \cup {d}
  BY <1>3 DEF AttachQueue, PolicyState, Put
<1>6. ASSUME policy = "lru", NEW x \in Stored, NEW y \in Stored, Before(ps.queues["lru"], x, y)
      PROVE  Before(queues["lru"], x, y)
  <2> DEFINE was == PolicyState
  <2>1. queues \in [QueueName -> Seq(Data)] /\ was.queues = queues
    BY ZenonT(30) DEF IInv, PolicyHolds, QueuesHold, PolicyState
  <2>2. ps.queues["lru"] = Append(queues["lru"], d)
    <3>1. AttachQueue(was, tab, d).queues["lru"] = Append(was.queues["lru"], d)
      <4>1. was.queues \in [QueueName -> Seq(Data)]
        BY <2>1
      <4>2. policy = "lru"
        BY <1>6
      <4> HIDE DEF was
      <4> QED BY ZenonT(30), <4>1, <4>2, LruQueueAfter
    <3> QED BY ZenonT(30), <1>3, <2>1, <3>1
  <2>3. queues["lru"] \in Seq(Data)
    BY <2>1 DEF QueueName
  <2>4. Before(queues["lru"], x, y) \/ y = d
    BY <1>6, <2>2, <2>3, ExtendedQueue
  <2> QED BY <2>4
<1> HIDE DEF ps
<1> QED BY ZenonT(30), <1>2, <1>4, <1>5, <1>6 DEF EvictsFrom, tab, ps

\* Policy::setLimit, alone or under processConfig, evicts from the queues as they are.
LEMMA LimitEvicts ==
  ASSUME IInv, NEW n \in Limit, Commit(PolicyState, table, Victims(PolicyState, table, n))
  PROVE  EvictsFrom(PolicyState, table, n)
<1>1. PolicyHolds(PolicyState, table) /\ PolicyState.timers = staleAt /\ PolicyState.queues = queues
  BY DEF IInv, PolicyState
<1>2. Stored' = DOMAIN table \ Victims(PolicyState, table, n)
  BY DEF Commit, Restrict, Stored
<1> QED BY <1>1, <1>2 DEF EvictsFrom, Stored

\* Other calls leave the limit alone and add no entry.
LEMMA EvictionsInOrder ==
  ASSUME IInv, [Next]_vars, EvictionStep
  PROVE  EvictsInOrder
<1>1. limit \in Nat /\ Limit \subseteq Nat
  BY LimitAssumption DEF IInv
<1>2. ASSUME NEW d \in Data, NEW u \in BOOLEAN, Insert(d, u) PROVE EvictsInOrder
  <2>1. CASE d \notin Stored
    BY <1>1, <1>2, <2>1, InsertEvicts, EvictsFromQueues
  <2>2. CASE d \in Stored
    <3> DEFINE tab == InsertTable(d, u)
    <3>1. Commit(InsertPolicy(d, tab), tab, InsertOut(d, tab)) /\ limit' = limit
      BY ZenonT(30), <1>2, InsertParts
    <3>2. DOMAIN tab = Stored \cup {d}
      BY InsertHolds
    <3> HIDE DEF tab
    <3>3. Stored' \subseteq Stored
      BY <2>2, <3>1, <3>2 DEF Commit, Restrict, Stored
    <3> QED BY <3>1, <3>3 DEF EvictionStep
  <2> QED BY <2>1, <2>2
<1>3. ASSUME NEW n \in Limit, Commit(PolicyState, table, Victims(PolicyState, table, n))
      PROVE  EvictsInOrder
  BY <1>1, <1>3, LimitEvicts, EvictsFromQueues
<1>4. ASSUME NEW n \in Limit, SetLimit(n) PROVE EvictsInOrder
  BY <1>3, <1>4 DEF SetLimit
<1>5. ASSUME NEW n \in Limit, NEW p \in PolicyName, ProcessConfig(n, p) PROVE EvictsInOrder
  BY <1>3, <1>5 DEF ProcessConfig
<1>6. ASSUME NEW int \in Interest, Find(int) PROVE FALSE
  BY <1>6 DEF Find, Commit, Restrict, Stored, EvictionStep
<1>7. ASSUME NEW p \in PrefixOfData, NEW n \in 1 .. 2, Erase(p, n) PROVE FALSE
  BY <1>7 DEF Erase, Commit, Restrict, Stored, EvictionStep
<1>8. ASSUME UNCHANGED <<table, limit>> PROVE FALSE
  BY <1>8 DEF EvictionStep, Stored
<1>9. ASSUME NEW b \in BOOLEAN, EnableAdmit(b) \/ EnableServe(b) PROVE FALSE
  BY <1>8, <1>9 DEF EnableAdmit, EnableServe
<1>10. ASSUME NEW d \in Data, MoveToStaleQueue(d) PROVE FALSE
  BY <1>8, <1>10 DEF MoveToStaleQueue
<1>11. CASE Tick \/ UNCHANGED vars
  BY <1>8, <1>11 DEF Tick, vars
<1> QED BY <1>2, <1>4, <1>5, <1>6, <1>7, <1>9, <1>10, <1>11 DEF Next

\* LruPolicy: whoever is evicted was used before every survivor.
THEOREM AlwaysEvictsLeastRecent == Spec => EvictsLeastRecent
<1>1. IInv /\ [Next]_vars =>
        [policy = "lru" /\ EvictionStep => Evicted \X Survivor \subseteq recency]_vars
  BY EvictionsInOrder DEF EvictsInOrder
<1> QED BY <1>1, AlwaysIInv, PTL DEF Spec, EvictsLeastRecent

\* PriorityFifoPolicy: unsolicited entries go first, then those moved to the
\* stale queue, then the fresh ones.
THEOREM AlwaysEvictsByPriority == Spec => EvictsByPriority
<1>1. IInv /\ [Next]_vars =>
        [policy = "priority_fifo" /\ EvictionStep =>
           \A d \in Evicted, e \in Survivor :
             /\ table[e].unsolicited => table[d].unsolicited
             /\ IsStale(e) /\ e \notin DOMAIN staleAt => ~IsFreshSolicited(d)]_vars
  BY EvictionsInOrder DEF EvictsInOrder
<1> QED BY <1>1, AlwaysIInv, PTL DEF Spec, EvictsByPriority
=============================================================================
