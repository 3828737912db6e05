------------------------------ MODULE NameTree ------------------------------
(***************************************************************************)
(* The name tree of NFD-FC (daemon/table/name-tree*.cpp), on which the     *)
(* FIB, PIT, Measurements and StrategyChoice tables hang their entries: a  *)
(* hash table of nodes that also point to their parents.                   *)
(*                                                                         *)
(* A tree is a record: buckets holds for every bucket the chain of nodes,  *)
(* each given by its name; parent maps every node to the name of the node  *)
(* its m_parent points to, or to None; expand and shrink are the two       *)
(* thresholds.  m_children is the inverse of parent.  The set `used' that  *)
(* some operators take has the names of the nodes with table entries.      *)
(*                                                                         *)
(* A loop is a recursive function on the number of its rounds.             *)
(***************************************************************************)
EXTENDS FcNames, Containers

CONSTANTS
  Name,      \* the names that occur, with their prefixes
  Hash(_),   \* the hash of a name (NameHash)
  MinSize,   \* HashtableOptions: initial and minimal number of buckets
  None       \* the null pointer

ASSUME SizeAssumption == MinSize \in Nat \ {0}

MaxDepth == 32

\* Longer names, which some tables refuse and others cut, do not occur.
ASSUME NameAssumption ==
  /\ << >> \in Name /\ None \notin Name
  /\ \A n \in Name : /\ n \in Seq(Nat) /\ Len(n) <= MaxDepth /\ Hash(n) \in Nat
                     /\ n = << >> \/ GetPrefix(n) \in Name

Drop(f, ks) == [x \in DOMAIN f \ ks |-> f[x]]

Nodes(t) == DOMAIN t.parent
Prefix(n, i) == SubSeq(n, 1, i)

----------------------------------------------------------------------------
(* The hash table                                                          *)

BucketOf(nBuckets, n) == (Hash(n) % nBuckets) + 1

Chain(t, n) == t.buckets[BucketOf(Len(t.buckets), n)]

Attach(buckets, n) == [buckets EXCEPT ![BucketOf(Len(buckets), n)] = <<n>> \o @]

Unlinked(chain, n) ==
  LET i == CHOOSE i \in DOMAIN chain : chain[i] = n
  IN  [k \in 1 .. (Len(chain) - 1) |-> IF k < i THEN chain[k] ELSE chain[k + 1]]

Detach(buckets, n) == [buckets EXCEPT ![BucketOf(Len(buckets), n)] = Unlinked(@, n)]

\* computeThresholds: the load factors are 0.5 and 0.1.
WithThresholds(t, nBuckets) == [t EXCEPT !.expand = nBuckets \div 2, !.shrink = nBuckets \div 10]

NoChains(nBuckets) == [i \in 1 .. nBuckets |-> << >>]

AttachHead(buckets, chain) == IF chain = << >> THEN buckets ELSE Attach(buckets, Head(chain))

AttachAll(buckets, chain) ==
  LET f[i \in 0 .. Len(chain)] == IF i = 0 THEN buckets ELSE Attach(f[i - 1], chain[i])
  IN  f[Len(chain)]

Rehashed(old, nBuckets) ==
  LET f[i \in 0 .. Len(old)] == IF i = 0 THEN NoChains(nBuckets) ELSE AttachAll(f[i - 1], old[i])
  IN  f[Len(old)]

Resize(t, nBuckets) ==
  IF nBuckets = Len(t.buckets) THEN t
  ELSE WithThresholds([t EXCEPT !.buckets = Rehashed(@, nBuckets)], nBuckets)

HashFind(t, n) == n \in Range(Chain(t, n))

HashInsert(t, n) ==
  LET t1 == [t EXCEPT !.buckets = Attach(@, n), !.parent = Put(@, n, None)]
  IN  IF Cardinality(Nodes(t1)) > t1.expand THEN Resize(t1, 2 * Len(t1.buckets)) ELSE t1

\* std::max of the minimal number of buckets and half of the present one.
Halved(nBuckets) == IF MinSize < nBuckets \div 2 THEN nBuckets \div 2 ELSE MinSize

HashErase(t, n) ==
  LET t1 == [t EXCEPT !.buckets = Detach(@, n), !.parent = Drop(@, {n})]
  IN  IF Cardinality(Nodes(t1)) < t1.shrink THEN Resize(t1, Halved(Len(t1.buckets))) ELSE t1

EmptyTree ==
  [buckets |-> NoChains(MinSize), parent |-> << >>,
   expand |-> MinSize \div 2, shrink |-> MinSize \div 10]

----------------------------------------------------------------------------
(* The tree                                                                *)

SetParent(t, n) == [t EXCEPT !.parent[n] = GetPrefix(n)]

\* The node of a name whose parent has one, made if need be.
WithNode(t, n) ==
  IF HashFind(t, n) THEN t
  ELSE IF n = << >> THEN HashInsert(t, n)
  ELSE SetParent(HashInsert(t, n), n)

\* lookup(name): the node of the name, made with all its ancestors if need be.
Lookup(t, name) ==
  LET f[i \in 0 .. (Len(name) + 1)] == IF i = 0 THEN t ELSE WithNode(f[i - 1], Prefix(name, i - 1))
  IN  f[Len(name) + 1]

Children(t, n) == {m \in Nodes(t) : t.parent[m] = n}

IsEmpty(t, used, n) == Children(t, n) = {} /\ n \notin used

\* One round of eraseIfEmpty, at an entry of the tree.
EraseEntry(s, used) ==
  IF s.entry = None THEN s
  ELSE IF ~IsEmpty(s.tree, used, s.entry) THEN s
  ELSE [tree |-> HashErase(s.tree, s.entry), entry |-> s.tree.parent[s.entry]]

EraseIfEmpty(t, used, n) ==
  LET f[i \in 0 .. (Len(n) + 1)] == IF i = 0 THEN [tree |-> t, entry |-> n] ELSE EraseEntry(f[i - 1], used)
  IN  f[Len(n) + 1].tree

\* findLongestPrefixMatch(name): the lengths from the longest, by hash.
FindLongestPrefixMatch(t, selected, name) ==
  LET found == {i \in 0 .. Len(name) : HashFind(t, Prefix(name, i)) /\ Prefix(name, i) \in selected}
  IN  IF found = {} THEN {} ELSE {Prefix(name, Max(found))}

NextUp(t, selected, n) ==
  IF n = None THEN None ELSE IF n \in selected THEN n ELSE t.parent[n]

\* findLongestPrefixMatch(entry): up the tree.
FindUp(t, selected, n) ==
  LET f[i \in 0 .. (Len(n) + 1)] == IF i = 0 THEN n ELSE NextUp(t, selected, f[i - 1])
  IN  {f[Len(n) + 1]} \ {None}

\* The children of some nodes, but those that the selector rejects.
Below(t, rejected, ns) == {c \in Nodes(t) \ rejected : t.parent[c] \in ns}

\* partialEnumerate: the nodes below n, without the subtrees of the nodes that
\* the selector rejects; n itself is not rejected.
PartialEnumerate(t, rejected, n) ==
  LET f[i \in 0 .. Cardinality(Nodes(t))] ==
        IF i = 0 THEN {n} ELSE f[i - 1] \cup Below(t, rejected, f[i - 1])
  IN  f[Cardinality(Nodes(t))]

----------------------------------------------------------------------------
(* Many nodes                                                              *)

ShortestOf(names) == CHOOSE n \in names : \A m \in names : Len(m) >= Len(n)

\* The last of maybeEmptyNtes, a multimap by length.
LongestOf(names) == CHOOSE n \in names : \A m \in names : Len(m) <= Len(n)

\* eraseIfEmpty without the ancestors, for the longest node that remains.
EraseNext(s, used) ==
  LET n == LongestOf(s.rest)
  IN  [tree |-> IF IsEmpty(s.tree, used, n) THEN HashErase(s.tree, n) ELSE s.tree,
       rest |-> s.rest \ {n}]

\* The second loop of cleanupOnFaceRemoval, over the nodes without table entries.
EraseMaybeEmpty(t, used) ==
  LET n == Cardinality(Nodes(t) \ used)
      f[i \in 0 .. n] == IF i = 0 THEN [tree |-> t, rest |-> Nodes(t) \ used] ELSE EraseNext(f[i - 1], used)
  IN  f[n].tree

LookupNext(s) ==
  LET name == CHOOSE n \in s.rest : TRUE
  IN  [tree |-> Lookup(s.tree, name), rest |-> s.rest \ {name}]

\* A tree with the root and the nodes of some names.
TreeOf(names) ==
  LET n == Cardinality(names)
      f[i \in 0 .. n] == IF i = 0 THEN [tree |-> Lookup(EmptyTree, << >>), rest |-> names]
                         ELSE LookupNext(f[i - 1])
  IN  f[n].tree
=============================================================================
