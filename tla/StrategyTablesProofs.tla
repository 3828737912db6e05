------------------------ MODULE StrategyTablesProofs ------------------------
(***************************************************************************)
(* The safety of StrategyTables for every scenario, every set of faces,    *)
(* every hash function and every size of the hash table.                   *)
(*                                                                         *)
(* The properties are proved together, as one inductive invariant IInv.    *)
(* It says of the strategy that is effective at an entry what holds        *)
(* whatever nodes the tree has: a search finds the longest prefix with a   *)
(* choice (StrategyAt).                                                    *)
(***************************************************************************)
EXTENDS StrategyTables, NameTreeProofs

\* The strategy at a name, by the choices ch.
StrategyAt(ch, n) == ch[CHOOSE p \in Longest(DOMAIN ch, n) : TRUE]

\* A PIT entry with key k: what TypeOK, StrategyInfoCurrent and RtoTimerHasInRecord
\* say of it.
IsPitEntry(e, k, fs, ch) ==
  /\ DOMAIN e = {"int", "in", "out", "timer"}
  /\ GetNameFunction(e.int) = k /\ e.in \cup e.out \subseteq fs
  /\ \/ e.timer = None
     \/ /\ e.timer \in [in : Face, out : Face] /\ StrategyAt(ch, k).type = "access"
        /\ e.timer.in \in fs => e.timer.in \in e.in

\* A Measurements entry of the name n.
IsMeasEntry(e, n, ch) ==
  /\ DOMAIN e = {"expiry", "mi"} /\ e.expiry \in 0 .. AccessLifetime
  /\ e.mi = None \/ (e.mi \in Face /\ StrategyAt(ch, n).type = "access")

Scheduled(m) == {[name |-> n, at |-> m[n].expiry] : n \in DOMAIN m}

FibOK(fb, fs) == \A p \in DOMAIN fb : fb[p] # {} /\ fb[p] \subseteq fs
PitOK(pt, fs, ch) == \A k \in DOMAIN pt : IsPitEntry(pt[k], k, fs, ch)
MeasOK(m, ev, ch) == (\A n \in DOMAIN m : IsMeasEntry(m[n], n, ch)) /\ ev = Scheduled(m)
TreeOK(t, used, idle) == IsTree(t) /\ used \subseteq Nodes(t) /\ Idle(t, used) \subseteq idle

ChoicesOK(ch) == << >> \in DOMAIN ch /\ ch = [p \in DOMAIN ch |-> ch[p]]

IInv ==
  /\ scenario \in Scenario /\ faces \in SUBSET Face /\ ChoicesOK(choices)
  /\ FibOK(fib, faces) /\ PitOK(pit, faces, choices) /\ MeasOK(meas, events, choices)
  /\ TreeOK(tree, Used, left)

----------------------------------------------------------------------------
(* The effective strategy                                                  *)

\* p is the longest prefix of n that is selected, or would be.
Under(selected, p, n) ==
  /\ Len(p) <= Len(n) /\ Prefix(n, Len(p)) = p
  /\ \A j \in (Len(p) + 1) .. Len(n) : Prefix(n, j) \notin selected

\* The strategy at a name is the choice for its longest prefix that has one.
LEMMA StrategyByPrefix ==
  ASSUME NEW ch, NEW n \in Name, NEW p \in DOMAIN ch, Under(DOMAIN ch, p, n), Len(p) \in Nat
  PROVE  StrategyAt(ch, n) = ch[p] /\ Longest(DOMAIN ch, n) = {p}
<1>1. Len(n) \in Nat
  BY NameIsSeq
<1>2. LongestAt(DOMAIN ch, n, Len(p)) /\ Prefix(n, Len(p)) = p
  BY <1>1 DEF Under, LongestAt
<1>3. Longest(DOMAIN ch, n) = {p}
  BY <1>2, LongestIsOne
<1> QED BY <1>3 DEF StrategyAt

\* Some choice is effective everywhere, as the root has one.
LEMMA StrategyExists ==
  ASSUME NEW selected, << >> \in selected, NEW n \in Name
  PROVE  \E p \in selected : Under(selected, p, n) /\ p \in Name /\ Len(p) \in Nat
<1>1. n \in Seq(Nat) /\ Len(n) \in Nat
  BY NameIsSeq
<1>2. 0 \in 0 .. Len(n) /\ Prefix(n, 0) \in selected
  BY <1>1, PrefixOfPrefix
<1>3. PICK i \in 0 .. Len(n) : LongestAt(selected, n, i)
  BY ZenonT(30), <1>1, <1>2, LongestIsOne
<1> DEFINE p == Prefix(n, i)
<1>4. p \in selected /\ p \in Name /\ Len(p) = i
  BY <1>1, <1>3, PrefixOfName, PrefixOfSeq DEF LongestAt
<1>5. Under(selected, p, n)
  BY <1>1, <1>3, <1>4 DEF Under, LongestAt
<1> QED BY <1>1, <1>4, <1>5

\* A prefix of a prefix.
LEMMA UnderBetween ==
  ASSUME NEW n \in Name, NEW q \in Name, Len(q) <= Len(n), Prefix(n, Len(q)) = q, NEW i \in 0 .. Len(q)
  PROVE  Prefix(q, i) = Prefix(n, i)
<1>1. n \in Seq(Nat) /\ Len(n) \in Nat /\ Len(q) \in 0 .. Len(n)
  BY NameIsSeq
<1> QED BY <1>1, PrefixOfPrefix

\* When a choice is set, it becomes the strategy at the names under it, where the
\* strategy was the one at the prefix, and changes no other.
LEMMA StrategySet ==
  ASSUME NEW ch, << >> \in DOMAIN ch, NEW p \in Name, NEW new, NEW n \in Name
  PROVE  IF Under(DOMAIN ch, p, n)
           THEN StrategyAt(Put(ch, p, new), n) = new /\ StrategyAt(ch, n) = StrategyAt(ch, p)
           ELSE StrategyAt(Put(ch, p, new), n) = StrategyAt(ch, n)
<1> DEFINE D == DOMAIN ch
           E == D \cup {p}
           ch2 == Put(ch, p, new)
<1>1. DOMAIN ch2 = E /\ ch2[p] = new /\ \A q \in D : q # p => ch2[q] = ch[q]
  BY DEF Put
<1>2. Len(p) \in Nat /\ Len(n) \in Nat
  BY NameIsSeq
<1> HIDE DEF D, ch2
<1>3. CASE Under(D, p, n)
  <2>1. Under(E, p, n)
    <3>1. ASSUME NEW j \in (Len(p) + 1) .. Len(n) PROVE Prefix(n, j) # p
      <4>1. Len(Prefix(n, j)) = j
        BY <1>2, NameIsSeq, PrefixOfSeq
      <4> QED BY <1>2, <4>1
    <3> QED BY <1>3, <3>1 DEF Under
  <2>2. StrategyAt(ch2, n) = new
    BY <1>1, <1>2, <2>1, StrategyByPrefix
  <2>3. PICK q \in D : Under(D, q, p) /\ q \in Name /\ Len(q) \in Nat
    BY StrategyExists DEF D
  <2>4. Under(D, q, n)
    <3>1. Len(q) <= Len(n) /\ Len(p) <= Len(n) /\ Prefix(n, Len(p)) = p /\ Len(q) <= Len(p)
      BY <1>2, <1>3, <2>3 DEF Under
    <3>2. Prefix(n, Len(q)) = q
      BY <1>2, <2>3, <3>1, UnderBetween DEF Under
    <3>3. ASSUME NEW j \in (Len(q) + 1) .. Len(n) PROVE Prefix(n, j) \notin D
      <4>1. CASE j > Len(p)
        BY <1>2, <1>3, <2>3, <4>1 DEF Under
      <4>2. CASE j <= Len(p)
        <5>1. j \in 0 .. Len(p) /\ j \in (Len(q) + 1) .. Len(p)
          BY <1>2, <2>3, <4>2
        <5>2. Prefix(p, j) = Prefix(n, j)
          BY <3>1, <5>1, UnderBetween
        <5> QED BY <2>3, <5>1, <5>2 DEF Under
      <4> QED BY <1>2, <2>3, <4>1, <4>2
    <3> QED BY <3>1, <3>2, <3>3 DEF Under
  <2>5. StrategyAt(ch, n) = ch[q] /\ StrategyAt(ch, p) = ch[q]
    BY <2>3, <2>4, StrategyByPrefix DEF D
  <2> QED BY <1>3, <2>2, <2>5 DEF D, ch2
<1>4. CASE ~Under(D, p, n)
  <2>1. PICK q \in D : Under(D, q, n) /\ q \in Name /\ Len(q) \in Nat
    BY StrategyExists DEF D
  <2>2. q # p
    BY <1>4, <2>1
  <2>3. Under(E, q, n)
    <3>1. ASSUME NEW j \in (Len(q) + 1) .. Len(n), Prefix(n, j) = p PROVE FALSE
      <4>1. Len(p) = j
        BY <1>2, <2>1, <3>1, NameIsSeq, PrefixOfSeq
      <4>2. \A i \in (j + 1) .. Len(n) : i \in (Len(q) + 1) .. Len(n)
        BY <1>2, <2>1
      <4>3. Under(D, p, n)
        BY <1>2, <2>1, <3>1, <4>1, <4>2 DEF Under
      <4> QED BY <1>4, <4>3
    <3> QED BY <2>1, <3>1 DEF Under
  <2>4. StrategyAt(ch2, n) = ch[q] /\ StrategyAt(ch, n) = ch[q]
    BY <1>1, <2>1, <2>2, <2>3, StrategyByPrefix DEF D
  <2> QED BY <1>4, <2>4 DEF D, ch2
<1> QED BY <1>3, <1>4

\* When a choice is unset, the strategy at the names under it becomes the one at
\* the parent of the prefix, and no other changes.
LEMMA StrategyUnset ==
  ASSUME NEW ch, ChoicesOK(ch), NEW p \in DOMAIN ch, p \in Name, p # << >>, NEW n \in Name
  PROVE  IF Under(DOMAIN ch, p, n)
           THEN StrategyAt(ch, n) = ch[p] /\ StrategyAt(Drop(ch, {p}), n) = StrategyAt(ch, GetPrefix(p))
           ELSE StrategyAt(Drop(ch, {p}), n) = StrategyAt(ch, n)
<1> DEFINE less == Drop(ch, {p})
           D == DOMAIN less
           q == GetPrefix(p)
<1>1. D = DOMAIN ch \ {p} /\ << >> \in D
  BY DEF Drop, ChoicesOK
<1>2. ch = Put(less, p, ch[p])
  BY ZenonT(30) DEF Put, Drop, ChoicesOK
<1>3. /\ q \in Name /\ Len(q) = Len(p) - 1 /\ Len(p) \in Nat \ {0} /\ Len(n) \in Nat
      /\ p \in Seq(Nat) /\ n \in Seq(Nat)
  BY ParentIsName, NameIsSeq
<1>4. Under(DOMAIN ch, p, n) <=> Under(D, p, n)
  <2>1. ASSUME NEW j \in (Len(p) + 1) .. Len(n) PROVE Prefix(n, j) # p
    <3>1. Len(Prefix(n, j)) = j
      BY <1>3, PrefixOfSeq
    <3> QED BY <1>3, <3>1
  <2> HIDE DEF D
  <2> QED BY <1>1, <2>1 DEF Under
<1> HIDE DEF less, D
<1>5. IF Under(D, p, n) THEN StrategyAt(ch, n) = ch[p] /\ StrategyAt(less, n) = StrategyAt(less, p)
      ELSE StrategyAt(ch, n) = StrategyAt(less, n)
  BY <1>1, <1>2, StrategySet DEF D
<1>6. StrategyAt(ch, q) = StrategyAt(less, q)
  <2>1. ~Under(D, p, q)
    BY <1>3 DEF Under
  <2> QED BY <1>1, <1>2, <1>3, <2>1, StrategySet DEF D
<1>7. StrategyAt(less, p) = StrategyAt(less, q)
  <2>1. PICK r \in D : Under(D, r, p) /\ r \in Name /\ Len(r) \in Nat
    BY ZenonT(30), <1>1, StrategyExists
  <2>2. r # p
    BY <1>1, <2>1
  <2>3. q = Prefix(p, Len(p) - 1)
    BY DEF GetPrefix, Prefix
  <2>4. \A i \in 0 .. (Len(p) - 1) : Prefix(q, i) = Prefix(p, i)
    BY <1>3, <2>3, PrefixOfPrefix
  <2>5. Len(r) # Len(p)
    BY <1>3, <2>1, <2>2, PrefixOfPrefix DEF Under
  <2>6. Len(r) \in 0 .. (Len(p) - 1)
    BY <1>3, <2>1, <2>5 DEF Under
  <2>7. \A j \in (Len(r) + 1) .. Len(q) : j \in 0 .. (Len(p) - 1) /\ j \in (Len(r) + 1) .. Len(p)
    BY <1>3, <2>1
  <2> HIDE DEF q
  <2>8. Under(D, r, q)
    BY <1>3, <2>1, <2>4, <2>6, <2>7 DEF Under
  <2> QED BY <1>3, <2>1, <2>8, StrategyByPrefix DEF D
<1> QED BY <1>4, <1>5, <1>6, <1>7 DEF less

\* The search for the strategy of a PIT or Measurements entry.
LEMMA EffectiveByParents ==
  ASSUME NEW t, IsTree(t), NEW ch, NEW n \in Nodes(t)
  PROVE  ch[CHOOSE p \in FindUp(t, DOMAIN ch, n) : TRUE] = StrategyAt(ch, n)
<1>1. FindUp(t, DOMAIN ch, n) = Longest(DOMAIN ch, n)
  BY FindByParents
<1> QED BY ZenonT(30), <1>1 DEF StrategyAt

\* The search for the strategy of a name.
LEMMA EffectiveByHash ==
  ASSUME NEW t, IsTree(t), NEW ch, DOMAIN ch \subseteq Nodes(t), NEW n \in Name
  PROVE  ch[CHOOSE p \in FindLongestPrefixMatch(t, DOMAIN ch, n) : TRUE] = StrategyAt(ch, n)
<1>1. FindLongestPrefixMatch(t, DOMAIN ch, n) = Longest(DOMAIN ch, n)
  BY FindByHash
<1> QED BY ZenonT(30), <1>1 DEF StrategyAt

\* changeStrategy: when the choices change so that the strategy old of the names
\* under the prefix becomes new, what the old one remembered is cleared or both
\* are of a type.
Becomes(t, prefix, old, new, ch) ==
  \A n \in Nodes(t) :
    IF Under(DOMAIN choices, prefix, n) THEN StrategyAt(choices, n) = old /\ StrategyAt(ch, n) = new
    ELSE StrategyAt(ch, n) = StrategyAt(choices, n)

\* After changeStrategy each entry is as the strategy that is now effective expects.
LEMMA ChangeStrategyKeeps ==
  ASSUME NEW t, IsTree(t), DOMAIN pit \cup DOMAIN meas \subseteq Nodes(t), NEW prefix \in Nodes(t),
         PitOK(pit, faces, choices), MeasOK(meas, events, choices),
         NEW old, NEW new, NEW ch, Becomes(t, prefix, old, new, ch), ChangeStrategy(t, prefix, old, new)
  PROVE  /\ PitOK(pit', faces, ch) /\ MeasOK(meas', events, ch)
         /\ DOMAIN pit' = DOMAIN pit /\ DOMAIN meas' = DOMAIN meas
<1> DEFINE ntes == PartialEnumerate(t, DOMAIN choices, prefix)
<1>1. \A n \in Nodes(t) : n \in ntes <=> Under(DOMAIN choices, prefix, n)
  <2>1. ntes = Covered(t, DOMAIN choices, prefix)
    BY EnumerateCovered
  <2> HIDE DEF ntes
  <2> QED BY <2>1 DEF Covered, Under
<1>2. CASE old.type = new.type
  <2>1. pit' = pit /\ meas' = meas
    BY <1>2 DEF ChangeStrategy
  <2>2. \A n \in Nodes(t) : StrategyAt(ch, n).type = StrategyAt(choices, n).type
    BY <1>2 DEF Becomes
  <2> QED BY <2>1, <2>2 DEF PitOK, MeasOK, IsPitEntry, IsMeasEntry
<1>3. CASE old.type # new.type
  <2>1. pit' = ClearTimers(pit, ntes) /\ meas' = ClearMi(meas, ntes)
    BY <1>3 DEF ChangeStrategy
  <2> HIDE DEF ntes
  <2>2. \A n \in Nodes(t) \ ntes : StrategyAt(ch, n) = StrategyAt(choices, n)
    BY <1>1 DEF Becomes
  <2>3. DOMAIN pit' = DOMAIN pit /\ DOMAIN meas' = DOMAIN meas
    BY <2>1 DEF ClearTimers, ClearMi
  <2>4. ASSUME NEW k \in DOMAIN pit PROVE IsPitEntry(pit'[k], k, faces, ch)
    <3>1. IsPitEntry(pit[k], k, faces, choices)
      BY DEF PitOK
    <3>2. CASE k \in ntes
      <4>1. pit'[k] = [pit[k] EXCEPT !.timer = None]
        BY <2>1, <3>2 DEF ClearTimers
      <4> QED BY <3>1, <4>1 DEF IsPitEntry
    <3>3. CASE k \notin ntes
      <4>1. pit'[k] = pit[k]
        BY <2>1, <3>3 DEF ClearTimers
      <4> QED BY <2>2, <3>1, <3>3, <4>1 DEF IsPitEntry
    <3> QED BY <3>2, <3>3
  <2>5. ASSUME NEW n \in DOMAIN meas
        PROVE  IsMeasEntry(meas'[n], n, ch) /\ meas'[n].expiry = meas[n].expiry
    <3>1. IsMeasEntry(meas[n], n, choices)
      BY DEF MeasOK
    <3>2. CASE n \in ntes
      <4>1. meas'[n] = [meas[n] EXCEPT !.mi = None]
        BY <2>1, <3>2 DEF ClearMi
      <4> QED BY <3>1, <4>1 DEF IsMeasEntry
    <3>3. CASE n \notin ntes
      <4>1. meas'[n] = meas[n]
        BY <2>1, <3>3 DEF ClearMi
      <4> QED BY <2>2, <3>1, <3>3, <4>1 DEF IsMeasEntry
    <3> QED BY <3>2, <3>3
  <2>6. Scheduled(meas') = Scheduled(meas)
    BY <2>3, <2>5 DEF Scheduled
  <2> QED BY <2>3, <2>4, <2>5, <2>6 DEF PitOK, MeasOK
<1> QED BY <1>2, <1>3

----------------------------------------------------------------------------
(* The actions                                                             *)

\* The nodes that Left records are the idle ones.
LEMMA LeftKeeps ==
  ASSUME NEW leaving, Left(leaving), TreeOK(tree', Used', leaving)
  PROVE  TreeOK(tree', Used', left')
BY DEF Left, TreeOK, Idle

\* A table entry is added after lookup made its node.
LEMMA LookupKeeps ==
  ASSUME NEW t, NEW used, NEW idle, TreeOK(t, used, idle), NEW name \in Name
  PROVE  /\ TreeOK(Lookup(t, name), used \cup {name}, idle)
         /\ Nodes(t) \cup {name} \subseteq Nodes(Lookup(t, name))
<1>1. IsTree(Lookup(t, name)) /\ Nodes(Lookup(t, name)) = Nodes(t) \cup Prefixes(name)
  BY LookupTree DEF TreeOK
<1>2. name \in Prefixes(name)
  <2>1. name \in Seq(Nat) /\ Len(name) \in Nat
    BY NameIsSeq
  <2>2. Prefix(name, Len(name)) = name /\ Len(name) \in 0 .. Len(name)
    BY <2>1, PrefixOfPrefix
  <2> QED BY <2>2 DEF Prefixes
<1>3. Idle(Lookup(t, name), used \cup {name}) \subseteq Idle(t, used)
  BY LookupIdle DEF TreeOK
<1> QED BY <1>1, <1>2, <1>3 DEF TreeOK

\* A table entry is removed and eraseIfEmpty called for its node.
LEMMA EraseKeeps ==
  ASSUME NEW t, NEW used, NEW idle, TreeOK(t, used, idle), NEW name \in Nodes(t),
         NEW less, less \subseteq used, used \subseteq less \cup {name}
  PROVE  TreeOK(EraseIfEmpty(t, less, name), less, idle)
<1> DEFINE r == EraseIfEmpty(t, less, name)
<1>1. Remains(t, r, less) /\ Idle(r, less) \subseteq Idle(t, less) \ {name}
  BY EraseIfEmptyTree DEF TreeOK
<1> HIDE DEF r
<1>2. Idle(t, less) \ {name} \subseteq Idle(t, used)
  BY DEF Idle, IsEmpty
<1>3. less \subseteq Nodes(r)
  BY <1>1 DEF TreeOK, Remains
<1> QED BY <1>1, <1>2, <1>3 DEF TreeOK, Remains, r

\* strategy-choice/set keeps the invariant.
LEMMA SetStrategyKeeps ==
  ASSUME IInv, NEW prefix \in Name, NEW type, SetStrategy(prefix, type)
  PROVE  IInv'
<1>1. /\ tree' = Lookup(tree, prefix) /\ Left(left)
      /\ UNCHANGED <<scenario, faces, fib, events>>
  BY DEF SetStrategy
<1>2. /\ TreeOK(tree', Used \cup {prefix}, left) /\ Nodes(tree) \cup {prefix} \subseteq Nodes(tree')
  BY <1>1, LookupKeeps DEF IInv
<1>3. DOMAIN pit \cup DOMAIN meas \cup DOMAIN choices \subseteq Nodes(tree) /\ IsTree(tree) /\ IsTree(tree')
  BY <1>2 DEF IInv, TreeOK, Used
<1>4. CASE prefix \in DOMAIN choices /\ choices[prefix].type = type
  <2>1. UNCHANGED <<choices, lastId, pit, meas>>
    BY <1>4 DEF SetStrategy
  <2>2. Used' = Used \cup {prefix}
    BY <1>1, <1>4, <2>1 DEF Used
  <2>3. TreeOK(tree', Used', left')
    BY <1>1, <1>2, <2>2, LeftKeeps
  <2> QED BY <1>1, <2>1, <2>3 DEF IInv
<1>5. CASE ~(prefix \in DOMAIN choices /\ choices[prefix].type = type)
  <2> DEFINE new == [type |-> type, id |-> lastId + 1]
             old == Effective(prefix)
  <2>1. ChangeStrategy(tree', prefix, old, new) /\ choices' = Put(choices, prefix, new)
    BY <1>5 DEF SetStrategy
  <2> HIDE DEF new
  <2>2. old = StrategyAt(choices, prefix)
    BY <1>3, EffectiveByHash DEF Effective
  <2> HIDE DEF old
  <2>3. \A n \in Nodes(tree') : n \in Name
    BY <1>3 DEF IsTree, IsTable
  <2>4. Becomes(tree', prefix, old, new, choices')
    BY <2>1, <2>2, <2>3, StrategySet DEF Becomes, IInv, ChoicesOK
  <2>5. prefix \in Nodes(tree') /\ DOMAIN pit \cup DOMAIN meas \subseteq Nodes(tree')
    BY <1>2, <1>3
  <2>6. /\ PitOK(pit', faces, choices') /\ MeasOK(meas', events, choices')
        /\ DOMAIN pit' = DOMAIN pit /\ DOMAIN meas' = DOMAIN meas
    BY <1>3, <2>1, <2>4, <2>5, ChangeStrategyKeeps DEF IInv
  <2>7. DOMAIN choices' = DOMAIN choices \cup {prefix} /\ ChoicesOK(choices')
    BY <2>1 DEF Put, IInv, ChoicesOK
  <2>8. Used' = Used \cup {prefix}
    BY <1>1, <2>6, <2>7 DEF Used
  <2>9. TreeOK(tree', Used', left')
    BY <1>1, <1>2, <2>8, LeftKeeps
  <2> QED BY <1>1, <2>6, <2>7, <2>9 DEF IInv
<1> QED BY <1>4, <1>5

\* strategy-choice/unset keeps the invariant.
LEMMA UnsetStrategyKeeps ==
  ASSUME IInv, NEW prefix \in DOMAIN choices, UnsetStrategy(prefix)
  PROVE  IInv'
<1> DEFINE new == Effective(GetPrefix(prefix))
<1>1. /\ prefix # << >> /\ ChangeStrategy(tree, prefix, choices[prefix], new)
      /\ choices' = Drop(choices, {prefix}) /\ tree' = EraseIfEmpty(tree, Used', prefix) /\ Left(left)
      /\ UNCHANGED <<scenario, faces, fib, events>>
  BY DEF UnsetStrategy
<1>2. /\ Used \subseteq Nodes(tree) /\ DOMAIN choices \subseteq Nodes(tree) /\ IsTree(tree)
      /\ DOMAIN pit \cup DOMAIN meas \subseteq Nodes(tree) /\ Nodes(tree) \in SUBSET Name
  BY DEF IInv, TreeOK, Used, IsTree, IsTable
<1>3. prefix \in Nodes(tree) /\ prefix \in Name /\ GetPrefix(prefix) \in Name
  BY <1>1, <1>2, ParentIsName
<1>4. new = StrategyAt(choices, GetPrefix(prefix))
  BY <1>2, <1>3, EffectiveByHash DEF Effective
<1> HIDE DEF new
<1>5. Becomes(tree, prefix, choices[prefix], new, choices')
  BY <1>1, <1>2, <1>3, <1>4, StrategyUnset DEF Becomes, IInv
<1>6. /\ PitOK(pit', faces, choices') /\ MeasOK(meas', events, choices')
      /\ DOMAIN pit' = DOMAIN pit /\ DOMAIN meas' = DOMAIN meas
  BY <1>1, <1>2, <1>3, <1>5, ChangeStrategyKeeps DEF IInv
<1>7. DOMAIN choices' = DOMAIN choices \ {prefix} /\ ChoicesOK(choices')
  BY <1>1 DEF Drop, IInv, ChoicesOK
<1>8. Used' \subseteq Used /\ Used \subseteq Used' \cup {prefix}
  BY <1>1, <1>6, <1>7 DEF Used
<1>9. TreeOK(tree', Used', left)
  BY <1>1, <1>3, <1>8, EraseKeeps DEF IInv
<1>10. TreeOK(tree', Used', left')
  BY <1>1, <1>9, LeftKeeps
<1> QED BY <1>1, <1>6, <1>7, <1>10 DEF IInv

\* Measurements::cleanup keeps the invariant.
LEMMA CleanupKeeps ==
  ASSUME IInv, NEW name, Cleanup(name)
  PROVE  IInv'
<1> DEFINE due == [name |-> name, at |-> 0]
<1>1. /\ due \in events /\ events' = events \ {due} /\ meas' = Drop(meas, {name})
      /\ tree' = EraseIfEmpty(tree, Used', name) /\ Left(left)
      /\ UNCHANGED <<scenario, faces, fib, pit, choices>>
  BY DEF Cleanup
<1>2. events = Scheduled(meas) /\ \A n \in DOMAIN meas : IsMeasEntry(meas[n], n, choices)
  BY DEF IInv, MeasOK
<1>3. name \in DOMAIN meas /\ meas[name].expiry = 0
  <2>1. PICK n \in DOMAIN meas : due = [name |-> n, at |-> meas[n].expiry]
    BY <1>1, <1>2 DEF Scheduled
  <2> QED BY <2>1
<1>4. DOMAIN meas' = DOMAIN meas \ {name} /\ \A n \in DOMAIN meas' : meas'[n] = meas[n]
  BY <1>1 DEF Drop
<1>5. Scheduled(meas') = Scheduled(meas) \ {due}
  <2>1. ASSUME NEW e \in Scheduled(meas') PROVE e \in Scheduled(meas) \ {due}
    <3>1. PICK n \in DOMAIN meas' : e = [name |-> n, at |-> meas'[n].expiry]
      BY DEF Scheduled
    <3>2. n # name /\ e.name = n /\ due.name = name
      BY <1>4, <3>1
    <3> QED BY <1>4, <3>1, <3>2 DEF Scheduled
  <2>2. ASSUME NEW e \in Scheduled(meas), e # due PROVE e \in Scheduled(meas')
    <3>1. PICK n \in DOMAIN meas : e = [name |-> n, at |-> meas[n].expiry]
      BY DEF Scheduled
    <3>2. n # name
      BY <1>3, <2>2, <3>1
    <3> QED BY <1>4, <3>1, <3>2 DEF Scheduled
  <2> QED BY <2>1, <2>2
<1>6. MeasOK(meas', events', choices)
  BY <1>1, <1>2, <1>4, <1>5 DEF MeasOK
<1>7. Used' \subseteq Used /\ Used \subseteq Used' \cup {name} /\ name \in Nodes(tree)
  BY <1>1, <1>3, <1>4 DEF Used, IInv, TreeOK
<1>8. TreeOK(tree', Used', left)
  BY <1>1, <1>7, EraseKeeps DEF IInv
<1>9. TreeOK(tree', Used', left')
  BY <1>1, <1>8, LeftKeeps
<1> QED BY <1>1, <1>6, <1>9 DEF IInv

\* The passing of time keeps the invariant.
LEMMA TickKeeps ==
  ASSUME IInv, Tick
  PROVE  IInv'
<1>1. /\ events' = {[e EXCEPT !.at = Later(@)] : e \in events}
      /\ meas' = [n \in DOMAIN meas |-> [meas[n] EXCEPT !.expiry = Later(@)]]
      /\ UNCHANGED <<scenario, tree, faces, fib, pit, choices, left>>
  BY DEF Tick
<1>2. events = Scheduled(meas) /\ \A n \in DOMAIN meas : IsMeasEntry(meas[n], n, choices)
  BY DEF IInv, MeasOK
<1>3. DOMAIN meas' = DOMAIN meas
  BY <1>1
<1>4. ASSUME NEW n \in DOMAIN meas
      PROVE  IsMeasEntry(meas'[n], n, choices) /\ meas'[n].expiry = Later(meas[n].expiry)
  <2>1. /\ DOMAIN meas[n] = {"expiry", "mi"} /\ meas[n].expiry \in 0 .. AccessLifetime
        /\ meas'[n] = [meas[n] EXCEPT !.expiry = Later(@)]
    BY <1>1, <1>2 DEF IsMeasEntry
  <2>2. /\ DOMAIN meas'[n] = {"expiry", "mi"} /\ meas'[n].mi = meas[n].mi
        /\ meas'[n].expiry = Later(meas[n].expiry)
    BY <2>1
  <2>3. Later(meas[n].expiry) \in 0 .. AccessLifetime
    BY <2>1 DEF Later, AccessLifetime
  <2> QED BY <1>2, <2>2, <2>3 DEF IsMeasEntry
<1>5. events' = Scheduled(meas')
  <2>1. ASSUME NEW n \in DOMAIN meas
        PROVE  [[name |-> n, at |-> meas[n].expiry] EXCEPT !.at = Later(@)] = [name |-> n, at |-> meas'[n].expiry]
    BY <1>4
  <2>2. ASSUME NEW e \in events' PROVE e \in Scheduled(meas')
    <3>1. PICK d \in Scheduled(meas) : e = [d EXCEPT !.at = Later(@)]
      BY <1>1, <1>2
    <3>2. PICK n \in DOMAIN meas : d = [name |-> n, at |-> meas[n].expiry]
      BY DEF Scheduled
    <3>3. e = [name |-> n, at |-> meas'[n].expiry]
      BY <2>1, <3>1, <3>2
    <3> QED BY <1>3, <3>3 DEF Scheduled
  <2>3. ASSUME NEW e \in Scheduled(meas') PROVE e \in events'
    <3>1. PICK n \in DOMAIN meas : e = [name |-> n, at |-> meas'[n].expiry]
      BY <1>3 DEF Scheduled
    <3> DEFINE d == [name |-> n, at |-> meas[n].expiry]
    <3>2. d \in events
      BY <1>2 DEF Scheduled
    <3>3. e = [d EXCEPT !.at = Later(@)]
      BY <2>1, <3>1
    <3> HIDE DEF d
    <3> QED BY ZenonT(30), <1>1, <3>2, <3>3
  <2> QED BY <2>2, <2>3
<1>6. MeasOK(meas', events', choices)
  BY <1>3, <1>4, <1>5 DEF MeasOK
<1>7. Used' = Used
  BY <1>1, <1>3 DEF Used
<1> QED BY <1>1, <1>6, <1>7 DEF IInv

\* The nexthops of a PIT entry are faces.
LEMMA NextHopsAreFaces ==
  ASSUME NEW t, IsTree(t), NEW k \in Nodes(t), FibOK(fib, faces)
  PROVE  NextHops(t, k) \subseteq faces
<1>1. FindUp(t, DOMAIN fib, k) = Longest(DOMAIN fib, k)
  BY FindByParents
<1>2. Longest(DOMAIN fib, k) \subseteq DOMAIN fib
  BY DEF Longest, LongestAt
<1> QED BY <1>1, <1>2 DEF NextHops, FibOK

\* afterReceiveInterest leaves a PIT entry as it should be.
LEMMA InterestEntry ==
  ASSUME NEW t, IsTree(t), NEW k \in Nodes(t), FibOK(fib, faces), faces \in SUBSET Face,
         NEW entry, IsPitEntry(entry, k, faces, choices), NEW f \in entry.in,
         NEW e, \/ e \in BestRouteInterest(t, k, entry, f)
                \/ StrategyAt(choices, k).type = "access" /\ e \in AccessInterest(t, k, entry, f, StrategyAt(choices, k))
  PROVE  IsPitEntry(e, k, faces, choices)
<1>1. NextHops(t, k) \subseteq faces
  BY NextHopsAreFaces
<1>2. /\ DOMAIN entry = {"int", "in", "out", "timer"}
      /\ GetNameFunction(entry.int) = k /\ entry.in \subseteq faces /\ entry.out \subseteq faces /\ f \in faces
  BY DEF IsPitEntry
<1>3. ASSUME NEW more, more \subseteq faces PROVE IsPitEntry([entry EXCEPT !.out = @ \cup more], k, faces, choices)
  BY <1>2, <1>3 DEF IsPitEntry
<1>4. CASE e \in BestRouteInterest(t, k, entry, f)
  <2>1. CASE e = entry
    BY <2>1
  <2>2. CASE e \in {[entry EXCEPT !.out = @ \cup {nh}] : nh \in NextHops(t, k) \ {f}}
    <3>1. PICK nh \in NextHops(t, k) : e = [entry EXCEPT !.out = @ \cup {nh}]
      BY <2>2
    <3>2. {nh} \subseteq faces
      BY <1>1
    <3> QED BY ZenonT(30), <1>3, <3>1, <3>2
  <2> QED BY <1>4, <2>1, <2>2 DEF BestRouteInterest
<1>5. CASE StrategyAt(choices, k).type = "access" /\ e \in AccessInterest(t, k, entry, f, StrategyAt(choices, k))
  <2> DEFINE all == Multicast(t, k, entry, f, None)
  <2>1. IsPitEntry(all, k, faces, choices)
    <3>1. NextHops(t, k) \ {f, None} \subseteq faces
      BY <1>1
    <3> QED BY ZenonT(30), <1>3, <3>1 DEF Multicast
  <2> HIDE DEF all
  <2>2. \/ e \in {entry, all}
        \/ \E nh \in NextHops(t, k) : e = [entry EXCEPT !.out = @ \cup {nh}, !.timer = [in |-> f, out |-> nh]]
    BY ZenonT(30), <1>5 DEF AccessInterest, all
  <2>3. ASSUME NEW nh \in NextHops(t, k), e = [entry EXCEPT !.out = @ \cup {nh}, !.timer = [in |-> f, out |-> nh]]
        PROVE  IsPitEntry(e, k, faces, choices)
    <3>1. /\ DOMAIN e = {"int", "in", "out", "timer"} /\ e.int = entry.int /\ e.in = entry.in
          /\ e.out = entry.out \cup {nh} /\ e.timer = [in |-> f, out |-> nh]
      BY <1>2, <2>3
    <3>2. nh \in faces
      BY <1>1
    <3>3. e.timer \in [in : Face, out : Face] /\ e.timer.in = f
      BY <1>2, <3>1, <3>2
    <3> QED BY <1>2, <1>5, <3>1, <3>2, <3>3 DEF IsPitEntry
  <2> QED BY ZenonT(30), <2>1, <2>2, <2>3
<1> QED BY <1>4, <1>5

\* An Interest keeps the invariant.
LEMMA OnInterestKeeps ==
  ASSUME IInv, NEW int \in scenario.interests, NEW f \in Face, OnInterest(int, f)
  PROVE  IInv'
<1> DEFINE key == GetNameFunction(int)
           entry == IF key \in DOMAIN pit THEN pit[key]
                    ELSE [int |-> int, in |-> {}, out |-> {}, timer |-> None]
           received == [entry EXCEPT !.in = @ \cup {f}]
           strategy == choices[CHOOSE n \in FindUp(tree', DOMAIN choices, key) : TRUE]
           now == StrategyAt(choices, key)
<1>1. /\ f \in faces /\ tree' = Lookup(tree, key) /\ Left(left)
      /\ \E e \in IF strategy.type = "access" THEN AccessInterest(tree', key, received, f, strategy)
                  ELSE BestRouteInterest(tree', key, received, f) : pit' = Put(pit, key, e)
      /\ UNCHANGED <<scenario, faces, fib, meas, choices, events>>
  BY ZenonT(30) DEF OnInterest
<1>2. key \in Name
  BY ZenonT(30), ScenarioAssumption DEF IInv
<1>3. IsPitEntry(entry, key, faces, choices)
  BY ZenonT(30) DEF IInv, PitOK, IsPitEntry
<1> HIDE DEF entry
<1>4. IsPitEntry(received, key, faces, choices) /\ f \in received.in
  BY <1>1, <1>3 DEF IsPitEntry
<1> HIDE DEF key, received
<1>5. TreeOK(tree', Used \cup {key}, left) /\ Nodes(tree) \cup {key} \subseteq Nodes(tree')
  BY <1>1, <1>2, LookupKeeps DEF IInv
<1>6. IsTree(tree') /\ key \in Nodes(tree')
  BY <1>5 DEF TreeOK
<1>7. strategy = now
  BY <1>6, EffectiveByParents
<1> HIDE DEF strategy
<1>8. PICK e : /\ pit' = Put(pit, key, e)
               /\ \/ e \in BestRouteInterest(tree', key, received, f)
                  \/ now.type = "access" /\ e \in AccessInterest(tree', key, received, f, now)
  BY <1>1, <1>7
<1>9. IsPitEntry(e, key, faces, choices)
  BY <1>4, <1>6, <1>8, InterestEntry DEF IInv
<1> HIDE DEF now
<1>10. DOMAIN pit' = DOMAIN pit \cup {key} /\ \A k \in DOMAIN pit' : pit'[k] = IF k = key THEN e ELSE pit[k]
  BY <1>8 DEF Put
<1>11. PitOK(pit', faces, choices)
  BY <1>9, <1>10 DEF IInv, PitOK
<1>12. Used' = Used \cup {key}
  BY <1>1, <1>10 DEF Used
<1>13. TreeOK(tree', Used', left')
  BY <1>1, <1>5, <1>12, LeftKeeps
<1> QED BY ZenonT(30), <1>1, <1>11, <1>13 DEF IInv

\* The RTO timer keeps the invariant.
LEMMA RtoTimeoutKeeps ==
  ASSUME IInv, NEW key \in DOMAIN pit, RtoTimeout(key)
  PROVE  IInv'
<1> DEFINE e == [pit[key] EXCEPT !.timer = None]
           timer == pit[key].timer
           after == IF timer.in \in faces THEN Multicast(tree, key, e, timer.in, timer.out) ELSE e
<1>1. /\ pit' = [pit EXCEPT ![key] = after]
      /\ UNCHANGED <<scenario, tree, faces, fib, meas, choices, events, left>>
  BY DEF RtoTimeout
<1>2. /\ IsPitEntry(pit[key], key, faces, choices) /\ IsTree(tree) /\ key \in Nodes(tree)
  BY DEF IInv, PitOK, TreeOK, Used
<1>3. NextHops(tree, key) \subseteq faces
  BY <1>2, NextHopsAreFaces DEF IInv
<1>4. IsPitEntry(e, key, faces, choices)
  BY <1>2 DEF IsPitEntry
<1>5. e.timer = None
  BY <1>2 DEF IsPitEntry
<1> HIDE DEF e, timer
<1>6. IsPitEntry(Multicast(tree, key, e, timer.in, timer.out), key, faces, choices)
  BY <1>3, <1>4, <1>5 DEF Multicast, IsPitEntry
<1>7. IsPitEntry(after, key, faces, choices)
  BY <1>4, <1>6
<1> HIDE DEF after
<1>8. DOMAIN pit' = DOMAIN pit /\ \A k \in DOMAIN pit : pit'[k] = IF k = key THEN after ELSE pit[k]
  BY <1>1
<1>9. PitOK(pit', faces, choices)
  BY <1>7, <1>8 DEF IInv, PitOK
<1>10. Used' = Used
  BY <1>1, <1>8 DEF Used
<1> QED BY <1>1, <1>9, <1>10 DEF IInv

\* The removal of a PIT entry keeps the invariant.
LEMMA FinalizeKeeps ==
  ASSUME IInv, NEW key \in DOMAIN pit, Finalize(key)
  PROVE  IInv'
<1>1. /\ pit' = Drop(pit, {key}) /\ tree' = EraseIfEmpty(tree, Used', key) /\ Left(left)
      /\ UNCHANGED <<scenario, faces, fib, meas, choices, events>>
  BY DEF Finalize
<1>2. DOMAIN pit' = DOMAIN pit \ {key} /\ \A k \in DOMAIN pit' : pit'[k] = pit[k]
  BY <1>1 DEF Drop
<1>3. PitOK(pit', faces, choices)
  BY <1>2 DEF IInv, PitOK
<1>4. Used' \subseteq Used /\ Used \subseteq Used' \cup {key} /\ key \in Nodes(tree)
  BY <1>1, <1>2 DEF Used, IInv, TreeOK
<1>5. TreeOK(tree', Used', left)
  BY <1>1, <1>4, EraseKeeps DEF IInv
<1>6. TreeOK(tree', Used', left')
  BY <1>1, <1>5, LeftKeeps
<1> QED BY <1>1, <1>3, <1>6 DEF IInv

\* fib/add-nexthop keeps the invariant.
LEMMA AddNextHopKeeps ==
  ASSUME IInv, NEW prefix \in Name, NEW f, AddNextHop(prefix, f)
  PROVE  IInv'
<1> DEFINE hops == {f} \cup UNION {fib[p] : p \in DOMAIN fib \cap {prefix}}
<1>1. /\ f \in faces /\ tree' = Lookup(tree, prefix) /\ fib' = Put(fib, prefix, hops) /\ Left(left)
      /\ UNCHANGED <<scenario, faces, pit, meas, choices, events>>
  BY DEF AddNextHop
<1>2. hops # {} /\ hops \subseteq faces
  BY <1>1 DEF IInv, FibOK
<1> HIDE DEF hops
<1>3. DOMAIN fib' = DOMAIN fib \cup {prefix} /\ \A p \in DOMAIN fib' : fib'[p] = IF p = prefix THEN hops ELSE fib[p]
  BY <1>1 DEF Put
<1>4. FibOK(fib', faces)
  BY <1>2, <1>3 DEF IInv, FibOK
<1>5. TreeOK(tree', Used \cup {prefix}, left)
  BY <1>1, LookupKeeps DEF IInv
<1>6. Used' = Used \cup {prefix}
  BY <1>1, <1>3 DEF Used
<1>7. TreeOK(tree', Used', left')
  BY <1>1, <1>5, <1>6, LeftKeeps
<1> QED BY <1>1, <1>4, <1>7 DEF IInv

\* fib/remove-nexthop keeps the invariant: the node that may have become idle is
\* the one that Left records.
LEMMA RemoveNextHopKeeps ==
  ASSUME IInv, NEW prefix, NEW f, RemoveNextHop(prefix, f)
  PROVE  IInv'
<1>1. /\ fib' = [p \in DOMAIN fib \ (IF fib[prefix] = {f} THEN {prefix} ELSE {}) |->
                   IF p = prefix THEN fib[p] \ {f} ELSE fib[p]]
      /\ UNCHANGED <<scenario, tree, faces, pit, meas, choices, events>>
      /\ Left(left \cup {prefix}) /\ prefix \in DOMAIN fib /\ f \in fib[prefix]
  BY DEF RemoveNextHop
<1>2. DOMAIN fib' \subseteq DOMAIN fib /\ DOMAIN fib \subseteq DOMAIN fib' \cup {prefix}
  BY <1>1
<1>3. ASSUME NEW p \in DOMAIN fib' PROVE fib'[p] # {} /\ fib'[p] \subseteq faces
  <2>1. p \in DOMAIN fib /\ fib[p] # {} /\ fib[p] \subseteq faces
    BY <1>2 DEF IInv, FibOK
  <2>2. CASE p = prefix
    <3>1. fib[p] # {f} /\ fib'[p] = fib[p] \ {f}
      BY <1>1, <2>2
    <3> QED BY <1>1, <2>1, <2>2, <3>1
  <2>3. CASE p # prefix
    BY <1>1, <2>1, <2>3
  <2> QED BY <2>2, <2>3
<1>4. FibOK(fib', faces)
  BY <1>3 DEF FibOK
<1>5. Used' \subseteq Used /\ Used \subseteq Used' \cup {prefix}
  BY <1>1, <1>2 DEF Used
<1>6. Idle(tree, Used') \subseteq Idle(tree, Used) \cup {prefix}
  BY <1>5 DEF Idle, IsEmpty
<1>7. TreeOK(tree, Used', left \cup {prefix})
  BY <1>5, <1>6 DEF IInv, TreeOK
<1>8. TreeOK(tree', Used', left')
  BY <1>1, <1>7, LeftKeeps
<1> QED BY <1>1, <1>4, <1>8 DEF IInv

\* The removal of a face keeps the invariant, and leaves no node idle.
LEMMA DestroyFaceKeeps ==
  ASSUME IInv, NEW f \in Face, DestroyFace(f)
  PROVE  IInv'
<1>1. /\ faces' = faces \ {f} /\ fib' = WithoutNextHop(fib, f)
      /\ pit' = [k \in DOMAIN pit |-> [pit[k] EXCEPT !.in = @ \ {f}, !.out = @ \ {f}]]
      /\ UNCHANGED <<scenario, meas, choices, events>>
      /\ tree' = EraseMaybeEmpty(tree, Used') /\ Left({})
  BY ZenonT(30) DEF DestroyFace
<1>2. DOMAIN fib' \subseteq DOMAIN fib
  BY ZenonT(30), <1>1 DEF WithoutNextHop
<1>3. FibOK(fib', faces')
  <2> SUFFICES ASSUME NEW p \in DOMAIN fib' PROVE fib'[p] # {} /\ fib'[p] \subseteq faces'
    BY DEF FibOK
  <2>1. p \in DOMAIN fib /\ fib[p] # {f} /\ fib'[p] = fib[p] \ {f}
    BY ZenonT(30), <1>1 DEF WithoutNextHop
  <2>2. fib[p] # {} /\ fib[p] \subseteq faces
    BY <2>1 DEF IInv, FibOK
  <2> QED BY ZenonT(30), <1>1, <2>1, <2>2
<1>4. DOMAIN pit' = DOMAIN pit
  BY ZenonT(30), <1>1
<1>5. PitOK(pit', faces', choices)
  <2> SUFFICES ASSUME NEW k \in DOMAIN pit PROVE IsPitEntry(pit'[k], k, faces', choices)
    BY <1>4 DEF PitOK
  <2>1. IsPitEntry(pit[k], k, faces, choices) /\ pit'[k] = [pit[k] EXCEPT !.in = @ \ {f}, !.out = @ \ {f}]
    BY ZenonT(30), <1>1 DEF IInv, PitOK
  <2> DEFINE e == pit[k]
             d == pit'[k]
  <2>2. /\ DOMAIN d = {"int", "in", "out", "timer"} /\ d.int = e.int /\ d.timer = e.timer
        /\ d.in = e.in \ {f} /\ d.out = e.out \ {f}
    BY <2>1 DEF IsPitEntry
  <2> HIDE DEF d, e
  <2>3. IsPitEntry(d, k, faces', choices)
    BY ZenonT(30), <1>1, <2>1, <2>2 DEF IsPitEntry, e
  <2> QED BY <2>3 DEF d
<1>6. Used' \subseteq Used
  BY ZenonT(30), <1>1, <1>2, <1>4 DEF Used
<1> DEFINE used == Used'
<1>7. used \subseteq Nodes(tree) /\ IsTree(tree)
  BY <1>6 DEF IInv, TreeOK
<1>8. tree' = EraseMaybeEmpty(tree, used) /\ Left({})
  BY ZenonT(30), <1>1
<1> HIDE DEF used
<1>9. Remains(tree, tree', used) /\ Idle(tree', used) = {}
  BY <1>7, <1>8, EraseMaybeEmptyTree
<1>10. TreeOK(tree', Used', {})
  BY <1>7, <1>9 DEF TreeOK, Remains, used
<1>11. TreeOK(tree', Used', left')
  BY <1>8, <1>10, LeftKeeps
<1> QED BY ZenonT(30), <1>1, <1>3, <1>5, <1>11 DEF IInv

----------------------------------------------------------------------------
(* Data                                                                    *)

\* The Measurements table on its way through beforeSatisfyInterest.
Measuring(s) ==
  /\ DOMAIN s = {"tree", "meas", "events"}
  /\ TreeOK(s.tree, Used \cup DOMAIN s.meas, left) /\ MeasOK(s.meas, s.events, choices)
  /\ DOMAIN meas \subseteq DOMAIN s.meas

\* Measurements::get.
LEMMA GetEntryKeeps ==
  ASSUME NEW s, Measuring(s), NEW name \in Name
  PROVE  Measuring(GetEntry(s, name)) /\ name \in DOMAIN GetEntry(s, name).meas
<1>1. CASE name \in DOMAIN s.meas
  BY <1>1 DEF GetEntry
<1>2. CASE name \notin DOMAIN s.meas
  <2> DEFINE d == GetEntry(s, name)
             new == [expiry |-> InitialLifetime, mi |-> None]
             due == [name |-> name, at |-> InitialLifetime]
  <2>1. /\ DOMAIN d = {"tree", "meas", "events"} /\ d.tree = Lookup(s.tree, name)
        /\ d.meas = Put(s.meas, name, new) /\ d.events = s.events \cup {due}
    BY <1>2 DEF GetEntry
  <2>2. IsMeasEntry(new, name, choices) /\ new.expiry = InitialLifetime
    BY DEF IsMeasEntry, InitialLifetime, AccessLifetime
  <2> HIDE DEF d, new
  <2>3. /\ DOMAIN d.meas = DOMAIN s.meas \cup {name} /\ d.meas[name] = new
        /\ \A n \in DOMAIN s.meas : d.meas[n] = s.meas[n]
    BY <1>2, <2>1 DEF Put
  <2>4. Scheduled(d.meas) = Scheduled(s.meas) \cup {due}
    BY <2>2, <2>3 DEF Scheduled
  <2> HIDE DEF due
  <2>5. MeasOK(d.meas, d.events, choices)
    BY <2>1, <2>2, <2>3, <2>4 DEF Measuring, MeasOK
  <2>6. TreeOK(d.tree, (Used \cup DOMAIN s.meas) \cup {name}, left)
    BY <2>1, LookupKeeps DEF Measuring
  <2>7. (Used \cup DOMAIN s.meas) \cup {name} = Used \cup DOMAIN d.meas
    BY <2>3
  <2>8. TreeOK(d.tree, Used \cup DOMAIN d.meas, left)
    BY <2>6, <2>7
  <2> QED BY <2>1, <2>3, <2>5, <2>8 DEF Measuring, d
<1> QED BY <1>1, <1>2

\* extendLifetime.
LEMMA ExtendLifetimeKeeps ==
  ASSUME NEW s, Measuring(s), NEW name \in DOMAIN s.meas
  PROVE  /\ Measuring(ExtendLifetime(s, name, AccessLifetime))
         /\ DOMAIN ExtendLifetime(s, name, AccessLifetime).meas = DOMAIN s.meas
<1>1. CASE s.meas[name].expiry >= AccessLifetime
  BY <1>1 DEF ExtendLifetime
<1>2. CASE ~(s.meas[name].expiry >= AccessLifetime)
  <2> DEFINE d == ExtendLifetime(s, name, AccessLifetime)
             new == [s.meas[name] EXCEPT !.expiry = AccessLifetime]
             due == [name |-> name, at |-> AccessLifetime]
  <2>1. /\ DOMAIN d = {"tree", "meas", "events"} /\ d.tree = s.tree
        /\ d.meas = [s.meas EXCEPT ![name] = new]
        /\ d.events = {e \in s.events : e.name # name} \cup {due}
    BY <1>2 DEF ExtendLifetime, Measuring
  <2>2. IsMeasEntry(s.meas[name], name, choices) /\ s.events = Scheduled(s.meas)
    BY DEF Measuring, MeasOK
  <2>3. IsMeasEntry(new, name, choices) /\ new.expiry = AccessLifetime
    BY <2>2 DEF IsMeasEntry, AccessLifetime
  <2> HIDE DEF d, new
  <2>4. /\ DOMAIN d.meas = DOMAIN s.meas /\ d.meas[name] = new
        /\ \A n \in DOMAIN s.meas \ {name} : d.meas[n] = s.meas[n]
    BY <2>1
  <2>5. Scheduled(d.meas) = {e \in Scheduled(s.meas) : e.name # name} \cup {due}
    <3>1. ASSUME NEW e \in Scheduled(d.meas)
          PROVE  e = due \/ (e \in Scheduled(s.meas) /\ e.name # name)
      <4>1. PICK n \in DOMAIN s.meas : e = [name |-> n, at |-> d.meas[n].expiry]
        BY <2>4 DEF Scheduled
      <4>2. CASE n = name
        BY <2>3, <2>4, <4>1, <4>2
      <4>3. CASE n # name
        <5>1. e = [name |-> n, at |-> s.meas[n].expiry] /\ e.name = n
          BY <2>4, <4>1, <4>3
        <5> QED BY <4>3, <5>1 DEF Scheduled
      <4> QED BY <4>2, <4>3
    <3>2. due \in Scheduled(d.meas)
      BY <2>3, <2>4 DEF Scheduled
    <3>3. ASSUME NEW e \in Scheduled(s.meas), e.name # name PROVE e \in Scheduled(d.meas)
      <4>1. PICK n \in DOMAIN s.meas : e = [name |-> n, at |-> s.meas[n].expiry]
        BY DEF Scheduled
      <4>2. n # name
        BY <3>3, <4>1
      <4>3. e = [name |-> n, at |-> d.meas[n].expiry]
        BY <2>4, <4>1, <4>2
      <4> QED BY <2>4, <4>3 DEF Scheduled
    <3> HIDE DEF due
    <3> QED BY <3>1, <3>2, <3>3
  <2> HIDE DEF due
  <2>6. \A n \in DOMAIN s.meas : IsMeasEntry(s.meas[n], n, choices)
    BY DEF Measuring, MeasOK
  <2>7. d.events = Scheduled(d.meas)
    BY <2>1, <2>2, <2>5
  <2>8. MeasOK(d.meas, d.events, choices)
    BY <2>3, <2>4, <2>6, <2>7 DEF MeasOK
  <2> QED BY <2>1, <2>4, <2>8 DEF Measuring, d
<1> QED BY <1>1, <1>2

\* The last working nexthop is noted on an entry of the namespace of the strategy.
LEMMA MeasuredKeeps ==
  ASSUME NEW s, Measuring(s), NEW name \in DOMAIN s.meas, NEW f \in Face,
         StrategyAt(choices, name).type = "access"
  PROVE  Measuring(Measured(s, name, f))
<1> DEFINE u == ExtendLifetime(s, name, AccessLifetime)
           d == Measured(s, name, f)
           new == [u.meas[name] EXCEPT !.mi = f]
<1>1. Measuring(u) /\ name \in DOMAIN u.meas
  BY ExtendLifetimeKeeps
<1>2. d = [u EXCEPT !.meas[name].mi = f]
  BY DEF Measured
<1> HIDE DEF u, d
<1>3. /\ DOMAIN d = {"tree", "meas", "events"} /\ d.tree = u.tree /\ d.events = u.events
      /\ d.meas = [u.meas EXCEPT ![name] = new]
  BY <1>1, <1>2 DEF Measuring
<1>4. /\ u.events = Scheduled(u.meas)
      /\ \A n \in DOMAIN u.meas : IsMeasEntry(u.meas[n], n, choices)
  BY <1>1 DEF Measuring, MeasOK
<1>5. IsMeasEntry(new, name, choices) /\ new.expiry = u.meas[name].expiry
  BY <1>1, <1>4 DEF IsMeasEntry
<1> HIDE DEF new
<1>6. /\ DOMAIN d.meas = DOMAIN u.meas
      /\ \A n \in DOMAIN u.meas : d.meas[n] = IF n = name THEN new ELSE u.meas[n]
  BY <1>1, <1>3
<1>7. \A n \in DOMAIN u.meas : d.meas[n].expiry = u.meas[n].expiry
  BY <1>5, <1>6
<1>8. Scheduled(d.meas) = Scheduled(u.meas)
  BY <1>6, <1>7 DEF Scheduled
<1>9. MeasOK(d.meas, d.events, choices)
  BY <1>3, <1>4, <1>5, <1>6, <1>8 DEF MeasOK
<1> QED BY ZenonT(30), <1>1, <1>3, <1>6, <1>9 DEF Measuring, d

\* An entry that a strategy sees is in its namespace.
LEMMA AccessibleIsEffective ==
  ASSUME NEW s, Measuring(s), ChoicesOK(choices), NEW name \in DOMAIN s.meas, NEW strategy,
         Accessible(s, name, strategy)
  PROVE  StrategyAt(choices, name) = strategy
<1>1. IsTree(s.tree) /\ name \in Nodes(s.tree) /\ name \in Name
  BY ZenonT(30) DEF Measuring, TreeOK, IsTree, IsTable
<1>2. FindUp(s.tree, DOMAIN choices, name) = Longest(DOMAIN choices, name)
  BY <1>1, FindByParents
<1>3. PICK p \in DOMAIN choices : Under(DOMAIN choices, p, name) /\ Len(p) \in Nat
  BY <1>1, StrategyExists DEF ChoicesOK
<1>4. StrategyAt(choices, name) = choices[p] /\ Longest(DOMAIN choices, name) = {p}
  BY <1>1, <1>3, StrategyByPrefix
<1> QED BY <1>2, <1>4 DEF Accessible

\* updateMeasurements of a strategy of the type access.
LEMMA UpdateMeasurementsKeeps ==
  ASSUME NEW s, Measuring(s), ChoicesOK(choices), NEW data, data.name \in Name, NEW f \in Face,
         NEW strategy, strategy.type = "access"
  PROVE  Measuring(UpdateMeasurements(s, data, f, strategy))
<1> DEFINE parent == GetPrefix(data.name)
           a == GetEntry(s, parent)
           b == GetEntry(a, data.name)
<1>1. parent \in Name
  <2>1. GetPrefix(<< >>) = << >>
    BY DEF GetPrefix
  <2> QED BY <2>1, NameAssumption
<1>2. UpdateMeasurements(s, data, f, strategy) =
        IF Accessible(a, parent, strategy) THEN Measured(a, parent, f)
        ELSE IF Accessible(b, data.name, strategy) THEN Measured(b, data.name, f) ELSE b
  BY DEF UpdateMeasurements
<1> HIDE DEF parent
<1>3. Measuring(a) /\ parent \in DOMAIN a.meas
  BY <1>1, GetEntryKeeps
<1> HIDE DEF a
<1>4. Measuring(b) /\ data.name \in DOMAIN b.meas
  BY <1>3, GetEntryKeeps
<1> HIDE DEF b
<1>5. Accessible(a, parent, strategy) => Measuring(Measured(a, parent, f))
  BY <1>3, AccessibleIsEffective, MeasuredKeeps
<1>6. Accessible(b, data.name, strategy) => Measuring(Measured(b, data.name, f))
  BY <1>4, AccessibleIsEffective, MeasuredKeeps
<1> QED BY <1>2, <1>4, <1>5, <1>6

\* beforeSatisfyInterest for one PIT entry.
LEMMA BeforeSatisfyKeeps ==
  ASSUME IInv, NEW s, Measuring(s), NEW k \in DOMAIN pit, NEW data, data.name \in Name, NEW f \in Face
  PROVE  Measuring(BeforeSatisfyInterest(s, k, data, f))
<1>1. ChoicesOK(choices)
  BY DEF IInv
<1>2. EffectiveAt(k).type = "access" => Measuring(UpdateMeasurements(s, data, f, EffectiveAt(k)))
  BY <1>1, UpdateMeasurementsKeeps
<1> QED BY <1>2 DEF BeforeSatisfyInterest

KeyAt(data, i) == Prefix(GetNameFunction(data), Len(GetNameFunction(data)) - i + 1)

SatisfyRound(x, i, data, f) ==
  IF KeyAt(data, i) \in DataMatches(data) THEN BeforeSatisfyInterest(x, KeyAt(data, i), data, f) ELSE x

\* The values of the loop over the matches, for n rounds.
Satisfying(g, n, data, f) ==
  g = [i \in 0 .. n |-> IF i = 0 THEN [tree |-> tree, meas |-> meas, events |-> events]
                        ELSE SatisfyRound(g[i - 1], i, data, f)]

\* The loop over the matches has a value.
LEMMA SatisfyingExists ==
  ASSUME NEW data, NEW f, NEW n \in Nat
  PROVE  \E g : Satisfying(g, n, data, f)
<1> DEFINE s == [tree |-> tree, meas |-> meas, events |-> events]
           Exists(m) == \E g : Satisfying(g, m, data, f)
           S == {m \in 0 .. n : Exists(m)}
<1> HIDE DEF s
<1>1. Exists(0)
  <2> DEFINE g == [i \in 0 .. 0 |-> s]
  <2>1. Satisfying(g, 0, data, f)
    BY DEF Satisfying, s
  <2> QED BY <2>1
<1>2. ASSUME NEW m \in Nat, Exists(m) PROVE Exists(m + 1)
  <2>1. PICK h : Satisfying(h, m, data, f)
    BY <1>2
  <2> DEFINE g == [i \in 0 .. (m + 1) |-> IF i = m + 1 THEN SatisfyRound(h[m], m + 1, data, f) ELSE h[i]]
  <2>2. \A i \in 0 .. m : g[i] = h[i] /\ h[i] = IF i = 0 THEN s ELSE SatisfyRound(h[i - 1], i, data, f)
    BY <2>1 DEF Satisfying, s
  <2>3. /\ g[m + 1] = SatisfyRound(g[m], m + 1, data, f) /\ g[0] = s
        /\ g = [i \in 0 .. (m + 1) |-> g[i]]
    BY <2>2
  <2> HIDE DEF g
  <2>4. \A i \in 1 .. m : g[i] = SatisfyRound(g[i - 1], i, data, f)
    BY <2>2
  <2>5. ASSUME NEW i \in 0 .. (m + 1) PROVE g[i] = IF i = 0 THEN s ELSE SatisfyRound(g[i - 1], i, data, f)
    <3>1. CASE i = 0
      BY <2>3, <3>1
    <3>2. CASE i \in 1 .. m
      BY <2>4, <3>2
    <3>3. CASE i = m + 1
      BY <2>3, <3>3
    <3> QED BY <3>1, <3>2, <3>3
  <2>6. Satisfying(g, m + 1, data, f)
    BY ZenonT(30), <2>3, <2>5 DEF Satisfying, s
  <2> QED BY <2>6
<1> HIDE DEF Exists
<1>3. 0 \in S
  BY <1>1
<1>4. ASSUME NEW i \in 1 .. n, i - 1 \in S PROVE i \in S
  <2>1. i - 1 \in Nat /\ Exists(i - 1) /\ (i - 1) + 1 = i
    BY <1>4
  <2>2. Exists((i - 1) + 1)
    BY <1>2, <2>1
  <2> QED BY <2>1, <2>2
<1> HIDE DEF S
<1>5. \A i \in 0 .. n : i \in S
  BY <1>3, <1>4, Rounds
<1>6. n \in S
  BY <1>5
<1> QED BY <1>6 DEF S, Exists

\* beforeSatisfyInterest for all the matches.
LEMMA BeforeSatisfyAllKeeps ==
  ASSUME IInv, NEW data, {data.name, GetNameFunction(data)} \subseteq Name, NEW f \in Face
  PROVE  Measuring(BeforeSatisfyAll(data, f))
<1> DEFINE n == Len(GetNameFunction(data)) + 1
           s == [tree |-> tree, meas |-> meas, events |-> events]
           Is(g) == g = [i \in 0 .. n |-> IF i = 0 THEN s
                           ELSE IF Prefix(GetNameFunction(data), Len(GetNameFunction(data)) - i + 1) \in DataMatches(data)
                             THEN BeforeSatisfyInterest(g[i - 1], Prefix(GetNameFunction(data), Len(GetNameFunction(data)) - i + 1), data, f)
                           ELSE g[i - 1]]
           g == CHOOSE h : Is(h)
<1>1. n \in Nat /\ BeforeSatisfyAll(data, f) = g[n]
  BY NameIsSeq DEF BeforeSatisfyAll
<1> HIDE DEF n
<1>2. \A h : Is(h) <=> Satisfying(h, n, data, f)
  BY DEF Satisfying, SatisfyRound, KeyAt
<1> HIDE DEF Is
<1>3. Satisfying(g, n, data, f)
  BY <1>1, <1>2, SatisfyingExists
<1> HIDE DEF g
<1>4. g[0] = s /\ \A i \in 1 .. n : g[i] = SatisfyRound(g[i - 1], i, data, f)
  BY <1>1, <1>3 DEF Satisfying
<1> DEFINE G == {i \in 0 .. n : Measuring(g[i])}
<1>5. Measuring(s)
  <2>1. Used \cup DOMAIN meas = Used
    BY DEF Used
  <2> QED BY ZenonT(30), <2>1 DEF Measuring, IInv
<1> HIDE DEF s
<1>6. ASSUME NEW i \in 1 .. n, Measuring(g[i - 1]) PROVE Measuring(g[i])
  <2>1. DataMatches(data) \subseteq DOMAIN pit
    BY DEF DataMatches
  <2>2. KeyAt(data, i) \in DataMatches(data) => Measuring(BeforeSatisfyInterest(g[i - 1], KeyAt(data, i), data, f))
    BY <1>6, <2>1, BeforeSatisfyKeeps
  <2> QED BY <1>4, <1>6, <2>2 DEF SatisfyRound
<1>7. 0 \in G /\ \A i \in 1 .. n : i - 1 \in G => i \in G
  BY <1>1, <1>4, <1>5, <1>6
<1> HIDE DEF G
<1>8. \A i \in 0 .. n : i \in G
  BY <1>1, <1>7, Rounds
<1> QED BY <1>1, <1>8 DEF G

\* What remains of a satisfied PIT entry: no in-record goes while the RTO timer of
\* an access strategy runs, as the strategy cancelled the timer.
LEMMA SatisfiedEntry ==
  ASSUME NEW e, NEW k, NEW fs, IsPitEntry(e, k, fs, choices), NEW f, NEW several
  PROVE  IsPitEntry(Satisfied(e, f, several, StrategyAt(choices, k).type), k, fs, choices)
<1> DEFINE type == StrategyAt(choices, k).type
           d == Satisfied(e, f, several, type)
<1>1. /\ DOMAIN d = {"int", "in", "out", "timer"} /\ d.int = e.int /\ d.in \subseteq e.in /\ d.out \subseteq e.out
      /\ d.timer = IF type = "access" THEN None ELSE e.timer
  BY DEF Satisfied, IsPitEntry
<1>2. d.timer = None
  BY <1>1 DEF IsPitEntry
<1> HIDE DEF d
<1>3. IsPitEntry(d, k, fs, choices)
  BY <1>1, <1>2 DEF IsPitEntry
<1> QED BY <1>3 DEF d

\* Data keeps the invariant.
LEMMA OnDataKeeps ==
  ASSUME IInv, NEW data \in scenario.data, NEW f \in Face, OnData(data, f)
  PROVE  IInv'
<1> DEFINE matches == DataMatches(data)
           s == BeforeSatisfyAll(data, f)
           several == Cardinality(matches) > 1
<1>1. /\ tree' = s.tree /\ meas' = s.meas /\ events' = s.events /\ Left(left)
      /\ pit' = [k \in DOMAIN pit |-> IF k \in matches THEN Satisfied(pit[k], f, several, EffectiveAt(k).type)
                                      ELSE pit[k]]
      /\ UNCHANGED <<scenario, faces, fib, choices>>
  BY DEF OnData
<1>2. {data.name, GetNameFunction(data)} \subseteq Name
  BY ZenonT(30), ScenarioAssumption DEF IInv
<1>3. Measuring(s)
  BY <1>2, BeforeSatisfyAllKeeps
<1> HIDE DEF s, matches, several
<1>4. MeasOK(meas', events', choices) /\ TreeOK(tree', Used \cup DOMAIN meas', left) /\ DOMAIN meas \subseteq DOMAIN meas'
  BY <1>1, <1>3 DEF Measuring
<1>5. DOMAIN pit' = DOMAIN pit
  BY <1>1
<1>6. PitOK(pit', faces, choices)
  <2> SUFFICES ASSUME NEW k \in DOMAIN pit PROVE IsPitEntry(pit'[k], k, faces, choices)
    BY <1>5 DEF PitOK
  <2>1. IsPitEntry(pit[k], k, faces, choices) /\ k \in Nodes(tree) /\ IsTree(tree)
    BY DEF IInv, PitOK, TreeOK, Used
  <2>2. EffectiveAt(k) = StrategyAt(choices, k)
    BY <2>1, EffectiveByParents DEF EffectiveAt
  <2>3. IsPitEntry(Satisfied(pit[k], f, several, EffectiveAt(k).type), k, faces, choices)
    BY <2>1, <2>2, SatisfiedEntry
  <2> QED BY <1>1, <2>1, <2>3
<1>7. Used' = Used \cup DOMAIN meas'
  BY <1>1, <1>4, <1>5 DEF Used
<1>8. TreeOK(tree', Used', left')
  BY ZenonT(30), <1>1, <1>4, <1>7, LeftKeeps
<1> QED BY ZenonT(30), <1>1, <1>4, <1>6, <1>8 DEF IInv

----------------------------------------------------------------------------
(* The theorems                                                            *)

\* The first state satisfies the invariant: the tree has the nodes of the routes
\* to start with and of the default strategy.
LEMMA InitIInv == Init => IInv
<1> SUFFICES ASSUME Init PROVE IInv
  OBVIOUS
<1>1. /\ scenario \in Scenario /\ faces = Face /\ fib = InitialFib(scenario)
      /\ pit = << >> /\ meas = << >> /\ events = {} /\ left = {}
      /\ choices = [p \in {<< >>} |-> [type |-> "best-route", id |-> 1]] /\ tree = TreeOf(DOMAIN fib)
  BY DEF Init
<1> DEFINE start == scenario.start
<1>2. IsFiniteSet(start) /\ \A h \in start : h.prefix \in Name /\ h.face \in Face
  BY ZenonT(30), <1>1, ScenarioAssumption
<1>3. /\ DOMAIN fib = {h.prefix : h \in start}
      /\ \A p \in DOMAIN fib : fib[p] = {h.face : h \in {g \in start : g.prefix = p}}
  BY <1>1 DEF InitialFib
<1>4. DOMAIN fib \in SUBSET Name /\ IsFiniteSet(DOMAIN fib)
  <2> DEFINE map == [h \in start |-> h.prefix]
  <2>1. map \in Surjection(start, DOMAIN fib)
    BY <1>3 DEF Surjection
  <2> QED BY <1>2, <1>3, <2>1, FS_Surjection
<1>5. FibOK(fib, faces)
  <2> SUFFICES ASSUME NEW p \in DOMAIN fib PROVE fib[p] # {} /\ fib[p] \subseteq Face
    BY <1>1 DEF FibOK
  <2>1. PICK h \in start : p = h.prefix
    BY <1>3
  <2> DEFINE hs == {g \in start : g.prefix = p}
  <2>2. fib[p] = {g.face : g \in hs} /\ h \in hs /\ \A g \in hs : g.face \in Face
    BY <1>2, <1>3, <2>1
  <2> HIDE DEF hs
  <2> QED BY <2>2
<1>6. DOMAIN pit = {} /\ DOMAIN meas = {} /\ DOMAIN choices = {<< >>} /\ ChoicesOK(choices)
  BY <1>1 DEF ChoicesOK
<1>7. PitOK(pit, faces, choices) /\ MeasOK(meas, events, choices)
  BY <1>1, <1>6 DEF PitOK, MeasOK, Scheduled
<1>8. Used = {<< >>} \cup DOMAIN fib
  BY <1>6 DEF Used
<1>9. TreeOK(tree, Used, left)
  BY ZenonT(30), <1>1, <1>4, <1>8, TreeOfTree DEF TreeOK
<1> QED BY <1>1, <1>5, <1>6, <1>7, <1>9 DEF IInv

\* Every step keeps the invariant.
LEMMA NextIInv == IInv /\ [Next]_vars => IInv'
<1> SUFFICES ASSUME IInv, [Next]_vars PROVE IInv'
  OBVIOUS
<1>1. ASSUME NEW c \in scenario.commands, SetStrategy(c.prefix, c.type) PROVE IInv'
  <2>1. c.prefix \in Name
    BY ScenarioAssumption DEF IInv
  <2> QED BY <1>1, <2>1, SetStrategyKeeps
<1>2. ASSUME NEW h \in scenario.nexthops, AddNextHop(h.prefix, h.face) \/ RemoveNextHop(h.prefix, h.face) PROVE IInv'
  <2>1. h.prefix \in Name
    BY ScenarioAssumption DEF IInv
  <2> QED BY <1>2, <2>1, AddNextHopKeeps, RemoveNextHopKeeps
<1>3. CASE UNCHANGED vars
  <2>1. UNCHANGED <<scenario, tree, faces, fib, pit, meas, choices, events, left>>
    BY <1>3 DEF vars
  <2>2. Used' = Used
    BY <2>1 DEF Used
  <2> QED BY <2>1, <2>2 DEF IInv
<1> QED BY <1>1, <1>2, <1>3, UnsetStrategyKeeps, OnInterestKeeps, OnDataKeeps, DestroyFaceKeeps,
           FinalizeKeeps, RtoTimeoutKeeps, CleanupKeeps, TickKeeps DEF Next

\* The invariant always holds.
THEOREM AlwaysIInv == Spec => []IInv
BY InitIInv, NextIInv, PTL DEF Spec

\* No table has an entry for a face that is gone; each Measurements entry has one
\* scheduled cleanup, at its expiry (extendLifetime cancels the old one).
THEOREM TablesAreTyped == Spec => []TypeOK
<1>1. IInv => TypeOK
  <2> SUFFICES ASSUME IInv PROVE TypeOK
    OBVIOUS
  <2>1. \A p \in DOMAIN fib : fib[p] # {} /\ fib[p] \subseteq faces
    BY DEF IInv, FibOK
  <2>2. \A k \in DOMAIN pit : /\ GetNameFunction(pit[k].int) = k /\ pit[k].in \cup pit[k].out \subseteq faces
                              /\ pit[k].timer = None \/ pit[k].timer \in [in : Face, out : Face]
    BY DEF IInv, PitOK, IsPitEntry
  <2>3. \A n \in DOMAIN meas : meas[n].expiry \in 0 .. AccessLifetime /\ meas[n].mi \in Face \cup {None}
    BY DEF IInv, MeasOK, IsMeasEntry
  <2>4. events = {[name |-> n, at |-> meas[n].expiry] : n \in DOMAIN meas} /\ << >> \in DOMAIN choices
    BY DEF IInv, MeasOK, Scheduled, ChoicesOK
  <2> QED BY <2>1, <2>2, <2>3, <2>4 DEF TypeOK
<1> QED BY <1>1, AlwaysIInv, PTL

\* However the hash table is resized, each node is where lookup searches it, has
\* its parent, and the load stays between the thresholds.
THEOREM TreeAlwaysIndexed == Spec => []TreeIndexed
<1>1. IInv => TreeIndexed
  <2> SUFFICES ASSUME IInv PROVE TreeIndexed
    OBVIOUS
  <2> DEFINE slots == Len(tree.buckets)
             size == Cardinality(Nodes(tree))
  <2>1. IsTree(tree) /\ IsTable(tree) /\ Used \subseteq Nodes(tree) /\ Nodes(tree) \in SUBSET Name
    BY DEF IInv, TreeOK, IsTree, IsTable
  <2>2. \A n \in Nodes(tree) :
          /\ HashFind(tree, n)
          /\ IF n = << >> THEN tree.parent[n] = None
             ELSE tree.parent[n] = GetPrefix(n) /\ GetPrefix(n) \in Nodes(tree)
    BY <2>1, FindsNodes DEF IsTree, Pointing
  <2>3. ASSUME NEW b \in 1 .. slots
        PROVE  /\ \A i, j \in DOMAIN tree.buckets[b] : tree.buckets[b][i] = tree.buckets[b][j] => i = j
               /\ Range(tree.buckets[b]) \subseteq {n \in Nodes(tree) : BucketOf(slots, n) = b}
    <3> DEFINE chain == tree.buckets[b]
    <3>1. Linked(chain, InBucket(Nodes(tree), slots, b))
      BY <2>1 DEF IsTable, Spread
    <3> HIDE DEF chain
    <3>2. DOMAIN chain = 1 .. Len(chain)
      BY <3>1 DEF Linked
    <3>3. /\ \A i, j \in DOMAIN chain : chain[i] = chain[j] => i = j
          /\ Range(chain) \subseteq {n \in Nodes(tree) : BucketOf(slots, n) = b}
      BY <3>1, <3>2 DEF Linked, InBucket
    <3> QED BY ZenonT(30), <3>3 DEF chain
  <2>4. 2 * size <= slots /\ (slots = MinSize \/ size >= slots \div 10)
    <3>1. slots \in Nat /\ size \in Nat
      BY <2>1, FS_CardinalityType DEF IsTable, Spread
    <3>2. size <= slots \div 2 /\ (slots = MinSize \/ size >= slots \div 10)
      BY <2>1 DEF IsTree, IsTable, Load, Thresholds
    <3> HIDE DEF slots, size
    <3>3. 2 * (slots \div 2) <= slots
      BY <3>1
    <3>4. slots \div 2 \in Nat
      BY <3>1
    <3> QED BY <3>1, <3>2, <3>3, <3>4
  <2> QED BY ZenonT(30), <2>1, <2>2, <2>3, <2>4 DEF TreeIndexed
<1> QED BY <1>1, AlwaysIInv, PTL

\* Each node has a table entry or a child, but where Fib::removeNextHop left it.
THEOREM NoNodeIsIdle == Spec => []NoIdleNode
<1>1. IInv => NoIdleNode
  BY DEF IInv, TreeOK, Idle, NoIdleNode
<1> QED BY <1>1, AlwaysIInv, PTL

\* What a strategy remembers is never seen by one of another type: changeStrategy
\* clears it wherever the effective strategy changes its type.
THEOREM StrategyInfoIsCurrent == Spec => []StrategyInfoCurrent
<1>1. IInv => StrategyInfoCurrent
  <2> SUFFICES ASSUME IInv PROVE StrategyInfoCurrent
    OBVIOUS
  <2>1. IsTree(tree) /\ DOMAIN pit \subseteq Nodes(tree) /\ DOMAIN meas \subseteq Nodes(tree)
    BY DEF IInv, TreeOK, Used
  <2>2. \A n \in Nodes(tree) : EffectiveAt(n) = StrategyAt(choices, n)
    BY <2>1, EffectiveByParents DEF EffectiveAt
  <2>3. \A k \in DOMAIN pit : pit[k].timer # None => StrategyAt(choices, k).type = "access"
    BY DEF IInv, PitOK, IsPitEntry
  <2>4. \A n \in DOMAIN meas : meas[n].mi # None => StrategyAt(choices, n).type = "access"
    BY DEF IInv, MeasOK, IsMeasEntry
  <2> QED BY <2>1, <2>2, <2>3, <2>4 DEF StrategyInfoCurrent
<1> QED BY <1>1, AlwaysIInv, PTL

\* The RTO timer runs only while its in-record exists, unless the face is gone.
THEOREM RtoTimerKeepsInRecord == Spec => []RtoTimerHasInRecord
<1>1. IInv => RtoTimerHasInRecord
  BY DEF IInv, PitOK, IsPitEntry, RtoTimerHasInRecord
<1> QED BY <1>1, AlwaysIInv, PTL

\* onNewNextHop reaches the PIT entries whose FIB entry has the new nexthop, and no
\* other: the enumeration of the subtree and the longest prefix match agree.
THEOREM NewNextHopAlwaysReachesAll == Spec => []NewNextHopReachesAll
<1>1. IInv => NewNextHopReachesAll
  <2> SUFFICES ASSUME IInv, NEW p \in DOMAIN fib, NEW k \in DOMAIN pit
               PROVE  k \in PartialEnumerate(tree, DOMAIN fib, p)
                        <=> FindLongestPrefixMatch(tree, DOMAIN fib, k) = {p}
    BY DEF NewNextHopReachesAll, AffectedEntries
  <2>1. /\ IsTree(tree) /\ p \in Nodes(tree) /\ k \in Nodes(tree) /\ DOMAIN fib \subseteq Nodes(tree)
        /\ Nodes(tree) \in SUBSET Name
    BY ZenonT(30) DEF IInv, TreeOK, Used, IsTree, IsTable
  <2>2. k \in PartialEnumerate(tree, DOMAIN fib, p) <=> Under(DOMAIN fib, p, k)
    BY <2>1, EnumerateCovered DEF Covered, Under
  <2>3. FindLongestPrefixMatch(tree, DOMAIN fib, k) = Longest(DOMAIN fib, k)
    BY <2>1, FindByHash
  <2>4. Under(DOMAIN fib, p, k) => Longest(DOMAIN fib, k) = {p}
    BY <2>1, StrategyByPrefix, NameIsSeq
  <2>5. Longest(DOMAIN fib, k) = {p} => Under(DOMAIN fib, p, k)
    <3> SUFFICES ASSUME Longest(DOMAIN fib, k) = {p} PROVE Under(DOMAIN fib, p, k)
      OBVIOUS
    <3>1. PICK i \in 0 .. Len(k) : LongestAt(DOMAIN fib, k, i) /\ p = Prefix(k, i)
      BY DEF Longest
    <3>2. Len(p) = i /\ Len(k) \in Nat
      BY <2>1, <3>1, NameIsSeq, PrefixOfSeq
    <3> QED BY <3>1, <3>2 DEF LongestAt, Under
  <2> QED BY <2>2, <2>3, <2>4, <2>5
<1> QED BY <1>1, AlwaysIInv, PTL
=============================================================================
