------------------------------ MODULE CsTable ------------------------------
(***************************************************************************)
(* The index of the Content Store: NFD-FC/daemon/table/cs.cpp keeps its    *)
(* entries in a std::set ordered by cs-entry.cpp.  Everything here is a    *)
(* function of the set of stored Data packets; the store as a state        *)
(* machine, with its replacement policies, is in ContentStore.             *)
(***************************************************************************)
EXTENDS FcNames

\* operator<(Entry, Entry): by the name of the Data, then by its digest.
\* The function name of the Data takes no part in the order.
CompareDataWithData(d, e) ==
  \/ NameLess(d.name, e.name)
  \/ d.name = e.name /\ d.digest < e.digest

NotBelowQueryStrict(d, q) ==
  LET p == IF EndsWithDigest(q) THEN GetPrefix(q) ELSE q
  IN  \/ NameLess(p, d.name)
      \/ p = d.name /\ EndsWithDigest(q) /\ GetLast(q) <= d.digest

\* operator<(Entry, Name) negated: is the entry of d at or after query q?
NotBelowQuery(d, q) ==
  LET p == IF EndsWithDigest(q) THEN GetPrefix(q) ELSE q
  IN  \/ NameLess(p, d.name)
      \/ p = d.name /\ (EndsWithDigest(q) => GetLast(q) <= d.digest)

FindPrefixRange(stored, prefix) ==
  {d \in stored : /\ NotBelowQuery(d, prefix)
                  /\ prefix # << >> => ~NotBelowQuery(d, GetSuccessor(prefix))}

\* The first entry of a range, or no element for end().
First(range) == {d \in range : \A e \in range \ {d} : CompareDataWithData(d, e)}

\* Entry::canSatisfy; fresh tells which stored packets are still fresh.
CanSatisfy(int, d, fresh) ==
  MatchesDataWFunction(int, d) /\ (int.mbf => d \in fresh)

\* Cs::findImpl for a store that may serve.
FindImpl(stored, int, fresh) ==
  First({d \in FindPrefixRange(stored, GetNameFunction(int)) : CanSatisfy(int, d, fresh)})

\* Cs::eraseImpl: at most n entries of the range, in order.
EraseSet(stored, prefix, n) ==
  LET range == FindPrefixRange(stored, prefix)
  IN  {d \in range : Cardinality({e \in range : CompareDataWithData(e, d)}) < n}
=============================================================================
