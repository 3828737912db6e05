------------------------------ MODULE FcNames ------------------------------
(***************************************************************************)
(* Names of NDN-FC packets and the matching rules built on them            *)
(* (ndn-cxx-FC/ndn-cxx/interest.cpp, data.cpp, name.cpp).                  *)
(*                                                                         *)
(* A Name is a sequence of components and a component is a natural number, *)
(* ordered as the library orders components: by TLV-TYPE first, so the     *)
(* components below GenericBase stand for ImplicitSha256Digest components, *)
(* which sort before every generic one.  The function name of NDN-FC is a  *)
(* Name as well; the empty one, "/", means that there is no function.      *)
(*                                                                         *)
(* An Interest has at least the fields name, func, cbp (CanBePrefix) and   *)
(* mbf (MustBeFresh); a Data packet has name, func, digest (the component  *)
(* holding the digest of its wire encoding) and fresh (FreshnessPeriod).   *)
(***************************************************************************)
EXTENDS Integers, Sequences, FiniteSetsExt

GenericBase == 10

\* Name::isPrefixOf, getPrefix(-1) and get(-1).
IsPrefixOf(p, n) == Len(p) <= Len(n) /\ \A i \in 1 .. Len(p) : p[i] = n[i]
GetPrefix(n) == SubSeq(n, 1, Len(n) - 1)
GetLast(n) == n[Len(n)]

IsImplicitSha256Digest(c) == c < GenericBase

HasFunction(pkt) == pkt.func # << >>

EndsWithDigest(n) == n # << >> /\ IsImplicitSha256Digest(GetLast(n))

\* The name under which the tables index a packet: its name, without an
\* implicit digest, followed by the components of its function name.
GetNameFunction(pkt) ==
  (IF EndsWithDigest(pkt.name) THEN GetPrefix(pkt.name) ELSE pkt.name) \o pkt.func

GetFullName(data) == Append(data.name, data.digest)

MatchesData(int, data) ==
  /\ IF Len(int.name) = Len(data.name) + 1
       THEN IsImplicitSha256Digest(GetLast(int.name)) /\ int.name = GetFullName(data)
       ELSE IF int.cbp THEN IsPrefixOf(int.name, data.name) ELSE int.name = data.name
  /\ int.mbf => data.fresh > 0

MatchesDataWFunction(int, data) == int.func = data.func /\ MatchesData(int, data)

MatchesInterest(a, b) == a.name = b.name /\ a.cbp = b.cbp /\ a.mbf = b.mbf

MatchesInterestWFunction(a, b) == a.func = b.func /\ MatchesInterest(a, b)

\* The function name without its first component, as the function
\* application leaves it on the Interest it sends upstream.
RemoveHeadFunction(func) == IF func = << >> THEN << >> ELSE Tail(func)

\* Canonical order: component by component, a proper prefix first.
NameLess(a, b) ==
  \/ IsPrefixOf(a, b) /\ a # b
  \/ \E i \in 1 .. Len(a) : /\ i <= Len(b)
                            /\ a[i] < b[i]
                            /\ \A j \in 1 .. (i - 1) : a[j] = b[j]

\* The smallest name above every name that has n as a prefix.
GetSuccessor(n) == Append(GetPrefix(n), GetLast(n) + 1)
=============================================================================
