----------------------------- MODULE Containers -----------------------------
(***************************************************************************)
(* The standard library's containers, written so that facts about them can *)
(* be proved: a list, whose entries join at the back and leave from        *)
(* anywhere while those that stay keep their order, and a map.             *)
(***************************************************************************)
EXTENDS Integers, Sequences, FiniteSets, Functions

\* The list q without the members of ds.
RemoveAll(q, ds) ==
  LET kept == {i \in 1 .. Len(q) : q[i] \notin ds}
      Rank(i) == Cardinality({j \in kept : j <= i})
  IN  [k \in 1 .. Cardinality(kept) |-> q[CHOOSE i \in kept : Rank(i) = k]]

\* The map f with x associated with v.
Put(f, x, v) == [y \in DOMAIN f \cup {x} |-> IF y = x THEN v ELSE f[y]]
=============================================================================
