------------------------------ MODULE NameHash ------------------------------
(***************************************************************************)
(* The hash of a name (daemon/table/name-tree-hashtable.cpp): the hashes   *)
(* of its components, combined by exclusive or.  A component stands for    *)
(* its own hash.                                                           *)
(***************************************************************************)
EXTENDS Functions, Bitwise

ComputeHash(n) == FoldFunction(LAMBDA c, h : h ^^ c, 0, n)
=============================================================================
