--------------------------- MODULE MCContentStore ---------------------------
(***************************************************************************)
(* Instance of ContentStore for TLC: content /10, the result of function   *)
(* /12 applied to it, and a segment /10/11 that is never fresh.            *)
(***************************************************************************)
EXTENDS ContentStore

Pkt(n, f, g, t) == [name |-> n, func |-> f, digest |-> g, fresh |-> t]
Req(n, f, p, m) == [name |-> n, func |-> f, cbp |-> p, mbf |-> m]

MCData == {Pkt(<<10>>, << >>, 1, 1), Pkt(<<10>>, <<12>>, 3, 2), Pkt(<<10, 11>>, << >>, 5, 0)}

MCInterest == {Req(<<10>>, << >>, FALSE, FALSE), Req(<<10>>, << >>, TRUE, TRUE),
               Req(<<10>>, <<12>>, FALSE, FALSE), Req(<<10, 1>>, << >>, FALSE, FALSE),
               Req(<<10, 11>>, << >>, TRUE, FALSE)}
=============================================================================
