---------------------------- MODULE MCClientFace ----------------------------
(***************************************************************************)
(* Instances of ClientFace: a consumer that sends the same name with two   *)
(* functions, a producer that serves its own Interests, one that registers *)
(* prefixes, and packets too large to send.                                *)
(***************************************************************************)
EXTENDS ClientFace

Interest(name, func, large) ==
  [name |-> name, func |-> func, cbp |-> FALSE, mbf |-> FALSE, large |-> large]
DataPacket(name, large) ==
  [name |-> name, func |-> << >>, digest |-> 1, fresh |-> 0, large |-> large]
Filter(prefix, loopback) == [prefix |-> prefix, loopback |-> loopback]

A == <<10>>
B == <<11>>
F == <<12>>

Nothing ==
  [interests |-> {}, requests |-> {}, data |-> {}, puts |-> {}, filters |-> {},
   registered |-> {}, calls |-> 3, arrivals |-> 2, cancels |-> FALSE, steady |-> TRUE]

Consumer ==
  [Nothing EXCEPT !.interests = {Interest(A, << >>, FALSE), Interest(A, F, FALSE)},
                  !.data = {DataPacket(A, FALSE)}, !.cancels = TRUE]

Producer ==
  [Nothing EXCEPT !.interests = {Interest(A, F, FALSE)}, !.requests = {Interest(A, << >>, FALSE)},
                  !.puts = {DataPacket(A, FALSE)}, !.filters = {Filter(F, TRUE), Filter(A, FALSE)}]

Registrar ==
  [Nothing EXCEPT !.registered = {[filter |-> Filter(A, FALSE), withFilter |-> TRUE]},
                  !.requests = {Interest(A, << >>, FALSE)}, !.arrivals = 3]

\* Prefix and filter apart, next to a pending Interest.
Mixed ==
  [Nothing EXCEPT !.registered = {[filter |-> Filter(A, FALSE), withFilter |-> FALSE]},
                  !.interests = {Interest(B, << >>, FALSE)}, !.data = {DataPacket(B, FALSE)}]

Oversized ==
  [Nothing EXCEPT !.interests = {Interest(A, << >>, FALSE), Interest(B, << >>, TRUE)},
                  !.puts = {DataPacket(A, TRUE), DataPacket(B, TRUE)}]

\* Set up, broken and shut down while it is used.
Unsteady(s) == [s EXCEPT !.steady = FALSE, !.calls = 2]

Scenarios == {Consumer, Producer, Registrar, Mixed, Oversized, Unsteady(Consumer), Unsteady(Registrar)}
=============================================================================
