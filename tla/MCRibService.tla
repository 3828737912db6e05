--------------------------- MODULE MCRibService ----------------------------
(***************************************************************************)
(* Instances of RibService for TLC.                                        *)
(***************************************************************************)
EXTENDS RibService

Root == <<>>
A == <<1>>
AB == <<1, 1>>

\* The flags a registration has unless it asks for others.
Offer(n, f, c) ==
  [name |-> n, face |-> f, origin |-> 0, cost |-> c, inherit |-> TRUE,
   capture |-> FALSE, expires |-> FALSE]

History(os, ws, mortals, ts, rs) ==
  [offers |-> os, withdrawals |-> ws, faces |-> Face, mortal |-> mortals,
   timeouts |-> ts, requests |-> rs]

\* Three names in a line with the default flags, and a change of cost.
Line == {Offer(n, f, 1) : n \in {Root, A, AB}, f \in {1, 2}}
Dearer == Offer(A, 1, 2)

\* A name that captures while it has one of its two routes, and a route above
\* it that goes.
Captured == {Offer(Root, 1, 1), [Offer(A, 2, 1) EXCEPT !.capture = TRUE]}
Capture == Captured \cup {Offer(Root, 2, 1), Offer(A, 1, 1)}

\* A name between two others whose route is not inherited.
Private == {Offer(Root, 1, 1), [Offer(A, 2, 1) EXCEPT !.inherit = FALSE], Offer(AB, 1, 1)}

\* Two routes of different origin on one face, of which the cheaper may go.
Cheap == Offer(A, 1, 1)
Shared == {Cheap, [Offer(A, 1, 2) EXCEPT !.origin = 1]}

\* A route that expires and is renewed, on a face that closes.
Flat == {[Offer(A, 1, 1) EXCEPT !.expires = TRUE], Offer(A, 1, 2), Offer(A, 2, 1)}

Scenarios ==
  { History(Line \cup {Dearer}, Line, {}, 0, 4),
    History(Capture, Captured, {}, 0, 5),
    History(Private, Private, {}, 0, 5),
    History(Shared, {Cheap}, {}, 0, 4),
    History(Flat, Flat, {1}, 0, 3),
    History(Line, {}, {}, 1, 3) }

\* Two names, one above the other, and a face that closes.
LateScenarios == {History({Offer(A, 1, 1), Offer(AB, 2, 1), Offer(Root, 2, 1)}, {}, {1}, 0, 3)}
=============================================================================
