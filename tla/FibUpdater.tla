----------------------------- MODULE FibUpdater -----------------------------
(***************************************************************************)
(* How the FIB updater (rib/fib-updater.cpp) computes, for one update of   *)
(* the RIB, the updates of the FIB and of the inherited routes.            *)
(*                                                                         *)
(* The updater u holds the face of the batch, the FIB updates for that     *)
(* face, those for other faces, the changes of inherited routes, and       *)
(* "fault" once a null pointer was followed.  Sets of routes are functions *)
(* on faces.  The children of an entry are visited in some fixed order.  A *)
(* loop is a recursive function on the number of its rounds.               *)
(***************************************************************************)
EXTENDS RibTable

NewUpdater(f) ==
  [face |-> f, batch |-> <<>>, nonBatch |-> <<>>, inherited |-> <<>>, fault |-> FALSE]

AddUpdate(n, f, c) == [name |-> n, face |-> f, cost |-> c, add |-> TRUE]

RemoveUpdate(n, f) == [name |-> n, face |-> f, cost |-> 0, add |-> FALSE]

(* An update for the same name and face is replaced where it stands. *)
PutUpdate(updates, x) ==
  LET same == {i \in DOMAIN updates : updates[i].name = x.name /\ updates[i].face = x.face}
  IN  IF same = {} THEN Append(updates, x) ELSE [updates EXCEPT ![Min(same)] = x]

AddFibUpdate(u, x) ==
  IF x.face = u.face THEN [u EXCEPT !.batch = PutUpdate(@, x)]
                     ELSE [u EXCEPT !.nonBatch = PutUpdate(@, x)]

AddFibUpdateIf(needed, u, x) == IF needed THEN AddFibUpdate(u, x) ELSE u

RecordInherited(u, n, r, add) ==
  [u EXCEPT !.inherited = Append(@, [name |-> n, route |-> r, add |-> add])]

InheritRoute(u, n, r) ==
  AddFibUpdate(RecordInherited(u, n, r, TRUE), AddUpdate(n, r.face, r.cost))

InheritRouteIf(needed, u, n, routes, f) == IF needed THEN InheritRoute(u, n, routes[f]) ELSE u

DisinheritRoute(u, n, r) ==
  AddFibUpdate(RecordInherited(u, n, r, FALSE), RemoveUpdate(n, r.face))

NoRoutes == <<>>

Only(r) == [f \in {r.face} |-> r]

FaceToRoute(routes) == [f \in {r.face : r \in routes} |-> CHOOSE r \in routes : r.face = f]

InheritNext(s, n, routes) ==
  IF s.rest = {} THEN s
  ELSE [u |-> InheritRoute(s.u, n, routes[Min(s.rest)]), rest |-> s.rest \ {Min(s.rest)}]

(* addInheritedRoutes: not for the faces the name has routes of its own on. *)
AddInheritedRoutes(u, n, routes, owned) ==
  LET fs == DOMAIN routes \ owned
      f[i \in 0 .. Cardinality(fs)] ==
        IF i = 0 THEN [u |-> u, rest |-> fs] ELSE InheritNext(f[i - 1], n, routes)
  IN  f[Cardinality(fs)].u

DisinheritNext(s, n, routes) ==
  IF s.rest = {} THEN s
  ELSE [u |-> DisinheritRoute(s.u, n, routes[Min(s.rest)]), rest |-> s.rest \ {Min(s.rest)}]

RemoveInheritedRoutes(u, n, e, routes) ==
  LET fs == {f \in DOMAIN routes : HasInheritedRoute(e, f)}
      f[i \in 0 .. Cardinality(fs)] ==
        IF i = 0 THEN [u |-> u, rest |-> fs] ELSE DisinheritNext(f[i - 1], n, routes)
  IN  f[Cardinality(fs)].u

FacesOf(e) == {r.face : r \in Range(e.routes)}

-----------------------------------------------------------------------------
(* Down the tree: an entry with the capture flag stops both sets, an entry  *)
(* with an inheritable route on a face stops what concerns that face.  The  *)
(* stack has for every depth the entries still to visit and the sets.       *)

Passed(e, routes) == Restrict(routes, {f \in DOMAIN routes : ~HasChildInheritOnFaceId(e, f)})

Traverse(u, n, e, add, remove) ==
  AddInheritedRoutes(RemoveInheritedRoutes(u, n, e, Passed(e, remove)), n, Passed(e, add), FacesOf(e))

TraverseSubTree(rib, s) ==
  LET top == Head(s.stack)
      n == CHOOSE m \in top.names : TRUE
      e == rib[n]
      rest == <<[top EXCEPT !.names = @ \ {n}]>> \o Tail(s.stack)
      below == [names |-> Children(rib, n), add |-> Passed(e, top.add), remove |-> Passed(e, top.remove)]
  IN  IF s.stack = <<>> THEN s
      ELSE IF top.names = {} THEN [s EXCEPT !.stack = Tail(@)]
      ELSE IF HasCapture(e) THEN [s EXCEPT !.stack = rest]
      ELSE [u |-> Traverse(s.u, n, e, top.add, top.remove), stack |-> <<below>> \o rest]

(* Every entry is visited, and left, at most once. *)
ModifyChildrensInheritedRoutes(rib, u, children, add, remove) ==
  LET rounds == 2 * Cardinality(DOMAIN rib) + 1
      f[i \in 0 .. rounds] ==
        IF i = 0 THEN [u |-> u, stack |-> <<[names |-> children, add |-> add, remove |-> remove]>>]
        ELSE TraverseSubTree(rib, f[i - 1])
  IN  f[rounds].u

-----------------------------------------------------------------------------
(* One operator for each kind of change.  e is the entry of name n as the   *)
(* code sees it: as stored, or a changed copy.                              *)

ForNewRibEntry(rib, u, n, r) ==
  LET ancestors == AncestorRoutes(rib, FindParent(rib, n))
      u1 == AddFibUpdate(u, AddUpdate(n, r.face, r.cost))
      u2 == IF r.capture THEN u1 ELSE AddInheritedRoutes(u1, n, ancestors, {r.face})
      offered == IF r.capture THEN Only(r) ELSE Joined(Only(r), ancestors)
  IN  IF ~r.inherit /\ ~r.capture THEN u2
      ELSE ModifyChildrensInheritedRoutes(rib, u2, Adopted(rib, n),
             IF r.inherit THEN offered ELSE NoRoutes,
             IF r.capture THEN ancestors ELSE NoRoutes)

ForNewRoute(rib, u, n, e, r, captureWasTurnedOn) ==
  LET cheaper(candidates) == \E x \in candidates : x.cost < r.cost
      add == IF r.inherit /\ ~cheaper(RouteWithLowestCostAndChildInherit(e, r.face))
             THEN Only(r) ELSE NoRoutes
      remove == IF captureWasTurnedOn THEN AncestorRoutes(rib, e.parent) ELSE NoRoutes
      u1 == RemoveInheritedRoutes(u, n, e, remove)
      u2 == ModifyChildrensInheritedRoutes(rib, u1, Children(rib, n), add, remove)
  IN  AddFibUpdateIf(~cheaper(RouteWithLowestCost(e, r.face)), u2,
                     AddUpdate(n, r.face, r.cost))

(* The cost of an updated route.  When another route on the face is now the *)
(* cheapest, the updater follows the pointer to the cheapest inheritable    *)
(* one, which may be null.                                                  *)
UpdateCost(u, n, e, r, old) ==
  LET lowest == (CHOOSE x \in RouteWithLowestCost(e, r.face) : TRUE).cost
      prev == RouteWithLowestCostAndChildInherit(e, r.face)
  IN  IF r.cost <= lowest THEN AddFibUpdate(u, AddUpdate(n, r.face, r.cost))
      ELSE IF old.cost >= lowest THEN u
      ELSE IF prev = {} THEN [u EXCEPT !.fault = TRUE]
      ELSE AddFibUpdate(u, AddUpdate(n, r.face, (CHOOSE x \in prev : TRUE).cost))

(* The routes that the children gain and lose by the child-inherit flag, or *)
(* by the cost when no flag changes.                                        *)
UpdateChildInherit(rib, u, n, e, r, old) ==
  LET prev == RouteWithLowestCostAndChildInherit(e, r.face)
      turnedOn == ~old.inherit /\ r.inherit
      turnedOff == old.inherit /\ ~r.inherit
      onlyCost == r.inherit = old.inherit /\ r.capture = old.capture /\ r.inherit
      ancestors == AncestorRoutes(rib, e.parent)
      unblocked == IF prev # {} THEN prev
                   ELSE {ancestors[f] : f \in DOMAIN ancestors \cap {r.face}}
      add == CASE (turnedOn \/ onlyCost) /\ (\A x \in prev : r.cost <= x.cost) -> {r}
               [] turnedOff -> unblocked
               [] OTHER -> {}
  IN  ModifyChildrensInheritedRoutes(rib, u, Children(rib, n),
        FaceToRoute(add),
        IF turnedOff THEN Only(r) ELSE NoRoutes)

UpdateCapture(rib, u, n, e, r, old) ==
  LET ancestors == AncestorRoutes(rib, e.parent)
      lost == IF ~old.capture /\ r.capture THEN ancestors ELSE NoRoutes
      gained == IF old.capture /\ ~r.capture THEN ancestors ELSE NoRoutes
  IN  ModifyChildrensInheritedRoutes(rib,
        AddInheritedRoutes(RemoveInheritedRoutes(u, n, e, lost), n, gained, FacesOf(e)),
        Children(rib, n), gained, lost)

ForUpdatedRoute(rib, u, n, e, r, old) ==
  LET same == r.inherit = old.inherit /\ r.capture = old.capture /\ r.cost = old.cost
      u1 == IF r.cost # old.cost THEN UpdateCost(u, n, e, r, old) ELSE u
  IN  IF same THEN u
      ELSE UpdateCapture(rib, UpdateChildInherit(rib, u1, n, e, r, old), n, e, r, old)

ForErasedRouteUnrestored(rib, u, n, e, r, captureWasTurnedOff) ==
  ModifyChildrensInheritedRoutes(rib, AddFibUpdate(u, RemoveUpdate(n, r.face)),
    Children(rib, n), NoRoutes, IF r.inherit THEN Only(r) ELSE NoRoutes)

(* e is the entry without the route. *)
ForErasedRoute(rib, u, n, e, r, captureWasTurnedOff) ==
  LET ancestors == AncestorRoutes(rib, e.parent)
      reopened == captureWasTurnedOff /\ e.routes # <<>>
      modify(v, add, remove) ==
        ModifyChildrensInheritedRoutes(rib, v, Children(rib, n), add, remove)
      u1 == AddFibUpdate(u, RemoveUpdate(n, r.face))
      u2 == AddInheritedRoutes(u1, n, IF r.capture /\ reopened THEN ancestors ELSE NoRoutes,
                               FacesOf(e))
      add == IF (r.capture /\ reopened) \/ (~r.capture /\ ~HasCapture(e))
             THEN ancestors ELSE NoRoutes
      u3 == IF r.inherit \/ r.capture
            THEN modify(u2, add, IF r.inherit THEN Only(r) ELSE NoRoutes) ELSE u2
  IN  InheritRouteIf(~HasCapture(e) /\ e.routes # <<>> /\ r.face \in DOMAIN ancestors,
                     u3, n, ancestors, r.face)

ForErasedRibEntry(u, n, inherited) ==
  LET f[i \in 0 .. Len(inherited)] ==
        IF i = 0 THEN u ELSE AddFibUpdate(f[i - 1], RemoveUpdate(n, inherited[i].face))
  IN  f[Len(inherited)]

-----------------------------------------------------------------------------
ComputeForRegistration(rib, n, r) ==
  LET u == NewUpdater(r.face)
      e == rib[n]
  IN  IF n \notin DOMAIN rib THEN ForNewRibEntry(rib, u, n, r)
      ELSE IF HasRoute(e, r)
      THEN ForUpdatedRoute(rib, u, n, InsertRoute(e, r), r, FindRoute(e, r))
      ELSE ForNewRoute(rib, u, n, e, r, ~HasCapture(e) /\ r.capture)

ComputeForUnregistration(rib, n, r) ==
  LET u == NewUpdater(r.face)
      e == rib[n]
      temp == EraseRoute(e, r)
      next == RouteWithSecondLowestCost(e, r.face)
      u1 == ForErasedRoute(rib, u, n, temp, FindRoute(e, r),
                           HasCapture(e) /\ ~HasCapture(temp))
      u2 == IF next = {} THEN u1 ELSE ForNewRoute(rib, u1, n, temp, CHOOSE x \in next : TRUE, FALSE)
  IN  IF n \notin DOMAIN rib \/ ~HasRoute(e, r) THEN u
      ELSE ForErasedRibEntry(u2, n, IF Len(e.routes) = 1 THEN e.inherited ELSE <<>>)

(* What concerns a destroyed face is not sent, the FIB would reject it. *)
ComputeUpdates(rib, x) ==
  IF x.action = "REGISTER" THEN ComputeForRegistration(rib, x.name, x.route)
  ELSE [ComputeForUnregistration(rib, x.name, x.route) EXCEPT
          !.batch = IF x.action = "REMOVE_FACE" THEN <<>> ELSE @]
=============================================================================
