------------------------------ MODULE RibTable ------------------------------
(***************************************************************************)
(* The Routing Information Base (rib/rib.cpp, rib/rib-entry.cpp): a tree   *)
(* of entries with the routes registered on a name, and the routes each    *)
(* entry inherits from its ancestors.                                      *)
(*                                                                         *)
(* A RIB is a function from names to entries.  A parent is a set with at   *)
(* most one name, empty for nullptr.  A route's "event" is the set of its  *)
(* expiration events, empty or a singleton.                                *)
(***************************************************************************)
EXTENDS FcNames, Containers

CONSTANT
  CountModulus     \* m_nRoutesWithCaptureSet is an unsigned integer

ASSUME CountAssumption == CountModulus \in Nat \ {0, 1}

-----------------------------------------------------------------------------
(* RibEntry *)

CompareFaceIdAndOrigin(r, s) == r.face = s.face /\ r.origin = s.origin

OnFace(e, f) == RemoveAll(e.routes, {r \in Range(e.routes) : r.face # f})

HasRoute(e, r) == \E x \in Range(e.routes) : CompareFaceIdAndOrigin(x, r)

FindRoute(e, r) == CHOOSE x \in Range(e.routes) : CompareFaceIdAndOrigin(x, r)

HasFaceId(e, f) == \E r \in Range(e.routes) : r.face = f

HasInheritedRoute(e, f) == \E x \in Range(e.inherited) : x.face = f

HasCapture(e) == e.nCapture > 0

HasChildInheritOnFaceId(e, f) ==
  \E x \in Range(e.routes) : x.face = f /\ x.inherit

(* The first of the cheapest routes of a list, in a set; {} for nullptr. *)
Cheapest(routes) ==
  LET best == {i \in DOMAIN routes :
                 \A j \in DOMAIN routes : routes[i].cost <= routes[j].cost}
  IN  IF best = {} THEN {} ELSE {routes[Min(best)]}

RouteWithLowestCost(e, f) == Cheapest(OnFace(e, f))

RouteWithLowestCostAndChildInherit(e, f) ==
  Cheapest(RemoveAll(e.routes, {r \in Range(e.routes) : r.face # f \/ ~r.inherit}))

(* std::nth_element sorts a range this short by insertion. *)
RouteWithSecondLowestCost(e, f) ==
  LET routes == OnFace(e, f)
      Before(i) == {j \in DOMAIN routes :
                      \/ routes[j].cost < routes[i].cost
                      \/ routes[j].cost = routes[i].cost /\ j < i}
  IN  {routes[i] : i \in {k \in DOMAIN routes : Cardinality(Before(k)) = 1}}

(* A route that exists already is assigned to, which leaves the number of  *)
(* routes with the capture flag as it was.                                 *)
InsertRoute(e, r) ==
  IF HasRoute(e, r)
  THEN [e EXCEPT !.routes = [i \in DOMAIN @ |->
          IF CompareFaceIdAndOrigin(@[i], r) THEN r ELSE @[i]]]
  ELSE [e EXCEPT !.routes = Append(@, r),
                 !.nCapture = IF r.capture THEN (@ + 1) % CountModulus ELSE @]

EraseRoute(e, r) ==
  LET old == FindRoute(e, r)
  IN  [e EXCEPT !.routes = RemoveAll(@, {old}),
                !.nCapture = IF old.capture THEN (@ - 1) % CountModulus ELSE @]

-----------------------------------------------------------------------------
(* Rib *)

Children(rib, n) == {c \in DOMAIN rib : rib[c].parent = {n}}

IsAbove(p, n) == IsPrefixOf(p, n) /\ p # n

FindParent(rib, n) ==
  LET above == {p \in DOMAIN rib : IsAbove(p, n)}
  IN  {p \in above : \A q \in above : Len(q) <= Len(p)}

(* The entries that a new entry takes over from its parent. *)
Adopted(rib, n) ==
  {c \in DOMAIN rib : IsAbove(n, c) /\ rib[c].parent = FindParent(rib, n)}

(* A set of routes ordered by face only is a function on faces; an         *)
(* insertion does not replace what is there.                               *)
InheritableRoutes(e) ==
  LET is == {i \in DOMAIN e.routes : e.routes[i].inherit}
  IN  [f \in {e.routes[i].face : i \in is} |-> e.routes[Min({i \in is : e.routes[i].face = f})]]

Joined(routes, more) ==
  [f \in DOMAIN routes \cup DOMAIN more |-> IF f \in DOMAIN routes THEN routes[f] ELSE more[f]]

(* One step up. *)
AddAncestor(rib, s) ==
  IF s.parent = {} THEN s
  ELSE LET e == rib[CHOOSE p \in s.parent : TRUE]
       IN  [routes |-> Joined(s.routes, InheritableRoutes(e)),
            parent |-> IF HasCapture(e) THEN {} ELSE e.parent]

AncestorRoutes(rib, parent) ==
  LET f[i \in 0 .. Cardinality(DOMAIN rib)] ==
        IF i = 0 THEN [routes |-> <<>>, parent |-> parent] ELSE AddAncestor(rib, f[i - 1])
  IN  f[Cardinality(DOMAIN rib)].routes

NewEntry(rib, n, r) ==
  InsertRoute([routes |-> <<>>, inherited |-> <<>>, nCapture |-> 0,
               parent |-> FindParent(rib, n)], r)

InsertForgetsChildren(rib, n, r) ==
  IF n \in DOMAIN rib THEN [rib EXCEPT ![n] = InsertRoute(@, r)]
  ELSE Put(rib, n, NewEntry(rib, n, r))

Insert(rib, n, r) ==
  IF n \in DOMAIN rib THEN [rib EXCEPT ![n] = InsertRoute(@, r)]
  ELSE Put([c \in DOMAIN rib |-> IF c \in Adopted(rib, n) THEN [rib[c] EXCEPT !.parent = {n}]
                                 ELSE rib[c]],
           n, NewEntry(rib, n, r))

(* The erasure of a route the entry has; an entry without routes goes, and *)
(* its parent takes its children.                                          *)
Erase(rib, n, r) ==
  LET e == EraseRoute(rib[n], r)
  IN  IF e.routes # <<>> THEN [rib EXCEPT ![n] = e]
      ELSE [c \in DOMAIN rib \ {n} |->
              IF c \in Children(rib, n)
              THEN [rib[c] EXCEPT !.parent = rib[n].parent] ELSE rib[c]]

AddInherited(e, r) == [e EXCEPT !.inherited = Append(@, r)]

RemoveInherited(e, r) ==
  [e EXCEPT !.inherited = RemoveAll(@, {x \in Range(@) : x.face = r.face})]
=============================================================================
