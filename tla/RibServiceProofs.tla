-------------------------- MODULE RibServiceProofs --------------------------
(***************************************************************************)
(* Proof that the RIB keeps its form (TypeOK of RibService), for every     *)
(* history of commands, expirations, answers and face events.              *)
(*                                                                         *)
(* IInv says of the service what holds between the steps of a handler,     *)
(* too: the RIB is a tree by prefixes, the face table knows all routes,    *)
(* and what is queued, computed and under way is made of routes.           *)
(***************************************************************************)
EXTENDS RibService, FiniteSetTheorems, TLAPS

----------------------------------------------------------------------------
(* Numbers and lists                                                       *)

\* A nonempty set of natural numbers has a least element.
LEMMA LeastNumber ==
  ASSUME NEW S \in SUBSET Nat, S # {}
  PROVE  \E m \in S : \A x \in S : m <= x
<1>1. PICK m \in S : \A x \in S : ~(<<x, m>> \in OpToRel(<, Nat))
  BY ZenonT(30), NatLessThanWellFounded, WFMin
<1>2. \A x \in S : ~(x < m)
  BY ZenonT(30), <1>1 DEF OpToRel
<1> QED BY <1>2

\* Min finds it.
LEMMA MinIsIn ==
  ASSUME NEW S \in SUBSET Nat, S # {}
  PROVE  Min(S) \in S
<1>1. \E m \in S : \A x \in S : m <= x
  BY LeastNumber
<1> QED BY ZenonT(30), <1>1 DEF Min

\* What holds before a loop and is kept by its rounds holds after each.
LEMMA Rounds ==
  ASSUME NEW n \in Nat, NEW S, 0 \in S, \A i \in 1 .. n : i - 1 \in S => i \in S
  PROVE  \A i \in 0 .. n : i \in S
<1> DEFINE T == {i \in 0 .. n : i \notin S}
<1>1. T = {}
  <2> SUFFICES ASSUME T # {} PROVE FALSE
    OBVIOUS
  <2>1. T \in SUBSET Nat
    OBVIOUS
  <2> HIDE DEF T
  <2>2. PICK m \in T : \A x \in T : m <= x
    BY <2>1, LeastNumber
  <2> USE DEF T
  <2>3. m \in 1 .. n /\ m \notin S /\ m - 1 \in 0 .. n /\ m - 1 \notin T
    BY <2>2
  <2> QED BY <2>3
<1> QED BY <1>1

\* r is q without the members of ds: f tells where in q each entry of r stood.
IsThinned(r, q, ds) ==
  \E f \in [1 .. Len(r) -> 1 .. Len(q)] :
    /\ \A a, b \in 1 .. Len(r) : a < b => f[a] < f[b]
    /\ \A a \in 1 .. Len(r) : r[a] = q[f[a]] /\ q[f[a]] \notin ds
    /\ \A i \in 1 .. Len(q) : q[i] \notin ds => \E a \in 1 .. Len(r) : f[a] = i

\* RemoveAll, std::list::erase of several entries, keeps the others in order.
LEMMA RemoveAllThins ==
  ASSUME NEW S, NEW q \in Seq(S), NEW ds
  PROVE  RemoveAll(q, ds) \in Seq(S) /\ IsThinned(RemoveAll(q, ds), q, ds)
<1> DEFINE K == {i \in 1 .. Len(q) : q[i] \notin ds}
           To(i) == {j \in K : j <= i}
           n == Cardinality(K)
           g == [i \in K |-> Cardinality(To(i))]
           f == [k \in 1 .. n |-> CHOOSE i \in K : Cardinality(To(i)) = k]
           r == RemoveAll(q, ds)
<1>1. Len(q) \in Nat /\ K \subseteq 1 .. Len(q) /\ IsFiniteSet(K) /\ n \in Nat
  <2>1. Len(q) \in Nat /\ K \subseteq 1 .. Len(q) /\ IsFiniteSet(1 .. Len(q))
    BY FS_Interval
  <2> HIDE DEF K
  <2>2. IsFiniteSet(K)
    BY ZenonT(30), <2>1, FS_Subset
  <2> QED BY <2>1, <2>2, FS_CardinalityType
<1>2. \A i \in K : /\ To(i) \subseteq K /\ i \in To(i) /\ IsFiniteSet(To(i))
                   /\ Cardinality(To(i)) \in 1 .. n
  <2> SUFFICES ASSUME NEW i \in K
               PROVE  /\ To(i) \subseteq K /\ i \in To(i) /\ IsFiniteSet(To(i))
                      /\ Cardinality(To(i)) \in 1 .. n
    OBVIOUS
  <2>1. To(i) \subseteq K /\ i \in To(i)
    BY <1>1
  <2> HIDE DEF K, To
  <2>2. IsFiniteSet(To(i)) /\ Cardinality(To(i)) <= n /\ Cardinality(To(i)) \in Nat
    BY <1>1, <2>1, FS_Subset, FS_CardinalityType
  <2>3. Cardinality(To(i)) # 0
    BY <2>1, <2>2, FS_EmptySet
  <2> HIDE DEF n
  <2> QED BY <1>1, <2>1, <2>2, <2>3
<1>3. \A i, j \in K : i < j => Cardinality(To(i)) < Cardinality(To(j))
  <2> SUFFICES ASSUME NEW i \in K, NEW j \in K, i < j
               PROVE  Cardinality(To(i)) < Cardinality(To(j))
    OBVIOUS
  <2>1. To(i) \subseteq To(j) /\ j \in To(j) /\ j \notin To(i)
    BY <1>1
  <2> HIDE DEF K, To
  <2>2. Cardinality(To(i)) <= Cardinality(To(j)) /\ Cardinality(To(i)) # Cardinality(To(j))
    BY <1>2, <2>1, FS_Subset
  <2> QED BY <1>2, <2>2
<1> HIDE DEF K, To
<1>4. \A k \in 1 .. n : \E i \in K : Cardinality(To(i)) = k
  <2>1. g \in [K -> 1 .. n] /\ \A i, j \in K : g[i] = g[j] => i = j
    <3>1. g \in [K -> 1 .. n]
      BY <1>2
    <3>2. ASSUME NEW i \in K, NEW j \in K, g[i] = g[j] PROVE i = j
      <4>1. i \in Int /\ j \in Int /\ Cardinality(To(i)) = Cardinality(To(j))
        BY <1>1, <3>2
      <4>2. Cardinality(To(i)) \in Int
        BY <1>2
      <4> QED BY <1>3, <4>1, <4>2
    <3> QED BY <3>1, <3>2
  <2> HIDE DEF g
  <2>2. g \in Injection(K, 1 .. n)
    BY <2>1 DEF Injection, IsInjective
  <2>3. IsFiniteSet(1 .. n) /\ Cardinality(1 .. n) = n
    BY <1>1, FS_Interval
  <2>4. g \in Surjection(K, 1 .. n)
    BY <2>2, <2>3, FS_Injection
  <2>5. \A k \in 1 .. n : \E i \in K : g[i] = k
    BY <2>4 DEF Surjection
  <2>6. \A i \in K : g[i] = Cardinality(To(i))
    BY DEF g
  <2> QED BY <2>5, <2>6
<1>5. r = [k \in 1 .. n |-> q[f[k]]]
  BY DEF RemoveAll, K, To
<1>6. \A k \in 1 .. n : f[k] \in K /\ Cardinality(To(f[k])) = k
  <2> SUFFICES ASSUME NEW k \in 1 .. n
               PROVE  f[k] \in K /\ Cardinality(To(f[k])) = k
    OBVIOUS
  <2>1. PICK i \in K : Cardinality(To(i)) = k
    BY <1>4
  <2>2. f[k] = CHOOSE x \in K : Cardinality(To(x)) = k
    OBVIOUS
  <2> QED BY <2>1, <2>2
<1> HIDE DEF f, n, r
<1>7. f \in [1 .. n -> 1 .. Len(q)]
  BY ZenonT(30), <1>1, <1>6 DEF f
<1>8. r \in Seq(S) /\ Len(r) = n /\ \A a \in 1 .. n : r[a] = q[f[a]] /\ q[f[a]] \notin ds
  <2>1. \A a \in 1 .. n : r[a] = q[f[a]] /\ q[f[a]] \in S /\ q[f[a]] \notin ds
    BY <1>5, <1>6, <1>7 DEF K
  <2>2. r \in [1 .. n -> S]
    BY <1>5, <2>1
  <2> QED BY <1>1, <2>1, <2>2
<1>9. \A a, b \in 1 .. n : a < b => f[a] < f[b]
  <2> SUFFICES ASSUME NEW a \in 1 .. n, NEW b \in 1 .. n, a < b, ~(f[a] < f[b])
               PROVE  FALSE
    OBVIOUS
  <2>1. f[a] \in K /\ f[b] \in K /\ f[a] \in Int /\ f[b] \in Int
    BY <1>1, <1>6, <1>7
  <2>2. Cardinality(To(f[a])) = a /\ Cardinality(To(f[b])) = b
    BY <1>6
  <2>3. f[b] < f[a] \/ f[b] = f[a]
    BY <2>1
  <2> QED BY <1>1, <1>3, <2>1, <2>2, <2>3
<1>10. \A i \in 1 .. Len(q) : q[i] \notin ds => \E a \in 1 .. n : f[a] = i
  <2> SUFFICES ASSUME NEW i \in K PROVE \E a \in 1 .. n : f[a] = i
    BY DEF K
  <2>1. Cardinality(To(i)) \in 1 .. n
    BY <1>2
  <2>2. PICK a \in 1 .. n : a = Cardinality(To(i))
    BY <2>1
  <2>3. f[a] \in K /\ Cardinality(To(f[a])) = a /\ a \in Int
    BY <1>1, <1>6
  <2>4. f[a] \in Int /\ i \in Int
    BY <1>1, <1>7
  <2>5. ~(f[a] < i) /\ ~(i < f[a])
    BY <1>3, <2>2, <2>3
  <2> QED BY <2>4, <2>5
<1>11. RemoveAll(q, ds) = r /\ Len(r) = n
  BY <1>8 DEF r
<1>12. f \in [1 .. Len(r) -> 1 .. Len(q)]
  BY <1>7, <1>11
<1>13. IsThinned(r, q, ds)
  <2>1. \A a, b \in 1 .. Len(r) : a < b => f[a] < f[b]
    BY <1>9, <1>11
  <2>2. \A a \in 1 .. Len(r) : r[a] = q[f[a]] /\ q[f[a]] \notin ds
    BY <1>8, <1>11
  <2>3. \A i \in 1 .. Len(q) : q[i] \notin ds => \E a \in 1 .. Len(r) : f[a] = i
    BY <1>10, <1>11
  <2> QED BY <1>12, <2>1, <2>2, <2>3, ZenonT(30) DEF IsThinned
<1> QED BY <1>8, <1>11, <1>13

----------------------------------------------------------------------------
(* Types                                                                   *)

Names == Seq(Nat)

Route ==
  [face : Nat, origin : Nat, cost : Nat, inherit : BOOLEAN, capture : BOOLEAN, event : SUBSET Nat]

Entry ==
  [routes : Seq(Route), inherited : Seq(Route), nCapture : 0 .. (CountModulus - 1), parent : SUBSET Names]

FibUpdate == [name : Names, face : Nat, cost : Nat, add : BOOLEAN]

InheritedUpdate == [name : Names, route : Route, add : BOOLEAN]

Updater ==
  [face : Nat, batch : Seq(FibUpdate), nonBatch : Seq(FibUpdate), inherited : Seq(InheritedUpdate),
   fault : BOOLEAN]

RibUpdate == [action : {"REGISTER", "UNREGISTER", "REMOVE_FACE"}, name : Names, route : Route]

Command ==
  [add : BOOLEAN, update : FibUpdate, batch : RibUpdate, nTimeouts : Nat, reply : {"none", "ok", "gone"},
   waiting : BOOLEAN]

Timer == [event : Nat, name : Names, route : Route]

\* A set of routes by face.
IsRoutes(routes) ==
  IsFiniteSet(DOMAIN routes) /\ DOMAIN routes \subseteq Nat /\ routes \in [DOMAIN routes -> Route]

\* A table of entries whose parents are entries.
IsTable(rib) ==
  /\ IsFiniteSet(DOMAIN rib) /\ DOMAIN rib \subseteq Names /\ rib \in [DOMAIN rib -> Entry]
  /\ \A n \in DOMAIN rib : rib[n].parent \subseteq DOMAIN rib

----------------------------------------------------------------------------
(* Routes                                                                  *)

\* The routes of an entry on a face are routes.
LEMMA OnFaceRoutes ==
  ASSUME NEW e, e.routes \in Seq(Route), NEW f
  PROVE  OnFace(e, f) \in Seq(Route)
BY RemoveAllThins DEF OnFace

\* getRouteWithLowestCost...: a route of the list or none.
LEMMA CheapestRoute ==
  ASSUME NEW routes \in Seq(Route)
  PROVE  Cheapest(routes) \subseteq Route /\ IsFiniteSet(Cheapest(routes))
<1> DEFINE best == {i \in DOMAIN routes : \A j \in DOMAIN routes : routes[i].cost <= routes[j].cost}
<1>1. Cheapest(routes) = IF best = {} THEN {} ELSE {routes[Min(best)]}
  BY DEF Cheapest
<1>2. best \subseteq DOMAIN routes /\ best \in SUBSET Nat
  OBVIOUS
<1> HIDE DEF best
<1>3. CASE best = {}
  BY <1>1, <1>3, FS_EmptySet
<1>4. CASE best # {}
  <2>1. Min(best) \in DOMAIN routes
    BY <1>2, <1>4, MinIsIn
  <2>2. routes[Min(best)] \in Route
    BY <2>1
  <2> QED BY ZenonT(30), <1>1, <1>4, <2>2, FS_Singleton
<1> QED BY <1>3, <1>4

\* The cheapest route on a face, the cheapest of those that are inherited, and the
\* second one.
LEMMA LowestRoutes ==
  ASSUME NEW e, e.routes \in Seq(Route), NEW f
  PROVE  /\ RouteWithLowestCost(e, f) \subseteq Route
         /\ RouteWithLowestCostAndChildInherit(e, f) \subseteq Route
         /\ IsFiniteSet(RouteWithLowestCostAndChildInherit(e, f))
         /\ RouteWithSecondLowestCost(e, f) \subseteq Route
<1>1. OnFace(e, f) \in Seq(Route)
  BY OnFaceRoutes
<1>2. RouteWithLowestCost(e, f) \subseteq Route
  BY <1>1, CheapestRoute DEF RouteWithLowestCost
<1> DEFINE ds == {r \in Range(e.routes) : r.face # f \/ ~r.inherit}
<1>3. RouteWithLowestCostAndChildInherit(e, f) = Cheapest(RemoveAll(e.routes, ds))
  BY DEF RouteWithLowestCostAndChildInherit
<1> HIDE DEF ds
<1>4. RemoveAll(e.routes, ds) \in Seq(Route)
  BY RemoveAllThins
<1>5. /\ RouteWithLowestCostAndChildInherit(e, f) \subseteq Route
      /\ IsFiniteSet(RouteWithLowestCostAndChildInherit(e, f))
  BY <1>3, <1>4, CheapestRoute
<1>6. RouteWithSecondLowestCost(e, f) \subseteq Range(OnFace(e, f))
  BY ZenonT(30) DEF RouteWithSecondLowestCost, Range
<1>7. Range(OnFace(e, f)) \subseteq Route
  BY <1>1 DEF Range
<1> QED BY <1>2, <1>5, <1>6, <1>7

\* The sets of routes that the updater starts from.
LEMMA SomeRoutes ==
  /\ IsRoutes(NoRoutes)
  /\ \A r \in Route : IsRoutes(Only(r))
  /\ \A routes, S : IsRoutes(routes) /\ S \subseteq DOMAIN routes => IsRoutes(Restrict(routes, S))
  /\ \A rs : rs \subseteq Route /\ IsFiniteSet(rs) => IsRoutes(FaceToRoute(rs))
<1>1. IsRoutes(NoRoutes)
  <2>1. DOMAIN NoRoutes = {} /\ NoRoutes \in [{} -> Route]
    BY DEF NoRoutes
  <2> QED BY <2>1, FS_EmptySet DEF IsRoutes
<1>2. ASSUME NEW r \in Route PROVE IsRoutes(Only(r))
  <2>1. DOMAIN Only(r) = {r.face} /\ r.face \in Nat /\ Only(r) \in [{r.face} -> Route]
    BY DEF Only, Route
  <2> QED BY ZenonT(30), <2>1, FS_Singleton DEF IsRoutes
<1>3. ASSUME NEW routes, NEW S, IsRoutes(routes), S \subseteq DOMAIN routes PROVE IsRoutes(Restrict(routes, S))
  <2>1. DOMAIN Restrict(routes, S) = S /\ S \subseteq Nat /\ Restrict(routes, S) \in [S -> Route]
    BY <1>3 DEF Restrict, IsRoutes
  <2>2. IsFiniteSet(S)
    BY <1>3, FS_Subset DEF IsRoutes
  <2> QED BY <2>1, <2>2 DEF IsRoutes
<1>4. ASSUME NEW rs, rs \subseteq Route, IsFiniteSet(rs) PROVE IsRoutes(FaceToRoute(rs))
  <2> DEFINE D == {r.face : r \in rs}
  <2>1. DOMAIN FaceToRoute(rs) = D /\ D \subseteq Nat /\ FaceToRoute(rs) \in [D -> Route]
    BY <1>4 DEF FaceToRoute, Route
  <2> DEFINE h == [r \in rs |-> r.face]
  <2>2. h \in Surjection(rs, D)
    BY DEF Surjection
  <2> HIDE DEF D, h
  <2>3. IsFiniteSet(D)
    BY <1>4, <2>2, FS_Surjection
  <2> QED BY <2>1, <2>3 DEF IsRoutes
<1> QED BY <1>1, <1>2, <1>3, <1>4

\* The first inheritable routes of an entry.
LEMMA InheritableAreRoutes ==
  ASSUME NEW e, e.routes \in Seq(Route)
  PROVE  IsRoutes(InheritableRoutes(e))
<1> DEFINE is == {i \in DOMAIN e.routes : e.routes[i].inherit}
           D == {e.routes[i].face : i \in is}
           On(f) == {i \in is : e.routes[i].face = f}
           h == [i \in is |-> e.routes[i].face]
<1>1. InheritableRoutes(e) = [f \in D |-> e.routes[Min(On(f))]]
  BY DEF InheritableRoutes
<1>2. /\ is \in SUBSET (1 .. Len(e.routes)) /\ Len(e.routes) \in Nat /\ is \in SUBSET DOMAIN e.routes
      /\ \A i \in DOMAIN e.routes : e.routes[i] \in Route /\ e.routes[i].face \in Nat
  <2>1. is \in SUBSET (1 .. Len(e.routes)) /\ Len(e.routes) \in Nat /\ is \in SUBSET DOMAIN e.routes
    OBVIOUS
  <2>2. \A i \in DOMAIN e.routes : e.routes[i] \in Route
    OBVIOUS
  <2>3. \A r \in Route : r.face \in Nat
    BY DEF Route
  <2> QED BY <2>1, <2>2, <2>3
<1>3. D \subseteq Nat /\ \A f \in D : On(f) # {} /\ On(f) \in SUBSET Nat /\ On(f) \subseteq DOMAIN e.routes
  BY <1>2
<1>4. h \in Surjection(is, D)
  BY DEF Surjection
<1> HIDE DEF is, D, On, h
<1>5. IsFiniteSet(D)
  BY <1>2, <1>4, FS_Interval, FS_Subset, FS_Surjection
<1>6. \A f \in D : Min(On(f)) \in DOMAIN e.routes
  BY <1>3, MinIsIn
<1>7. InheritableRoutes(e) \in [D -> Route] /\ DOMAIN InheritableRoutes(e) = D
  BY <1>1, <1>2, <1>6
<1> QED BY <1>3, <1>5, <1>7 DEF IsRoutes

\* std::set::insert of several routes.
LEMMA JoinedRoutes ==
  ASSUME NEW routes, NEW more, IsRoutes(routes), IsRoutes(more)
  PROVE  IsRoutes(Joined(routes, more))
<1> DEFINE D == DOMAIN routes \cup DOMAIN more
<1>1. DOMAIN Joined(routes, more) = D /\ Joined(routes, more) \in [D -> Route] /\ D \subseteq Nat
  BY DEF IsRoutes, Joined
<1>2. IsFiniteSet(D)
  BY ZenonT(30), FS_Union DEF IsRoutes
<1> QED BY <1>1, <1>2 DEF IsRoutes

----------------------------------------------------------------------------
(* Loops                                                                   *)

\* A round of a loop of the model, of which x is the state before it.
Round(loop, x, i) ==
  IF loop.kind = "ancestors" THEN AddAncestor(loop.rib, x)
  ELSE IF loop.kind = "inherit" THEN InheritNext(x, loop.name, loop.routes)
  ELSE IF loop.kind = "disinherit" THEN DisinheritNext(x, loop.name, loop.routes)
  ELSE IF loop.kind = "traverse" THEN TraverseSubTree(loop.rib, x)
  ELSE IF loop.kind = "erased" THEN AddFibUpdate(x, RemoveUpdate(loop.name, loop.inherited[i].face))
  ELSE IF loop.kind = "modify" THEN ModifyInherited(x, loop.inherited[i])
  ELSE IF loop.kind = "send" THEN SendBatch(x)
  ELSE IF loop.kind = "repeat" THEN x \o loop.updates
  ELSE EnqueueNext(x)

IsLoop(f, n, e, loop) == f = [i \in 0 .. n |-> IF i = 0 THEN e ELSE Round(loop, f[i - 1], i)]

\* A loop of any number of rounds has a value.
LEMMA LoopExists ==
  ASSUME NEW e, NEW loop, NEW n \in Nat
  PROVE  \E f : IsLoop(f, n, e, loop)
<1> DEFINE Exists(m) == \E f : IsLoop(f, m, e, loop)
           S == {m \in 0 .. n : Exists(m)}
<1>1. Exists(0)
  <2> DEFINE f == [i \in 0 .. 0 |-> e]
  <2>1. IsLoop(f, 0, e, loop)
    BY DEF IsLoop
  <2> QED BY <2>1
<1>2. ASSUME NEW m \in Nat, Exists(m) PROVE Exists(m + 1)
  <2>1. PICK g : IsLoop(g, m, e, loop)
    BY <1>2
  <2> DEFINE f == [i \in 0 .. (m + 1) |-> IF i = m + 1 THEN Round(loop, g[m], m + 1) ELSE g[i]]
  <2>2. \A i \in 0 .. m : f[i] = g[i] /\ g[i] = IF i = 0 THEN e ELSE Round(loop, g[i - 1], i)
    BY <2>1 DEF IsLoop
  <2>3. f[m + 1] = Round(loop, f[m], m + 1) /\ f[0] = e /\ f = [i \in 0 .. (m + 1) |-> f[i]]
    BY <2>2
  <2> HIDE DEF f
  <2>4. \A i \in 1 .. m : f[i] = Round(loop, f[i - 1], i)
    BY <2>2
  <2>5. ASSUME NEW i \in 0 .. (m + 1) PROVE f[i] = IF i = 0 THEN e ELSE Round(loop, f[i - 1], i)
    <3>1. CASE i = 0
      BY <2>3, <3>1
    <3>2. CASE i \in 1 .. m
      BY <2>4, <3>2
    <3>3. CASE i = m + 1
      BY <2>3, <3>3
    <3> QED BY <3>1, <3>2, <3>3
  <2>6. IsLoop(f, m + 1, e, loop)
    BY ZenonT(30), <2>3, <2>5 DEF IsLoop
  <2> QED BY <2>6
<1> HIDE DEF Exists
<1>3. 0 \in S
  BY <1>1
<1>4. ASSUME NEW i \in 1 .. n, i - 1 \in S PROVE i \in S
  <2>1. i - 1 \in Nat /\ Exists(i - 1) /\ (i - 1) + 1 = i
    BY <1>4
  <2>2. Exists((i - 1) + 1)
    BY <1>2, <2>1
  <2> QED BY <2>1, <2>2
<1> HIDE DEF S
<1>5. \A i \in 0 .. n : i \in S
  BY <1>3, <1>4, Rounds
<1>6. n \in S
  BY <1>5
<1> QED BY <1>6 DEF S, Exists

\* What the first state of a loop has and each round keeps, its last state has.
LEMMA LoopKeeps ==
  ASSUME NEW e, NEW loop, NEW n \in Nat, NEW f, IsLoop(f, n, e, loop), NEW S, e \in S,
         \A x \in S : \A i \in 1 .. n : Round(loop, x, i) \in S
  PROVE  f[n] \in S
<1> DEFINE G == {i \in 0 .. n : f[i] \in S}
<1>1. f[0] = e /\ \A i \in 1 .. n : f[i] = Round(loop, f[i - 1], i)
  BY DEF IsLoop
<1>2. 0 \in G
  BY <1>1
<1>3. \A i \in 1 .. n : i - 1 \in G => i \in G
  BY <1>1
<1> HIDE DEF G
<1>4. \A i \in 0 .. n : i \in G
  BY ZenonT(30), <1>2, <1>3, Rounds
<1>5. n \in G
  BY <1>4
<1> QED BY <1>5 DEF G

----------------------------------------------------------------------------
(* The updater                                                             *)

\* addFibUpdate.
LEMMA AddFibUpdateKeeps ==
  ASSUME NEW u \in Updater, NEW x \in FibUpdate
  PROVE  AddFibUpdate(u, x) \in Updater
<1>1. ASSUME NEW q \in Seq(FibUpdate) PROVE PutUpdate(q, x) \in Seq(FibUpdate)
  <2> DEFINE same == {i \in DOMAIN q : q[i].name = x.name /\ q[i].face = x.face}
  <2>1. PutUpdate(q, x) = IF same = {} THEN Append(q, x) ELSE [q EXCEPT ![Min(same)] = x]
    BY DEF PutUpdate
  <2>2. same \in SUBSET Nat /\ same \subseteq DOMAIN q
    OBVIOUS
  <2> HIDE DEF same
  <2>3. same # {} => Min(same) \in DOMAIN q
    BY ZenonT(30), <2>2, MinIsIn
  <2> QED BY <2>1, <2>3
<1>2. u.batch \in Seq(FibUpdate) /\ u.nonBatch \in Seq(FibUpdate)
  BY DEF Updater
<1>3. PutUpdate(u.batch, x) \in Seq(FibUpdate) /\ PutUpdate(u.nonBatch, x) \in Seq(FibUpdate)
  BY <1>1, <1>2
<1> QED BY ZenonT(30), <1>3 DEF AddFibUpdate, Updater

\* The updates for a name and a route.
LEMMA UpdateOf ==
  ASSUME NEW n \in Names, NEW f \in Nat, NEW c \in Nat
  PROVE  AddUpdate(n, f, c) \in FibUpdate /\ RemoveUpdate(n, f) \in FibUpdate
BY DEF AddUpdate, RemoveUpdate, FibUpdate

\* A route is inherited, or no longer.
LEMMA InheritKeeps ==
  ASSUME NEW u \in Updater, NEW n \in Names, NEW r \in Route
  PROVE  InheritRoute(u, n, r) \in Updater /\ DisinheritRoute(u, n, r) \in Updater
<1>1. r.face \in Nat /\ r.cost \in Nat
  BY DEF Route
<1>2. \A a \in BOOLEAN : RecordInherited(u, n, r, a) \in Updater
  <2> SUFFICES ASSUME NEW a \in BOOLEAN PROVE RecordInherited(u, n, r, a) \in Updater
    OBVIOUS
  <2>1. [name |-> n, route |-> r, add |-> a] \in InheritedUpdate
    BY DEF InheritedUpdate
  <2>2. u.inherited \in Seq(InheritedUpdate)
    BY DEF Updater
  <2>3. Append(u.inherited, [name |-> n, route |-> r, add |-> a]) \in Seq(InheritedUpdate)
    BY <2>1, <2>2
  <2> QED BY ZenonT(30), <2>3 DEF RecordInherited, Updater
<1> QED BY ZenonT(30), <1>1, <1>2, UpdateOf, AddFibUpdateKeeps DEF InheritRoute, DisinheritRoute

\* The states of the loops over a set of routes.
RouteLoop(routes) == [u : Updater, rest : SUBSET DOMAIN routes]

\* A round of them.
LEMMA RouteRound ==
  ASSUME NEW n \in Names, NEW routes, IsRoutes(routes), NEW s \in RouteLoop(routes)
  PROVE  InheritNext(s, n, routes) \in RouteLoop(routes) /\ DisinheritNext(s, n, routes) \in RouteLoop(routes)
<1>1. s.u \in Updater /\ s.rest \in SUBSET DOMAIN routes
  BY DEF RouteLoop
<1>2. CASE s.rest = {}
  BY <1>2 DEF InheritNext, DisinheritNext
<1>3. CASE s.rest # {}
  <2>1. s.rest \in SUBSET Nat
    BY <1>1 DEF IsRoutes
  <2>2. Min(s.rest) \in DOMAIN routes
    BY <1>1, <1>3, <2>1, MinIsIn
  <2>3. routes[Min(s.rest)] \in Route
    BY <2>2 DEF IsRoutes
  <2>4. /\ InheritRoute(s.u, n, routes[Min(s.rest)]) \in Updater
        /\ DisinheritRoute(s.u, n, routes[Min(s.rest)]) \in Updater
    BY <1>1, <2>3, InheritKeeps
  <2> QED BY <1>1, <1>3, <2>4 DEF InheritNext, DisinheritNext, RouteLoop
<1> QED BY <1>2, <1>3

\* addInheritedRoutes.
LEMMA AddInheritedKeeps ==
  ASSUME NEW u \in Updater, NEW n \in Names, NEW routes, IsRoutes(routes), NEW owned
  PROVE  AddInheritedRoutes(u, n, routes, owned) \in Updater
<1> DEFINE fs == DOMAIN routes \ owned
           k == Cardinality(fs)
           e == [u |-> u, rest |-> fs]
           loop == [kind |-> "inherit", name |-> n, routes |-> routes]
           Is(g) == g = [i \in 0 .. k |-> IF i = 0 THEN e ELSE InheritNext(g[i - 1], n, routes)]
           f == CHOOSE g : Is(g)
<1>1. AddInheritedRoutes(u, n, routes, owned) = f[k].u
  BY DEF AddInheritedRoutes
<1>2. k \in Nat
  BY ZenonT(30), FS_Difference, FS_CardinalityType DEF IsRoutes
<1>3. \A x, i : Round(loop, x, i) = InheritNext(x, n, routes)
  BY DEF Round
<1>4. e \in RouteLoop(routes)
  BY DEF RouteLoop
<1> HIDE DEF loop, k, e
<1>5. \A g : Is(g) <=> IsLoop(g, k, e, loop)
  BY <1>3 DEF IsLoop
<1> HIDE DEF Is
<1>6. IsLoop(f, k, e, loop)
  BY <1>2, <1>5, LoopExists
<1> HIDE DEF f
<1>7. \A x \in RouteLoop(routes) : \A i \in 1 .. k : Round(loop, x, i) \in RouteLoop(routes)
  BY <1>3, RouteRound
<1>8. f[k] \in RouteLoop(routes)
  BY <1>2, <1>4, <1>6, <1>7, LoopKeeps
<1> QED BY <1>1, <1>8 DEF RouteLoop

\* removeInheritedRoutes.
LEMMA RemoveInheritedKeeps ==
  ASSUME NEW u \in Updater, NEW n \in Names, NEW routes, IsRoutes(routes), NEW entry
  PROVE  RemoveInheritedRoutes(u, n, entry, routes) \in Updater
<1> DEFINE fs == {g \in DOMAIN routes : HasInheritedRoute(entry, g)}
           k == Cardinality(fs)
           e == [u |-> u, rest |-> fs]
           loop == [kind |-> "disinherit", name |-> n, routes |-> routes]
           Is(g) == g = [i \in 0 .. k |-> IF i = 0 THEN e ELSE DisinheritNext(g[i - 1], n, routes)]
           f == CHOOSE g : Is(g)
<1>1. RemoveInheritedRoutes(u, n, entry, routes) = f[k].u
  BY DEF RemoveInheritedRoutes
<1>2. fs \in SUBSET DOMAIN routes
  OBVIOUS
<1>3. e \in RouteLoop(routes)
  BY <1>2 DEF RouteLoop
<1> HIDE DEF fs
<1>4. k \in Nat
  BY <1>2, FS_Subset, FS_CardinalityType DEF IsRoutes
<1>5. \A x, i : Round(loop, x, i) = DisinheritNext(x, n, routes)
  BY DEF Round
<1> HIDE DEF loop, k, e
<1>6. \A g : Is(g) <=> IsLoop(g, k, e, loop)
  BY <1>5 DEF IsLoop
<1> HIDE DEF Is
<1>7. IsLoop(f, k, e, loop)
  BY <1>4, <1>6, LoopExists
<1> HIDE DEF f
<1>8. \A x \in RouteLoop(routes) : \A i \in 1 .. k : Round(loop, x, i) \in RouteLoop(routes)
  BY <1>5, RouteRound
<1>9. f[k] \in RouteLoop(routes)
  BY <1>3, <1>4, <1>7, <1>8, LoopKeeps
<1> QED BY <1>1, <1>9 DEF RouteLoop

----------------------------------------------------------------------------
(* Up and down the tree                                                    *)

RouteSets == {routes \in UNION {[D -> Route] : D \in SUBSET Nat} : IsFiniteSet(DOMAIN routes)}

\* The finite maps from faces to routes, which getAncestorRoutes collects.
LEMMA RouteSetsAre ==
  ASSUME NEW routes
  PROVE  routes \in RouteSets <=> IsRoutes(routes)
<1>1. ASSUME routes \in RouteSets PROVE IsRoutes(routes)
  <2>1. PICK D \in SUBSET Nat : routes \in [D -> Route]
    BY <1>1 DEF RouteSets
  <2> QED BY ZenonT(30), <1>1, <2>1 DEF IsRoutes, RouteSets
<1>2. ASSUME IsRoutes(routes) PROVE routes \in RouteSets
  BY <1>2 DEF IsRoutes, RouteSets
<1> QED BY <1>1, <1>2

\* The states of the walk to the root.
WalkUp(rib) == [routes : RouteSets, parent : SUBSET DOMAIN rib]

\* Rib::getAncestorRoutes.
LEMMA AncestorsAreRoutes ==
  ASSUME NEW rib, IsTable(rib), NEW parent \in SUBSET DOMAIN rib
  PROVE  IsRoutes(AncestorRoutes(rib, parent))
<1> DEFINE k == Cardinality(DOMAIN rib)
           e == [routes |-> <<>>, parent |-> parent]
           loop == [kind |-> "ancestors", rib |-> rib]
           Is(g) == g = [i \in 0 .. k |-> IF i = 0 THEN e ELSE AddAncestor(rib, g[i - 1])]
           f == CHOOSE g : Is(g)
<1>1. AncestorRoutes(rib, parent) = f[k].routes
  BY DEF AncestorRoutes
<1>2. k \in Nat
  BY FS_CardinalityType DEF IsTable
<1>3. \A x, i : Round(loop, x, i) = AddAncestor(rib, x)
  BY DEF Round
<1>4. e \in WalkUp(rib)
  <2>1. <<>> \in RouteSets
    BY SomeRoutes, RouteSetsAre DEF NoRoutes
  <2> QED BY <2>1 DEF WalkUp
<1> HIDE DEF loop, k, e
<1>5. \A g : Is(g) <=> IsLoop(g, k, e, loop)
  BY <1>3 DEF IsLoop
<1> HIDE DEF Is
<1>6. IsLoop(f, k, e, loop)
  BY <1>2, <1>5, LoopExists
<1> HIDE DEF f
<1>7. ASSUME NEW x \in WalkUp(rib) PROVE AddAncestor(rib, x) \in WalkUp(rib)
  <2>1. x.routes \in RouteSets /\ x.parent \in SUBSET DOMAIN rib
    BY DEF WalkUp
  <2>2. CASE x.parent = {}
    BY <2>2 DEF AddAncestor
  <2>3. CASE x.parent # {}
    <3> DEFINE a == rib[CHOOSE p \in x.parent : TRUE]
    <3>1. (CHOOSE p \in x.parent : TRUE) \in DOMAIN rib
      BY <2>1, <2>3
    <3>2. a \in Entry /\ a.parent \in SUBSET DOMAIN rib
      BY ZenonT(30), <3>1 DEF IsTable
    <3>3. AddAncestor(rib, x) = [routes |-> Joined(x.routes, InheritableRoutes(a)),
                                 parent |-> IF HasCapture(a) THEN {} ELSE a.parent]
      BY <2>3 DEF AddAncestor
    <3> HIDE DEF a
    <3>4. a.routes \in Seq(Route)
      BY <3>2 DEF Entry
    <3>5. Joined(x.routes, InheritableRoutes(a)) \in RouteSets
      BY <2>1, <3>4, InheritableAreRoutes, JoinedRoutes, RouteSetsAre
    <3> QED BY <3>2, <3>3, <3>5 DEF WalkUp
  <2> QED BY <2>2, <2>3
<1>8. \A x \in WalkUp(rib) : \A i \in 1 .. k : Round(loop, x, i) \in WalkUp(rib)
  BY <1>3, <1>7
<1>9. f[k] \in WalkUp(rib)
  BY <1>2, <1>4, <1>6, <1>8, LoopKeeps
<1> QED BY <1>1, <1>9, RouteSetsAre DEF WalkUp

\* The routes that an entry lets pass, and what it does with them.
LEMMA TraverseKeeps ==
  ASSUME NEW u \in Updater, NEW n \in Names, NEW e,
         NEW add, NEW remove, IsRoutes(add), IsRoutes(remove)
  PROVE  /\ IsRoutes(Passed(e, add)) /\ IsRoutes(Passed(e, remove))
         /\ Traverse(u, n, e, add, remove) \in Updater
<1>1. ASSUME NEW routes, IsRoutes(routes) PROVE IsRoutes(Passed(e, routes))
  <2> DEFINE S == {f \in DOMAIN routes : ~HasChildInheritOnFaceId(e, f)}
  <2>1. S \subseteq DOMAIN routes /\ Passed(e, routes) = Restrict(routes, S)
    BY DEF Passed
  <2> QED BY <1>1, <2>1, SomeRoutes
<1>2. IsRoutes(Passed(e, add)) /\ IsRoutes(Passed(e, remove))
  BY <1>1
<1>3. RemoveInheritedRoutes(u, n, e, Passed(e, remove)) \in Updater
  BY <1>2, RemoveInheritedKeeps
<1> QED BY <1>2, <1>3, AddInheritedKeeps DEF Traverse

Frame(rib) == [names : SUBSET DOMAIN rib, add : RouteSets, remove : RouteSets]

\* The states of the walk through the descendants.
WalkDown(rib) == [u : Updater, stack : Seq(Frame(rib))]

\* A step of it.
LEMMA WalkDownKeeps ==
  ASSUME NEW rib, IsTable(rib), NEW s \in WalkDown(rib)
  PROVE  TraverseSubTree(rib, s) \in WalkDown(rib)
<1> DEFINE top == Head(s.stack)
           n == CHOOSE m \in top.names : TRUE
           e == rib[n]
           left == [top EXCEPT !.names = @ \ {n}]
           rest == <<left>> \o Tail(s.stack)
           below == [names |-> Children(rib, n), add |-> Passed(e, top.add), remove |-> Passed(e, top.remove)]
           v == Traverse(s.u, n, e, top.add, top.remove)
<1>1. TraverseSubTree(rib, s) =
        IF s.stack = <<>> THEN s
        ELSE IF top.names = {} THEN [s EXCEPT !.stack = Tail(@)]
        ELSE IF HasCapture(e) THEN [s EXCEPT !.stack = rest]
        ELSE [u |-> v, stack |-> <<below>> \o rest]
  BY DEF TraverseSubTree
<1>2. s.u \in Updater /\ s.stack \in Seq(Frame(rib))
  BY DEF WalkDown
<1>3. CASE s.stack = <<>>
  BY <1>1, <1>3
<1>4. CASE s.stack # <<>>
  <2>1. top \in Frame(rib) /\ Tail(s.stack) \in Seq(Frame(rib))
    BY <1>2, <1>4
  <2> HIDE DEF top
  <2>2. top.names \in SUBSET DOMAIN rib /\ IsRoutes(top.add) /\ IsRoutes(top.remove)
    BY <2>1, RouteSetsAre DEF Frame
  <2>3. CASE top.names = {}
    BY ZenonT(30), <1>1, <1>2, <1>4, <2>1, <2>3 DEF WalkDown
  <2>4. CASE top.names # {}
    <3>1. n \in DOMAIN rib /\ n \in Names
      BY <2>2, <2>4 DEF IsTable
    <3>2. left \in Frame(rib)
      BY <2>1 DEF Frame
    <3> HIDE DEF n, left
    <3>3. rest \in Seq(Frame(rib))
      BY <2>1, <3>2
    <3>4. /\ IsRoutes(Passed(e, top.add)) /\ IsRoutes(Passed(e, top.remove))
          /\ v \in Updater
      BY <1>2, <2>2, <3>1, TraverseKeeps
    <3>5. below \in Frame(rib)
      <4>1. Children(rib, n) \in SUBSET DOMAIN rib
        BY DEF Children
      <4>2. Passed(e, top.add) \in RouteSets /\ Passed(e, top.remove) \in RouteSets
        BY <3>4, RouteSetsAre
      <4> QED BY <4>1, <4>2 DEF Frame
    <3> HIDE DEF e, rest, below, v
    <3>6. <<below>> \o rest \in Seq(Frame(rib))
      BY <3>3, <3>5
    <3> QED BY <1>1, <1>2, <1>4, <2>4, <3>3, <3>4, <3>6 DEF WalkDown
  <2> QED BY <2>3, <2>4
<1> QED BY <1>3, <1>4

\* modifyChildrensInheritedRoutes.
LEMMA ModifyChildrenKeeps ==
  ASSUME NEW rib, IsTable(rib), NEW u \in Updater, NEW children \in SUBSET DOMAIN rib,
         NEW add, NEW remove, IsRoutes(add), IsRoutes(remove)
  PROVE  ModifyChildrensInheritedRoutes(rib, u, children, add, remove) \in Updater
<1> DEFINE k == 2 * Cardinality(DOMAIN rib) + 1
           first == [names |-> children, add |-> add, remove |-> remove]
           e == [u |-> u, stack |-> <<first>>]
           loop == [kind |-> "traverse", rib |-> rib]
           Is(g) == g = [i \in 0 .. k |-> IF i = 0 THEN e ELSE TraverseSubTree(rib, g[i - 1])]
           f == CHOOSE g : Is(g)
<1>1. ModifyChildrensInheritedRoutes(rib, u, children, add, remove) = f[k].u
  BY DEF ModifyChildrensInheritedRoutes
<1>2. k \in Nat
  <2>1. Cardinality(DOMAIN rib) \in Nat
    BY FS_CardinalityType DEF IsTable
  <2> QED BY <2>1
<1>3. \A x, i : Round(loop, x, i) = TraverseSubTree(rib, x)
  BY DEF Round
<1>4. e \in WalkDown(rib)
  <2>1. first \in Frame(rib)
    BY RouteSetsAre DEF Frame
  <2> HIDE DEF first
  <2>2. <<first>> \in Seq(Frame(rib))
    BY <2>1
  <2> QED BY <2>2 DEF WalkDown
<1> HIDE DEF loop, k, e
<1>5. \A g : Is(g) <=> IsLoop(g, k, e, loop)
  BY <1>3 DEF IsLoop
<1> HIDE DEF Is
<1>6. IsLoop(f, k, e, loop)
  BY <1>2, <1>5, LoopExists
<1> HIDE DEF f
<1>7. \A x \in WalkDown(rib) : \A i \in 1 .. k : Round(loop, x, i) \in WalkDown(rib)
  BY <1>3, WalkDownKeeps
<1>8. f[k] \in WalkDown(rib)
  BY <1>2, <1>4, <1>6, <1>7, LoopKeeps
<1> QED BY <1>1, <1>8 DEF WalkDown

----------------------------------------------------------------------------
(* The kinds of change                                                     *)

\* The entries below a name are entries, the one above it too.
LEMMA Relatives ==
  ASSUME NEW rib, NEW n
  PROVE  /\ Children(rib, n) \in SUBSET DOMAIN rib
         /\ Adopted(rib, n) \in SUBSET DOMAIN rib
         /\ FindParent(rib, n) \in SUBSET DOMAIN rib
BY DEF Children, Adopted, FindParent

\* createFibUpdatesForNewRibEntry.
LEMMA NewRibEntryKeeps ==
  ASSUME NEW rib, IsTable(rib), NEW u \in Updater, NEW n \in Names, NEW r \in Route
  PROVE  ForNewRibEntry(rib, u, n, r) \in Updater
<1> DEFINE ancestors == AncestorRoutes(rib, FindParent(rib, n))
           u1 == AddFibUpdate(u, AddUpdate(n, r.face, r.cost))
           u2 == IF r.capture THEN u1 ELSE AddInheritedRoutes(u1, n, ancestors, {r.face})
           offered == IF r.capture THEN Only(r) ELSE Joined(Only(r), ancestors)
           add == IF r.inherit THEN offered ELSE NoRoutes
           remove == IF r.capture THEN ancestors ELSE NoRoutes
<1>1. ForNewRibEntry(rib, u, n, r) =
        IF ~r.inherit /\ ~r.capture THEN u2
        ELSE ModifyChildrensInheritedRoutes(rib, u2, Adopted(rib, n), add, remove)
  BY DEF ForNewRibEntry
<1>2. IsRoutes(ancestors)
  BY Relatives, AncestorsAreRoutes
<1>3. u1 \in Updater
  <2>1. r.face \in Nat /\ r.cost \in Nat
    BY DEF Route
  <2> QED BY <2>1, UpdateOf, AddFibUpdateKeeps
<1> HIDE DEF ancestors, u1
<1>4. u2 \in Updater
  BY <1>2, <1>3, AddInheritedKeeps
<1>5. IsRoutes(offered)
  BY <1>2, SomeRoutes, JoinedRoutes
<1> HIDE DEF u2, offered
<1>6. IsRoutes(add) /\ IsRoutes(remove)
  BY <1>2, <1>5, SomeRoutes
<1> HIDE DEF add, remove
<1> QED BY <1>1, <1>4, <1>6, Relatives, ModifyChildrenKeeps

\* createFibUpdatesForNewRoute.
LEMMA NewRouteKeeps ==
  ASSUME NEW rib, IsTable(rib), NEW u \in Updater, NEW n \in Names, NEW r \in Route, NEW c,
         NEW e \in Entry, e.parent \in SUBSET DOMAIN rib
  PROVE  ForNewRoute(rib, u, n, e, r, c) \in Updater
<1> DEFINE cheaper(candidates) == \E x \in candidates : x.cost < r.cost
           add == IF r.inherit /\ ~cheaper(RouteWithLowestCostAndChildInherit(e, r.face))
                  THEN Only(r) ELSE NoRoutes
           remove == IF c THEN AncestorRoutes(rib, e.parent) ELSE NoRoutes
           u1 == RemoveInheritedRoutes(u, n, e, remove)
           u2 == ModifyChildrensInheritedRoutes(rib, u1, Children(rib, n), add, remove)
           last == AddUpdate(n, r.face, r.cost)
<1>1. ForNewRoute(rib, u, n, e, r, c) = AddFibUpdateIf(~cheaper(RouteWithLowestCost(e, r.face)), u2, last)
  BY DEF ForNewRoute
<1>2. IsRoutes(add) /\ IsRoutes(remove)
  BY SomeRoutes, AncestorsAreRoutes
<1> HIDE DEF add, remove
<1>3. u1 \in Updater
  BY <1>2, RemoveInheritedKeeps
<1> HIDE DEF u1
<1>4. u2 \in Updater
  BY <1>2, <1>3, Relatives, ModifyChildrenKeeps
<1>5. last \in FibUpdate
  BY UpdateOf DEF Route
<1> HIDE DEF u2, last, cheaper
<1> QED BY <1>1, <1>4, <1>5, AddFibUpdateKeeps DEF AddFibUpdateIf

\* createFibUpdatesForUpdatedRoute, the cost.
LEMMA UpdateCostKeeps ==
  ASSUME NEW u \in Updater, NEW n \in Names, NEW r \in Route, NEW old, NEW e \in Entry
  PROVE  UpdateCost(u, n, e, r, old) \in Updater
<1> DEFINE lowest == (CHOOSE x \in RouteWithLowestCost(e, r.face) : TRUE).cost
           prev == RouteWithLowestCostAndChildInherit(e, r.face)
           x == CHOOSE y \in prev : TRUE
<1>1. UpdateCost(u, n, e, r, old) =
        IF r.cost <= lowest THEN AddFibUpdate(u, AddUpdate(n, r.face, r.cost))
        ELSE IF old.cost >= lowest THEN u
        ELSE IF prev = {} THEN [u EXCEPT !.fault = TRUE]
        ELSE AddFibUpdate(u, AddUpdate(n, r.face, x.cost))
  BY DEF UpdateCost
<1>2. prev \subseteq Route
  BY LowestRoutes DEF Entry
<1> HIDE DEF prev, lowest
<1>3. prev # {} => x \in Route
  BY <1>2
<1> HIDE DEF x
<1>4. r.face \in Nat /\ r.cost \in Nat /\ (prev # {} => x.cost \in Nat)
  BY <1>3 DEF Route
<1>5. [u EXCEPT !.fault = TRUE] \in Updater
  BY ZenonT(30) DEF Updater
<1> QED BY ZenonT(30), <1>1, <1>4, <1>5, UpdateOf, AddFibUpdateKeeps

\* The child-inherit flag.
LEMMA UpdateChildInheritKeeps ==
  ASSUME NEW rib, IsTable(rib), NEW u \in Updater, NEW n \in Names, NEW r \in Route, NEW old,
         NEW e \in Entry, e.parent \in SUBSET DOMAIN rib
  PROVE  UpdateChildInherit(rib, u, n, e, r, old) \in Updater
<1> DEFINE prev == RouteWithLowestCostAndChildInherit(e, r.face)
           turnedOn == ~old.inherit /\ r.inherit
           turnedOff == old.inherit /\ ~r.inherit
           onlyCost == r.inherit = old.inherit /\ r.capture = old.capture /\ r.inherit
           ancestors == AncestorRoutes(rib, e.parent)
           above == {ancestors[f] : f \in DOMAIN ancestors \cap {r.face}}
           unblocked == IF prev # {} THEN prev ELSE above
           better == (turnedOn \/ onlyCost) /\ (\A x \in prev : r.cost <= x.cost)
           add == CASE better -> {r} [] turnedOff -> unblocked [] OTHER -> {}
           remove == IF turnedOff THEN Only(r) ELSE NoRoutes
<1>1. UpdateChildInherit(rib, u, n, e, r, old) =
        ModifyChildrensInheritedRoutes(rib, u, Children(rib, n), FaceToRoute(add), remove)
  BY DEF UpdateChildInherit
<1>2. prev \subseteq Route /\ IsFiniteSet(prev)
  BY LowestRoutes DEF Entry
<1>3. above \subseteq Route /\ IsFiniteSet(above)
  <2>1. IsRoutes(ancestors)
    BY AncestorsAreRoutes
  <2> HIDE DEF ancestors
  <2>2. above \subseteq Route /\ (above = {} \/ above = {ancestors[r.face]})
    BY <2>1 DEF IsRoutes
  <2> HIDE DEF above
  <2> QED BY ZenonT(30), <2>2, FS_EmptySet, FS_Singleton
<1> HIDE DEF prev, above
<1>4. unblocked \subseteq Route /\ IsFiniteSet(unblocked)
  BY <1>2, <1>3
<1> HIDE DEF unblocked, better, turnedOff
<1>5. (better => add \in {{r}, unblocked}) /\ (~better => add \in {unblocked, {}})
  OBVIOUS
<1> HIDE DEF add
<1>6. add \subseteq Route /\ IsFiniteSet(add)
  <2>1. CASE add = {}
    BY <2>1, FS_EmptySet
  <2>2. CASE add = {r}
    BY <2>2, FS_Singleton
  <2>3. CASE add = unblocked
    BY <1>4, <2>3
  <2> QED BY <1>5, <2>1, <2>2, <2>3
<1>7. IsRoutes(FaceToRoute(add)) /\ IsRoutes(remove)
  BY <1>6, SomeRoutes
<1> HIDE DEF remove
<1> QED BY <1>1, <1>7, Relatives, ModifyChildrenKeeps

\* The capture flag.
LEMMA UpdateCaptureKeeps ==
  ASSUME NEW rib, IsTable(rib), NEW u \in Updater, NEW n \in Names, NEW r, NEW old,
         NEW e, e.parent \in SUBSET DOMAIN rib
  PROVE  UpdateCapture(rib, u, n, e, r, old) \in Updater
<1> DEFINE ancestors == AncestorRoutes(rib, e.parent)
           lost == IF ~old.capture /\ r.capture THEN ancestors ELSE NoRoutes
           gained == IF old.capture /\ ~r.capture THEN ancestors ELSE NoRoutes
           u1 == RemoveInheritedRoutes(u, n, e, lost)
           u2 == AddInheritedRoutes(u1, n, gained, FacesOf(e))
<1>1. UpdateCapture(rib, u, n, e, r, old) =
        ModifyChildrensInheritedRoutes(rib, u2, Children(rib, n), gained, lost)
  BY DEF UpdateCapture
<1>2. IsRoutes(ancestors)
  BY AncestorsAreRoutes
<1> HIDE DEF ancestors
<1>3. IsRoutes(lost) /\ IsRoutes(gained)
  BY <1>2, SomeRoutes
<1> HIDE DEF lost, gained
<1>4. u1 \in Updater
  BY <1>3, RemoveInheritedKeeps
<1> HIDE DEF u1
<1>5. u2 \in Updater
  BY <1>3, <1>4, AddInheritedKeeps
<1> HIDE DEF u2
<1> QED BY <1>1, <1>3, <1>5, Relatives, ModifyChildrenKeeps

\* createFibUpdatesForUpdatedRoute.
LEMMA UpdatedRouteKeeps ==
  ASSUME NEW rib, IsTable(rib), NEW u \in Updater, NEW n \in Names, NEW r \in Route, NEW old,
         NEW e \in Entry, e.parent \in SUBSET DOMAIN rib
  PROVE  ForUpdatedRoute(rib, u, n, e, r, old) \in Updater
<1> DEFINE u1 == IF r.cost # old.cost THEN UpdateCost(u, n, e, r, old) ELSE u
           u2 == UpdateChildInherit(rib, u1, n, e, r, old)
<1>1. ForUpdatedRoute(rib, u, n, e, r, old) \in {u, UpdateCapture(rib, u2, n, e, r, old)}
  BY DEF ForUpdatedRoute
<1>2. u1 \in Updater
  BY UpdateCostKeeps
<1> HIDE DEF u1
<1>3. u2 \in Updater
  BY <1>2, UpdateChildInheritKeeps
<1> HIDE DEF u2
<1> QED BY <1>1, <1>3, UpdateCaptureKeeps

\* createFibUpdatesForErasedRoute.
LEMMA ErasedRouteKeeps ==
  ASSUME NEW rib, IsTable(rib), NEW u \in Updater, NEW n \in Names, NEW r \in Route, NEW c,
         NEW e, e.parent \in SUBSET DOMAIN rib
  PROVE  ForErasedRoute(rib, u, n, e, r, c) \in Updater
<1> DEFINE ancestors == AncestorRoutes(rib, e.parent)
           reopened == c /\ e.routes # <<>>
           u1 == AddFibUpdate(u, RemoveUpdate(n, r.face))
           back == IF r.capture /\ reopened THEN ancestors ELSE NoRoutes
           u2 == AddInheritedRoutes(u1, n, back, FacesOf(e))
           add == IF (r.capture /\ reopened) \/ (~r.capture /\ ~HasCapture(e))
                  THEN ancestors ELSE NoRoutes
           remove == IF r.inherit THEN Only(r) ELSE NoRoutes
           u3 == IF r.inherit \/ r.capture
                 THEN ModifyChildrensInheritedRoutes(rib, u2, Children(rib, n), add, remove) ELSE u2
           needed == ~HasCapture(e) /\ e.routes # <<>> /\ r.face \in DOMAIN ancestors
<1>1. ForErasedRoute(rib, u, n, e, r, c) = InheritRouteIf(needed, u3, n, ancestors, r.face)
  BY ZenonT(30) DEF ForErasedRoute
<1>2. IsRoutes(ancestors)
  BY AncestorsAreRoutes
<1>3. u1 \in Updater
  <2>1. r.face \in Nat
    BY DEF Route
  <2> QED BY <2>1, UpdateOf, AddFibUpdateKeeps
<1> HIDE DEF ancestors, u1, reopened
<1>4. IsRoutes(back) /\ IsRoutes(add) /\ IsRoutes(remove)
  BY <1>2, SomeRoutes
<1> HIDE DEF back, add, remove
<1>5. u2 \in Updater
  BY <1>3, <1>4, AddInheritedKeeps
<1> HIDE DEF u2
<1>6. u3 \in Updater
  BY <1>4, <1>5, Relatives, ModifyChildrenKeeps
<1> HIDE DEF u3
<1>7. needed => ancestors[r.face] \in Route
  BY <1>2 DEF IsRoutes
<1> HIDE DEF needed
<1> QED BY <1>1, <1>6, <1>7, InheritKeeps DEF InheritRouteIf

\* createFibUpdatesForErasedRibEntry.
LEMMA ErasedRibEntryKeeps ==
  ASSUME NEW u \in Updater, NEW n \in Names, NEW inherited \in Seq(Route)
  PROVE  ForErasedRibEntry(u, n, inherited) \in Updater
<1> DEFINE k == Len(inherited)
           loop == [kind |-> "erased", name |-> n, inherited |-> inherited]
           Is(g) == g = [i \in 0 .. k |-> IF i = 0 THEN u
                                          ELSE AddFibUpdate(g[i - 1], RemoveUpdate(n, inherited[i].face))]
           f == CHOOSE g : Is(g)
<1>1. ForErasedRibEntry(u, n, inherited) = f[k]
  BY DEF ForErasedRibEntry
<1>2. k \in Nat
  OBVIOUS
<1>3. \A x, i : Round(loop, x, i) = AddFibUpdate(x, RemoveUpdate(n, inherited[i].face))
  BY DEF Round
<1>4. \A i \in 1 .. k : inherited[i].face \in Nat
  <2>1. \A i \in 1 .. k : inherited[i] \in Route
    OBVIOUS
  <2>2. \A r \in Route : r.face \in Nat
    BY DEF Route
  <2> QED BY <2>1, <2>2
<1> HIDE DEF loop, k
<1>5. \A g : Is(g) <=> IsLoop(g, k, u, loop)
  BY <1>3 DEF IsLoop
<1> HIDE DEF Is
<1>6. IsLoop(f, k, u, loop)
  BY <1>2, <1>5, LoopExists
<1> HIDE DEF f
<1>7. \A x \in Updater : \A i \in 1 .. k : Round(loop, x, i) \in Updater
  BY ZenonT(30), <1>3, <1>4, UpdateOf, AddFibUpdateKeeps
<1>8. f[k] \in Updater
  BY ZenonT(30), <1>2, <1>6, <1>7, LoopKeeps
<1> QED BY <1>1, <1>8

----------------------------------------------------------------------------
(* Entries                                                                 *)

\* No two routes of a list have the same face and origin.
Distinct(routes) ==
  \A i, j \in DOMAIN routes : CompareFaceIdAndOrigin(routes[i], routes[j]) => i = j

\* The numbers that nCapture takes.
LEMMA Counts ==
  ASSUME NEW k \in 0 .. (CountModulus - 1)
  PROVE  /\ (k + 1) % CountModulus \in 0 .. (CountModulus - 1)
         /\ (k - 1) % CountModulus \in 0 .. (CountModulus - 1)
BY CountAssumption

\* RibEntry::insertRoute.
LEMMA InsertRouteKeeps ==
  ASSUME NEW e \in Entry, Distinct(e.routes), NEW r \in Route
  PROVE  LET d == InsertRoute(e, r)
         IN  /\ d \in Entry /\ d.parent = e.parent /\ d.routes # <<>> /\ Distinct(d.routes)
             /\ \A x \in Range(d.routes) : x.face = r.face \/ \E y \in Range(e.routes) : x.face = y.face
<1> DEFINE d == InsertRoute(e, r)
<1>1. e.routes \in Seq(Route) /\ e.nCapture \in 0 .. (CountModulus - 1)
  BY DEF Entry
<1>2. CASE HasRoute(e, r)
  <2> DEFINE new == [i \in DOMAIN e.routes |-> IF CompareFaceIdAndOrigin(e.routes[i], r) THEN r ELSE e.routes[i]]
  <2>1. d = [e EXCEPT !.routes = new]
    BY <1>2 DEF InsertRoute
  <2>2. new \in Seq(Route) /\ Len(new) = Len(e.routes)
    BY <1>1
  <2>3. \A i \in DOMAIN e.routes : new[i].face = e.routes[i].face /\ new[i].origin = e.routes[i].origin
    BY DEF CompareFaceIdAndOrigin
  <2>4. DOMAIN new = DOMAIN e.routes
    OBVIOUS
  <2>5. e.routes # <<>>
    BY <1>1, <1>2 DEF HasRoute, Range
  <2> HIDE DEF new, d
  <2>6. d \in Entry /\ d.parent = e.parent /\ d.routes = new
    BY SMTT(30), <2>1, <2>2 DEF Entry
  <2>7. new # <<>>
    BY <1>1, <2>2, <2>5
  <2>8. Distinct(new)
    BY <2>3, <2>4 DEF Distinct, CompareFaceIdAndOrigin
  <2>9. \A x \in Range(new) : \E y \in Range(e.routes) : x.face = y.face
    BY <2>3, <2>4 DEF Range
  <2> QED BY <2>6, <2>7, <2>8, <2>9 DEF d
<1>3. CASE ~HasRoute(e, r)
  <2> DEFINE new == Append(e.routes, r)
             count == IF r.capture THEN (e.nCapture + 1) % CountModulus ELSE e.nCapture
  <2>1. d = [e EXCEPT !.routes = new, !.nCapture = count]
    BY <1>3 DEF InsertRoute
  <2>2. new \in Seq(Route) /\ new # <<>> /\ DOMAIN new = 1 .. (Len(e.routes) + 1) /\ Len(e.routes) \in Nat
    BY <1>1
  <2>3. /\ \A i \in 1 .. Len(e.routes) : new[i] = e.routes[i] /\ new[i] \in Range(e.routes)
        /\ new[Len(e.routes) + 1] = r /\ DOMAIN e.routes = 1 .. Len(e.routes)
    BY <1>1 DEF Range
  <2>4. count \in 0 .. (CountModulus - 1)
    BY ZenonT(30), <1>1, Counts
  <2> HIDE DEF new, d, count
  <2>5. d \in Entry /\ d.parent = e.parent /\ d.routes = new
    BY ZenonT(30), <2>1, <2>2, <2>4 DEF Entry
  <2>6. Distinct(new)
    <3>1. \A i \in 1 .. Len(e.routes) : ~CompareFaceIdAndOrigin(new[i], r)
      BY <1>3, <2>3 DEF HasRoute
    <3>2. \A i \in 1 .. Len(e.routes) : ~CompareFaceIdAndOrigin(r, new[i])
      BY <3>1 DEF CompareFaceIdAndOrigin
    <3> SUFFICES ASSUME NEW i \in 1 .. (Len(e.routes) + 1), NEW j \in 1 .. (Len(e.routes) + 1),
                        CompareFaceIdAndOrigin(new[i], new[j])
                 PROVE  i = j
      BY <2>2 DEF Distinct
    <3>3. CASE i \in 1 .. Len(e.routes) /\ j \in 1 .. Len(e.routes)
      BY <2>3, <3>3 DEF Distinct
    <3>4. CASE i = Len(e.routes) + 1 \/ j = Len(e.routes) + 1
      BY <2>2, <2>3, <3>1, <3>2, <3>4
    <3> QED BY <2>2, <3>3, <3>4
  <2>7. \A x \in Range(new) : x = r \/ x \in Range(e.routes)
    BY <2>2, <2>3 DEF Range
  <2> QED BY <2>2, <2>5, <2>6, <2>7 DEF d
<1> QED BY <1>2, <1>3

\* std::list::erase keeps what is left in order.
LEMMA ThinnedIsDistinct ==
  ASSUME NEW q \in Seq(Route), NEW ds, Distinct(q)
  PROVE  /\ RemoveAll(q, ds) \in Seq(Route) /\ Distinct(RemoveAll(q, ds))
         /\ Range(RemoveAll(q, ds)) = Range(q) \ ds
<1> DEFINE r == RemoveAll(q, ds)
<1>1. r \in Seq(Route) /\ IsThinned(r, q, ds)
  BY RemoveAllThins
<1> HIDE DEF r
<1>2. PICK f \in [1 .. Len(r) -> 1 .. Len(q)] :
        /\ \A a, b \in 1 .. Len(r) : a < b => f[a] < f[b]
        /\ \A a \in 1 .. Len(r) : r[a] = q[f[a]] /\ q[f[a]] \notin ds
        /\ \A i \in 1 .. Len(q) : q[i] \notin ds => \E a \in 1 .. Len(r) : f[a] = i
  BY <1>1 DEF IsThinned
<1>3. DOMAIN r = 1 .. Len(r) /\ DOMAIN q = 1 .. Len(q) /\ Len(r) \in Nat /\ Len(q) \in Nat
  BY <1>1
<1>4. Distinct(r)
  <2> SUFFICES ASSUME NEW i \in 1 .. Len(r), NEW j \in 1 .. Len(r), CompareFaceIdAndOrigin(r[i], r[j])
               PROVE  i = j
    BY <1>3 DEF Distinct
  <2>1. f[i] = f[j] /\ f[i] \in Int
    BY <1>2, <1>3 DEF Distinct
  <2>2. ~(i < j) /\ ~(j < i)
    BY <1>2, <2>1
  <2> QED BY <1>3, <2>2
<1>5. Range(r) = Range(q) \ ds
  <2>1. \A x \in Range(r) : x \in Range(q) \ ds
    BY <1>2, <1>3 DEF Range
  <2>2. \A x \in Range(q) \ ds : x \in Range(r)
    BY <1>2, <1>3 DEF Range
  <2> QED BY <2>1, <2>2
<1> QED BY <1>1, <1>4, <1>5 DEF r

\* RibEntry::eraseRoute.
LEMMA EraseRouteKeeps ==
  ASSUME NEW e \in Entry, Distinct(e.routes), NEW r, HasRoute(e, r)
  PROVE  LET d == EraseRoute(e, r)
         IN  /\ d \in Entry /\ d.parent = e.parent /\ Distinct(d.routes)
             /\ Range(d.routes) \subseteq Range(e.routes) /\ FindRoute(e, r) \in Route
             /\ FindRoute(e, r).face = r.face
             /\ \A x \in Range(e.routes) : x.face # r.face => x \in Range(d.routes)
<1> DEFINE d == EraseRoute(e, r)
           old == FindRoute(e, r)
           new == RemoveAll(e.routes, {old})
           count == IF old.capture THEN (e.nCapture - 1) % CountModulus ELSE e.nCapture
<1>1. d = [e EXCEPT !.routes = new, !.nCapture = count]
  BY DEF EraseRoute
<1>2. e.routes \in Seq(Route) /\ e.nCapture \in 0 .. (CountModulus - 1)
  BY DEF Entry
<1>3. old \in Range(e.routes) /\ old.face = r.face
  BY DEF HasRoute, FindRoute, CompareFaceIdAndOrigin
<1>4. old \in Route
  BY <1>2, <1>3 DEF Range
<1> HIDE DEF old
<1>5. new \in Seq(Route) /\ Distinct(new) /\ Range(new) = Range(e.routes) \ {old}
  BY <1>2, ThinnedIsDistinct
<1>6. count \in 0 .. (CountModulus - 1)
  BY ZenonT(30), <1>2, Counts
<1> HIDE DEF d, new, count
<1>7. d \in Entry /\ d.parent = e.parent /\ d.routes = new
  BY ZenonT(30), <1>1, <1>5, <1>6 DEF Entry
<1> QED BY <1>3, <1>4, <1>5, <1>7 DEF d, old

----------------------------------------------------------------------------
(* The tree                                                                *)

\* Each entry has routes, distinct by face and origin, and its parent is the entry with the
\* longest proper prefix.
IsRib(rib) ==
  /\ IsFiniteSet(DOMAIN rib) /\ DOMAIN rib \subseteq Names /\ rib \in [DOMAIN rib -> Entry]
  /\ \A n \in DOMAIN rib : /\ rib[n].routes # <<>> /\ Distinct(rib[n].routes)
                           /\ rib[n].parent = FindParent(rib, n)

\* A RIB is a table of entries whose parents are entries, all that the walks need.
LEMMA RibIsTable ==
  ASSUME NEW rib, IsRib(rib)
  PROVE  IsTable(rib)
<1>1. \A n \in DOMAIN rib : rib[n].parent \subseteq DOMAIN rib
  BY Relatives DEF IsRib
<1> QED BY <1>1 DEF IsRib, IsTable

\* computeUpdates of fib-updater.cpp makes updates of the FIB and of inherited routes.
LEMMA ComputeKeeps ==
  ASSUME NEW rib, IsRib(rib), NEW x \in RibUpdate
  PROVE  ComputeUpdates(rib, x) \in Updater
<1> DEFINE n == x.name
           r == x.route
           u == NewUpdater(r.face)
           e == rib[n]
<1>1. n \in Names /\ r \in Route /\ r.face \in Nat
  BY DEF RibUpdate, Route
<1> HIDE DEF n, r
<1>2. u \in Updater
  BY <1>1 DEF NewUpdater, Updater
<1>3. IsTable(rib)
  BY RibIsTable
<1>4. ASSUME n \in DOMAIN rib
      PROVE  e \in Entry /\ Distinct(e.routes) /\ e.parent \in SUBSET DOMAIN rib
  <2>1. e \in Entry /\ Distinct(e.routes) /\ e.parent = FindParent(rib, n)
    BY <1>4 DEF IsRib
  <2> QED BY <2>1, Relatives
<1> HIDE DEF u, e
<1>5. ComputeForRegistration(rib, n, r) \in Updater
  <2>1. CASE n \notin DOMAIN rib
    BY <1>1, <1>2, <1>3, <2>1, NewRibEntryKeeps DEF ComputeForRegistration, u
  <2>2. CASE n \in DOMAIN rib /\ HasRoute(e, r)
    <3> DEFINE d == InsertRoute(e, r)
    <3>1. d \in Entry /\ d.parent \in SUBSET DOMAIN rib
      BY <1>1, <1>4, <2>2, InsertRouteKeeps
    <3>2. ComputeForRegistration(rib, n, r) = ForUpdatedRoute(rib, u, n, d, r, FindRoute(e, r))
      BY <2>2 DEF ComputeForRegistration, u, e
    <3> HIDE DEF d
    <3> QED BY <1>1, <1>2, <1>3, <3>1, <3>2, UpdatedRouteKeeps
  <2>3. CASE n \in DOMAIN rib /\ ~HasRoute(e, r)
    <3>1. ComputeForRegistration(rib, n, r) = ForNewRoute(rib, u, n, e, r, ~HasCapture(e) /\ r.capture)
      BY <2>3 DEF ComputeForRegistration, u, e
    <3> QED BY <1>1, <1>2, <1>3, <1>4, <2>3, <3>1, NewRouteKeeps
  <2> QED BY <2>1, <2>2, <2>3
<1>6. ComputeForUnregistration(rib, n, r) \in Updater
  <2>1. CASE n \notin DOMAIN rib \/ ~HasRoute(e, r)
    BY ZenonT(30), <1>2, <2>1 DEF ComputeForUnregistration, u, e
  <2>2. CASE n \in DOMAIN rib /\ HasRoute(e, r)
    <3> DEFINE temp == EraseRoute(e, r)
               next == RouteWithSecondLowestCost(e, r.face)
               c == HasCapture(e) /\ ~HasCapture(temp)
               u1 == ForErasedRoute(rib, u, n, temp, FindRoute(e, r), c)
               second == CHOOSE y \in next : TRUE
               u2 == IF next = {} THEN u1 ELSE ForNewRoute(rib, u1, n, temp, second, FALSE)
               inherited == IF Len(e.routes) = 1 THEN e.inherited ELSE <<>>
    <3>1. ComputeForUnregistration(rib, n, r) = ForErasedRibEntry(u2, n, inherited)
      BY ZenonT(30), <2>2 DEF ComputeForUnregistration, u, e
    <3>2. temp \in Entry /\ temp.parent \in SUBSET DOMAIN rib /\ FindRoute(e, r) \in Route
      BY <1>4, <2>2, EraseRouteKeeps
    <3>3. e.routes \in Seq(Route) /\ e.inherited \in Seq(Route)
      BY <1>4, <2>2 DEF Entry
    <3>4. inherited \in Seq(Route)
      BY <3>3
    <3>5. next \subseteq Route
      BY <3>3, LowestRoutes
    <3> HIDE DEF temp, next, c, inherited
    <3>6. u1 \in Updater
      BY <1>1, <1>2, <1>3, <3>2, ErasedRouteKeeps
    <3>7. next # {} => second \in Route
      BY <3>5
    <3> HIDE DEF u1, second
    <3>8. u2 \in Updater
      BY ZenonT(30), <1>1, <1>3, <3>2, <3>6, <3>7, NewRouteKeeps
    <3> HIDE DEF u2
    <3> QED BY <1>1, <3>1, <3>4, <3>8, ErasedRibEntryKeeps
  <2> QED BY <2>1, <2>2
<1> DEFINE v == ComputeForUnregistration(rib, n, r)
<1>7. ComputeUpdates(rib, x) = IF x.action = "REGISTER" THEN ComputeForRegistration(rib, n, r)
                               ELSE [v EXCEPT !.batch = IF x.action = "REMOVE_FACE" THEN <<>> ELSE @]
  BY DEF ComputeUpdates, n, r
<1> HIDE DEF v
<1>8. v \in Updater
  BY <1>6 DEF v
<1>9. [v EXCEPT !.batch = IF x.action = "REMOVE_FACE" THEN <<>> ELSE @] \in Updater
  <2>1. \A b \in Seq(FibUpdate) : [v EXCEPT !.batch = b] \in Updater
    BY ZenonT(30), <1>8 DEF Updater
  <2>2. v.batch \in Seq(FibUpdate) /\ <<>> \in Seq(FibUpdate)
    BY <1>8 DEF Updater
  <2> QED BY ZenonT(30), <2>1, <2>2
<1> QED BY <1>5, <1>7, <1>9

\* Prefixes of a name.
LEMMA Prefixes ==
  ASSUME NEW a \in Names, NEW b \in Names, NEW c \in Names
  PROVE  /\ IsPrefixOf(a, b) /\ IsPrefixOf(b, c) => IsPrefixOf(a, c)
         /\ IsPrefixOf(a, c) /\ IsPrefixOf(b, c) /\ Len(a) <= Len(b) => IsPrefixOf(a, b)
         /\ IsPrefixOf(a, b) /\ Len(a) = Len(b) => a = b
<1>1. /\ Len(a) \in Nat /\ DOMAIN a = 1 .. Len(a) /\ Len(b) \in Nat /\ DOMAIN b = 1 .. Len(b)
      /\ Len(c) \in Nat /\ DOMAIN c = 1 .. Len(c)
  BY DEF Names
<1>2. IsPrefixOf(a, b) /\ IsPrefixOf(b, c) => IsPrefixOf(a, c)
  BY <1>1 DEF IsPrefixOf
<1>3. IsPrefixOf(a, c) /\ IsPrefixOf(b, c) /\ Len(a) <= Len(b) => IsPrefixOf(a, b)
  BY <1>1 DEF IsPrefixOf
<1>4. ASSUME IsPrefixOf(a, b), Len(a) = Len(b) PROVE a = b
  <2>1. \A i \in 1 .. Len(a) : a[i] = b[i]
    BY <1>4 DEF IsPrefixOf
  <2> QED BY <1>1, <1>4, <2>1 DEF Names
<1> QED BY <1>2, <1>3, <1>4

\* The same of proper prefixes.
LEMMA Above ==
  ASSUME NEW a \in Names, NEW b \in Names, NEW c \in Names
  PROVE  /\ IsAbove(a, b) /\ IsAbove(b, c) => IsAbove(a, c)
         /\ IsAbove(a, c) /\ IsAbove(b, c) /\ Len(a) < Len(b) => IsAbove(a, b)
         /\ IsAbove(a, c) /\ IsAbove(b, c) /\ Len(a) = Len(b) => a = b
         /\ IsAbove(a, b) => Len(a) < Len(b)
<1>1. Len(a) \in Nat /\ Len(b) \in Nat /\ Len(c) \in Nat
  BY DEF Names
<1>2. IsAbove(a, b) => Len(a) < Len(b)
  BY <1>1, Prefixes DEF IsAbove, IsPrefixOf
<1>3. IsAbove(b, c) => Len(b) < Len(c)
  BY <1>1, Prefixes DEF IsAbove, IsPrefixOf
<1>4. IsAbove(a, b) /\ IsAbove(b, c) => IsAbove(a, c)
  BY <1>1, <1>2, <1>3, Prefixes DEF IsAbove
<1>5. IsAbove(a, c) /\ IsAbove(b, c) /\ Len(a) <= Len(b) => IsPrefixOf(a, b)
  BY Prefixes DEF IsAbove
<1>6. IsAbove(a, c) /\ IsAbove(b, c) /\ Len(a) < Len(b) => IsAbove(a, b)
  BY <1>1, <1>5 DEF IsAbove
<1>7. IsAbove(a, c) /\ IsAbove(b, c) /\ Len(a) = Len(b) => a = b
  BY <1>1, <1>5, Prefixes
<1> QED BY <1>2, <1>4, <1>6, <1>7

\* The entries of D above n, and the longest of a set of names: FindParent.
AboveIn(D, n) == {p \in D : IsAbove(p, n)}

Longest(S) == {p \in S : \A q \in S : Len(q) <= Len(p)}

\* Rib::findParent shortens the name until it meets an entry: the longest above it.
LEMMA ParentIsLongest ==
  ASSUME NEW rib, NEW n
  PROVE  FindParent(rib, n) = Longest(AboveIn(DOMAIN rib, n))
BY DEF FindParent, Longest, AboveIn

\* If an entry is above a name, one is the longest.
LEMMA LongestExists ==
  ASSUME NEW n \in Names, NEW D \in SUBSET Names, NEW q \in AboveIn(D, n)
  PROVE  \E p \in Longest(AboveIn(D, n)) : Len(q) <= Len(p)
<1> DEFINE S == AboveIn(D, n)
           L == {Len(n) - Len(p) : p \in S}
<1>1. Len(n) \in Nat /\ \A p \in S : p \in Names /\ Len(p) \in Nat /\ Len(p) < Len(n)
  <2>1. \A p \in S : p \in Names /\ IsAbove(p, n)
    BY DEF AboveIn
  <2>2. \A p \in Names : Len(p) \in Nat
    BY DEF Names
  <2> QED BY <2>1, <2>2, Above
<1>2. q \in S
  OBVIOUS
<1> HIDE DEF S
<1>3. L \in SUBSET Nat /\ L # {}
  BY <1>1, <1>2
<1>4. PICK m \in L : \A x \in L : m <= x
  BY ZenonT(30), <1>3, LeastNumber
<1>5. PICK p \in S : m = Len(n) - Len(p)
  BY <1>4
<1>6. \A o \in S : Len(o) <= Len(p)
  <2> SUFFICES ASSUME NEW o \in S PROVE Len(o) <= Len(p)
    OBVIOUS
  <2>1. Len(n) - Len(o) \in L
    OBVIOUS
  <2>2. Len(n) - Len(p) <= Len(n) - Len(o)
    BY ZenonT(30), <1>4, <1>5, <2>1
  <2>3. Len(n) \in Int /\ Len(o) \in Int /\ Len(p) \in Int
    BY <1>1
  <2> QED BY <2>2, <2>3
<1>7. p \in Longest(S) /\ Len(q) <= Len(p)
  BY <1>2, <1>6 DEF Longest
<1> QED BY <1>7 DEF S

\* A new entry n is the parent of those it adopts and of no others.
LEMMA NewParent ==
  ASSUME NEW D \in SUBSET Names, NEW n \in Names, n \notin D, NEW c \in D
  PROVE  Longest(AboveIn(D \cup {n}, c)) =
           IF IsAbove(n, c) /\ Longest(AboveIn(D, c)) = Longest(AboveIn(D, n))
           THEN {n} ELSE Longest(AboveIn(D, c))
<1>1. c \in Names /\ \A p \in Names : Len(p) \in Nat
  BY DEF Names
<1>2. CASE ~IsAbove(n, c)
  <2>1. AboveIn(D \cup {n}, c) = AboveIn(D, c)
    BY <1>2 DEF AboveIn
  <2> QED BY <1>2, <2>1
<1>3. CASE IsAbove(n, c)
  <2> DEFINE S == AboveIn(D, c)
             T == AboveIn(D \cup {n}, c)
  <2>1. T = S \cup {n} /\ n \notin S /\ S \subseteq Names /\ \A p \in S : IsAbove(p, c)
    BY <1>3 DEF AboveIn
  <2>2. CASE Longest(S) = Longest(AboveIn(D, n))
    <3>1. ASSUME NEW q \in S PROVE Len(q) < Len(n)
      <4>1. PICK p \in Longest(S) : Len(q) <= Len(p)
        BY <1>1, <3>1, LongestExists
      <4>2. p \in Names /\ IsAbove(p, n)
        BY <2>2, <4>1 DEF Longest, AboveIn
      <4>3. Len(p) < Len(n)
        BY <4>2, Above
      <4> QED BY <1>1, <2>1, <4>1, <4>2, <4>3
    <3> HIDE DEF S, T
    <3>2. \A p \in T : p \in Longest(T) <=> p = n
      BY <1>1, <2>1, <3>1 DEF Longest
    <3>3. Longest(T) = {n}
      BY <2>1, <3>2 DEF Longest
    <3> QED BY <1>3, <2>2, <3>3 DEF S, T
  <2>3. CASE Longest(S) # Longest(AboveIn(D, n))
    <3>1. PICK q \in S : Len(q) > Len(n)
      <4> SUFFICES ASSUME \A q \in S : ~(Len(q) > Len(n)) PROVE FALSE
        OBVIOUS
      <4>1. ASSUME NEW q \in S PROVE q \in AboveIn(D, n)
        <5>1. q \in D /\ q \in Names /\ IsAbove(q, c) /\ q # n
          BY <2>1 DEF AboveIn
        <5>2. Len(q) < Len(n)
          BY <1>1, <1>3, <5>1, Above
        <5> QED BY <1>1, <1>3, <5>1, <5>2, Above DEF AboveIn
      <4>2. ASSUME NEW q \in AboveIn(D, n) PROVE q \in S
        BY <1>1, <1>3, Above DEF AboveIn
      <4>3. S = AboveIn(D, n)
        BY ZenonT(30), <4>1, <4>2
      <4> QED BY <2>3, <4>3
    <3> HIDE DEF S, T
    <3>2. \A p \in T : p \in Longest(T) <=> p \in Longest(S)
      BY <1>1, <2>1, <3>1 DEF Longest
    <3>3. Longest(T) = Longest(S)
      BY <2>1, <3>2 DEF Longest
    <3> QED BY <1>3, <2>3, <3>3 DEF S, T
  <2> QED BY <2>2, <2>3
<1> QED BY <1>2, <1>3

\* Without the entry n, its parent is the parent of its children.
LEMMA LostParent ==
  ASSUME NEW D \in SUBSET Names, NEW n \in D, NEW c \in D \ {n}
  PROVE  Longest(AboveIn(D \ {n}, c)) =
           IF Longest(AboveIn(D, c)) = {n} THEN Longest(AboveIn(D, n)) ELSE Longest(AboveIn(D, c))
<1> DEFINE S == AboveIn(D, c)
           T == AboveIn(D \ {n}, c)
<1>1. /\ c \in Names /\ n \in Names /\ \A p \in Names : Len(p) \in Nat
      /\ T = S \ {n} /\ S \subseteq Names /\ \A p \in S : p \in D /\ IsAbove(p, c)
  BY DEF Names, AboveIn
<1>2. CASE Longest(S) = {n}
  <2>1. n \in S /\ \A q \in S : Len(q) <= Len(n)
    BY <1>2 DEF Longest
  <2>2. ASSUME NEW q \in T PROVE q \in AboveIn(D, n)
    <3>1. q \in S /\ q # n /\ q \in Names /\ q \in D
      BY ZenonT(30), <1>1
    <3>2. IsAbove(q, c) /\ IsAbove(n, c)
      BY <1>1, <2>1, <3>1
    <3>3. Len(q) <= Len(n)
      BY <2>1, <3>1
    <3>4. Len(q) < Len(n)
      BY <1>1, <3>1, <3>2, <3>3, Above
    <3> QED BY <1>1, <3>1, <3>2, <3>4, Above DEF AboveIn
  <2>3. ASSUME NEW q \in AboveIn(D, n) PROVE q \in T
    <3>1. q \in D /\ q \in Names /\ IsAbove(q, n)
      BY DEF AboveIn
    <3>2. IsAbove(q, c) /\ q # n
      BY <1>1, <2>1, <3>1, Above DEF IsAbove
    <3> QED BY <3>1, <3>2 DEF AboveIn
  <2>4. T = AboveIn(D, n)
    BY <2>2, <2>3
  <2> QED BY <1>2, <2>4
<1>3. CASE Longest(S) # {n}
  <2>1. CASE n \notin S
    BY ZenonT(30), <1>1, <1>3, <2>1
  <2>2. CASE n \in S
    <3>1. PICK p \in Longest(S) : Len(n) <= Len(p)
      BY <1>1, <2>2, LongestExists
    <3> HIDE DEF S, T
    <3>2. Longest(S) \subseteq S /\ \A q \in Longest(S) : \A o \in S : Len(o) <= Len(q)
      BY DEF Longest
    <3>3. \A q \in Longest(S) : q = p
      <4>1. ASSUME NEW q \in Longest(S) PROVE q = p
        <5>1. Len(q) <= Len(p) /\ Len(p) <= Len(q) /\ q \in Names /\ p \in Names
          BY <1>1, <3>1, <3>2
        <5>2. Len(q) = Len(p)
          BY <1>1, <5>1
        <5> QED BY <1>1, <3>1, <3>2, <5>1, <5>2, Above
      <4> QED BY <4>1
    <3>4. p # n /\ p \in S /\ n \notin Longest(S)
      BY <1>3, <3>1, <3>2, <3>3
    <3>5. \A q \in T : q \in Longest(T) <=> q \in Longest(S)
      BY <1>1, <3>1, <3>2, <3>4 DEF Longest
    <3>6. Longest(T) = Longest(S)
      BY <1>1, <3>4, <3>5 DEF Longest
    <3> QED BY <1>3, <3>6 DEF S, T
  <2> QED BY <2>1, <2>2
<1> QED BY <1>2, <1>3

\* Rib::insert.
LEMMA InsertKeeps ==
  ASSUME NEW rib, IsRib(rib), NEW n \in Names, NEW r \in Route
  PROVE  LET new == Insert(rib, n, r)
         IN  /\ IsRib(new) /\ DOMAIN new = DOMAIN rib \cup {n}
             /\ \A c \in DOMAIN rib \ {n} : new[c].routes = rib[c].routes
             /\ \A x \in Range(new[n].routes) :
                  x.face = r.face \/ (n \in DOMAIN rib /\ \E y \in Range(rib[n].routes) : x.face = y.face)
<1> DEFINE new == Insert(rib, n, r)
           D == DOMAIN rib
<1>1. IsFiniteSet(D) /\ D \subseteq Names /\ \A c \in D : rib[c] \in Entry /\ Distinct(rib[c].routes)
  BY DEF IsRib
<1>2. CASE n \in D
  <2> DEFINE d == InsertRoute(rib[n], r)
  <2>1. /\ d \in Entry /\ d.parent = rib[n].parent /\ d.routes # <<>> /\ Distinct(d.routes)
        /\ \A x \in Range(d.routes) : x.face = r.face \/ \E y \in Range(rib[n].routes) : x.face = y.face
    BY <1>1, <1>2, InsertRouteKeeps
  <2>2. new = [rib EXCEPT ![n] = d]
    BY <1>2 DEF Insert
  <2> HIDE DEF new, d
  <2>3. /\ DOMAIN new = D /\ new \in [D -> Entry] /\ new[n] = d
        /\ \A c \in D \ {n} : new[c] = rib[c]
    BY <1>1, <1>2, <2>1, <2>2 DEF IsRib
  <2>4. \A c \in D : /\ new[c].routes # <<>> /\ Distinct(new[c].routes)
                     /\ new[c].parent = FindParent(new, c)
    <3>1. \A c : FindParent(new, c) = FindParent(rib, c)
      BY <2>3 DEF FindParent
    <3> QED BY <1>2, <2>1, <2>3, <3>1 DEF IsRib
  <2>5. IsRib(new)
    BY <1>1, <2>3, <2>4 DEF IsRib
  <2> QED BY <1>2, <2>1, <2>3, <2>5 DEF new
<1>3. CASE n \notin D
  <2> DEFINE empty == [routes |-> <<>>, inherited |-> <<>>, nCapture |-> 0, parent |-> FindParent(rib, n)]
             d == NewEntry(rib, n, r)
             moved == [c \in D |-> IF c \in Adopted(rib, n) THEN [rib[c] EXCEPT !.parent = {n}] ELSE rib[c]]
  <2>1. empty \in Entry /\ Distinct(empty.routes) /\ Range(empty.routes) = {} /\ empty.parent = FindParent(rib, n)
    <3>1. FindParent(rib, n) \in SUBSET Names
      BY <1>1, Relatives
    <3>2. 0 \in 0 .. (CountModulus - 1)
      BY CountAssumption
    <3> QED BY <3>1, <3>2 DEF Entry, Distinct, Range
  <2>2. d = InsertRoute(empty, r)
    BY DEF NewEntry
  <2> HIDE DEF empty, d
  <2>3. /\ d \in Entry /\ d.parent = FindParent(rib, n) /\ d.routes # <<>> /\ Distinct(d.routes)
        /\ \A x \in Range(d.routes) : x.face = r.face
    BY <2>1, <2>2, InsertRouteKeeps
  <2>4. new = Put(moved, n, d)
    BY <1>3 DEF Insert, d
  <2>5. \A c \in D : /\ moved[c] \in Entry /\ moved[c].routes = rib[c].routes
                     /\ moved[c].parent = IF c \in Adopted(rib, n) THEN {n} ELSE rib[c].parent
    BY <1>1 DEF Entry
  <2>6. DOMAIN moved = D
    OBVIOUS
  <2> HIDE DEF new, moved
  <2>7. /\ DOMAIN new = D \cup {n} /\ new \in [D \cup {n} -> Entry] /\ new[n] = d
        /\ \A c \in D : new[c] = moved[c]
    BY <1>3, <2>3, <2>4, <2>5, <2>6 DEF Put
  <2>8. \A c : FindParent(new, c) = Longest(AboveIn(D \cup {n}, c))
    BY <2>7, ParentIsLongest
  <2>9. FindParent(new, n) = FindParent(rib, n)
    <3>1. AboveIn(D \cup {n}, n) = AboveIn(D, n)
      BY DEF AboveIn, IsAbove
    <3> QED BY <2>8, <3>1, ParentIsLongest
  <2>10. ASSUME NEW c \in D PROVE FindParent(new, c) = new[c].parent
    <3>1. rib[c].parent = Longest(AboveIn(D, c)) /\ FindParent(rib, n) = Longest(AboveIn(D, n))
      BY ParentIsLongest DEF IsRib
    <3>2. c \in Adopted(rib, n) <=> (IsAbove(n, c) /\ Longest(AboveIn(D, c)) = Longest(AboveIn(D, n)))
      BY <3>1 DEF Adopted
    <3>3. Longest(AboveIn(D \cup {n}, c)) = IF c \in Adopted(rib, n) THEN {n} ELSE Longest(AboveIn(D, c))
      BY ZenonT(30), <1>1, <1>3, <3>2, NewParent
    <3> QED BY <2>5, <2>7, <2>8, <3>1, <3>3
  <2>11. \A c \in D \cup {n} : /\ new[c].routes # <<>> /\ Distinct(new[c].routes)
                               /\ new[c].parent = FindParent(new, c)
    BY <2>3, <2>5, <2>7, <2>9, <2>10 DEF IsRib
  <2>12. IsFiniteSet(D \cup {n})
    BY <1>1, FS_AddElement
  <2>13. IsRib(new)
    BY <1>1, <2>7, <2>11, <2>12 DEF IsRib
  <2> QED BY <1>3, <2>3, <2>5, <2>7, <2>13 DEF new
<1> QED BY <1>2, <1>3

\* Rib::erase and eraseEntry.
LEMMA EraseKeeps ==
  ASSUME NEW rib, IsRib(rib), NEW n \in DOMAIN rib, NEW r, HasRoute(rib[n], r)
  PROVE  LET new == Erase(rib, n, r)
         IN  /\ IsRib(new) /\ DOMAIN new \in {DOMAIN rib, DOMAIN rib \ {n}}
             /\ \A c \in DOMAIN new \ {n} : new[c].routes = rib[c].routes
             /\ n \in DOMAIN new => Range(new[n].routes) \subseteq Range(rib[n].routes)
<1> DEFINE new == Erase(rib, n, r)
           D == DOMAIN rib
           d == EraseRoute(rib[n], r)
<1>1. IsFiniteSet(D) /\ D \subseteq Names /\ \A c \in D : rib[c] \in Entry /\ Distinct(rib[c].routes)
  BY DEF IsRib
<1>2. /\ d \in Entry /\ d.parent = rib[n].parent /\ Distinct(d.routes)
      /\ Range(d.routes) \subseteq Range(rib[n].routes)
  BY <1>1, EraseRouteKeeps
<1> HIDE DEF d
<1>3. CASE d.routes # <<>>
  <2>1. new = [rib EXCEPT ![n] = d]
    BY <1>3 DEF Erase, d
  <2> HIDE DEF new
  <2>2. /\ DOMAIN new = D /\ new \in [D -> Entry] /\ new[n] = d
        /\ \A c \in D \ {n} : new[c] = rib[c]
    BY <1>1, <1>2, <2>1 DEF IsRib
  <2>3. \A c \in D : /\ new[c].routes # <<>> /\ Distinct(new[c].routes)
                     /\ new[c].parent = FindParent(new, c)
    <3>1. \A c : FindParent(new, c) = FindParent(rib, c)
      BY <2>2 DEF FindParent
    <3> QED BY <1>2, <1>3, <2>2, <3>1 DEF IsRib
  <2>4. IsRib(new)
    BY <1>1, <2>2, <2>3 DEF IsRib
  <2> QED BY <1>2, <2>2, <2>4 DEF new
<1>4. CASE d.routes = <<>>
  <2>1. new = [c \in D \ {n} |-> IF c \in Children(rib, n)
                                 THEN [rib[c] EXCEPT !.parent = rib[n].parent] ELSE rib[c]]
    BY <1>4 DEF Erase, d
  <2> HIDE DEF new
  <2>2. DOMAIN new = D \ {n}
    BY <2>1
  <2>3. \A c \in D \ {n} : /\ new[c] \in Entry /\ new[c].routes = rib[c].routes
                           /\ new[c].parent = IF c \in Children(rib, n) THEN rib[n].parent ELSE rib[c].parent
    BY ZenonT(30), <1>1, <2>1 DEF Entry
  <2>4. ASSUME NEW c \in D \ {n} PROVE FindParent(new, c) = new[c].parent
    <3>1. rib[c].parent = Longest(AboveIn(D, c)) /\ rib[n].parent = Longest(AboveIn(D, n))
      BY ParentIsLongest DEF IsRib
    <3>2. c \in Children(rib, n) <=> Longest(AboveIn(D, c)) = {n}
      BY <3>1 DEF Children
    <3>3. FindParent(new, c) = Longest(AboveIn(D \ {n}, c))
      BY <2>2, ParentIsLongest
    <3> QED BY ZenonT(30), <1>1, <2>3, <3>1, <3>2, <3>3, LostParent
  <2>5. \A c \in D \ {n} : /\ new[c].routes # <<>> /\ Distinct(new[c].routes)
                           /\ new[c].parent = FindParent(new, c)
    BY <2>3, <2>4 DEF IsRib
  <2>6. IsFiniteSet(D \ {n})
    BY ZenonT(30), <1>1, FS_Difference
  <2>7. new \in [D \ {n} -> Entry]
    BY <2>1, <2>3
  <2>8. IsRib(new)
    BY <1>1, <2>2, <2>5, <2>6, <2>7 DEF IsRib
  <2> QED BY <2>2, <2>3, <2>8 DEF new
<1> QED BY <1>3, <1>4

----------------------------------------------------------------------------
(* The service                                                             *)

\* The face table has no erased entry, and every route of the RIB is found from its face.
IsFaceTable(table, rib) ==
  /\ IsFiniteSet(DOMAIN table) /\ DOMAIN table \subseteq Nat \X DOMAIN rib
  /\ table \in [DOMAIN table -> Nat]
  /\ \A n \in DOMAIN rib : \A x \in Range(rib[n].routes) :
       <<x.face, n>> \in DOMAIN table /\ table[<<x.face, n>>] > 0

Tables == UNION {[D -> Entry] : D \in SUBSET Names}

FaceTables == UNION {[D -> Nat] : D \in SUBSET (Nat \X Names)}

Services ==
  {s \in [rib : Tables, faceEntries : FaceTables, queue : Seq(RibUpdate), inProgress : BOOLEAN,
          updater : Updater, timers : SUBSET Timer, crashed : BOOLEAN, failed : SUBSET RibUpdate,
          sent : Seq(Command)] :
     IsRib(s.rib) /\ IsFaceTable(s.faceEntries, s.rib)}

\* What is to be shown when a step leaves a service.
LEMMA TablesAre ==
  ASSUME NEW rib, NEW table, IsRib(rib), IsFaceTable(table, rib)
  PROVE  rib \in Tables /\ table \in FaceTables
<1>1. rib \in Tables
  BY DEF IsRib, Tables
<1>2. DOMAIN table \in SUBSET (Nat \X Names)
  BY DEF IsRib, IsFaceTable
<1> QED BY <1>1, <1>2 DEF IsFaceTable, FaceTables

\* A change of the tables.
LEMMA TablesChange ==
  ASSUME NEW s \in Services, NEW rib, NEW table, IsRib(rib), IsFaceTable(table, rib),
         NEW timers \in SUBSET Timer
  PROVE  [s EXCEPT !.rib = rib, !.faceEntries = table, !.timers = timers] \in Services
<1>1. rib \in Tables /\ table \in FaceTables
  BY TablesAre
<1> QED BY ZenonT(30), <1>1 DEF Services

\* A change of the rest.
LEMMA OthersChange ==
  ASSUME NEW s \in Services
  PROVE  /\ \A q \in Seq(RibUpdate) : [s EXCEPT !.queue = q] \in Services
         /\ \A b \in BOOLEAN : [s EXCEPT !.inProgress = b] \in Services
         /\ \A u \in Updater : [s EXCEPT !.updater = u] \in Services
         /\ \A t \in SUBSET Timer : [s EXCEPT !.timers = t] \in Services
         /\ \A b \in BOOLEAN : [s EXCEPT !.crashed = b] \in Services
         /\ \A f \in SUBSET RibUpdate : [s EXCEPT !.failed = f] \in Services
         /\ \A c \in Seq(Command) : [s EXCEPT !.sent = c] \in Services
BY DEF Services

\* The fields of a service.
LEMMA ServiceHas ==
  ASSUME NEW s \in Services
  PROVE  /\ IsRib(s.rib) /\ IsFaceTable(s.faceEntries, s.rib) /\ s.queue \in Seq(RibUpdate)
         /\ s.inProgress \in BOOLEAN /\ s.updater \in Updater /\ s.timers \in SUBSET Timer
         /\ s.crashed \in BOOLEAN /\ s.failed \in SUBSET RibUpdate /\ s.sent \in Seq(Command)
BY DEF Services

\* Timers are only cancelled.
LEMMA CancelKeeps ==
  ASSUME NEW s \in Services, NEW r
  PROVE  Cancel(s, r) \in Services
<1>1. {t \in s.timers : t.event \notin r.event} \in SUBSET Timer
  BY ServiceHas
<1> QED BY ZenonT(30), <1>1, OthersChange DEF Cancel

\* Rib::insert with the face table and the timer of a replaced route.
LEMMA InsertIntoRibKeeps ==
  ASSUME NEW s \in Services, NEW n \in Names, NEW r \in Route
  PROVE  InsertIntoRib(s, n, r) \in Services
<1> DEFINE known == n \in DOMAIN s.rib /\ HasRoute(s.rib[n], r)
           new == Insert(s.rib, n, r)
           table == s.faceEntries
           k == FaceEntries(s, r.face, n) + 1
           key == <<r.face, n>>
<1>1. IsRib(s.rib) /\ IsFaceTable(table, s.rib) /\ r.face \in Nat
  BY ServiceHas DEF Route
<1>2. /\ IsRib(new) /\ DOMAIN new = DOMAIN s.rib \cup {n}
      /\ \A c \in DOMAIN s.rib \ {n} : new[c].routes = s.rib[c].routes
      /\ \A x \in Range(new[n].routes) :
           x.face = r.face \/ (n \in DOMAIN s.rib /\ \E y \in Range(s.rib[n].routes) : x.face = y.face)
  BY ZenonT(30), <1>1, InsertKeeps
<1> HIDE DEF new
<1>3. CASE known
  <2> DEFINE s1 == Cancel(s, FindRoute(s.rib[n], r))
  <2>1. InsertIntoRib(s, n, r) = [s1 EXCEPT !.rib = Insert(@, n, r)]
    BY <1>3 DEF InsertIntoRib
  <2>2. s1 \in Services
    BY CancelKeeps
  <2>3. s1.rib = s.rib /\ s1.faceEntries = table
    BY DEF Cancel, Services
  <2>4. \E y \in Range(s.rib[n].routes) : y.face = r.face
    BY <1>3 DEF HasRoute, CompareFaceIdAndOrigin
  <2>5. ASSUME NEW c \in DOMAIN new, NEW x \in Range(new[c].routes)
        PROVE  <<x.face, c>> \in DOMAIN table /\ table[<<x.face, c>>] > 0
    <3>1. c \in DOMAIN s.rib
      BY <1>2, <1>3
    <3>2. \E y \in Range(s.rib[c].routes) : x.face = y.face
      BY <1>2, <2>4, <3>1
    <3> QED BY <1>1, <3>1, <3>2 DEF IsFaceTable
  <2>6. IsFaceTable(table, new)
    <3>1. DOMAIN new = DOMAIN s.rib
      BY <1>2, <1>3
    <3> QED BY <1>1, <2>5, <3>1 DEF IsFaceTable
  <2> HIDE DEF s1, known
  <2>7. [s1 EXCEPT !.rib = new] \in Services
    <3>1. new \in Tables
      BY <1>2, <2>6, TablesAre
    <3> QED BY ZenonT(30), <1>2, <2>2, <2>3, <2>6, <3>1 DEF Services
  <2> QED BY <2>1, <2>3, <2>7 DEF new
<1>4. CASE ~known
  <2> DEFINE s1 == SetFaceEntries(s, r.face, n, k)
             t1 == Put(table, key, k)
  <2>1. InsertIntoRib(s, n, r) = [s1 EXCEPT !.rib = Insert(@, n, r)]
    BY <1>4 DEF InsertIntoRib
  <2>2. s1 = [s EXCEPT !.faceEntries = t1]
    BY DEF SetFaceEntries
  <2>3. k \in Nat /\ k > 0
    <3>1. FaceEntries(s, r.face, n) \in Nat
      BY <1>1 DEF FaceEntries, IsFaceTable
    <3> QED BY <3>1
  <2> HIDE DEF k
  <2>4. /\ DOMAIN t1 = DOMAIN table \cup {key} /\ t1 \in [DOMAIN t1 -> Nat] /\ t1[key] = k
        /\ \A x \in DOMAIN table \ {key} : t1[x] = table[x]
    BY <1>1, <2>3 DEF Put, IsFaceTable
  <2> HIDE DEF t1
  <2>5. ASSUME NEW c \in DOMAIN new, NEW x \in Range(new[c].routes)
        PROVE  <<x.face, c>> \in DOMAIN t1 /\ t1[<<x.face, c>>] > 0
    <3>1. CASE x.face = r.face /\ c = n
      BY <2>3, <2>4, <3>1
    <3>2. CASE ~(x.face = r.face /\ c = n)
      <4>1. c \in DOMAIN s.rib /\ \E y \in Range(s.rib[c].routes) : x.face = y.face
        BY <1>2, <3>2
      <4>2. <<x.face, c>> \in DOMAIN table /\ table[<<x.face, c>>] > 0
        BY <1>1, <4>1 DEF IsFaceTable
      <4>3. <<x.face, c>> # key
        BY <3>2
      <4> HIDE DEF key
      <4> QED BY <2>4, <4>2, <4>3
    <3> QED BY <3>1, <3>2
  <2>6. IsFaceTable(t1, new)
    <3>1. IsFiniteSet(DOMAIN t1)
      BY <1>1, <2>4, FS_AddElement DEF IsFaceTable
    <3>2. DOMAIN t1 \subseteq Nat \X DOMAIN new
      BY <1>1, <1>2, <2>4 DEF IsFaceTable
    <3> QED BY <2>4, <2>5, <3>1, <3>2 DEF IsFaceTable
  <2>7. InsertIntoRib(s, n, r) = [s EXCEPT !.rib = new, !.faceEntries = t1]
    BY ZenonT(30), <2>1, <2>2 DEF new, Services
  <2>8. new \in Tables /\ t1 \in FaceTables
    BY <1>2, <2>6, TablesAre
  <2> QED BY ZenonT(30), <1>2, <2>6, <2>7, <2>8 DEF Services
<1> QED BY <1>3, <1>4

\* Rib::erase with the face table and the timer.
LEMMA EraseFromRibKeeps ==
  ASSUME NEW s \in Services, NEW n \in Names, NEW r \in Route
  PROVE  EraseFromRib(s, n, r) \in Services
<1> DEFINE known == n \in DOMAIN s.rib /\ HasRoute(s.rib[n], r)
           old == FindRoute(s.rib[n], r)
           new == Erase(s.rib, n, r)
           table == s.faceEntries
           entries == {k \in DOMAIN table : n \in DOMAIN new \/ k[2] # n}
           t1 == Restrict(table, entries)
           timers == {t \in s.timers : t.event \notin old.event}
           s1 == [s EXCEPT !.rib = new, !.faceEntries = t1, !.timers = timers]
           less == FaceEntries(s, r.face, n) - 1
           key == <<r.face, n>>
           gone == n \in DOMAIN new /\ ~HasFaceId(new[n], r.face)
<1>1. EraseFromRib(s, n, r) = IF ~known THEN s ELSE IF ~gone THEN s1 ELSE SetFaceEntries(s1, r.face, n, less)
  BY ZenonT(30) DEF EraseFromRib, Cancel, Services
<1>2. CASE ~known
  BY <1>1, <1>2
<1>3. CASE known
  <2>1. IsRib(s.rib) /\ IsFaceTable(table, s.rib) /\ r.face \in Nat
    BY ServiceHas DEF Route
  <2>2. timers \in SUBSET Timer
    BY ServiceHas
  <2>3. /\ IsRib(new) /\ DOMAIN new \in {DOMAIN s.rib, DOMAIN s.rib \ {n}}
        /\ \A c \in DOMAIN new \ {n} : new[c].routes = s.rib[c].routes
        /\ n \in DOMAIN new => Range(new[n].routes) \subseteq Range(s.rib[n].routes)
    BY ZenonT(30), <1>3, <2>1, EraseKeeps
  <2> HIDE DEF new, timers
  <2>4. /\ DOMAIN t1 = entries /\ entries \subseteq DOMAIN table /\ t1 \in [entries -> Nat]
        /\ \A k \in entries : t1[k] = table[k]
    BY <2>1 DEF Restrict, IsFaceTable
  <2>5. entries \subseteq Nat \X DOMAIN new
    BY <2>1, <2>3 DEF IsFaceTable
  <2>6. IsFiniteSet(entries)
    BY <2>1, <2>4, FS_Subset DEF IsFaceTable
  <2>7. ASSUME NEW c \in DOMAIN new, NEW x \in Range(new[c].routes)
        PROVE  <<x.face, c>> \in entries /\ table[<<x.face, c>>] > 0
    <3>1. c \in DOMAIN s.rib /\ x \in Range(s.rib[c].routes)
      BY <2>3
    <3>2. <<x.face, c>> \in DOMAIN table /\ table[<<x.face, c>>] > 0
      BY <2>1, <3>1 DEF IsFaceTable
    <3> QED BY <3>2
  <2> HIDE DEF entries, t1
  <2>8. IsFaceTable(t1, new)
    BY <2>4, <2>5, <2>6, <2>7 DEF IsFaceTable
  <2>9. s1 \in Services
    BY ZenonT(30), <2>2, <2>3, <2>8, TablesChange
  <2>10. CASE ~gone
    BY <1>1, <1>3, <2>9, <2>10
  <2>11. CASE gone
    <3> DEFINE t2 == Put(t1, key, less)
    <3>1. less \in Nat
      <4>1. \E x \in Range(s.rib[n].routes) : x.face = r.face
        BY <1>3 DEF HasRoute, CompareFaceIdAndOrigin
      <4>2. key \in DOMAIN table /\ table[key] > 0 /\ table[key] \in Nat
        BY <1>3, <2>1, <4>1 DEF IsFaceTable
      <4>3. FaceEntries(s, r.face, n) = table[key]
        BY <4>2 DEF FaceEntries
      <4> HIDE DEF key
      <4> QED BY <4>2, <4>3
    <3>2. EraseFromRib(s, n, r) = [s EXCEPT !.rib = new, !.faceEntries = t2, !.timers = timers]
      BY ZenonT(30), <1>1, <1>3, <2>11 DEF SetFaceEntries, Services
    <3> HIDE DEF less
    <3>3. /\ DOMAIN t2 = entries \cup {key} /\ t2 \in [DOMAIN t2 -> Nat]
          /\ \A x \in entries \ {key} : t2[x] = table[x]
      BY <2>4, <3>1 DEF Put
    <3> HIDE DEF t2
    <3>4. ASSUME NEW c \in DOMAIN new, NEW x \in Range(new[c].routes)
          PROVE  <<x.face, c>> \in DOMAIN t2 /\ t2[<<x.face, c>>] > 0
      <4>1. ~(x.face = r.face /\ c = n)
        BY <2>11 DEF HasFaceId
      <4>2. <<x.face, c>> # key
        BY <4>1
      <4> HIDE DEF key
      <4> QED BY <2>7, <3>3, <4>2
    <3>5. IsFaceTable(t2, new)
      <4>1. IsFiniteSet(DOMAIN t2)
        BY ZenonT(30), <2>6, <3>3, FS_AddElement
      <4>2. DOMAIN t2 \subseteq Nat \X DOMAIN new
        BY <2>1, <2>5, <2>11, <3>3
      <4> QED BY <3>3, <3>4, <4>1, <4>2 DEF IsFaceTable
    <3>6. [s EXCEPT !.rib = new, !.faceEntries = t2, !.timers = timers] \in Services
      BY ZenonT(30), <2>2, <2>3, <3>5, TablesChange
    <3> QED BY <3>2, <3>6
  <2> QED BY <2>10, <2>11
<1> QED BY <1>2, <1>3

\* addInheritedRoute and removeInheritedRoute of an entry.
LEMMA ModifyInheritedKeeps ==
  ASSUME NEW s \in Services, NEW x \in InheritedUpdate
  PROVE  ModifyInherited(s, x) \in Services
<1> DEFINE n == x.name
           e == s.rib[n]
           d == IF x.add THEN AddInherited(e, x.route) ELSE RemoveInherited(e, x.route)
           new == [s.rib EXCEPT ![n] = d]
<1>1. x.route \in Route
  BY DEF InheritedUpdate
<1>2. CASE n \notin DOMAIN s.rib
  BY ZenonT(30), <1>2, OthersChange DEF ModifyInherited
<1>3. CASE n \in DOMAIN s.rib
  <2>1. ModifyInherited(s, x) = [s EXCEPT !.rib = new]
    BY <1>3 DEF ModifyInherited, Services
  <2>2. IsRib(s.rib) /\ IsFaceTable(s.faceEntries, s.rib)
    BY ServiceHas
  <2>3. e \in Entry
    BY <1>3, <2>2 DEF IsRib
  <2> HIDE DEF e
  <2>4. d \in Entry /\ d.routes = e.routes /\ d.parent = e.parent
    <3>1. e.inherited \in Seq(Route)
      BY <2>3 DEF Entry
    <3> DEFINE kept == RemoveAll(e.inherited, {y \in Range(e.inherited) : y.face = x.route.face})
    <3>2. kept \in Seq(Route) /\ Append(e.inherited, x.route) \in Seq(Route)
      BY <1>1, <3>1, RemoveAllThins
    <3>3. d = IF x.add THEN [e EXCEPT !.inherited = Append(e.inherited, x.route)]
              ELSE [e EXCEPT !.inherited = kept]
      BY DEF AddInherited, RemoveInherited
    <3> HIDE DEF kept, d
    <3> QED BY ZenonT(30), <2>3, <3>2, <3>3 DEF Entry
  <2> HIDE DEF d
  <2>5. /\ DOMAIN new = DOMAIN s.rib /\ new \in [DOMAIN s.rib -> Entry]
        /\ \A c \in DOMAIN s.rib : new[c].routes = s.rib[c].routes /\ new[c].parent = s.rib[c].parent
    BY <1>3, <2>2, <2>4 DEF IsRib, e
  <2> HIDE DEF new
  <2>6. IsRib(new)
    <3>1. \A c : FindParent(new, c) = FindParent(s.rib, c)
      BY <2>5 DEF FindParent
    <3> QED BY <2>2, <2>5, <3>1 DEF IsRib
  <2>7. IsFaceTable(s.faceEntries, new)
    BY <2>2, <2>5 DEF IsFaceTable
  <2>8. new \in Tables
    BY <2>6, <2>7, TablesAre
  <2> QED BY <2>1, <2>6, <2>7, <2>8 DEF Services
<1> QED BY <1>2, <1>3

\* modifyInheritedRoutes.
LEMMA ModifyInheritedRoutesKeeps ==
  ASSUME NEW s \in Services, NEW inherited \in Seq(InheritedUpdate)
  PROVE  ModifyInheritedRoutes(s, inherited) \in Services
<1> DEFINE k == Len(inherited)
           loop == [kind |-> "modify", inherited |-> inherited]
           Is(g) == g = [i \in 0 .. k |-> IF i = 0 THEN s ELSE ModifyInherited(g[i - 1], inherited[i])]
           f == CHOOSE g : Is(g)
<1>1. ModifyInheritedRoutes(s, inherited) = f[k]
  BY DEF ModifyInheritedRoutes
<1>2. k \in Nat /\ \A i \in 1 .. k : inherited[i] \in InheritedUpdate
  OBVIOUS
<1>3. \A x, i : Round(loop, x, i) = ModifyInherited(x, inherited[i])
  BY DEF Round
<1> HIDE DEF loop, k
<1>4. \A g : Is(g) <=> IsLoop(g, k, s, loop)
  BY <1>3 DEF IsLoop
<1> HIDE DEF Is
<1>5. IsLoop(f, k, s, loop)
  BY ZenonT(30), <1>2, <1>4, LoopExists
<1> HIDE DEF f
<1>6. \A x \in Services : \A i \in 1 .. k : Round(loop, x, i) \in Services
  BY <1>2, <1>3, ModifyInheritedKeeps
<1>7. f[k] \in Services
  BY ZenonT(30), <1>2, <1>5, <1>6, LoopKeeps
<1> QED BY <1>1, <1>7

\* The commands of a batch.
LEMMA SendKeeps ==
  ASSUME NEW s \in Services, NEW updates \in Seq(FibUpdate), NEW x \in RibUpdate
  PROVE  Send(s, updates, x) \in Services
<1> DEFINE new == [i \in DOMAIN updates |->
                     [add |-> updates[i].add, update |-> updates[i], batch |-> x, nTimeouts |-> 0,
                      reply |-> "none", waiting |-> TRUE]]
<1>1. Send(s, updates, x) = [s EXCEPT !.sent = s.sent \o new]
  BY DEF Send
<1>2. \A i \in DOMAIN updates : updates[i] \in FibUpdate /\ updates[i].add \in BOOLEAN
  <2>1. \A i \in DOMAIN updates : updates[i] \in FibUpdate
    OBVIOUS
  <2>2. \A u \in FibUpdate : u.add \in BOOLEAN
    BY DEF FibUpdate
  <2> QED BY <2>1, <2>2
<1>3. new \in Seq(Command)
  <2>1. \A i \in DOMAIN updates : new[i] \in Command
    BY <1>2 DEF Command
  <2>2. DOMAIN updates = 1 .. Len(updates) /\ Len(updates) \in Nat
    OBVIOUS
  <2> QED BY <2>1, <2>2
<1> HIDE DEF new
<1>4. s.sent \o new \in Seq(Command)
  BY <1>3, ServiceHas
<1> QED BY ZenonT(30), <1>1, <1>4, OthersChange

\* onFibUpdateSuccess, as far as the update itself goes.
LEMMA ApplyUpdateKeeps ==
  ASSUME NEW s \in Services, NEW x \in RibUpdate
  PROVE  ApplyUpdate(s, x) \in Services
<1> DEFINE s1 == IF x.action = "REGISTER" THEN InsertIntoRib(s, x.name, x.route)
                 ELSE EraseFromRib(s, x.name, x.route)
           s2 == ModifyInheritedRoutes(s1, s.updater.inherited)
<1>1. ApplyUpdate(s, x) = [s2 EXCEPT !.inProgress = FALSE]
  BY DEF ApplyUpdate
<1>2. x.name \in Names /\ x.route \in Route
  BY DEF RibUpdate
<1>3. s1 \in Services
  BY <1>2, InsertIntoRibKeeps, EraseFromRibKeeps
<1>4. s.updater.inherited \in Seq(InheritedUpdate)
  BY ServiceHas DEF Updater
<1> HIDE DEF s1
<1>5. s2 \in Services
  BY <1>3, <1>4, ModifyInheritedRoutesKeeps
<1> HIDE DEF s2
<1> QED BY ZenonT(30), <1>1, <1>5, OthersChange

\* The start of an update.
LEMMA SendBatchKeeps ==
  ASSUME NEW s \in Services
  PROVE  SendBatch(s) \in Services
<1> DEFINE x == Head(s.queue)
           s1 == [s EXCEPT !.queue = Tail(@), !.inProgress = TRUE]
           known == x.name \in DOMAIN s1.rib /\ HasRoute(s1.rib[x.name], x.route)
           s2 == IF x.action # "REGISTER" /\ known
                 THEN Cancel(s1, FindRoute(s1.rib[x.name], x.route)) ELSE s1
           s3 == Compute(s1, x)
<1>1. CASE s.queue = <<>> \/ s.inProgress \/ s.crashed
  BY <1>1 DEF SendBatch
<1>2. CASE ~(s.queue = <<>> \/ s.inProgress \/ s.crashed)
  <2>1. SendBatch(s) = SendUpdatesForBatchFaceId(s3, x)
    BY <1>2 DEF SendBatch
  <2>2. x \in RibUpdate /\ Tail(s.queue) \in Seq(RibUpdate)
    BY <1>2, ServiceHas
  <2> HIDE DEF x
  <2>3. s1 \in Services
    BY ZenonT(30), <2>2 DEF Services
  <2> HIDE DEF s1
  <2>4. s3 = [s2 EXCEPT !.updater = ComputeUpdates(s1.rib, x)]
    BY DEF Compute
  <2>5. s2 \in Services
    BY <2>3, CancelKeeps
  <2> HIDE DEF s2, s3
  <2>6. ComputeUpdates(s1.rib, x) \in Updater
    BY <2>2, <2>3, ComputeKeeps, ServiceHas
  <2>7. s3 \in Services
    BY <2>4, <2>5, <2>6, OthersChange
  <2>8. s3.updater.batch \in Seq(FibUpdate) /\ s3.updater.nonBatch \in Seq(FibUpdate)
    BY <2>7, ServiceHas DEF Updater
  <2>9. SendUpdatesForBatchFaceId(s3, x) \in
          {[s3 EXCEPT !.crashed = TRUE], Send(s3, s3.updater.batch, x), Send(s3, s3.updater.nonBatch, x),
           ApplyUpdate(s3, x)}
    BY DEF SendUpdatesForBatchFaceId
  <2>10. [s3 EXCEPT !.crashed = TRUE] \in Services
    BY ZenonT(30), <2>7, OthersChange
  <2>11. /\ Send(s3, s3.updater.batch, x) \in Services /\ Send(s3, s3.updater.nonBatch, x) \in Services
         /\ ApplyUpdate(s3, x) \in Services
    BY <2>2, <2>7, <2>8, SendKeeps, ApplyUpdateKeeps
  <2> QED BY ZenonT(30), <2>1, <2>9, <2>10, <2>11
<1> QED BY <1>1, <1>2

\* sendBatchFromQueue.
LEMMA SendBatchFromQueueKeeps ==
  ASSUME NEW s \in Services
  PROVE  SendBatchFromQueue(s) \in Services
<1> DEFINE k == Len(s.queue)
           loop == [kind |-> "send"]
           Is(g) == g = [i \in 0 .. k |-> IF i = 0 THEN s ELSE SendBatch(g[i - 1])]
           f == CHOOSE g : Is(g)
<1>1. SendBatchFromQueue(s) = f[k]
  BY DEF SendBatchFromQueue
<1>2. k \in Nat
  BY ServiceHas
<1>3. \A x, i : Round(loop, x, i) = SendBatch(x)
  BY DEF Round
<1> HIDE DEF loop, k
<1>4. \A g : Is(g) <=> IsLoop(g, k, s, loop)
  BY <1>3 DEF IsLoop
<1> HIDE DEF Is
<1>5. IsLoop(f, k, s, loop)
  BY <1>2, <1>4, LoopExists
<1> HIDE DEF f
<1>6. \A x \in Services : \A i \in 1 .. k : Round(loop, x, i) \in Services
  BY <1>3, SendBatchKeeps
<1>7. f[k] \in Services
  BY <1>2, <1>5, <1>6, LoopKeeps
<1> QED BY <1>1, <1>7

\* beginApplyUpdate, onFibUpdateSuccess and onFibUpdateFailure.
LEMMA UpdatesKeep ==
  ASSUME NEW s \in Services, NEW x \in RibUpdate
  PROVE  /\ BeginApplyUpdate(s, x) \in Services
         /\ OnFibUpdateSuccess(s, x) \in Services
         /\ OnFibUpdateFailure(s, x) \in Services
<1>1. Append(s.queue, x) \in Seq(RibUpdate) /\ s.failed \cup {x} \in SUBSET RibUpdate
  BY ServiceHas
<1>2. [s EXCEPT !.queue = Append(@, x)] \in Services
  BY ZenonT(30), <1>1, OthersChange
<1>3. [s EXCEPT !.inProgress = FALSE, !.failed = @ \cup {x}] \in Services
  BY ZenonT(30), <1>1 DEF Services
<1>4. ApplyUpdate(s, x) \in Services
  BY ApplyUpdateKeeps
<1> QED BY <1>2, <1>3, <1>4, SendBatchFromQueueKeeps DEF BeginApplyUpdate, OnFibUpdateSuccess, OnFibUpdateFailure

\* enqueueRemoveFace.
LEMMA EnqueueRemoveFaceKeeps ==
  ASSUME NEW s \in Services, NEW k \in DOMAIN s.faceEntries
  PROVE  LET d == EnqueueRemoveFace(s, k)
         IN  d \in Services /\ d.faceEntries = s.faceEntries
<1> DEFINE e == s.rib[k[2]]
           routes == OnFace(e, k[1])
           updates == [i \in DOMAIN routes |-> Update("REMOVE_FACE", k[2], routes[i])]
           n == s.faceEntries[k]
           loop == [kind |-> "repeat", updates |-> updates]
           Is(g) == g = [i \in 0 .. n |-> IF i = 0 THEN s.queue ELSE g[i - 1] \o updates]
           f == CHOOSE g : Is(g)
<1>1. EnqueueRemoveFace(s, k) = [s EXCEPT !.queue = f[n]]
  BY DEF EnqueueRemoveFace
<1>2. n \in Nat /\ k[2] \in Names /\ k[2] \in DOMAIN s.rib /\ e \in Entry
  BY ServiceHas DEF IsFaceTable, IsRib
<1>3. routes \in Seq(Route)
  BY <1>2, OnFaceRoutes DEF Entry
<1> HIDE DEF e, routes, n
<1>4. updates \in Seq(RibUpdate)
  <2>1. \A i \in DOMAIN routes : routes[i] \in Route
    BY <1>3
  <2>2. \A i \in DOMAIN routes : updates[i] \in RibUpdate
    BY <1>2, <2>1 DEF Update, RibUpdate
  <2>3. DOMAIN routes = 1 .. Len(routes) /\ Len(routes) \in Nat
    BY <1>3
  <2> QED BY <2>2, <2>3
<1> HIDE DEF updates
<1>5. \A x, i : Round(loop, x, i) = x \o updates
  BY DEF Round
<1> HIDE DEF loop
<1>6. \A g : Is(g) <=> IsLoop(g, n, s.queue, loop)
  BY ZenonT(30), <1>5 DEF IsLoop
<1> HIDE DEF Is
<1>7. IsLoop(f, n, s.queue, loop)
  BY <1>2, <1>6, LoopExists
<1> HIDE DEF f
<1>8. \A x \in Seq(RibUpdate) : \A i \in 1 .. n : Round(loop, x, i) \in Seq(RibUpdate)
  <2>1. \A x \in Seq(RibUpdate) : x \o updates \in Seq(RibUpdate)
    BY <1>4
  <2> QED BY <1>5, <2>1, ZenonT(30)
<1>9. s.queue \in Seq(RibUpdate)
  BY ServiceHas
<1>10. f[n] \in Seq(RibUpdate)
  BY ZenonT(30), <1>2, <1>7, <1>8, <1>9, LoopKeeps
<1>11. EnqueueRemoveFace(s, k) \in Services
  BY <1>1, <1>10, OthersChange
<1>12. EnqueueRemoveFace(s, k).faceEntries = s.faceEntries
  BY <1>1 DEF Services
<1> QED BY <1>11, <1>12

\* The states of the loop over the entries of destroyed faces.
Enqueueing == {x \in [s : Services, rest : SUBSET (Nat \X Names)] : x.rest \subseteq DOMAIN x.s.faceEntries}

\* beginRemoveFace and beginRemoveFailedFaces.
LEMMA RemoveFacesKeeps ==
  ASSUME NEW s \in Services, NEW gone
  PROVE  BeginRemoveFaces(s, gone) \in Services
<1> DEFINE entries == {k \in DOMAIN s.faceEntries : k[1] \in gone}
           n == Cardinality(entries)
           e == [s |-> s, rest |-> entries]
           loop == [kind |-> "enqueue"]
           Is(g) == g = [i \in 0 .. n |-> IF i = 0 THEN e ELSE EnqueueNext(g[i - 1])]
           f == CHOOSE g : Is(g)
<1>1. EnqueueAll(s, entries) = f[n].s
  BY DEF EnqueueAll
<1>2. BeginRemoveFaces(s, gone) = SendBatchFromQueue(EnqueueAll(s, entries))
  BY DEF BeginRemoveFaces
<1>3. entries \subseteq DOMAIN s.faceEntries
  OBVIOUS
<1> HIDE DEF entries
<1>4. /\ IsFiniteSet(DOMAIN s.faceEntries) /\ entries \in SUBSET (Nat \X Names)
  BY <1>3, ServiceHas DEF IsFaceTable, IsRib
<1>5. n \in Nat
  BY <1>3, <1>4, FS_Subset, FS_CardinalityType
<1>6. e \in Enqueueing
  BY <1>3, <1>4 DEF Enqueueing
<1>7. \A x, i : Round(loop, x, i) = EnqueueNext(x)
  BY DEF Round
<1> HIDE DEF loop, n, e
<1>8. \A g : Is(g) <=> IsLoop(g, n, e, loop)
  BY <1>7 DEF IsLoop
<1> HIDE DEF Is
<1>9. IsLoop(f, n, e, loop)
  BY <1>5, <1>8, LoopExists
<1> HIDE DEF f
<1>10. ASSUME NEW x \in Enqueueing PROVE EnqueueNext(x) \in Enqueueing
  <2>1. x.s \in Services /\ x.rest \in SUBSET (Nat \X Names) /\ x.rest \subseteq DOMAIN x.s.faceEntries
    BY DEF Enqueueing
  <2>2. CASE x.rest = {}
    BY <2>2 DEF EnqueueNext
  <2>3. CASE x.rest # {}
    <3> DEFINE k == CHOOSE y \in x.rest : TRUE
               d == EnqueueRemoveFace(x.s, k)
    <3>1. EnqueueNext(x) = [s |-> d, rest |-> x.rest \ {k}]
      BY <2>3 DEF EnqueueNext
    <3>2. k \in DOMAIN x.s.faceEntries
      BY <2>1, <2>3
    <3> HIDE DEF k
    <3>3. d \in Services /\ d.faceEntries = x.s.faceEntries
      BY <2>1, <3>2, EnqueueRemoveFaceKeeps
    <3> HIDE DEF d
    <3> QED BY <2>1, <3>1, <3>3 DEF Enqueueing
  <2> QED BY <2>2, <2>3
<1>11. \A x \in Enqueueing : \A i \in 1 .. n : Round(loop, x, i) \in Enqueueing
  BY <1>7, <1>10
<1>12. f[n] \in Enqueueing
  BY <1>5, <1>6, <1>9, <1>11, LoopKeeps
<1>13. EnqueueAll(s, entries) \in Services
  BY <1>1, <1>12 DEF Enqueueing
<1> QED BY <1>2, <1>13, SendBatchFromQueueKeeps

\* onUpdateSuccess, onUpdateError and the time-outs of fib-updater.cpp.
LEMMA AnswersKeep ==
  ASSUME NEW s \in Services, NEW c \in Command
  PROVE  /\ OnUpdateSuccess(s, c) \in Services
         /\ OnFaceNotFound(s, c) \in Services
         /\ OnUpdateTimeout(s, c) \in Services
<1> DEFINE b == Without(s.updater.batch, c.update)
           nb == Without(s.updater.nonBatch, c.update)
           s1 == [s EXCEPT !.updater.batch = b]
           s2 == [s EXCEPT !.updater.nonBatch = nb]
<1>1. c.batch \in RibUpdate /\ c.update \in FibUpdate
  BY DEF Command
<1>2. s.updater \in Updater /\ s.updater.batch \in Seq(FibUpdate) /\ s.updater.nonBatch \in Seq(FibUpdate)
  BY ServiceHas DEF Updater
<1>3. b \in Seq(FibUpdate) /\ nb \in Seq(FibUpdate)
  BY <1>2, RemoveAllThins DEF Without
<1> HIDE DEF b, nb
<1>4. [s.updater EXCEPT !.batch = b] \in Updater /\ [s.updater EXCEPT !.nonBatch = nb] \in Updater
  BY ZenonT(30), <1>2, <1>3 DEF Updater
<1>5. s1 = [s EXCEPT !.updater = [s.updater EXCEPT !.batch = b]]
      /\ s2 = [s EXCEPT !.updater = [s.updater EXCEPT !.nonBatch = nb]]
  BY DEF Services
<1>6. s1 \in Services /\ s2 \in Services
  BY <1>4, <1>5, OthersChange
<1>7. OnUpdateSuccess(s, c) \in {s1, Send(s1, s1.updater.nonBatch, c.batch), s2,
                                 OnFibUpdateSuccess(s1, c.batch), OnFibUpdateSuccess(s2, c.batch)}
  BY DEF OnUpdateSuccess, b, nb
<1>8. OnFaceNotFound(s, c) \in {OnFibUpdateFailure(s, c.batch), s2, OnFibUpdateSuccess(s2, c.batch)}
  BY DEF OnFaceNotFound, nb
<1> HIDE DEF s1, s2
<1>9. s1.updater.nonBatch \in Seq(FibUpdate)
  BY <1>6, ServiceHas DEF Updater
<1>10. Send(s1, s1.updater.nonBatch, c.batch) \in Services
  BY <1>1, <1>6, <1>9, SendKeeps
<1>11. /\ OnFibUpdateSuccess(s1, c.batch) \in Services /\ OnFibUpdateSuccess(s2, c.batch) \in Services
       /\ OnFibUpdateFailure(s, c.batch) \in Services
  BY <1>1, <1>6, UpdatesKeep
<1>12. OnUpdateTimeout(s, c) \in Services
  <2> DEFINE again == [c EXCEPT !.add = TRUE, !.nTimeouts = @ + 1, !.reply = "none"]
  <2>1. again \in Command
    <3>1. c.nTimeouts + 1 \in Nat
      BY DEF Command
    <3> DEFINE m == c.nTimeouts + 1
    <3> HIDE DEF m
    <3>2. m \in Nat /\ again = [c EXCEPT !.add = TRUE, !.nTimeouts = m, !.reply = "none"]
      BY <3>1 DEF m
    <3> HIDE DEF again
    <3> QED BY ZenonT(30), <3>2 DEF Command
  <2> HIDE DEF again
  <2>2. Append(s.sent, again) \in Seq(Command)
    BY <2>1, ServiceHas
  <2>3. [s EXCEPT !.sent = Append(s.sent, again)] \in Services /\ [s EXCEPT !.crashed = TRUE] \in Services
    BY ZenonT(30), <2>2, OthersChange
  <2> QED BY <2>3 DEF OnUpdateTimeout, again
<1> QED BY <1>6, <1>7, <1>8, <1>10, <1>11, <1>12

----------------------------------------------------------------------------
(* The invariant                                                           *)

\* What holds between two steps of the service and the forwarder.
IInv ==
  /\ scenario \in Scenario
  /\ svc \in Services
  /\ commands \in Seq(Command)
  /\ \A k \in DOMAIN fib : k[2] \in faces /\ fib[k] \in Nat
  /\ requests \in 0 .. scenario.requests

\* The empty tables.
LEMMA InitIInv == Init => IInv
<1> SUFFICES ASSUME Init PROVE IInv
  OBVIOUS
<1>1. IsRib(<<>>) /\ IsFaceTable(<<>>, <<>>)
  <2>1. DOMAIN <<>> = {} /\ \A S : <<>> \in [{} -> S]
    OBVIOUS
  <2> QED BY <2>1, FS_EmptySet DEF IsRib, IsFaceTable
<1>2. <<>> \in Tables /\ <<>> \in FaceTables
  BY <1>1, TablesAre
<1>3. NewUpdater(0) \in Updater
  BY DEF NewUpdater, Updater
<1>4. svc = [rib |-> <<>>, faceEntries |-> <<>>, queue |-> <<>>, inProgress |-> FALSE,
             updater |-> NewUpdater(0), timers |-> {}, crashed |-> FALSE,
             failed |-> {}, sent |-> <<>>]
  BY DEF Init
<1>5. svc \in Services
  BY <1>1, <1>2, <1>3, <1>4 DEF Services
<1>6. scenario \in Scenario /\ scenario.requests \in Nat /\ requests = 0
  BY ScenarioAssumption DEF Init
<1>7. commands \in Seq(Command) /\ DOMAIN fib = {}
  BY DEF Init
<1> QED BY <1>5, <1>6, <1>7 DEF IInv

\* What a step of the service leaves.
LEMMA ServiceStep ==
  ASSUME NEW s \in Services, NEW pending \in Seq(Command), Service(s, pending)
  PROVE  svc' \in Services /\ commands' \in Seq(Command)
<1>1. s.sent \in Seq(Command) /\ <<>> \in Seq(Command)
  BY ServiceHas
<1>2. [s EXCEPT !.sent = <<>>] \in Services
  BY ZenonT(30), <1>1, OthersChange
<1> QED BY <1>1, <1>2 DEF Service

\* An offer of the scenario is made of numbers and flags.
LEMMA OffersAre ==
  ASSUME IInv, NEW o \in scenario.offers \cup scenario.withdrawals
  PROVE  /\ o.name \in Names /\ o.face \in Nat /\ o.origin \in Nat /\ o.cost \in Nat
         /\ o.inherit \in BOOLEAN /\ o.capture \in BOOLEAN /\ o.expires \in BOOLEAN
BY ZenonT(30), ScenarioAssumption DEF IInv, Names

\* A command on a route.
LEMMA RegisterKeeps ==
  ASSUME IInv, NEW o \in scenario.offers, Register(o)
  PROVE  IInv'
<1> DEFINE event == IF o.expires THEN {requests} ELSE {}
           route == [face |-> o.face, origin |-> o.origin, cost |-> o.cost,
                     inherit |-> o.inherit, capture |-> o.capture, event |-> event]
           timer == {[event |-> e, name |-> o.name, route |-> route] : e \in event}
           s1 == [svc EXCEPT !.timers = @ \cup timer]
           x == Update("REGISTER", o.name, route)
<1>1. /\ requests < scenario.requests /\ requests' = requests + 1
      /\ Service(BeginApplyUpdate(s1, x), commands)
      /\ UNCHANGED <<scenario, faces, fib, notices, dataset, timeouts>>
  BY DEF Register
<1>2. scenario \in Scenario /\ scenario.requests \in Nat /\ requests \in Nat /\ svc \in Services
  BY ScenarioAssumption DEF IInv
<1>3. event \in SUBSET Nat
  BY <1>2
<1> HIDE DEF event
<1>4. route \in Route
  BY <1>3, OffersAre DEF Route
<1> HIDE DEF route
<1>5. timer \in SUBSET Timer
  BY <1>3, <1>4, OffersAre DEF Timer
<1>6. x \in RibUpdate
  BY <1>4, OffersAre DEF Update, RibUpdate
<1> HIDE DEF timer, x
<1>7. svc.timers \cup timer \in SUBSET Timer
  BY <1>2, <1>5, ServiceHas
<1>8. s1 \in Services
  BY ZenonT(30), <1>2, <1>7, OthersChange
<1> HIDE DEF s1
<1>9. BeginApplyUpdate(s1, x) \in Services
  BY <1>6, <1>8, UpdatesKeep
<1>10. svc' \in Services /\ commands' \in Seq(Command)
  BY <1>1, <1>9, ServiceStep DEF IInv
<1>11. requests' \in 0 .. scenario'.requests
  BY <1>1, <1>2
<1> QED BY <1>1, <1>10, <1>11 DEF IInv

\* The same for a withdrawal.
LEMMA UnregisterKeeps ==
  ASSUME IInv, NEW o \in scenario.withdrawals, Unregister(o)
  PROVE  IInv'
<1> DEFINE route == [face |-> o.face, origin |-> o.origin, cost |-> 0,
                     inherit |-> FALSE, capture |-> FALSE, event |-> {}]
           x == Update("UNREGISTER", o.name, route)
<1>1. /\ requests < scenario.requests /\ requests' = requests + 1
      /\ Service(BeginApplyUpdate(svc, x), commands)
      /\ UNCHANGED <<scenario, faces, fib, notices, dataset, timeouts>>
  BY DEF Unregister
<1>2. scenario \in Scenario /\ scenario.requests \in Nat /\ requests \in Nat /\ svc \in Services
  BY ScenarioAssumption DEF IInv
<1>3. route \in Route
  BY OffersAre DEF Route
<1> HIDE DEF route
<1>4. x \in RibUpdate
  BY <1>3, OffersAre DEF Update, RibUpdate
<1> HIDE DEF x
<1>5. BeginApplyUpdate(svc, x) \in Services
  BY <1>2, <1>4, UpdatesKeep
<1>6. svc' \in Services /\ commands' \in Seq(Command)
  BY <1>1, <1>5, ServiceStep DEF IInv
<1>7. requests' \in 0 .. scenario'.requests
  BY <1>1, <1>2
<1> QED BY <1>1, <1>6, <1>7 DEF IInv

\* An expiration.
LEMMA ExpirationKeeps ==
  ASSUME IInv, NEW t \in svc.timers, OnRouteExpiration(t)
  PROVE  IInv'
<1> DEFINE s1 == [svc EXCEPT !.timers = @ \ {t}]
           x == Update("UNREGISTER", t.name, t.route)
<1>1. /\ Service(BeginApplyUpdate(s1, x), commands)
      /\ UNCHANGED <<scenario, faces, fib, notices, dataset, requests, timeouts>>
  BY DEF OnRouteExpiration
<1>2. svc \in Services /\ svc.timers \ {t} \in SUBSET Timer /\ t \in Timer
  BY ServiceHas DEF IInv
<1>3. s1 \in Services
  BY <1>2, OthersChange
<1>4. x \in RibUpdate
  BY <1>2 DEF Timer, Update, RibUpdate
<1> HIDE DEF s1, x
<1>5. BeginApplyUpdate(s1, x) \in Services
  BY <1>3, <1>4, UpdatesKeep
<1>6. svc' \in Services /\ commands' \in Seq(Command)
  BY <1>1, <1>5, ServiceStep DEF IInv
<1> QED BY <1>1, <1>6 DEF IInv

\* A notification of a destroyed face, and a dataset of faces.
LEMMA FaceEventsKeep ==
  ASSUME IInv, (\E f \in notices : OnNotification(f)) \/ RemoveInvalidFaces
  PROVE  IInv'
<1>1. PICK gone : /\ Service(BeginRemoveFaces(svc, gone), commands)
                  /\ UNCHANGED <<scenario, faces, fib, requests, timeouts>>
  <2>1. CASE \E f \in notices : OnNotification(f)
    BY <2>1 DEF OnNotification
  <2>2. CASE RemoveInvalidFaces
    BY <2>2 DEF RemoveInvalidFaces
  <2> QED BY <2>1, <2>2
<1>2. BeginRemoveFaces(svc, gone) \in Services
  BY RemoveFacesKeeps DEF IInv
<1>3. svc' \in Services /\ commands' \in Seq(Command)
  BY <1>1, <1>2, ServiceStep DEF IInv
<1> QED BY <1>1, <1>3 DEF IInv

\* An answer.
LEMMA ReplyKeeps ==
  ASSUME IInv, OnReply
  PROVE  IInv'
<1> DEFINE c == Head(commands)
           s == CASE ~c.waiting -> svc
                  [] c.waiting /\ c.reply = "ok" -> OnUpdateSuccess(svc, c)
                  [] c.waiting /\ c.reply = "gone" -> OnFaceNotFound(svc, c)
<1>1. /\ commands # <<>> /\ c.reply # "none" /\ Service(s, Tail(commands))
      /\ UNCHANGED <<scenario, faces, fib, notices, dataset, requests, timeouts>>
  BY ZenonT(30) DEF OnReply
<1>2. c \in Command /\ Tail(commands) \in Seq(Command) /\ svc \in Services
  BY <1>1 DEF IInv
<1> HIDE DEF c
<1>3. c.waiting \in BOOLEAN /\ c.reply \in {"ok", "gone"}
  BY <1>1, <1>2 DEF Command
<1>4. s \in {svc, OnUpdateSuccess(svc, c), OnFaceNotFound(svc, c)}
  BY <1>3
<1> HIDE DEF s
<1>5. s \in Services
  BY <1>2, <1>4, AnswersKeep
<1>6. svc' \in Services /\ commands' \in Seq(Command)
  BY ZenonT(30), <1>1, <1>2, <1>5, ServiceStep
<1> QED BY <1>1, <1>6 DEF IInv

\* A command with another reply, or not waited for, is a command.
LEMMA CommandChange ==
  ASSUME NEW q \in Seq(Command), NEW i \in DOMAIN q
  PROVE  /\ \A a \in {"none", "ok", "gone"} : [q EXCEPT ![i].reply = a] \in Seq(Command)
         /\ [q EXCEPT ![i].waiting = FALSE] \in Seq(Command)
<1>1. q[i] \in Command
  OBVIOUS
<1>2. /\ \A a \in {"none", "ok", "gone"} : [q[i] EXCEPT !.reply = a] \in Command
      /\ [q[i] EXCEPT !.waiting = FALSE] \in Command
  BY ZenonT(30), <1>1 DEF Command
<1>3. \A c \in Command : [q EXCEPT ![i] = c] \in Seq(Command)
  OBVIOUS
<1> QED BY <1>2, <1>3

\* The service stops waiting.
LEMMA TimeoutKeeps ==
  ASSUME IInv, NEW i \in DOMAIN commands, OnTimeout(i)
  PROVE  IInv'
<1>1. /\ Service(OnUpdateTimeout(svc, commands[i]), [commands EXCEPT ![i].waiting = FALSE])
      /\ UNCHANGED <<scenario, faces, fib, notices, dataset, requests>>
  BY DEF OnTimeout
<1>2. commands[i] \in Command /\ svc \in Services /\ [commands EXCEPT ![i].waiting = FALSE] \in Seq(Command)
  <2>1. commands \in Seq(Command) /\ svc \in Services
    BY DEF IInv
  <2>2. commands[i] \in Command
    BY <2>1
  <2>3. [commands EXCEPT ![i].waiting = FALSE] \in Seq(Command)
    BY ZenonT(30), <2>1, CommandChange
  <2> QED BY <2>1, <2>2, <2>3
<1>3. OnUpdateTimeout(svc, commands[i]) \in Services
  BY <1>2, AnswersKeep
<1>4. svc' \in Services /\ commands' \in Seq(Command)
  BY ZenonT(30), <1>1, <1>2, <1>3, ServiceStep
<1> QED BY <1>1, <1>4 DEF IInv

\* The forwarder executes a command.
LEMMA ExecuteKeeps ==
  ASSUME IInv, ExecuteCommand
  PROVE  IInv'
<1>1. PICK i \in DOMAIN commands :
        LET c == commands[i]
            key == <<c.update.name, c.update.face>>
            live == c.update.face \in faces
        IN  /\ commands' = [commands EXCEPT ![i].reply = IF live \/ ~c.add THEN "ok" ELSE "gone"]
            /\ fib' = CASE live /\ c.add  -> Put(fib, key, c.update.cost)
                        [] live /\ ~c.add -> Restrict(fib, DOMAIN fib \ {key})
                        [] ~live -> fib
            /\ UNCHANGED <<scenario, svc, faces, notices, dataset, requests, timeouts>>
  BY ZenonT(30) DEF ExecuteCommand
<1> DEFINE c == commands[i]
           key == <<c.update.name, c.update.face>>
           live == c.update.face \in faces
<1>2. /\ commands' \in {[commands EXCEPT ![i].reply = "ok"], [commands EXCEPT ![i].reply = "gone"]}
      /\ fib' = CASE live /\ c.add  -> Put(fib, key, c.update.cost)
                  [] live /\ ~c.add -> Restrict(fib, DOMAIN fib \ {key})
                  [] ~live -> fib
      /\ UNCHANGED <<scenario, svc, faces, requests>>
  BY ZenonT(30), <1>1
<1>3. c \in Command /\ commands' \in Seq(Command)
  <2>1. commands \in Seq(Command)
    BY DEF IInv
  <2>2. c \in Command
    BY <2>1
  <2>3. [commands EXCEPT ![i].reply = "ok"] \in Seq(Command) /\ [commands EXCEPT ![i].reply = "gone"] \in Seq(Command)
    BY ZenonT(30), <2>1, CommandChange
  <2> QED BY ZenonT(30), <1>2, <2>2, <2>3
<1> HIDE DEF c
<1>4. c.add \in BOOLEAN /\ c.update.cost \in Nat
  BY <1>3 DEF Command, FibUpdate
<1>5. \A k \in DOMAIN fib : k[2] \in faces /\ fib[k] \in Nat
  BY DEF IInv
<1>6. \A k \in DOMAIN fib' : k[2] \in faces /\ fib'[k] \in Nat
  <2>1. CASE live /\ c.add
    <3>1. fib' = Put(fib, key, c.update.cost)
      BY <1>2, <2>1
    <3> QED BY <1>4, <1>5, <2>1, <3>1 DEF Put
  <2>2. CASE live /\ ~c.add
    <3>1. fib' = Restrict(fib, DOMAIN fib \ {key})
      BY <1>2, <2>2
    <3> QED BY <1>5, <3>1 DEF Restrict
  <2>3. CASE ~live
    BY <1>2, <1>5, <2>3
  <2> QED BY <1>4, <2>1, <2>2, <2>3
<1> QED BY ZenonT(30), <1>2, <1>3, <1>6 DEF IInv

\* Every step keeps the invariant.
LEMMA NextKeeps ==
  ASSUME IInv, [Next]_vars
  PROVE  IInv'
<1>1. CASE \E o \in scenario.offers : Register(o)
  BY <1>1, RegisterKeeps
<1>2. CASE \E o \in scenario.withdrawals : Unregister(o)
  BY <1>2, UnregisterKeeps
<1>3. CASE \E t \in svc.timers : OnRouteExpiration(t)
  BY <1>3, ExpirationKeeps
<1>4. CASE (\E f \in notices : OnNotification(f)) \/ RemoveInvalidFaces
  BY <1>4, FaceEventsKeep
<1>5. CASE \E f \in faces : DestroyFace(f)
  <2>1. PICK f \in faces : DestroyFace(f)
    BY <1>5
  <2> QED BY <2>1 DEF DestroyFace, IInv, Restrict
<1>6. CASE FetchActiveFaces
  BY <1>6 DEF FetchActiveFaces, IInv
<1>7. CASE ExecuteCommand
  BY <1>7, ExecuteKeeps
<1>8. CASE OnReply
  BY <1>8, ReplyKeeps
<1>9. CASE \E i \in DOMAIN commands : OnTimeout(i)
  BY <1>9, TimeoutKeeps
<1>10. CASE UNCHANGED vars
  BY <1>10 DEF vars, IInv
<1> QED BY ZenonT(30), <1>1, <1>2, <1>3, <1>4, <1>5, <1>6, <1>7, <1>8, <1>9, <1>10 DEF Next

\* The invariant says more than the type.
LEMMA IInvIsTyped ==
  ASSUME IInv
  PROVE  TypeOK
<1>1. IsRib(svc.rib) /\ IsFaceTable(svc.faceEntries, svc.rib)
  BY ServiceHas DEF IInv
<1>2. ASSUME NEW n \in DOMAIN svc.rib
      PROVE  LET e == svc.rib[n]
             IN  /\ e.routes # <<>> /\ e.nCapture \in 0..CountModulus-1
                 /\ \A i, j \in DOMAIN e.routes :
                      CompareFaceIdAndOrigin(e.routes[i], e.routes[j]) => i = j
                 /\ e.parent = FindParent(svc.rib, n)
                 /\ \A f \in FacesOf(e) : FaceEntries(svc, f, n) > 0
  <2> DEFINE e == svc.rib[n]
  <2>1. e \in Entry /\ e.routes # <<>> /\ Distinct(e.routes) /\ e.parent = FindParent(svc.rib, n)
    BY <1>1 DEF IsRib
  <2>2. e.nCapture \in 0..CountModulus-1
    BY <2>1 DEF Entry
  <2>3. \A f \in FacesOf(e) : FaceEntries(svc, f, n) > 0
    BY <1>1 DEF IsFaceTable, FacesOf, FaceEntries
  <2> QED BY <2>1, <2>2, <2>3 DEF Distinct
<1> QED BY ZenonT(30), <1>2 DEF IInv, TypeOK

\* Whatever commands, expirations, answers, time-outs and face events come, and in which
\* order, the entries of the RIB form the tree of their names' prefixes, each has routes, at
\* most one for each face and origin, every route is found from its face, and the FIB has
\* only nexthops on existing faces.
THEOREM RibKeepsItsForm == Spec => []TypeOK
<1>1. Init => IInv
  BY InitIInv
<1>2. IInv /\ [Next]_vars => IInv'
  BY NextKeeps
<1>3. IInv => TypeOK
  BY IInvIsTyped
<1> QED BY <1>1, <1>2, <1>3, PTL DEF Spec
=============================================================================
