----------------------------- MODULE RibService -----------------------------
(***************************************************************************)
(* The RIB service: RibManager (mgmt/rib-manager.cpp) turns commands,      *)
(* expirations and face events into updates of the Rib (rib/rib.cpp),      *)
(* which applies them one at a time; FibUpdater (rib/fib-updater.cpp)      *)
(* sends the FIB updates of each to the forwarder and waits for the        *)
(* answers; FibManager (mgmt/fib-manager.cpp) executes them on the FIB.    *)
(*                                                                         *)
(* The service runs in a thread of its own.  It talks to the forwarder     *)
(* through a stream socket, so commands are executed and answered in the   *)
(* order sent; an answer may come after the service has stopped waiting.   *)
(*                                                                         *)
(* svc is the state of the service, the rest that of the forwarder, what   *)
(* is under way between them, and counters that bound the inputs.          *)
(***************************************************************************)
EXTENDS FibUpdater

CONSTANTS
  Face,         \* all faces, positive numbers
  Scenario,     \* the instances: offers, faces, limits on inputs
  MaxTimeouts   \* MAX_NUM_TIMEOUTS

VARIABLES
  scenario,
  svc,        \* rib, faceEntries, queue, inProgress, updater, timers, crashed,
              \* and the updates that failed
  commands,   \* commands sent and not answered, oldest first
  faces,      \* the faces of the forwarder
  fib,        \* costs of nexthops, by name and face
  notices,    \* notifications of destroyed faces under way
  dataset,    \* face dataset under way: a set with at most one set of faces
  requests,   \* commands received
  timeouts    \* answers not waited for

vars == <<scenario, svc, commands, faces, fib, notices, dataset, requests, timeouts>>

ASSUME TimeoutAssumption == MaxTimeouts \in Nat

ASSUME ScenarioAssumption ==
  /\ Face \subseteq Nat
  /\ \A s \in Scenario :
       /\ s.requests \in Nat
       /\ \A o \in s.offers \cup s.withdrawals :
            /\ o.name \in Seq(Nat) /\ o.face \in Face /\ o.origin \in Nat
            /\ o.cost \in Nat /\ o.inherit \in BOOLEAN /\ o.capture \in BOOLEAN /\ o.expires \in BOOLEAN

Update(action, n, r) == [action |-> action, name |-> n, route |-> r]

-----------------------------------------------------------------------------
(* Rib: operators on the state s of the service, of which "sent" collects   *)
(* the commands of the step.                                                *)

FaceEntries(s, f, n) ==
  IF <<f, n>> \in DOMAIN s.faceEntries THEN s.faceEntries[<<f, n>>] ELSE 0

SetFaceEntries(s, f, n, k) == [s EXCEPT !.faceEntries = Put(@, <<f, n>>, k)]

Cancel(s, r) == [s EXCEPT !.timers = {t \in @ : t.event \notin r.event}]

InsertIntoRib(s, n, r) ==
  LET known == n \in DOMAIN s.rib /\ HasRoute(s.rib[n], r)
      s1 == IF known THEN Cancel(s, FindRoute(s.rib[n], r))
            ELSE SetFaceEntries(s, r.face, n, FaceEntries(s, r.face, n) + 1)
  IN  [s1 EXCEPT !.rib = Insert(@, n, r)]

(* An entry stays in the face table once for each route it ever had on the  *)
(* face, less one when the last of them goes.  What remains of an erased    *)
(* entry has no routes and is never used.                                   *)
EraseFromRib(s, n, r) ==
  LET old == FindRoute(s.rib[n], r)
      rib == Erase(s.rib, n, r)
      entries == {k \in DOMAIN s.faceEntries : n \in DOMAIN rib \/ k[2] # n}
      s1 == [Cancel(s, old) EXCEPT !.rib = rib, !.faceEntries = Restrict(@, entries)]
  IN  IF n \notin DOMAIN s.rib \/ ~HasRoute(s.rib[n], r) THEN s
      ELSE IF n \notin DOMAIN rib \/ HasFaceId(rib[n], r.face) THEN s1
      ELSE SetFaceEntries(s1, r.face, n, FaceEntries(s, r.face, n) - 1)

(* modifyInheritedRoutes dereferences end() for a name that has no entry. *)
ModifyInherited(s, x) ==
  IF x.name \notin DOMAIN s.rib THEN [s EXCEPT !.crashed = TRUE]
  ELSE [s EXCEPT !.rib[x.name] = IF x.add THEN AddInherited(@, x.route) ELSE RemoveInherited(@, x.route)]

ModifyInheritedRoutes(s, inherited) ==
  LET f[i \in 0 .. Len(inherited)] == IF i = 0 THEN s ELSE ModifyInherited(f[i - 1], inherited[i])
  IN  f[Len(inherited)]

Send(s, updates, x) ==
  [s EXCEPT !.sent = @ \o [i \in DOMAIN updates |->
     [add |-> updates[i].add, update |-> updates[i], batch |-> x, nTimeouts |-> 0,
      reply |-> "none", waiting |-> TRUE]]]

ApplyUpdate(s, x) ==
  LET s1 == IF x.action = "REGISTER" THEN InsertIntoRib(s, x.name, x.route)
                                     ELSE EraseFromRib(s, x.name, x.route)
  IN  [ModifyInheritedRoutes(s1, s.updater.inherited) EXCEPT !.inProgress = FALSE]

(* computeUpdatesForUnregistration erases the route from a copy of the      *)
(* entry; the copy shares the expiration event, which is thereby cancelled. *)
Compute(s, x) ==
  LET known == x.name \in DOMAIN s.rib /\ HasRoute(s.rib[x.name], x.route)
      s1 == IF x.action # "REGISTER" /\ known
            THEN Cancel(s, FindRoute(s.rib[x.name], x.route)) ELSE s
  IN  [s1 EXCEPT !.updater = ComputeUpdates(s.rib, x)]

(* An update that needs no change of the FIB succeeds at once. *)
SendUpdatesForBatchFaceId(s, x) ==
  CASE s.updater.fault -> [s EXCEPT !.crashed = TRUE]
    [] ~s.updater.fault /\ s.updater.batch # <<>> -> Send(s, s.updater.batch, x)
    [] ~s.updater.fault /\ s.updater.batch = <<>> /\ s.updater.nonBatch # <<>> ->
         Send(s, s.updater.nonBatch, x)
    [] OTHER -> ApplyUpdate(s, x)

SendBatch(s) ==
  IF s.queue = <<>> \/ s.inProgress \/ s.crashed THEN s
  ELSE SendUpdatesForBatchFaceId(Compute([s EXCEPT !.queue = Tail(@), !.inProgress = TRUE],
                           Head(s.queue)), Head(s.queue))

(* sendBatchFromQueue, which the success of an update calls again. *)
SendBatchFromQueue(s) ==
  LET f[i \in 0 .. Len(s.queue)] == IF i = 0 THEN s ELSE SendBatch(f[i - 1])
  IN  f[Len(s.queue)]

OnFibUpdateSuccess(s, x) == SendBatchFromQueue(ApplyUpdate(s, x))

OnFibUpdateFailureLast(s, x) ==
  [s EXCEPT !.inProgress = FALSE, !.failed = @ \cup {x}]

OnFibUpdateFailure(s, x) ==
  SendBatchFromQueue([s EXCEPT !.inProgress = FALSE, !.failed = @ \cup {x}])

BeginApplyUpdate(s, x) == SendBatchFromQueue([s EXCEPT !.queue = Append(@, x)])

(* One REMOVE_FACE update for each route on the face, as often as the face  *)
(* table has the entry.                                                     *)
EnqueueRemoveFace(s, k) ==
  LET routes == OnFace(s.rib[k[2]], k[1])
      updates == [i \in DOMAIN routes |-> Update("REMOVE_FACE", k[2], routes[i])]
      f[i \in 0 .. s.faceEntries[k]] == IF i = 0 THEN s.queue ELSE f[i - 1] \o updates
  IN  [s EXCEPT !.queue = f[s.faceEntries[k]]]

EnqueueNext(x) ==
  LET k == CHOOSE k \in x.rest : TRUE
  IN  IF x.rest = {} THEN x ELSE [s |-> EnqueueRemoveFace(x.s, k), rest |-> x.rest \ {k}]

EnqueueAll(s, entries) ==
  LET f[i \in 0 .. Cardinality(entries)] ==
        IF i = 0 THEN [s |-> s, rest |-> entries] ELSE EnqueueNext(f[i - 1])
  IN  f[Cardinality(entries)].s

BeginRemoveFacesAlive(s, gone) ==
  SendBatchFromQueue(EnqueueAll(s, {k \in DOMAIN s.faceEntries : k[1] \notin gone}))

BeginRemoveFaces(s, gone) ==
  SendBatchFromQueue(EnqueueAll(s, {k \in DOMAIN s.faceEntries : k[1] \in gone}))

-----------------------------------------------------------------------------
(* FibUpdater: the answers.  The callbacks know the batch they were made    *)
(* for; the lists and the face are those of the latest batch.               *)

Without(updates, x) == RemoveAll(updates, {x})

OnUpdateSuccess(s, c) ==
  LET s1 == [s EXCEPT !.updater.batch = Without(@, c.update)]
      s2 == [s EXCEPT !.updater.nonBatch = Without(@, c.update)]
      ofBatch == c.update.face = s.updater.face
  IN  CASE ofBatch /\ s1.updater.batch # <<>> -> s1
        [] ofBatch /\ s1.updater.batch = <<>> /\ s1.updater.nonBatch # <<>> ->
             Send(s1, s1.updater.nonBatch, c.batch)
        [] ~ofBatch /\ s2.updater.nonBatch # <<>> -> s2
        [] OTHER -> OnFibUpdateSuccess(IF ofBatch THEN s1 ELSE s2, c.batch)

OnFaceNotFoundIgnored(s, c) ==
  LET s1 == OnUpdateSuccess(s, c)
  IN  IF c.update.face = s.updater.face THEN [s1 EXCEPT !.failed = @ \cup {c.batch}]
                                        ELSE s1

OnFaceNotFound(s, c) ==
  LET s2 == [s EXCEPT !.updater.nonBatch = Without(@, c.update)]
  IN  IF c.update.face = s.updater.face THEN OnFibUpdateFailure(s, c.batch)
      ELSE IF s2.updater.nonBatch # <<>> THEN s2 ELSE OnFibUpdateSuccess(s2, c.batch)

(* A command that times out is sent again, as an addition. *)
OnUpdateTimeout(s, c) ==
  IF c.nTimeouts < MaxTimeouts
  THEN [s EXCEPT !.sent = Append(@, [c EXCEPT !.add = TRUE, !.nTimeouts = @ + 1,
                                              !.reply = "none"])]
  ELSE [s EXCEPT !.crashed = TRUE]

-----------------------------------------------------------------------------
Init ==
  /\ scenario \in Scenario
  /\ svc = [rib |-> <<>>, faceEntries |-> <<>>, queue |-> <<>>, inProgress |-> FALSE,
            updater |-> NewUpdater(0), timers |-> {}, crashed |-> FALSE,
            failed |-> {}, sent |-> <<>>]
  /\ commands = <<>>
  /\ faces = scenario.faces
  /\ fib = <<>>
  /\ notices = {}
  /\ dataset = {}
  /\ requests = 0
  /\ timeouts = 0

(* The service does s; its commands join those under way. *)
Service(s, pending) ==
  /\ ~svc.crashed
  /\ svc' = [s EXCEPT !.sent = <<>>]
  /\ commands' = pending \o s.sent

(* RibManager::registerEntry, beginAddRoute: with an expiration period, the *)
(* event is scheduled before the update is queued.                          *)
Register(o) ==
  LET event == IF o.expires THEN {requests} ELSE {}
      route == [face |-> o.face, origin |-> o.origin, cost |-> o.cost,
                inherit |-> o.inherit, capture |-> o.capture, event |-> event]
      timer == {[event |-> e, name |-> o.name, route |-> route] : e \in event}
  IN  /\ requests < scenario.requests
      /\ requests' = requests + 1
      /\ Service(BeginApplyUpdate([svc EXCEPT !.timers = @ \cup timer],
                                  Update("REGISTER", o.name, route)), commands)
      /\ UNCHANGED <<scenario, faces, fib, notices, dataset, timeouts>>

(* RibManager::unregisterEntry, beginRemoveRoute *)
Unregister(o) ==
  LET route == [face |-> o.face, origin |-> o.origin, cost |-> 0,
                inherit |-> FALSE, capture |-> FALSE, event |-> {}]
  IN  /\ requests < scenario.requests
      /\ requests' = requests + 1
      /\ Service(BeginApplyUpdate(svc, Update("UNREGISTER", o.name, route)), commands)
      /\ UNCHANGED <<scenario, faces, fib, notices, dataset, timeouts>>

OnRouteExpiration(t) ==
  /\ t \in svc.timers
  /\ Service(BeginApplyUpdate([svc EXCEPT !.timers = @ \ {t}],
                              Update("UNREGISTER", t.name, t.route)), commands)
  /\ UNCHANGED <<scenario, faces, fib, notices, dataset, requests, timeouts>>

(* RibManager::onNotification, Rib::beginRemoveFace *)
OnNotification(f) ==
  /\ f \in notices
  /\ notices' = notices \ {f}
  /\ Service(BeginRemoveFaces(svc, {f}), commands)
  /\ UNCHANGED <<scenario, faces, fib, dataset, requests, timeouts>>

(* RibManager::removeInvalidFaces, Rib::beginRemoveFailedFaces *)
RemoveInvalidFaces ==
  \E active \in dataset :
    /\ dataset' = {}
    /\ Service(BeginRemoveFaces(svc, {k[1] : k \in DOMAIN svc.faceEntries} \ active),
               commands)
    /\ UNCHANGED <<scenario, faces, fib, notices, requests, timeouts>>

(* The answer to the oldest command arrives. *)
OnReply ==
  /\ commands # <<>>
  /\ LET c == Head(commands)
     IN  /\ c.reply # "none"
         /\ Service(CASE ~c.waiting -> svc
                      [] c.waiting /\ c.reply = "ok" -> OnUpdateSuccess(svc, c)
                      [] c.waiting /\ c.reply = "gone" -> OnFaceNotFound(svc, c),
                    Tail(commands))
  /\ UNCHANGED <<scenario, faces, fib, notices, dataset, requests, timeouts>>

(* The service stops waiting for an answer; the command stays under way. *)
OnTimeout(i) ==
  /\ commands[i].waiting
  /\ timeouts < scenario.timeouts
  /\ timeouts' = timeouts + 1
  /\ Service(OnUpdateTimeout(svc, commands[i]), [commands EXCEPT ![i].waiting = FALSE])
  /\ UNCHANGED <<scenario, faces, fib, notices, dataset, requests>>

-----------------------------------------------------------------------------
(* The forwarder. *)

(* FibManager::addNextHop and removeNextHop *)
ExecuteCommand ==
  \E i \in DOMAIN commands :
    LET c == commands[i]
        key == <<c.update.name, c.update.face>>
        live == c.update.face \in faces
    IN  /\ c.reply = "none"
        /\ \A j \in 1..i-1 : commands[j].reply # "none"
        /\ commands' = [commands EXCEPT ![i].reply =
                          IF live \/ ~c.add THEN "ok" ELSE "gone"]
        /\ fib' = CASE live /\ c.add  -> Put(fib, key, c.update.cost)
                    [] live /\ ~c.add -> Restrict(fib, DOMAIN fib \ {key})
                    [] ~live -> fib
        /\ UNCHANGED <<scenario, svc, faces, notices, dataset, requests, timeouts>>

(* A face closes; cleanupOnFaceRemoval removes its nexthops. *)
DestroyFace(f) ==
  /\ f \in faces \cap scenario.mortal
  /\ faces' = faces \ {f}
  /\ fib' = Restrict(fib, {k \in DOMAIN fib : k[2] # f})
  /\ notices' = notices \cup {f}
  /\ UNCHANGED <<scenario, svc, commands, dataset, requests, timeouts>>

(* The dataset that RibManager::fetchActiveFaces asks for, every five       *)
(* minutes and after a failure, is made.  Bound: not while updates wait in  *)
(* the queue, so that the removals it leads to do not pile up.              *)
FetchActiveFaces ==
  /\ dataset = {}
  /\ svc.queue = <<>>
  /\ scenario.mortal # {}
  /\ dataset' = {faces}
  /\ UNCHANGED <<scenario, svc, commands, faces, fib, notices, requests, timeouts>>

Next ==
  \/ \E o \in scenario.offers : Register(o)
  \/ \E o \in scenario.withdrawals : Unregister(o)
  \/ \E t \in svc.timers : OnRouteExpiration(t)
  \/ \E f \in notices : OnNotification(f)
  \/ \E f \in faces : DestroyFace(f)
  \/ FetchActiveFaces
  \/ RemoveInvalidFaces
  \/ ExecuteCommand
  \/ OnReply
  \/ \E i \in DOMAIN commands : OnTimeout(i)

(* Time-outs are not fair: an answer need not be late. *)
AnyRouteExpiration == \E t \in svc.timers : OnRouteExpiration(t)

(* The threads run and the socket delivers, timers fire, and the dataset of *)
(* faces is fetched again and again.  The guards are those of the actions.  *)
Fairness ==
  /\ WF_vars(ExecuteCommand)
  /\ []<>(svc.crashed \/ commands = <<>> \/ Head(commands).reply = "none")
       \/ []<><<OnReply>>_vars
  /\ []<>(svc.crashed \/ svc.timers = {}) \/ []<><<AnyRouteExpiration>>_vars
  /\ WF_vars(FetchActiveFaces)
  /\ []<>(svc.crashed \/ dataset = {}) \/ []<><<RemoveInvalidFaces>>_vars

Spec == Init /\ [][Next]_vars /\ Fairness

-----------------------------------------------------------------------------
(* The type of the RIB, whatever the order in which entries came and went:  *)
(* entries have routes, at most one for each face and origin, the parent of *)
(* an entry is the entry with its longest proper prefix, and every route    *)
(* can be found from its face, so the removal of a face finds all its       *)
(* routes (Rib::insert, Rib::eraseEntry, Rib::beginRemoveFace).             *)
TypeOK ==
  /\ \A n \in DOMAIN svc.rib :
       LET e == svc.rib[n]
       IN  /\ e.routes # <<>> /\ e.nCapture \in 0..CountModulus-1
           /\ \A i, j \in DOMAIN e.routes :
                CompareFaceIdAndOrigin(e.routes[i], e.routes[j]) => i = j
           /\ e.parent = FindParent(svc.rib, n)
           /\ \A f \in FacesOf(e) : FaceEntries(svc, f, n) > 0
  /\ \A k \in DOMAIN fib : k[2] \in faces /\ fib[k] \in Nat
  /\ requests \in 0..scenario.requests

(* What the flags mean, without counters or records of inherited routes: a  *)
(* name inherits on a face from the nearest ancestor with an inheritable    *)
(* route there, if no name from it down to the name captures.               *)
Captures(e) == \E r \in Range(e.routes) : r.capture

Inheritable(e, f) == {r.cost : r \in {x \in Range(e.routes) : x.face = f /\ x.inherit}}

Between(rib, a, n) == {b \in DOMAIN rib : IsAbove(a, b) /\ IsPrefixOf(b, n)}

Sources(rib, n, f) ==
  {a \in DOMAIN rib :
     /\ IsAbove(a, n)
     /\ Inheritable(rib[a], f) # {}
     /\ \A b \in Between(rib, a, n) :
          ~Captures(rib[b]) /\ (b # n => Inheritable(rib[b], f) = {})}

NextHopCosts(rib, n, f) ==
  IF HasFaceId(rib[n], f) THEN {r.cost : r \in Range(OnFace(rib[n], f))}
  ELSE UNION {Inheritable(rib[a], f) : a \in Sources(rib, n, f)}

ReferenceFib(rib) ==
  [k \in {x \in (DOMAIN rib) \X faces : NextHopCosts(rib, x[1], x[2]) # {}} |->
     Min(NextHopCosts(rib, k[1], k[2]))]

Resting ==
  /\ ~svc.inProgress /\ ~svc.crashed
  /\ svc.queue = <<>>
  /\ commands = <<>>

(* When nothing is under way, the FIB has the nexthops, at the cost, that   *)
(* the routes of the RIB and their flags call for, on the faces that exist: *)
(* what the updater computes one update at a time adds up                   *)
(* (FibUpdater::computeUpdates, FibManager, cleanupOnFaceRemoval).          *)
FibMatchesRib == Resting => fib = ReferenceFib(svc.rib)

(* The RIB has no route whose registration failed: "If the FIB update       *)
(* fails, onFibUpdateFailure() will be called, and the RIB will not be      *)
(* updated" (rib/rib.hpp:114).                                              *)
RibHoldsAccepted ==
  \A x \in svc.failed :
    x.action = "REGISTER" /\ x.name \in DOMAIN svc.rib
      => x.route \notin Range(svc.rib[x.name].routes)

(* Every update ends and the queue empties: the answers of one batch start  *)
(* the next (Rib::sendBatchFromQueue, onFibUpdateSuccess, onFibUpdateFailure). *)
UpdatesEnd == (svc.queue # <<>> \/ svc.inProgress) ~> (Resting \/ svc.crashed)

(* The routes of a destroyed face go, whether its notification is seen, the *)
(* dataset of faces shows it, or an update is rejected.                     *)
RoutesOfGoneFacesGo ==
  \A f \in Face :
    f \notin faces ~>
      [](svc.crashed \/ \A n \in DOMAIN svc.rib : ~HasFaceId(svc.rib[n], f))
=============================================================================
