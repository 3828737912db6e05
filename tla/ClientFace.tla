----------------------------- MODULE ClientFace -----------------------------
(***************************************************************************)
(* The client Face of an application (ndn-cxx-FC/ndn-cxx/face.cpp,         *)
(* impl/face-impl.hpp, impl/pending-interest.hpp, impl/record-container.hpp*)
(* and the stream transport below it).                                     *)
(*                                                                         *)
(* Every call of the application posts a task to the event loop, which     *)
(* runs tasks in order, between packets, timers and the handlers of the    *)
(* transport.  One table holds the Interests of the application and those  *)
(* the forwarder sent to it; a command to register a prefix is an Interest *)
(* of the application whose callbacks change the tables.                   *)
(*                                                                         *)
(* Not modelled: regular expressions in filters, the encoding of packets   *)
(* (a packet too large to send has large = TRUE), the reasons of Nacks,    *)
(* exceptions thrown by the callbacks of the application.                  *)
(***************************************************************************)
EXTENDS FcNames

CONSTANT Scenario   \* what the application, the forwarder and the socket may do

VARIABLES
  scenario,    \* the scenario of this behaviour
  posted,      \* tasks posted to the event loop, in order
  pit,         \* m_pendingInterestTable: record id -> pending Interest
  filters,     \* m_interestFilterTable: record id -> filter
  prefixes,    \* m_registeredPrefixTable: record id -> registered prefix
  lastId,      \* m_lastId of the tables of filters and of prefixes
  handles,     \* the records the application holds a handle of
  told,        \* history: record id of an Interest -> the callback it got
  transport,   \* conn, ops (operations started on the socket: "receive", which
               \* is m_isReceiving, and "write") and the length of the send queue
  calls,       \* calls of the application so far
  arrivals     \* packets received so far

vars == <<scenario, posted, pit, filters, prefixes, lastId, handles, told, transport, calls,
          arrivals>>

NoFilter == 0

---------------------------------------------------------------------------
\* Names 100 + id are those of the signed command Interests, all different.
CommandInterest(id) ==
  [name |-> <<100 + id>>, func |-> << >>, cbp |-> FALSE, mbf |-> FALSE, large |-> FALSE]

Without(f, ids) == [id \in DOMAIN f \ ids |-> f[id]]

Extended(f, id, value) == [i \in DOMAIN f \cup {id} |-> IF i = id THEN value ELSE f[i]]

\* What a table posts through onEmpty when an operation leaves it empty.
OnEmpty(table) == IF DOMAIN table = {} THEN <<[op |-> "pause"]>> ELSE << >>

\* A pending Interest that has been forwarded nowhere yet.
Pending(origin, interest, then) ==
  [origin |-> origin, interest |-> interest, then |-> then, nNotNacked |-> 0]

\* InterestFilterRecord::doesMatch: the function or the name of the Interest
\* is under the prefix of the filter.
DoesMatch(filter, e) ==
  /\ e.origin = "forwarder" \/ filter.loopback
  /\ IsPrefixOf(filter.prefix, e.interest.func) \/ IsPrefixOf(filter.prefix, e.interest.name)

\* dispatchInterest: recordForwarding for every filter that matches.
DispatchInterest(e) ==
  [e EXCEPT !.nNotNacked = @ + Cardinality({f \in DOMAIN filters : DoesMatch(filters[f], e)})]

RecordNack(e) == [e EXCEPT !.nNotNacked = @ - 1]

\* The application hears `what` of its Interests among `ids`.
Tell(ids, what) ==
  [id \in DOMAIN told |->
     IF id \in ids /\ pit[id].origin = "app" THEN what ELSE told[id]]

---------------------------------------------------------------------------
(* The transport (StreamTransportImpl).                                    *)

\* Face::Impl::ensureConnected.  While the connection is being set up,
\* connect and resume return at once.
EnsureConnected(t, wantResume) ==
  CASE t.conn = "closed"    -> [t EXCEPT !.conn = "connecting"]
    [] t.conn = "connected" -> [t EXCEPT !.ops = IF wantResume THEN @ \cup {"receive"} ELSE @]
    [] OTHER                -> t

Send(t) ==
  [conn  |-> t.conn,
   ops   |-> IF t.conn = "connected" /\ t.queue = 0 THEN t.ops \cup {"write"} ELSE t.ops,
   queue |-> t.queue + 1]

Closed == [conn |-> "closed", ops |-> {}, queue |-> 0]

\* Cancelling the socket stops the receive operation and, unless it has
\* completed already, the write in progress; its buffer stays in the queue.
PauseResults(t) ==
  IF t.conn = "connecting" \/ "receive" \notin t.ops THEN {t}
  ELSE {[t EXCEPT !.ops = ops] : ops \in {t.ops \ {"receive"}, {}}}

---------------------------------------------------------------------------
(* Calls of the application.                                               *)

Call(task) ==
  /\ calls < scenario.calls
  /\ calls' = calls + 1
  /\ posted' = Append(posted, task)
  /\ UNCHANGED <<scenario, pit, prefixes, filters, transport, arrivals>>

\* Allocate the next record id of the pending Interest table.
NewInterest(interest, then) ==
  [op |-> "express", id |-> Len(told) + 1, interest |-> interest, then |-> then]

ExpressInterest(i) ==
  /\ Call(NewInterest(i, [verb |-> "app"]))
  /\ told' = Append(told, "none")
  /\ handles' = [handles EXCEPT !.interests = @ \cup {Len(told) + 1}]
  /\ UNCHANGED lastId

\* PendingInterestHandle::cancel; a handle can be copied and used again.
CancelInterest(id) ==
  Call([op |-> "remove", id |-> id]) /\ UNCHANGED <<told, handles, lastId>>

RemoveAllPendingInterests ==
  Call([op |-> "removeAll"]) /\ UNCHANGED <<told, handles, lastId>>

PutData(d) == Call([op |-> "putData", data |-> d]) /\ UNCHANGED <<told, handles, lastId>>

PutNack(i) ==
  Call([op |-> "putNack", interest |-> i]) /\ UNCHANGED <<told, handles, lastId>>

SetInterestFilter(f) ==
  /\ Call([op |-> "setFilter", id |-> lastId.filter + 1, filter |-> f])
  /\ lastId' = [lastId EXCEPT !.filter = @ + 1]
  /\ handles' = [handles EXCEPT !.filters = @ \cup {lastId.filter + 1}]
  /\ UNCHANGED told

UnsetInterestFilter(id) ==
  Call([op |-> "unsetFilter", id |-> id]) /\ UNCHANGED <<told, handles, lastId>>

\* Face::registerPrefix, and Face::setInterestFilter with registration
\* (withFilter): the command is an Interest of its own.
RegisterPrefix(f, withFilter) ==
  /\ Call(NewInterest(CommandInterest(Len(told) + 1),
                      [verb |-> "register", id |-> lastId.prefix + 1,
                       filter |-> f, withFilter |-> withFilter]))
  /\ told' = Append(told, "none")
  /\ lastId' = [lastId EXCEPT !.prefix = @ + 1]
  /\ UNCHANGED handles

UnregisterPrefix(id) ==
  Call([op |-> "unregister", id |-> id]) /\ UNCHANGED <<told, handles, lastId>>

Shutdown == Call([op |-> "shutdown"]) /\ UNCHANGED <<told, handles, lastId>>

---------------------------------------------------------------------------
(* The tasks, as the event loop runs them.                                 *)

Task == Head(posted)

\* The first task is of this kind and leaves the queue; `more` is posted.
Run(op, more) ==
  /\ posted # << >>
  /\ Task.op = op
  /\ posted' = Tail(posted) \o more
  /\ UNCHANGED <<scenario, handles, calls, arrivals>>

\* Face::Impl::shutdown, also run when an exception leaves processEvents.
ClearTables(heard) ==
  /\ pit' = << >>
  /\ prefixes' = << >>
  /\ told' = [id \in DOMAIN told |->
                IF id \in DOMAIN pit /\ heard[id] = "none" THEN "removed" ELSE heard[id]]

BothEmpty == <<[op |-> "pause"], [op |-> "pause"]>>

RunConnect ==
  /\ Run("connect", << >>)
  /\ transport' = EnsureConnected(transport, FALSE)
  /\ UNCHANGED <<pit, filters, prefixes, lastId, told>>

RunExpress ==
  /\ Run("express", << >>)
  /\ ~Task.interest.large
  /\ transport' = Send(EnsureConnected(transport, TRUE))
  /\ pit' = Extended(pit, Task.id,
                     DispatchInterest([Pending("app", Task.interest, Task.then)
                                         EXCEPT !.nNotNacked = 1]))
  /\ UNCHANGED <<filters, prefixes, lastId, told>>

\* finishEncoding throws after the record has been put in the table.
RunExpressOversized ==
  /\ Run("express", BothEmpty)
  /\ Task.interest.large
  /\ transport' = EnsureConnected(transport, TRUE)
  /\ ClearTables([told EXCEPT ![Task.id] = "removed"])
  /\ UNCHANGED <<filters, lastId>>

RunRemove ==
  LET rest == Without(pit, {Task.id}) IN
  /\ Run("remove", OnEmpty(rest))
  /\ pit' = rest
  /\ told' = Tell({Task.id} \cap DOMAIN pit, "removed")
  /\ UNCHANGED <<filters, prefixes, lastId, transport>>

RunRemoveAll ==
  /\ Run("removeAll", <<[op |-> "pause"]>>)
  /\ pit' = << >>
  /\ told' = Tell(DOMAIN pit, "removed")
  /\ UNCHANGED <<filters, prefixes, lastId, transport>>

\* satisfyPendingInterests: the records Data removes.  The function of the
\* Interest plays no part.
SatisfiedBy(d) == {id \in DOMAIN pit : MatchesData(pit[id].interest, d)}

\* Whether Data the application puts goes to the forwarder.
ToForwarder(ids) ==
  \/ \E id \in ids : pit[id].origin = "forwarder"
  \/ ~ \E id \in ids : pit[id].origin = "app"

RunPutData ==
  LET ids == SatisfiedBy(Task.data) IN
  /\ Run("putData", OnEmpty(Without(pit, ids)))
  /\ ~(Task.data.large /\ ToForwarder(ids))
  /\ pit' = Without(pit, ids)
  /\ told' = Tell(ids, "data")
  /\ transport' = IF ToForwarder(ids) THEN Send(EnsureConnected(transport, TRUE)) ELSE transport
  /\ UNCHANGED <<filters, prefixes, lastId>>

RunPutDataOversized ==
  LET ids == SatisfiedBy(Task.data) IN
  /\ Run("putData", OnEmpty(Without(pit, ids)) \o BothEmpty)
  /\ Task.data.large /\ ToForwarder(ids)
  /\ transport' = EnsureConnected(transport, TRUE)
  /\ ClearTables(Tell(ids, "data"))
  /\ UNCHANGED <<filters, lastId>>

\* nackPendingInterests: the records after the Nack, and those it removes.
NackedPit(i) ==
  [id \in DOMAIN pit |->
     IF MatchesInterest(i, pit[id].interest) THEN RecordNack(pit[id]) ELSE pit[id]]

NackedBy(i) ==
  {id \in DOMAIN pit : /\ MatchesInterest(i, pit[id].interest)
                       /\ RecordNack(pit[id]).nNotNacked <= 0}

RunPutNack ==
  LET ids  == NackedBy(Task.interest)
      rest == Without(NackedPit(Task.interest), ids)
  IN /\ Run("putNack", OnEmpty(rest))
     /\ pit' = rest
     /\ told' = Tell(ids, "nack")
     /\ transport' = IF \E id \in ids : pit[id].origin = "forwarder"
                       THEN Send(EnsureConnected(transport, TRUE)) ELSE transport
     /\ UNCHANGED <<filters, prefixes, lastId>>

RunSetFilter ==
  /\ Run("setFilter", << >>)
  /\ filters' = Extended(filters, Task.id, Task.filter)
  /\ UNCHANGED <<pit, prefixes, lastId, told, transport>>

RunUnsetFilter ==
  /\ Run("unsetFilter", << >>)
  /\ filters' = Without(filters, {Task.id})
  /\ UNCHANGED <<pit, prefixes, lastId, told, transport>>

\* unregisterPrefix: the filter goes at once, the record when the command
\* has succeeded.
RunUnregister ==
  /\ Run("unregister", <<NewInterest(CommandInterest(Len(told) + 1),
                                     [verb |-> "unregister", id |-> Task.id])>>)
  /\ Task.id \in DOMAIN prefixes
  /\ filters' = Without(filters, {prefixes[Task.id].filterId})
  /\ told' = Append(told, "none")
  /\ UNCHANGED <<pit, prefixes, lastId, transport>>

RunUnregisterUnrecognized ==
  /\ Run("unregister", << >>)
  /\ Task.id \notin DOMAIN prefixes
  /\ UNCHANGED <<pit, filters, prefixes, lastId, told, transport>>

RunShutdown ==
  /\ Run("shutdown", BothEmpty)
  /\ ClearTables(told)
  /\ transport' = IF transport.conn = "connected" THEN Closed ELSE transport
  /\ UNCHANGED <<filters, lastId>>

RunPauseUnregarded ==
  /\ Run("pause", << >>)
  /\ IF DOMAIN pit = {} THEN transport' \in PauseResults(transport) ELSE UNCHANGED transport
  /\ UNCHANGED <<pit, filters, prefixes, lastId, told>>

RunPause ==
  /\ Run("pause", << >>)
  /\ IF DOMAIN pit = {} /\ DOMAIN prefixes = {}
       THEN transport' \in PauseResults(transport)
       ELSE UNCHANGED transport
  /\ UNCHANGED <<pit, filters, prefixes, lastId, told>>

RunTask ==
  \/ RunConnect \/ RunExpress \/ RunExpressOversized \/ RunRemove \/ RunRemoveAll
  \/ RunPutData \/ RunPutDataOversized \/ RunPutNack \/ RunSetFilter \/ RunUnsetFilter
  \/ RunUnregister \/ RunUnregisterUnrecognized \/ RunShutdown \/ RunPause

---------------------------------------------------------------------------
(* Packets from the forwarder (Face::onReceiveElement) and timers.         *)

Receiving == "receive" \in transport.ops

\* A packet arrives on a socket that is being read.
Arrive(more) ==
  /\ Receiving
  /\ arrivals < scenario.arrivals
  /\ arrivals' = arrivals + 1
  /\ posted' = posted \o more
  /\ UNCHANGED <<scenario, handles, calls, transport>>

ReceiveInterest(i) ==
  /\ Arrive(<< >>)
  /\ pit' = Extended(pit, Len(told) + 1,
                     DispatchInterest(Pending("forwarder", i, [verb |-> "app"])))
  /\ told' = Append(told, "foreign")
  /\ UNCHANGED <<filters, prefixes, lastId>>

ReceiveDataKeepsRecords(d) ==
  /\ Arrive(<< >>)
  /\ told' = Tell(SatisfiedBy(d), "data")
  /\ UNCHANGED <<pit, filters, prefixes, lastId>>

ReceiveData(d) ==
  LET ids == SatisfiedBy(d) IN
  /\ Arrive(OnEmpty(Without(pit, ids)))
  /\ pit' = Without(pit, ids)
  /\ told' = Tell(ids, "data")
  /\ UNCHANGED <<filters, prefixes, lastId>>

ReceiveNack(i) ==
  LET ids  == NackedBy(i)
      rest == Without(NackedPit(i), ids)
  IN /\ Arrive(OnEmpty(rest))
     /\ pit' = rest
     /\ told' = Tell(ids, "nack")
     /\ UNCHANGED <<filters, prefixes, lastId>>

\* The forwarder refuses a command, or its response cannot be used.
ReceiveFailure(id) ==
  /\ pit[id].then.verb # "app"
  /\ Arrive(OnEmpty(Without(pit, {id})))
  /\ pit' = Without(pit, {id})
  /\ told' = Tell({id}, "data")
  /\ UNCHANGED <<filters, prefixes, lastId>>

\* The prefix is registered: the filter, if there is one, and then the
\* record of the prefix are put in their tables.
ReceiveRegistered(id) ==
  LET then == pit[id].then
      f    == IF then.withFilter THEN lastId.filter + 1 ELSE NoFilter
  IN /\ then.verb = "register"
     /\ Arrive(OnEmpty(Without(pit, {id})))
     /\ pit' = Without(pit, {id})
     /\ told' = Tell({id}, "data")
     /\ prefixes' = Extended(prefixes, then.id, [prefix |-> then.filter.prefix, filterId |-> f])
     /\ filters' = IF then.withFilter THEN Extended(filters, f, then.filter) ELSE filters
     /\ lastId' = IF then.withFilter THEN [lastId EXCEPT !.filter = f] ELSE lastId

ReceiveUnregistered(id) ==
  LET rest == Without(prefixes, {pit[id].then.id}) IN
  /\ pit[id].then.verb = "unregister"
  /\ Arrive(OnEmpty(rest) \o OnEmpty(Without(pit, {id})))
  /\ pit' = Without(pit, {id})
  /\ told' = Tell({id}, "data")
  /\ prefixes' = rest
  /\ UNCHANGED <<filters, lastId>>

TimeoutSilent(id) ==
  /\ posted' = posted \o OnEmpty(Without(pit, {id}))
  /\ pit' = Without(pit, {id})
  /\ UNCHANGED <<scenario, filters, prefixes, lastId, handles, told, transport, calls, arrivals>>

TimeoutUnannounced(id) ==
  /\ pit' = Without(pit, {id})
  /\ told' = Tell({id}, "timeout")
  /\ UNCHANGED <<scenario, posted, filters, prefixes, lastId, handles, transport, calls, arrivals>>

\* The timer of a record runs: the callback, then deleteSelf.
Timeout(id) ==
  /\ posted' = posted \o OnEmpty(Without(pit, {id}))
  /\ pit' = Without(pit, {id})
  /\ told' = Tell({id}, "timeout")
  /\ UNCHANGED <<scenario, filters, prefixes, lastId, handles, transport, calls, arrivals>>

---------------------------------------------------------------------------
(* Handlers of the transport.                                              *)

ConnectHandler ==
  /\ transport.conn = "connecting"
  /\ transport' = [conn  |-> "connected",
                   ops   |-> IF transport.queue > 0 THEN {"receive", "write"} ELSE {},
                   queue |-> transport.queue]
  /\ UNCHANGED <<scenario, posted, pit, filters, prefixes, lastId, handles, told, calls, arrivals>>

HandleAsyncWriteOnce ==
  /\ "write" \in transport.ops
  /\ transport' = [transport EXCEPT !.queue = @ - 1]
  /\ UNCHANGED <<scenario, posted, pit, filters, prefixes, lastId, handles, told, calls, arrivals>>

HandleAsyncWrite ==
  /\ "write" \in transport.ops
  /\ transport' = [conn  |-> transport.conn,
                   ops   |-> IF transport.queue > 1 THEN transport.ops ELSE transport.ops \ {"write"},
                   queue |-> transport.queue - 1]
  /\ UNCHANGED <<scenario, posted, pit, filters, prefixes, lastId, handles, told, calls, arrivals>>

\* The connection cannot be made or breaks: the handler closes the transport
\* and throws out of processEvents.
SocketError ==
  /\ ~scenario.steady
  /\ transport.conn = "connecting" \/ transport.ops # {}
  /\ transport' = Closed
  /\ posted' = posted \o BothEmpty
  /\ ClearTables(told)
  /\ UNCHANGED <<scenario, filters, lastId, handles, calls, arrivals>>

---------------------------------------------------------------------------

\* A Face that has connected and stays so, or one that has just been built and
\* may meet errors and be shut down.
Init ==
  /\ scenario \in Scenario
  /\ posted = IF scenario.steady THEN << >> ELSE <<[op |-> "connect"]>>
  /\ pit = << >>
  /\ filters = << >>
  /\ prefixes = << >>
  /\ lastId = [filter |-> 0, prefix |-> 0]
  /\ handles = [interests |-> {}, filters |-> {}]
  /\ told = << >>
  /\ transport = [Closed EXCEPT !.conn = IF scenario.steady THEN "connected" ELSE "closed"]
  /\ calls = 0
  /\ arrivals = 0

Application ==
  \/ \E i \in scenario.interests : ExpressInterest(i)
  \/ scenario.cancels /\ \E id \in handles.interests : CancelInterest(id)
  \/ scenario.cancels /\ RemoveAllPendingInterests
  \/ \E d \in scenario.puts : PutData(d)
  \/ \E i \in scenario.requests : PutNack(i)
  \/ \E f \in scenario.filters : SetInterestFilter(f)
  \/ \E id \in handles.filters : UnsetInterestFilter(id)
  \/ \E r \in scenario.registered : RegisterPrefix(r.filter, r.withFilter)
  \/ \E id \in 1 .. lastId.prefix : UnregisterPrefix(id)
  \/ ~scenario.steady /\ Shutdown

FromForwarder ==
  \/ \E i \in scenario.requests : ReceiveInterest(i)
  \/ \E d \in scenario.data : ReceiveData(d)
  \/ \E i \in scenario.interests : ReceiveNack(i)
  \/ \E id \in DOMAIN pit : ReceiveFailure(id) \/ ReceiveRegistered(id) \/ ReceiveUnregistered(id)

Next ==
  \/ Application
  \/ RunTask
  \/ FromForwarder
  \/ \E id \in DOMAIN pit : Timeout(id)
  \/ ConnectHandler
  \/ HandleAsyncWrite
  \/ SocketError

\* Bound on the record ids of pending Interests: a call, like an arrival, makes
\* at most one.
MaxRecords == Max({s.calls + s.arrivals : s \in Scenario})

AnyTimeout(id) == id \in DOMAIN pit /\ Timeout(id)

\* The event loop runs the tasks posted to it and the timers that are due:
\* weak fairness of RunTask and of every Timeout, with the conditions under
\* which they are enabled written out.
Fairness ==
  /\ []<>(posted = << >>) \/ []<><<RunTask>>_vars
  /\ \A id \in 1 .. MaxRecords : []<>(id \notin DOMAIN pit) \/ []<><<AnyTimeout(id)>>_vars

Spec == Init /\ [][Next]_vars /\ Fairness

---------------------------------------------------------------------------
(* Properties.                                                             *)

Heard == {"none", "foreign", "data", "nack", "timeout", "removed"}

\* Record ids are allocated before they are used, an application's Interest
\* is in the table only until it has been told something, and the transport
\* writes only what is in its queue.
TypeOK ==
  /\ told \in Seq(Heard)
  /\ DOMAIN pit \subseteq DOMAIN told
  /\ \A id \in DOMAIN pit :
       /\ pit[id].nNotNacked \in Int
       /\ \/ pit[id].origin = "app" /\ told[id] = "none"
          \/ pit[id].origin = "forwarder" /\ told[id] = "foreign"
  /\ lastId \in [filter : Nat, prefix : Nat]
  /\ IsFiniteSet(DOMAIN filters)
  /\ transport \in [conn : {"closed", "connecting", "connected"},
                    ops : SUBSET {"receive", "write"}, queue : Nat]
  /\ transport.ops # {} => transport.conn = "connected"
  /\ "write" \in transport.ops => transport.queue > 0

\* While an Interest is pending or a prefix is registered the Face reads from
\* its socket, or will once the connection is made: the pause that an empty
\* table posts never takes effect after a new record has come.
ListensWhilePending ==
  DOMAIN pit # {} \/ DOMAIN prefixes # {} =>
    \/ Receiving
    \/ transport.conn = "connecting" /\ transport.queue > 0

Status(id) ==
  IF told[id] # "none" THEN told[id] ELSE IF id \in DOMAIN pit THEN "pending" ELSE "posted"

Promise == INSTANCE InterestPromise WITH status <- [id \in DOMAIN told |-> Status(id)]

\* However Data, Nacks, timers, cancellations, exceptions and shutdowns race,
\* every Interest the application expresses becomes pending at most once and
\* gets at most one callback, none after it was cancelled.
KeepsPromise == Promise!Spec

\* Every expressed Interest, commands included, ends.
EveryInterestEnds ==
  \A id \in 1 .. MaxRecords :
    (id \in DOMAIN told /\ told[id] = "none") ~> (id \in DOMAIN told /\ told[id] # "none")

Idle == DOMAIN pit = {} /\ DOMAIN prefixes = {}

\* processEvents blocks while the Face reads from its socket.  On a
\* connection that is up, a Face with nothing pending or registered stops
\* reading, however its tables became empty.
StopsWhenIdle ==
  (scenario.steady /\ Idle /\ Receiving) ~> ~(Idle /\ Receiving)
=============================================================================
