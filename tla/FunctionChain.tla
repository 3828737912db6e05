--------------------------- MODULE FunctionChain ---------------------------
(***************************************************************************)
(* Function chaining end to end: the applications of NDN-FC-skeleton       *)
(* (sfc_consumer, sfc_function, sfc_producer), each on its client Face     *)
(* (ndn-cxx-FC/ndn-cxx/face.cpp, impl/face-impl.hpp), over one forwarder.  *)
(*                                                                         *)
(* A content is a file with the functions applied to it so far, first one  *)
(* first; a Data packet carries one chunk, a segment of a content.  The    *)
(* file a producer serves stands for the producer, the name of a function  *)
(* for the application that runs it.  Each process is one event loop:      *)
(* Face::expressInterest and Face::put post a task, so a handler runs to   *)
(* its end before what it asked for happens.                               *)
(*                                                                         *)
(* The forwarder is reduced to what the applications see of it (the        *)
(* pipelines are in Forwarder): an Interest goes to the application of its *)
(* first function, or else to the producer, unless it is aggregated; Data  *)
(* goes to all faces with a pending Interest that the PIT lets it satisfy. *)
(***************************************************************************)
EXTENDS FcNames, SequencesExt, BagsExt

CONSTANTS
  File, Function, Consumer,  \* the processes
  Request,                   \* consumer -> [file, func], its command line
  SizeOf(_),                 \* number of segments of a content
  MaxFinal,                  \* bound on final block numbers
  Scenario                   \* consumers (those that are run), lossy (may packets be
                             \* lost or Interests time out?), serial (does a consumer
                             \* start only after the others exited?)

VARIABLES
  scenario,
  node,     \* process -> its application and Face
  net,      \* bag of packets on their way to a process
  waiting   \* the forwarder's in-records: [face, int]

vars == <<scenario, node, net, waiting>>

Process == File \cup Function \cup Consumer

Unnamed == "unnamed"         \* m_prefix and m_filename before the first segment
\* A file put together from chunks of several contents.
Corrupt == [file |-> Unnamed, applied |-> << >>]
Original(file) == [file |-> file, applied |-> << >>]
Segments(c) == IF c = Corrupt THEN 1 ELSE SizeOf(c)

\* What system("python3 clientyolo.py ...") makes of the file.
Execute(f, c) == IF c = Corrupt THEN c ELSE [c EXCEPT !.applied = Append(@, f)]

\* populateStore: the content as signed Data packets.
PopulateStore(file, func, c) ==
  [i \in 1 .. Segments(c) |->
     [file |-> file, seg |-> i - 1, func |-> func, final |-> Segments(c) - 1,
      chunk |-> [content |-> c, seg |-> i - 1]]]

Req(file, seg, func) == [file |-> file, seg |-> seg, func |-> func]

----------------------------------------------------------------------------
(* The applications. A handler maps the state s of its process to the next *)
(* one, with the tasks that it posts on the Face.                          *)

Post(s, ts) == [s EXCEPT !.tasks = @ \o ts]
Express(int) == [op |-> "express", int |-> int]

\* m_face.put(*(m_store[i])); past the end of the vector anything may happen.
PutStored(s, i) ==
  IF i < Len(s.store) THEN Post(s, << [op |-> "put", data |-> s.store[i + 1]] >>)
  ELSE [s EXCEPT !.fault = TRUE]

\* Func::onInterest.
FuncOnInterest(s, int) ==
  IF int.seg > 0 THEN PutStored(s, int.seg)
  ELSE Post(s, <<Express([int EXCEPT !.func = RemoveHeadFunction(@)])>>)

\* Producer::onInterest.
ProducerOnInterest(s, int) == IF int.seg < Len(s.store) THEN PutStored(s, int.seg) ELSE s

OnInterest(n, s, int) ==
  IF n \in Function THEN FuncOnInterest(s, int) ELSE ProducerOnInterest(s, int)

\* reassembleSegments and createFile: the file that the buffered chunks make.
Reassemble(buffer) ==
  LET c == buffer[Min(DOMAIN buffer)].content
  IN  IF DOMAIN buffer = 0 .. (Segments(c) - 1)
           /\ \A i \in DOMAIN buffer : buffer[i] = [content |-> c, seg |-> i]
        THEN c ELSE Corrupt

BufferedButLast(s, int, d) ==
  LET s1 == [s EXCEPT !.buffer = (d.seg :> d.chunk) @@ @]
      others == [i \in 1 .. (d.final - 1) |-> Express(Req(d.file, i, int.func))]
  IN  IF d.seg = 0 THEN Post([s1 EXCEPT !.incoming = d.final, !.file = d.file], others) ELSE s1

BufferedOneMore(s, int, d) ==
  LET s1 == [s EXCEPT !.buffer = (d.seg :> d.chunk) @@ @]
      others == [i \in 1 .. (d.final + 1) |-> Express(Req(d.file, i, int.func))]
  IN  IF d.seg = 0 THEN Post([s1 EXCEPT !.incoming = d.final, !.file = d.file], others) ELSE s1

\* Consumer::onData and Func::onData up to the test for the last segment: the
\* first segment brings the final block number and asks for the others.
Buffered(s, int, d) ==
  LET s1 == [s EXCEPT !.buffer = (d.seg :> d.chunk) @@ @]
      others == [i \in 1 .. d.final |-> Express(Req(d.file, i, int.func))]
  IN  IF d.seg = 0 THEN Post([s1 EXCEPT !.incoming = d.final, !.file = d.file], others) ELSE s1

IsCompleteAtFinal(s) == s.incoming \in DOMAIN s.buffer

\* m_receiveBuffer.size() == m_incomingFinalBlockNumber + 1
IsComplete(s) == Cardinality(DOMAIN s.buffer) = s.incoming + 1

\* The consumer writes the file, the function application runs the function
\* on it and answers the pending Interest with the first segment.
Consume(n, s, d) ==
  LET c == Reassemble(s.buffer)
      done == [s EXCEPT !.buffer = << >>]
  IN  IF n \in Consumer THEN [done EXCEPT !.files = Append(@, c)]
      ELSE PutStored([done EXCEPT !.store =
             PopulateStore(s.file, <<n>> \o d.func, Execute(n, c))], 0)

OnData(n, s, int, d) ==
  LET s1 == Buffered(s, int, d)
  IN  IF IsComplete(s1) THEN Consume(n, s1, d) ELSE s1

----------------------------------------------------------------------------
(* The client Face                                                         *)

\* Interest::matchesData, which satisfyPendingInterests uses: the function
\* takes no part in it.
Satisfies(d, int) == int.file = d.file /\ int.seg = d.seg

\* InterestFilterRecord::doesMatch for the one filter of the application.
Accepts(n, int) ==
  IF n \in Function THEN IsPrefixOf(<<n>>, int.func) ELSE n = int.file

AppMatches(s, d) == SelectSeq(s.pending, LAMBDA p : p.app /\ Satisfies(d, p.int))
ForwarderMatches(s, d) == SelectSeq(s.pending, LAMBDA p : ~p.app /\ Satisfies(d, p.int))

\* satisfyPendingInterests: callbacks in the order of the records.
SatisfyPendingInterests(n, s, d) ==
  LET rest == [s EXCEPT !.pending = SelectSeq(@, LAMBDA p : ~Satisfies(d, p.int))]
  IN  FoldLeft(LAMBDA acc, p : OnData(n, acc, p.int, d), rest, AppMatches(s, d))

AddPending(s, app, int) == [s EXCEPT !.pending = Append(@, [app |-> app, int |-> int])]

\* dispatchInterest: to the application itself, if its filter matches.
DispatchInterest(n, s, int) == IF Accepts(n, int) THEN OnInterest(n, s, int) ELSE s

----------------------------------------------------------------------------
(* The forwarder                                                           *)

Route(int) == IF HasFunction(int) THEN Head(int.func) ELSE int.file

Deliver(to, kind, pkt) == [to |-> to, kind |-> kind, pkt |-> pkt]

\* Of an Interest equal to a pending one the strategy may suppress the
\* forwarding; it does not send one back to its own face.
ForwardInterest(n, int) ==
  /\ waiting' = waiting \cup {[face |-> n, int |-> int]}
  /\ \/ Route(int) # n /\ net' = BagAdd(net, Deliver(Route(int), "Interest", int))
     \/ /\ Route(int) = n \/ \E w \in waiting : w.int = int
        /\ net' = net

\* The PIT entries on prefixes of the name and function of the Data.
Matching(d) == {w \in waiting : Satisfies(d, w.int) /\ IsPrefixOf(w.int.func, d.func)}

ForwardData(n, d) ==
  /\ waiting' = waiting \ Matching(d)
  /\ net' = net (+) SetToBag({Deliver(w.face, "Data", d) : w \in {v \in Matching(d) : v.face # n}})

----------------------------------------------------------------------------
(* Steps                                                                   *)

Running(n) == ~node[n].fault

\* The members m_incomingFinalBlockNumber are not initialized.
Init ==
  /\ scenario \in Scenario
  /\ \E garbage \in [Function \cup Consumer -> 0 .. MaxFinal] :
       node = [n \in Process |->
         [tasks |-> << >>, pending |-> << >>, buffer |-> << >>, file |-> Unnamed,
          incoming |-> IF n \in File THEN 0 ELSE garbage[n],
          store |-> IF n \in File THEN PopulateStore(n, << >>, Original(n)) ELSE << >>,
          files |-> << >>, started |-> n \notin Consumer, fault |-> FALSE]]
  /\ net = EmptyBag
  /\ waiting = {}

\* A consumer that has started and whose processEvents has returned.
Exited(c) == node[c].started /\ node[c].tasks = << >> /\ node[c].pending = << >>

\* Consumer::run.
Start(c) ==
  /\ c \in scenario.consumers /\ ~node[c].started
  /\ scenario.serial => \A b \in Consumer : node[b].started => Exited(b)
  /\ node' = [node EXCEPT ![c] =
       Post([@ EXCEPT !.started = TRUE], <<Express(Req(Request[c].file, 0, Request[c].func))>>)]
  /\ UNCHANGED <<scenario, net, waiting>>

ExpressInterest(n) ==
  /\ Running(n) /\ node[n].tasks # << >> /\ Head(node[n].tasks).op = "express"
  /\ LET int == Head(node[n].tasks).int
         s == AddPending([node[n] EXCEPT !.tasks = Tail(@)], TRUE, int)
     IN  /\ node' = [node EXCEPT ![n] = DispatchInterest(n, s, int)]
         /\ ForwardInterest(n, int)
  /\ UNCHANGED scenario

\* Data that satisfies only the application's own Interests is not sent.
PutData(n) ==
  /\ Running(n) /\ node[n].tasks # << >> /\ Head(node[n].tasks).op = "put"
  /\ LET d == Head(node[n].tasks).data
         s == [node[n] EXCEPT !.tasks = Tail(@)]
     IN  /\ node' = [node EXCEPT ![n] = SatisfyPendingInterests(n, s, d)]
         /\ IF ForwarderMatches(s, d) # << >> \/ AppMatches(s, d) = << >>
              THEN ForwardData(n, d)
              ELSE UNCHANGED <<net, waiting>>
  /\ UNCHANGED scenario

ReceiveInterest(m) ==
  /\ m.kind = "Interest" /\ Running(m.to)
  /\ net' = BagRemove(net, m)
  /\ node' = [node EXCEPT ![m.to] = DispatchInterest(m.to, AddPending(@, FALSE, m.pkt), m.pkt)]
  /\ UNCHANGED <<scenario, waiting>>

ReceiveData(m) ==
  /\ m.kind = "Data" /\ Running(m.to)
  /\ net' = BagRemove(net, m)
  /\ node' = [node EXCEPT ![m.to] = SatisfyPendingInterests(m.to, @, m.pkt)]
  /\ UNCHANGED <<scenario, waiting>>

\* invokeTimeoutCallback, or nackPendingInterests on a Nack: onTimeout and
\* onNack of the applications only report it.
GiveUp(n, i) ==
  /\ scenario.lossy /\ Running(n)
  /\ node' = [node EXCEPT ![n].pending = RemoveAt(@, i)]
  /\ UNCHANGED <<scenario, net, waiting>>

Lose(m) ==
  /\ scenario.lossy
  /\ net' = BagRemove(net, m)
  /\ UNCHANGED <<scenario, node, waiting>>

Next ==
  \/ \E c \in Consumer : Start(c)
  \/ \E n \in Process : ExpressInterest(n) \/ PutData(n)
  \/ \E m \in BagToSet(net) : ReceiveInterest(m) \/ ReceiveData(m) \/ Lose(m)
  \/ \E n \in Process : \E i \in 1 .. Len(node[n].pending) : GiveUp(n, i)

Spec == Init /\ [][Next]_vars

\* A request, whichever process it is at, is handled in the end.
Progress ==
  \/ \E c \in Consumer : Start(c)
  \/ \E n \in Process : ExpressInterest(n) \/ PutData(n)
  \/ \E m \in BagToSet(net) : ReceiveInterest(m) \/ ReceiveData(m)

FairSpec == Spec /\ WF_vars(Progress)

----------------------------------------------------------------------------
(* Properties                                                              *)

\* The functions in the order in which the chain applies them: each one to the
\* result of the rest of the list.
Result(c) == [file |-> Request[c].file, applied |-> Reverse(Request[c].func)]

\* A file that a consumer writes is the whole result of its request, each
\* function applied once: the chunks of different contents never meet in
\* m_receiveBuffer, whatever was lost on the way.
ResultIntact ==
  \A c \in Consumer : \A i \in DOMAIN node[c].files : node[c].files[i] = Result(c)

\* No application indexes m_store beyond its end: a consumer asks only for
\* segments that the final block number it was told of covers.
NoFault == \A n \in Process : ~node[n].fault

\* Unless packets are lost, every consumer writes its file in the end, once: the
\* callbacks of onData ask for all segments and complete with the last one.
Completes ==
  ~scenario.lossy => \A c \in Consumer : <>[](c \in scenario.consumers => Len(node[c].files) = 1)

----------------------------------------------------------------------------
(* Statements of the documentation                                         *)

\* sfc_function.hpp: onInterest is to "Respond with the requested segment of
\* content": the Data put for an Interest has the name it asks for.
RespondsWithRequestedSegment ==
  [][\A n \in Function : \A m \in BagToSet(net) :
       ReceiveInterest(m) /\ m.to = n /\ m.pkt.seg > 0
         => /\ ~node'[n].fault
            /\ LET d == Last(node'[n].tasks).data
               IN  Satisfies(d, m.pkt) /\ d.func = m.pkt.func]_vars

=============================================================================
