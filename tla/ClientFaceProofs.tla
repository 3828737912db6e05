-------------------------- MODULE ClientFaceProofs --------------------------
(***************************************************************************)
(* Proofs about the client Face, for every set of scenarios.  The          *)
(* inductive invariant adds to the properties what the queue of posted     *)
(* tasks must satisfy: an Interest that waits to be expressed waits once,  *)
(* is not in the table yet and has been told nothing.                      *)
(***************************************************************************)
EXTENDS ClientFace, FiniteSetTheorems, SequenceTheorems, TLAPS

IsSeq(s) == Len(s) \in Nat /\ s = [i \in 1 .. Len(s) |-> s[i]]

Expresses(s, i) == i \in 1 .. Len(s) /\ s[i].op = "express"

\* Tasks other than expressions of Interests.
Plain(s) == IsSeq(s) /\ \A i \in 1 .. Len(s) : s[i].op # "express"

Waiting(s, heard, table) ==
  /\ IsSeq(s)
  /\ \A i \in 1 .. Len(s) : Expresses(s, i) =>
       s[i].id \in DOMAIN heard /\ s[i].id \notin table /\ heard[s[i].id] = "none"
  /\ \A i, j \in 1 .. Len(s) : Expresses(s, i) /\ Expresses(s, j) /\ i # j => s[i].id # s[j].id

PostedInv == Waiting(posted, told, DOMAIN pit)

IInv == TypeOK /\ ListensWhilePending /\ PostedInv

---------------------------------------------------------------------------
(* Sequences of tasks.                                                     *)

\* A sequence in the sense of IsSeq is one of the Sequences module.
LEMMA IsSeqInSeq ==
  ASSUME NEW s, IsSeq(s), NEW S, \A i \in 1 .. Len(s) : s[i] \in S
  PROVE  s \in Seq(S)
BY DEF IsSeq

\* And conversely.
LEMMA InSeqIsSeq ==
  ASSUME NEW S, NEW s \in Seq(S)
  PROVE  IsSeq(s)
<1>1. PICK n \in Nat : s \in [1 .. n -> S]
  BY SeqDef
<1>2. Len(s) = n
  BY <1>1
<1> QED
  BY <1>1, <1>2 DEF IsSeq

\* Appending tasks to the queue keeps the tasks before them in place.
LEMMA ConcatElements ==
  ASSUME NEW s, NEW t, IsSeq(s), IsSeq(t)
  PROVE  /\ IsSeq(s \o t)
         /\ Len(s \o t) = Len(s) + Len(t)
         /\ \A i \in 1 .. Len(s) : (s \o t)[i] = s[i]
         /\ \A i \in 1 .. Len(t) : (s \o t)[Len(s) + i] = t[i]
<1> DEFINE S == {s[i] : i \in 1 .. Len(s)} \cup {t[i] : i \in 1 .. Len(t)}
<1>1. s \in Seq(S) /\ t \in Seq(S)
  BY IsSeqInSeq
<1> HIDE DEF S
<1>2. s \o t \in Seq(S) /\ Len(s \o t) = Len(s) + Len(t)
  BY <1>1
<1>3. Len(s) \in Nat /\ Len(t) \in Nat
  BY <1>1
<1>4. \A i \in 1 .. Len(s) : (s \o t)[i] = s[i]
  BY <1>1, <1>3
<1>5. \A i \in 1 .. Len(t) : (s \o t)[Len(s) + i] = t[i]
  BY <1>1, <1>3
<1>6. IsSeq(s \o t)
  BY ZenonT(30), <1>2, InSeqIsSeq
<1> QED
  BY <1>2, <1>4, <1>5, <1>6

\* Taking the first task leaves the others in order.
LEMMA TailElements ==
  ASSUME NEW s, IsSeq(s), s # << >>
  PROVE  /\ IsSeq(Tail(s))
         /\ Len(s) > 0
         /\ Head(s) = s[1]
         /\ Len(Tail(s)) = Len(s) - 1
         /\ \A i \in 1 .. Len(Tail(s)) : Tail(s)[i] = s[i + 1]
<1> DEFINE S == {s[i] : i \in 1 .. Len(s)}
<1>1. s \in Seq(S)
  BY IsSeqInSeq
<1> HIDE DEF S
<1>2. Tail(s) \in Seq(S) /\ Len(s) > 0 /\ Len(Tail(s)) = Len(s) - 1 /\ Head(s) = s[1]
  BY <1>1
<1>3. \A i \in 1 .. Len(Tail(s)) : Tail(s)[i] = s[i + 1]
  BY <1>1, <1>2
<1> QED
  BY ZenonT(30), <1>2, <1>3, InSeqIsSeq

\* Appending one task is appending a sequence of one.
LEMMA AppendTask ==
  ASSUME NEW s, IsSeq(s), NEW x
  PROVE  /\ Append(s, x) = s \o <<x>>
         /\ IsSeq(<<x>>) /\ Len(<<x>>) = 1 /\ <<x>>[1] = x
<1> DEFINE S == {s[i] : i \in 1 .. Len(s)} \cup {x}
<1>1. s \in Seq(S) /\ <<x>> \in Seq(S) /\ x \in S
  BY IsSeqInSeq
<1> HIDE DEF S
<1>2. IsSeq(<<x>>) /\ Len(<<x>>) = 1 /\ <<x>>[1] = x
  BY ZenonT(30), <1>1, InSeqIsSeq
<1>3. Append(s, x) = s \o <<x>>
  BY <1>1, AppendIsConcat
<1> QED
  BY <1>2, <1>3

---------------------------------------------------------------------------
(* What the queue and the table do to Interests that wait.                 *)

\* Tasks that express nothing may follow.
LEMMA WaitingPlain ==
  ASSUME NEW s, NEW heard, NEW table, NEW more, Waiting(s, heard, table), Plain(more)
  PROVE  Waiting(s \o more, heard, table)
<1>1. IsSeq(s) /\ IsSeq(more) /\ Len(s) \in Nat /\ Len(more) \in Nat
  BY DEF Waiting, Plain, IsSeq
<1>2. /\ IsSeq(s \o more)
      /\ Len(s \o more) = Len(s) + Len(more)
      /\ \A i \in 1 .. Len(s) : (s \o more)[i] = s[i]
      /\ \A i \in 1 .. Len(more) : (s \o more)[Len(s) + i] = more[i]
  BY <1>1, ConcatElements
<1>3. ASSUME NEW i \in 1 .. Len(s \o more), Expresses(s \o more, i)
      PROVE  i \in 1 .. Len(s) /\ Expresses(s, i) /\ (s \o more)[i] = s[i]
  <2>1. CASE i \in 1 .. Len(s)
    BY <2>1, <1>2, <1>3 DEF Expresses
  <2>2. CASE i \notin 1 .. Len(s)
    <3>1. i - Len(s) \in 1 .. Len(more) /\ i = Len(s) + (i - Len(s))
      BY <2>2, <1>1, <1>2
    <3>2. (s \o more)[i] = more[i - Len(s)]
      BY <3>1, <1>2
    <3> QED
      BY <3>1, <3>2, <1>3 DEF Plain, Expresses
  <2> QED
    BY <2>1, <2>2
<1> QED
  BY <1>2, <1>3 DEF Waiting

\* When the first task leaves the queue the others wait on, and none of them
\* expresses the same Interest.
LEMMA WaitingTail ==
  ASSUME NEW s, NEW heard, NEW table, Waiting(s, heard, table), s # << >>
  PROVE  /\ Waiting(Tail(s), heard, table)
         /\ Head(s).op = "express" =>
              /\ Head(s).id \in DOMAIN heard /\ Head(s).id \notin table
              /\ heard[Head(s).id] = "none"
              /\ \A i \in 1 .. Len(Tail(s)) : Expresses(Tail(s), i) => Tail(s)[i].id # Head(s).id
<1>1. /\ IsSeq(Tail(s)) /\ Len(s) > 0 /\ Len(s) \in Nat /\ Head(s) = s[1]
      /\ Len(Tail(s)) = Len(s) - 1
      /\ \A i \in 1 .. Len(Tail(s)) : Tail(s)[i] = s[i + 1]
  BY TailElements DEF Waiting, IsSeq
<1>2. \A i \in 1 .. Len(Tail(s)) : Expresses(Tail(s), i) =>
        i + 1 \in 1 .. Len(s) /\ Expresses(s, i + 1) /\ Tail(s)[i] = s[i + 1]
  BY <1>1 DEF Expresses
<1>3. 1 \in 1 .. Len(s) /\ (Head(s).op = "express" => Expresses(s, 1))
  BY <1>1 DEF Expresses
<1>4. Waiting(Tail(s), heard, table)
  <2>1. \A i \in 1 .. Len(Tail(s)) : Expresses(Tail(s), i) =>
          /\ Tail(s)[i].id \in DOMAIN heard /\ Tail(s)[i].id \notin table
          /\ heard[Tail(s)[i].id] = "none"
    BY <1>2 DEF Waiting
  <2>2. ASSUME NEW i \in 1 .. Len(Tail(s)), NEW j \in 1 .. Len(Tail(s)),
               Expresses(Tail(s), i), Expresses(Tail(s), j), i # j
        PROVE  Tail(s)[i].id # Tail(s)[j].id
    <3>1. i + 1 # j + 1
      BY <2>2, <1>1
    <3> QED
      BY <3>1, <2>2, <1>2 DEF Waiting
  <2> QED
    BY <1>1, <2>1, <2>2 DEF Waiting
<1>5. ASSUME Head(s).op = "express"
      PROVE  /\ Head(s).id \in DOMAIN heard /\ Head(s).id \notin table
             /\ heard[Head(s).id] = "none"
             /\ \A i \in 1 .. Len(Tail(s)) : Expresses(Tail(s), i) => Tail(s)[i].id # Head(s).id
  <2>1. \A i \in 1 .. Len(Tail(s)) : i + 1 # 1
    BY <1>1
  <2> QED
    BY <2>1, <1>1, <1>2, <1>3, <1>5 DEF Waiting
<1> QED
  BY <1>4, <1>5

\* The table may lose records and tell their Interests anything; it may gain
\* records that do not wait.
LEMMA WaitingTable ==
  ASSUME NEW s, NEW heard, NEW table, NEW heard2, NEW table2, Waiting(s, heard, table),
         \A i \in 1 .. Len(s) : Expresses(s, i) =>
           s[i].id \in DOMAIN heard2 /\ s[i].id \notin table2 /\ heard2[s[i].id] = "none"
  PROVE  Waiting(s, heard2, table2)
BY DEF Waiting

\* A newly allocated id waits with the others.
LEMMA WaitingNew ==
  ASSUME NEW s, NEW heard \in Seq(Heard), NEW table, Waiting(s, heard, table),
         table \subseteq DOMAIN heard, NEW task, task.op = "express", task.id = Len(heard) + 1
  PROVE  Waiting(s \o <<task>>, Append(heard, "none"), table)
<1> DEFINE t == s \o <<task>>
           h == Append(heard, "none")
<1>1. /\ IsSeq(t) /\ Len(s) \in Nat
      /\ Len(t) = Len(s) + 1
      /\ \A i \in 1 .. Len(s) : t[i] = s[i]
      /\ t[Len(s) + 1] = task
  <2>1. IsSeq(s) /\ Len(s) \in Nat
    BY DEF Waiting, IsSeq
  <2>2. IsSeq(<<task>>) /\ Len(<<task>>) = 1 /\ <<task>>[1] = task
    BY <2>1, AppendTask
  <2> HIDE DEF t
  <2>3. IsSeq(t) /\ Len(t) = Len(s) + Len(<<task>>)
    BY <2>1, <2>2, ConcatElements DEF t
  <2>4. \A i \in 1 .. Len(s) : t[i] = s[i]
    BY <2>1, <2>2, ConcatElements DEF t
  <2>5. \A i \in 1 .. Len(<<task>>) : t[Len(s) + i] = <<task>>[i]
    BY <2>1, <2>2, ConcatElements DEF t
  <2>6. 1 \in 1 .. Len(<<task>>)
    BY <2>2
  <2> QED
    BY <2>1, <2>2, <2>3, <2>4, <2>5, <2>6
<1>2. /\ DOMAIN heard = 1 .. Len(heard) /\ Len(heard) \in Nat
      /\ DOMAIN h = 1 .. (Len(heard) + 1)
      /\ h[Len(heard) + 1] = "none"
      /\ \A id \in DOMAIN heard : h[id] = heard[id]
  BY DEF Heard
<1> HIDE DEF t, h
<1>3. \A i \in 1 .. Len(t) : Expresses(t, i) =>
        \/ i \in 1 .. Len(s) /\ Expresses(s, i) /\ t[i] = s[i]
        \/ i = Len(s) + 1 /\ t[i] = task
  BY <1>1 DEF Expresses
<1>4. \A i \in 1 .. Len(t) : Expresses(t, i) =>
        t[i].id \in DOMAIN h /\ t[i].id \notin table /\ h[t[i].id] = "none"
  BY <1>2, <1>3 DEF Waiting
<1>5. \A i \in 1 .. Len(s) : Expresses(s, i) => s[i].id # task.id
  BY <1>2 DEF Waiting
<1>6. \A i, j \in 1 .. Len(t) :
        Expresses(t, i) /\ Expresses(t, j) /\ i # j => t[i].id # t[j].id
  BY <1>1, <1>3, <1>5 DEF Waiting
<1> QED
  BY <1>1, <1>4, <1>6 DEF Waiting, t, h

---------------------------------------------------------------------------
(* The invariant in parts, and the steps of the abstract specification.    *)

RecordsOK ==
  /\ told \in Seq(Heard)
  /\ DOMAIN pit \subseteq DOMAIN told
  /\ \A id \in DOMAIN pit :
       /\ pit[id].nNotNacked \in Int
       /\ \/ pit[id].origin = "app" /\ told[id] = "none"
          \/ pit[id].origin = "forwarder" /\ told[id] = "foreign"

TablesOK ==
  /\ lastId \in [filter : Nat, prefix : Nat]
  /\ IsFiniteSet(DOMAIN filters)

TransportOK ==
  /\ transport \in [conn : {"closed", "connecting", "connected"},
                    ops : SUBSET {"receive", "write"}, queue : Nat]
  /\ transport.ops # {} => transport.conn = "connected"
  /\ "write" \in transport.ops => transport.queue > 0

\* The type invariant is the conjunction of its parts.
LEMMA TypeParts == TypeOK <=> RecordsOK /\ TablesOK /\ TransportOK
BY DEF TypeOK, RecordsOK, TablesOK, TransportOK

StatusSeq == [id \in DOMAIN told |-> Status(id)]

PromiseStep == Promise!Next \/ UNCHANGED StatusSeq

Statuses == {"posted", "pending", "foreign"} \cup {"data", "nack", "timeout", "removed"}

StatusOf(heard, table, id) ==
  IF heard[id] # "none" THEN heard[id] ELSE IF id \in table THEN "pending" ELSE "posted"

\* The status of an Interest is one of those of the abstract specification.
LEMMA StatusType ==
  ASSUME NEW heard \in Seq(Heard), NEW table
  PROVE  LET f == [id \in DOMAIN heard |-> StatusOf(heard, table, id)] IN
         /\ f \in Seq(Statuses) /\ Len(f) = Len(heard)
         /\ DOMAIN f = DOMAIN heard /\ DOMAIN heard = 1 .. Len(heard) /\ Len(heard) \in Nat
<1> DEFINE f == [id \in DOMAIN heard |-> StatusOf(heard, table, id)]
<1>1. DOMAIN heard = 1 .. Len(heard) /\ Len(heard) \in Nat
  OBVIOUS
<1>2. \A id \in DOMAIN heard : StatusOf(heard, table, id) \in Statuses
  BY DEF Heard, StatusOf, Statuses
<1>3. f \in [1 .. Len(heard) -> Statuses]
  BY <1>1, <1>2
<1>4. DOMAIN f = DOMAIN heard
  OBVIOUS
<1> HIDE DEF f
<1>5. f \in Seq(Statuses) /\ Len(f) = Len(heard)
  BY <1>1, <1>3
<1> QED
  BY <1>1, <1>4, <1>5 DEF f

\* The refinement mapping before and after a step.
LEMMA StatusSeqIs ==
  /\ StatusSeq = [id \in DOMAIN told |-> StatusOf(told, DOMAIN pit, id)]
  /\ StatusSeq' = [id \in DOMAIN told' |-> StatusOf(told', DOMAIN pit', id)]
BY DEF StatusSeq, Status, StatusOf

\* A step that allocates no id and moves each Interest as the abstract
\* specification allows is a step of it.
LEMMA AdvanceStep ==
  ASSUME RecordsOK, RecordsOK', DOMAIN told' = DOMAIN told,
         \A id \in DOMAIN told :
           LET old == StatusOf(told, DOMAIN pit, id)
               new == StatusOf(told', DOMAIN pit', id)
           IN \/ new = old
              \/ old = "posted" /\ new \in {"pending", "removed"}
              \/ old = "pending" /\ new \in {"data", "nack", "timeout", "removed"}
  PROVE  PromiseStep
<1> DEFINE f == [id \in DOMAIN told |-> StatusOf(told, DOMAIN pit, id)]
           g == [id \in DOMAIN told' |-> StatusOf(told', DOMAIN pit', id)]
<1>1. f \in Seq(Statuses) /\ g \in Seq(Statuses) /\ Len(f) = Len(told) /\ Len(g) = Len(told')
  BY ZenonT(30), StatusType DEF RecordsOK
<1>2. Len(told) = Len(told')
  BY DEF RecordsOK
<1>3. \A id \in DOMAIN f :
        \/ g[id] = f[id]
        \/ f[id] \in DOMAIN Promise!Moves /\ g[id] \in Promise!Moves[f[id]]
  BY DEF Promise!Moves, Promise!Ended
<1>4. f = StatusSeq /\ g = StatusSeq'
  BY StatusSeqIs
<1> HIDE DEF f, g
<1>5. Promise!Advance
  BY <1>1, <1>2, <1>3, <1>4 DEF Promise!Advance, Promise!Ended, Statuses, StatusSeq
<1> QED
  BY <1>5 DEF PromiseStep, Promise!Next

\* Allocating an id is a step of the abstract specification.
LEMMA ExpressStep ==
  ASSUME RecordsOK, NEW what \in {"none", "foreign"}, told' = Append(told, what),
         \A id \in DOMAIN told : id \in DOMAIN pit' <=> id \in DOMAIN pit,
         what = "none" => Len(told) + 1 \notin DOMAIN pit'
  PROVE  PromiseStep
<1> DEFINE f == [id \in DOMAIN told |-> StatusOf(told, DOMAIN pit, id)]
           g == [id \in DOMAIN told' |-> StatusOf(told', DOMAIN pit', id)]
           x == IF what = "none" THEN "posted" ELSE "foreign"
<1>1. /\ f \in Seq(Statuses) /\ Len(f) = Len(told) /\ DOMAIN f = DOMAIN told
      /\ DOMAIN told = 1 .. Len(told) /\ Len(told) \in Nat
  BY StatusType DEF RecordsOK
<1>2. /\ DOMAIN told' = 1 .. (Len(told) + 1)
      /\ \A id \in DOMAIN told : told'[id] = told[id]
      /\ told'[Len(told) + 1] = what
  BY <1>1 DEF RecordsOK
<1>3. \A id \in DOMAIN told : g[id] = f[id]
  BY <1>1, <1>2 DEF StatusOf
<1>4. g[Len(told) + 1] = x
  BY <1>1, <1>2 DEF StatusOf
<1>5. g \in Seq(Statuses) /\ Len(g) = Len(told) + 1
  <2> DEFINE heard == told'
             records == DOMAIN pit'
             s == [id \in DOMAIN heard |-> StatusOf(heard, records, id)]
  <2>1. heard \in Seq(Heard) /\ Len(heard) = Len(told) + 1
    BY DEF RecordsOK, Heard
  <2>2. g = s
    OBVIOUS
  <2> HIDE DEF heard, records, g
  <2>3. s \in Seq(Statuses) /\ Len(s) = Len(heard)
    BY ZenonT(30), <2>1, StatusType
  <2> QED
    BY <2>1, <2>2, <2>3
<1>6. f = StatusSeq /\ g = StatusSeq'
  BY StatusSeqIs
<1>7. x \in {"posted", "foreign"}
  OBVIOUS
<1> HIDE DEF f, g, x
<1>8. g = Append(f, x)
  <2>1. /\ Append(f, x) \in Seq(Statuses)
        /\ Len(Append(f, x)) = Len(told) + 1
        /\ \A id \in DOMAIN told : Append(f, x)[id] = f[id]
        /\ Append(f, x)[Len(told) + 1] = x
    BY <1>1, <1>7 DEF Statuses
  <2>2. \A id \in 1 .. Len(g) : g[id] = Append(f, x)[id]
    BY <2>1, <1>1, <1>3, <1>4, <1>5
  <2> QED
    BY <2>1, <2>2, <1>5, SeqEqual
<1>9. Promise!Express
  BY <1>6, <1>7, <1>8 DEF Promise!Express, StatusSeq
<1> QED
  BY <1>9 DEF PromiseStep, Promise!Next

---------------------------------------------------------------------------
(* The effects actions have on the table of pending Interests.             *)

\* Pending Interests end: their records go and the application hears of its
\* own.
LEMMA Removal ==
  ASSUME RecordsOK, PostedInv, NEW ids \in SUBSET DOMAIN pit,
         NEW what \in {"data", "nack", "timeout", "removed"},
         told' = Tell(ids, what), DOMAIN pit' = DOMAIN pit \ ids,
         \A id \in DOMAIN pit' :
           pit'[id].origin = pit[id].origin /\ pit'[id].nNotNacked \in Int
  PROVE  RecordsOK' /\ PromiseStep /\ Waiting(posted, told', DOMAIN pit')
<1>1. DOMAIN told = 1 .. Len(told) /\ Len(told) \in Nat /\ told \in [1 .. Len(told) -> Heard]
  BY DEF RecordsOK
<1>2. told' \in [1 .. Len(told) -> Heard]
  BY <1>1 DEF Tell, Heard
<1>3. told' \in Seq(Heard) /\ DOMAIN told' = DOMAIN told
  BY <1>1, <1>2
<1>4. \A id \in DOMAIN told :
        told'[id] = IF id \in ids /\ pit[id].origin = "app" THEN what ELSE told[id]
  BY DEF Tell
<1>5. RecordsOK'
  BY <1>3, <1>4 DEF RecordsOK
<1>6. PromiseStep
  <2>1. \A id \in DOMAIN told :
          LET old == StatusOf(told, DOMAIN pit, id)
              new == StatusOf(told', DOMAIN pit', id)
          IN \/ new = old
             \/ old = "pending" /\ new \in {"data", "nack", "timeout", "removed"}
    BY <1>4 DEF RecordsOK, StatusOf
  <2> QED
    BY ZenonT(30), <2>1, <1>3, <1>5, AdvanceStep
<1>7. Waiting(posted, told', DOMAIN pit')
  BY <1>3, <1>4, WaitingTable DEF PostedInv, Waiting
<1> QED
  BY <1>5, <1>6, <1>7

\* Nothing happens to the table.
LEMMA NothingTold ==
  ASSUME RecordsOK, UNCHANGED <<pit, told>>
  PROVE  RecordsOK' /\ PromiseStep
BY DEF RecordsOK, PromiseStep, StatusSeq, Status

\* An id is allocated for an Interest that will be expressed.
LEMMA Allocation ==
  ASSUME RecordsOK, UNCHANGED pit, told' = Append(told, "none")
  PROVE  RecordsOK' /\ PromiseStep
<1>1. DOMAIN told = 1 .. Len(told) /\ Len(told) \in Nat
  BY DEF RecordsOK
<1>2. /\ told' \in Seq(Heard)
      /\ DOMAIN told' = 1 .. (Len(told) + 1)
      /\ \A id \in DOMAIN told : told'[id] = told[id]
  BY <1>1 DEF RecordsOK, Heard
<1>3. RecordsOK'
  BY <1>1, <1>2 DEF RecordsOK
<1>4. Len(told) + 1 \notin DOMAIN pit
  BY <1>1 DEF RecordsOK
<1> QED
  BY <1>3, <1>4, ExpressStep

\* An Interest that waited becomes pending.
LEMMA Insertion ==
  ASSUME RecordsOK, UNCHANGED told, NEW id \in DOMAIN told \ DOMAIN pit, told[id] = "none",
         NEW e, e.origin = "app", e.nNotNacked \in Int, pit' = Extended(pit, id, e)
  PROVE  RecordsOK' /\ PromiseStep
<1>1. /\ DOMAIN pit' = DOMAIN pit \cup {id}
      /\ pit'[id] = e
      /\ \A i \in DOMAIN pit : pit'[i] = pit[i]
  BY DEF Extended
<1>2. RecordsOK'
  BY <1>1 DEF RecordsOK
<1>3. \A i \in DOMAIN told :
        LET old == StatusOf(told, DOMAIN pit, i)
            new == StatusOf(told', DOMAIN pit', i)
        IN new = old \/ (old = "posted" /\ new = "pending")
  BY <1>1 DEF StatusOf
<1> QED
  BY <1>2, <1>3, AdvanceStep

\* A record is made for an Interest of the forwarder.
LEMMA ForeignInsertion ==
  ASSUME RecordsOK, told' = Append(told, "foreign"), NEW e, e.origin = "forwarder",
         e.nNotNacked \in Int, pit' = Extended(pit, Len(told) + 1, e)
  PROVE  RecordsOK' /\ PromiseStep
<1>1. DOMAIN told = 1 .. Len(told) /\ Len(told) \in Nat
  BY DEF RecordsOK
<1>2. /\ told' \in Seq(Heard)
      /\ DOMAIN told' = 1 .. (Len(told) + 1)
      /\ \A id \in DOMAIN told : told'[id] = told[id]
      /\ told'[Len(told) + 1] = "foreign"
  BY <1>1 DEF RecordsOK, Heard
<1>3. /\ DOMAIN pit' = DOMAIN pit \cup {Len(told) + 1}
      /\ pit'[Len(told) + 1] = e
      /\ \A i \in DOMAIN pit : pit'[i] = pit[i]
  <2>1. Len(told) + 1 \notin DOMAIN pit
    BY <1>1 DEF RecordsOK
  <2> QED
    BY <2>1 DEF Extended
<1>4. RecordsOK'
  BY <1>1, <1>2, <1>3 DEF RecordsOK
<1>5. \A id \in DOMAIN told : id \in DOMAIN pit' <=> id \in DOMAIN pit
  BY <1>1, <1>3
<1> QED
  BY <1>4, <1>5, ExpressStep

\* Both tables are cleared, after the application has heard of some of its
\* Interests and one that waited may have been dropped.
LEMMA Clearing ==
  ASSUME RecordsOK, NEW heard, heard \in [DOMAIN told -> Heard], ClearTables(heard),
         \A id \in DOMAIN told :
           \/ heard[id] = told[id]
           \/ StatusOf(told, DOMAIN pit, id) = "pending" /\ heard[id] = "data"
           \/ StatusOf(told, DOMAIN pit, id) = "posted" /\ heard[id] = "removed"
  PROVE  /\ RecordsOK' /\ PromiseStep /\ DOMAIN pit' = {} /\ DOMAIN prefixes' = {}
         /\ DOMAIN told' = DOMAIN told
         /\ \A id \in DOMAIN told : id \notin DOMAIN pit /\ heard[id] = told[id] => told'[id] = told[id]
<1>1. DOMAIN told = 1 .. Len(told) /\ Len(told) \in Nat
  BY DEF RecordsOK
<1>2. DOMAIN pit' = {} /\ DOMAIN prefixes' = {}
  BY DEF ClearTables
<1>3. /\ DOMAIN told' = DOMAIN told
      /\ \A id \in DOMAIN told :
           told'[id] = IF id \in DOMAIN pit /\ heard[id] = "none" THEN "removed" ELSE heard[id]
  BY DEF ClearTables
<1>4. told' \in Seq(Heard)
  <2>1. told' \in [1 .. Len(told) -> Heard]
    BY <1>1 DEF ClearTables, Heard
  <2> QED
    BY <2>1, <1>1
<1>5. RecordsOK'
  BY <1>2, <1>4 DEF RecordsOK
<1>6. \A id \in DOMAIN told :
        LET old == StatusOf(told, DOMAIN pit, id)
            new == StatusOf(told', DOMAIN pit', id)
        IN \/ new = old
           \/ old = "posted" /\ new = "removed"
           \/ old = "pending" /\ new \in {"data", "removed"}
  BY <1>2, <1>3 DEF StatusOf, RecordsOK
<1>7. PromiseStep
  BY <1>3, <1>5, <1>6, AdvanceStep
<1> QED
  BY <1>2, <1>3, <1>5, <1>7

---------------------------------------------------------------------------
(* The effects actions have on the queue and on the transport.             *)

\* What the tables post expresses nothing.
LEMMA PlainPosts ==
  /\ Plain(<< >>)
  /\ Plain(BothEmpty)
  /\ Plain(<<[op |-> "pause"]>>)
  /\ \A table : Plain(OnEmpty(table))
<1>1. Plain(<< >>)
  BY DEF Plain, IsSeq
<1>2. Plain(<<[op |-> "pause"]>>)
  BY DEF Plain, IsSeq
<1>3. Plain(BothEmpty)
  BY DEF Plain, IsSeq, BothEmpty
<1> QED
  BY <1>1, <1>2, <1>3 DEF OnEmpty

\* Nor do two such sequences one after the other.
LEMMA PlainConcat ==
  ASSUME NEW s, NEW t, Plain(s), Plain(t)
  PROVE  Plain(s \o t)
<1>1. IsSeq(s) /\ IsSeq(t) /\ Len(s) \in Nat /\ Len(t) \in Nat
  BY DEF Plain, IsSeq
<1>2. /\ IsSeq(s \o t)
      /\ Len(s \o t) = Len(s) + Len(t)
      /\ \A i \in 1 .. Len(s) : (s \o t)[i] = s[i]
      /\ \A i \in 1 .. Len(t) : (s \o t)[Len(s) + i] = t[i]
  BY <1>1, ConcatElements
<1>3. ASSUME NEW i \in 1 .. Len(s \o t)
      PROVE  (s \o t)[i].op # "express"
  <2>1. CASE i \in 1 .. Len(s)
    BY <2>1, <1>2 DEF Plain
  <2>2. CASE i \notin 1 .. Len(s)
    <3>1. i - Len(s) \in 1 .. Len(t) /\ i = Len(s) + (i - Len(s))
      BY <2>2, <1>1, <1>2
    <3> QED
      BY <3>1, <1>2 DEF Plain
  <2> QED
    BY <2>1, <2>2
<1> QED
  BY <1>2, <1>3 DEF Plain

\* A task runs, and what it posts expresses nothing.
LEMMA RunPlain ==
  ASSUME NEW op, NEW more, Run(op, more), Plain(more), Waiting(posted, told', DOMAIN pit')
  PROVE  PostedInv'
<1>1. posted # << >> /\ posted' = Tail(posted) \o more
  BY DEF Run
<1>2. Waiting(Tail(posted), told', DOMAIN pit')
  BY <1>1, WaitingTail
<1>3. Waiting(posted', told', DOMAIN pit')
  BY <1>1, <1>2, WaitingPlain
<1> QED
  BY <1>3 DEF PostedInv

\* A packet or a timer posts what expresses nothing.
LEMMA EventPlain ==
  ASSUME NEW more, posted' = posted \o more, Plain(more), Waiting(posted, told', DOMAIN pit')
  PROVE  PostedInv'
<1>1. Waiting(posted', told', DOMAIN pit')
  BY WaitingPlain
<1> QED
  BY <1>1 DEF PostedInv

Transports ==
  [conn : {"closed", "connecting", "connected"}, ops : SUBSET {"receive", "write"}, queue : Nat]

\* Sending adds to the queue, and starts to write on a connection.
LEMMA SendFields ==
  ASSUME NEW t \in Transports
  PROVE  /\ Send(t) \in Transports
         /\ Send(t).conn = t.conn
         /\ Send(t).queue > 0
         /\ t.ops \subseteq Send(t).ops
         /\ t.conn # "connected" => Send(t).ops = t.ops
<1>1. PICK o \in SUBSET {"receive", "write"} :
        /\ o = IF t.conn = "connected" /\ t.queue = 0 THEN t.ops \cup {"write"} ELSE t.ops
        /\ t.ops \subseteq o
        /\ t.conn # "connected" => o = t.ops
  <2>1. t.ops \subseteq {"receive", "write"}
    BY DEF Transports
  <2>2. t.ops \in SUBSET {"receive", "write"} /\ t.ops \cup {"write"} \in SUBSET {"receive", "write"}
    BY <2>1
  <2> QED BY ZenonT(30), <2>2
<1>2. Send(t) = [conn |-> t.conn, ops |-> o, queue |-> t.queue + 1]
  BY <1>1 DEF Send, Transports
<1> QED
  BY <1>1, <1>2 DEF Transports

\* Asking for a connection to read from and sending on it.
LEMMA ConnectAndSend ==
  ASSUME TransportOK, transport' = Send(EnsureConnected(transport, TRUE))
  PROVE  TransportOK' /\ ListensWhilePending'
<1>1. PICK t \in Transports :
        /\ t = EnsureConnected(transport, TRUE)
        /\ t.conn # "closed"
        /\ t.conn = "connected" => "receive" \in t.ops
        /\ t.ops # {} => t.conn = "connected"
  BY DEF TransportOK, EnsureConnected, Transports
<1>2. /\ transport' \in Transports
      /\ transport'.conn = t.conn
      /\ transport'.queue > 0
      /\ t.ops \subseteq transport'.ops
      /\ t.conn # "connected" => transport'.ops = t.ops
  BY ZenonT(30), <1>1, SendFields
<1>3. TransportOK'
  BY ZenonT(30), <1>1, <1>2 DEF TransportOK, Transports
<1>4. ListensWhilePending'
  BY ZenonT(30), <1>1, <1>2 DEF ListensWhilePending, Transports, Receiving
<1> QED
  BY <1>3, <1>4

\* Asking for a connection only.
LEMMA ConnectOnly ==
  ASSUME TransportOK, NEW b \in BOOLEAN, transport' = EnsureConnected(transport, b)
  PROVE  TransportOK'
BY DEF TransportOK, EnsureConnected

\* No record is added and the transport is left alone.
LEMMA StillListens ==
  ASSUME TransportOK, ListensWhilePending, UNCHANGED transport,
         DOMAIN pit' # {} \/ DOMAIN prefixes' # {} => DOMAIN pit # {} \/ DOMAIN prefixes # {}
  PROVE  TransportOK' /\ ListensWhilePending'
BY DEF TransportOK, ListensWhilePending, Receiving

\* Forwarding an Interest to the filters leaves its record well formed.
LEMMA DispatchType ==
  ASSUME TablesOK, NEW origin, NEW interest, NEW then, NEW n \in Nat
  PROVE  LET e == DispatchInterest([Pending(origin, interest, then) EXCEPT !.nNotNacked = n])
         IN  e.origin = origin /\ e.nNotNacked \in Int
<1> DEFINE p == [Pending(origin, interest, then) EXCEPT !.nNotNacked = n]
           S == {f \in DOMAIN filters : DoesMatch(filters[f], p)}
<1>1. p = [origin |-> origin, interest |-> interest, then |-> then, nNotNacked |-> n]
  BY DEF Pending
<1>3. IsFiniteSet(S)
  BY FS_Subset DEF TablesOK
<1>4. Cardinality(S) \in Nat
  BY <1>3, FS_CardinalityType
<1>5. DispatchInterest(p) = [p EXCEPT !.nNotNacked = @ + Cardinality(S)]
  BY DEF DispatchInterest
<1> HIDE DEF S, p
<1>6. DispatchInterest(p).origin = origin /\ DispatchInterest(p).nNotNacked \in Int
  BY <1>1, <1>4, <1>5
<1> QED
  BY <1>6 DEF p

---------------------------------------------------------------------------
(* The actions.                                                            *)

Kept == IInv' /\ PromiseStep

\* A call that posts a task which expresses nothing.
LEMMA PlainCall ==
  ASSUME IInv, NEW task, Call(task), task.op # "express", UNCHANGED told, TablesOK'
  PROVE  Kept
<1>1. RecordsOK /\ TransportOK /\ ListensWhilePending /\ Waiting(posted, told, DOMAIN pit)
  BY TypeParts DEF IInv, PostedInv
<1>2. /\ posted' = Append(posted, task)
      /\ pit' = pit /\ prefixes' = prefixes /\ transport' = transport /\ told' = told
  BY DEF Call
<1>3. RecordsOK' /\ PromiseStep
  BY <1>1, <1>2, NothingTold
<1>4. TransportOK' /\ ListensWhilePending'
  BY <1>1, <1>2, StillListens
<1>5. posted' = posted \o <<task>> /\ Plain(<<task>>)
  BY <1>1, <1>2, AppendTask DEF Waiting, Plain
<1>6. PostedInv'
  BY ZenonT(30), <1>1, <1>2, <1>5, EventPlain
<1>7. TypeOK'
  BY <1>3, <1>4, TypeParts DEF TypeOK, RecordsOK, TablesOK, TransportOK
<1> QED
  BY <1>3, <1>4, <1>6, <1>7 DEF Kept, IInv

\* A call that allocates an id and posts the expression of its Interest.
LEMMA ExpressingCall ==
  ASSUME IInv, NEW interest, NEW then, Call(NewInterest(interest, then)),
         told' = Append(told, "none"), TablesOK'
  PROVE  Kept
<1> DEFINE task == NewInterest(interest, then)
<1>1. RecordsOK /\ TransportOK /\ ListensWhilePending /\ Waiting(posted, told, DOMAIN pit)
  BY TypeParts DEF IInv, PostedInv
<1>2. /\ posted' = Append(posted, task)
      /\ pit' = pit /\ prefixes' = prefixes /\ transport' = transport
  BY DEF Call
<1>3. RecordsOK' /\ PromiseStep
  BY <1>1, <1>2, Allocation
<1>4. TransportOK' /\ ListensWhilePending'
  BY <1>1, <1>2, StillListens
<1>5. task.op = "express" /\ task.id = Len(told) + 1
  BY DEF NewInterest
<1> HIDE DEF task
<1>6. posted' = posted \o <<task>>
  BY <1>1, <1>2, AppendTask DEF Waiting
<1>7. Waiting(posted', told', DOMAIN pit)
  BY <1>1, <1>5, <1>6, WaitingNew DEF RecordsOK
<1>8. PostedInv'
  BY <1>2, <1>7 DEF PostedInv
<1>9. TypeOK'
  BY <1>3, <1>4, TypeParts DEF TypeOK, RecordsOK, TablesOK, TransportOK
<1> QED
  BY <1>3, <1>4, <1>8, <1>9 DEF Kept, IInv

\* Calls of the application.
LEMMA ApplicationKeeps == IInv /\ Application => Kept
<1> SUFFICES ASSUME IInv, Application PROVE Kept
  OBVIOUS
<1>1. TablesOK
  BY TypeParts DEF IInv
<1>2. ASSUME NEW i, ExpressInterest(i) PROVE Kept
  <2>1. TablesOK'
    BY <1>1, <1>2 DEF ExpressInterest, Call, TablesOK
  <2> QED
    BY <2>1, <1>2, ExpressingCall DEF ExpressInterest
<1>3. ASSUME NEW f, NEW b, RegisterPrefix(f, b) PROVE Kept
  <2>1. TablesOK'
    BY <1>1, <1>3 DEF RegisterPrefix, Call, TablesOK
  <2> QED
    BY <2>1, <1>3, ExpressingCall DEF RegisterPrefix
<1>4. ASSUME NEW f, SetInterestFilter(f) PROVE Kept
  <2>1. TablesOK'
    BY <1>1, <1>4 DEF SetInterestFilter, Call, TablesOK
  <2> QED
    BY <2>1, <1>4, PlainCall DEF SetInterestFilter
<1>5. ASSUME NEW task, Call(task), task.op # "express", UNCHANGED <<told, handles, lastId>>
      PROVE  Kept
  <2>1. TablesOK'
    BY <1>1, <1>5 DEF Call, TablesOK
  <2> QED
    BY <2>1, <1>5, PlainCall
<1>6. ASSUME NEW id, CancelInterest(id) \/ UnsetInterestFilter(id) \/ UnregisterPrefix(id)
      PROVE  Kept
  BY <1>5, <1>6 DEF CancelInterest, UnsetInterestFilter, UnregisterPrefix
<1>7. ASSUME NEW d, PutData(d) \/ PutNack(d) PROVE Kept
  BY <1>5, <1>7 DEF PutData, PutNack
<1>8. ASSUME RemoveAllPendingInterests \/ Shutdown PROVE Kept
  BY <1>5, <1>8 DEF RemoveAllPendingInterests, Shutdown
<1> QED
  BY <1>2, <1>3, <1>4, <1>6, <1>7, <1>8 DEF Application

\* The parts after a step make up the invariant.
LEMMA Assemble ==
  ASSUME RecordsOK', TablesOK', TransportOK', ListensWhilePending', PostedInv', PromiseStep
  PROVE  Kept
BY DEF Kept, IInv, TypeOK, RecordsOK, TablesOK, TransportOK

\* The tables of filters and prefixes lose records or gain one.
LEMMA FiltersFinite ==
  ASSUME TablesOK, lastId' \in [filter : Nat, prefix : Nat], NEW id,
         DOMAIN filters' \subseteq DOMAIN filters \cup {id}
  PROVE  TablesOK'
<1>1. IsFiniteSet(DOMAIN filters \cup {id})
  BY FS_AddElement DEF TablesOK
<1>2. IsFiniteSet(DOMAIN filters')
  BY <1>1, FS_Subset
<1> QED
  BY <1>2 DEF TablesOK

\* Tasks that leave the pending Interests alone.
LEMMA OtherTasksKeep ==
  IInv /\ (\/ RunConnect \/ RunSetFilter \/ RunUnsetFilter \/ RunUnregisterUnrecognized
           \/ RunPause) => Kept
<1> SUFFICES ASSUME IInv, NEW op, Run(op, << >>), UNCHANGED <<pit, prefixes, lastId, told>>,
                    \/ RunConnect \/ RunSetFilter \/ RunUnsetFilter
                    \/ RunUnregisterUnrecognized \/ RunPause
             PROVE  Kept
  BY ZenonT(30) DEF RunConnect, RunSetFilter, RunUnsetFilter, RunUnregisterUnrecognized, RunPause
<1>1. RecordsOK /\ TablesOK /\ TransportOK /\ ListensWhilePending /\ Waiting(posted, told, DOMAIN pit)
  BY TypeParts DEF IInv, PostedInv
<1>2. RecordsOK' /\ PromiseStep
  BY <1>1, NothingTold
<1>3. PostedInv'
  BY <1>1, PlainPosts, RunPlain
<1>4. TablesOK'
  <2>1. ASSUME NEW id, DOMAIN filters' \subseteq DOMAIN filters \cup {id} PROVE TablesOK'
    BY ZenonT(30), <2>1, <1>1, FiltersFinite DEF TablesOK
  <2>2. CASE RunSetFilter
    BY <2>1, <2>2 DEF RunSetFilter, Extended
  <2>3. CASE RunUnsetFilter
    BY <2>1, <2>3 DEF RunUnsetFilter, Without
  <2>4. CASE UNCHANGED filters
    BY <2>1, <2>4
  <2> QED
    BY ZenonT(30), <2>2, <2>3, <2>4 DEF RunConnect, RunUnregisterUnrecognized, RunPause
<1>5. TransportOK' /\ ListensWhilePending'
  <2>1. CASE UNCHANGED transport
    BY <2>1, <1>1, StillListens
  <2>2. CASE RunConnect
    BY <2>2, <1>1 DEF RunConnect, EnsureConnected, TransportOK, ListensWhilePending, Receiving
  <2>3. CASE RunPause /\ DOMAIN pit = {} /\ DOMAIN prefixes = {}
    <3>1. transport' \in PauseResults(transport)
      BY <2>3 DEF RunPause
    <3>2. TransportOK'
      BY <3>1, <1>1 DEF PauseResults, TransportOK
    <3> QED
      BY <3>2, <2>3 DEF ListensWhilePending
  <2> QED
    BY <2>1, <2>2, <2>3 DEF RunSetFilter, RunUnsetFilter, RunUnregisterUnrecognized, RunPause
<1> QED
  BY <1>2, <1>3, <1>4, <1>5, Assemble

\* Expressing an Interest.
LEMMA RunExpressKeeps == IInv /\ RunExpress => Kept
<1> SUFFICES ASSUME IInv, RunExpress PROVE Kept
  OBVIOUS
<1>1. RecordsOK /\ TablesOK /\ TransportOK /\ ListensWhilePending /\ Waiting(posted, told, DOMAIN pit)
  BY TypeParts DEF IInv, PostedInv
<1>2. /\ posted # << >> /\ Head(posted).op = "express" /\ posted' = Tail(posted) \o << >>
      /\ transport' = Send(EnsureConnected(transport, TRUE))
      /\ told' = told /\ lastId' = lastId /\ filters' = filters
  BY DEF RunExpress, Run, Task
<1> DEFINE id == Head(posted).id
           e  == DispatchInterest([Pending("app", Task.interest, Task.then) EXCEPT !.nNotNacked = 1])
<1>3. pit' = Extended(pit, id, e)
  BY DEF RunExpress, Task
<1>4. e.origin = "app" /\ e.nNotNacked \in Int
  BY <1>1, DispatchType
<1> HIDE DEF id, e
<1>5. /\ id \in DOMAIN told \ DOMAIN pit /\ told[id] = "none"
      /\ Waiting(Tail(posted), told, DOMAIN pit)
      /\ \A i \in 1 .. Len(Tail(posted)) :
           Expresses(Tail(posted), i) => Tail(posted)[i].id # id
  BY <1>1, <1>2, WaitingTail DEF id
<1>6. RecordsOK' /\ PromiseStep
  BY <1>1, <1>2, <1>3, <1>4, <1>5, Insertion
<1>7. TransportOK' /\ ListensWhilePending'
  BY <1>1, <1>2, ConnectAndSend
<1>8. Waiting(Tail(posted), told', DOMAIN pit')
  <2>1. DOMAIN pit' = DOMAIN pit \cup {id}
    BY <1>3 DEF Extended
  <2>2. \A i \in 1 .. Len(Tail(posted)) : Expresses(Tail(posted), i) =>
          /\ Tail(posted)[i].id \in DOMAIN told' /\ Tail(posted)[i].id \notin DOMAIN pit'
          /\ told'[Tail(posted)[i].id] = "none"
    BY <2>1, <1>2, <1>5 DEF Waiting
  <2> QED
    BY ZenonT(30), <2>2, <1>5, WaitingTable
<1>9. PostedInv'
  BY <1>2, <1>8, WaitingPlain, PlainPosts DEF PostedInv
<1>10. TablesOK'
  BY <1>1, <1>2 DEF TablesOK
<1> QED
  BY <1>6, <1>7, <1>9, <1>10, Assemble

\* Pending Interests end, and no other record is added.
LEMMA RemovalKeeps ==
  ASSUME IInv, NEW ids \in SUBSET DOMAIN pit,
         NEW what \in {"data", "nack", "timeout", "removed"},
         told' = Tell(ids, what), DOMAIN pit' = DOMAIN pit \ ids,
         \A id \in DOMAIN pit' :
           pit'[id].origin = pit[id].origin /\ pit'[id].nNotNacked \in Int,
         TablesOK', Waiting(posted, told', DOMAIN pit') => PostedInv',
         \/ UNCHANGED <<prefixes, transport>>
         \/ transport' = Send(EnsureConnected(transport, TRUE))
         \/ Receiving /\ UNCHANGED transport
  PROVE  Kept
<1>1. RecordsOK /\ TransportOK /\ ListensWhilePending /\ PostedInv
  BY TypeParts DEF IInv
<1>2. RecordsOK' /\ PromiseStep /\ Waiting(posted, told', DOMAIN pit')
  BY <1>1, Removal
<1>3. TransportOK' /\ ListensWhilePending'
  <2>1. CASE UNCHANGED <<prefixes, transport>>
    BY <2>1, <1>1, StillListens
  <2>2. CASE transport' = Send(EnsureConnected(transport, TRUE))
    BY <2>2, <1>1, ConnectAndSend
  <2>3. CASE Receiving /\ UNCHANGED transport
    BY <2>3, <1>1 DEF TransportOK, ListensWhilePending, Receiving
  <2> QED
    BY ZenonT(30), <2>1, <2>2, <2>3
<1> QED
  BY <1>2, <1>3, Assemble

\* A Nack takes out some records and counts down in others.
LEMMA NackedRecords ==
  ASSUME RecordsOK, NEW i
  PROVE  LET rest == Without(NackedPit(i), NackedBy(i)) IN
         /\ NackedBy(i) \in SUBSET DOMAIN pit
         /\ DOMAIN rest = DOMAIN pit \ NackedBy(i)
         /\ \A id \in DOMAIN rest : rest[id].origin = pit[id].origin /\ rest[id].nNotNacked \in Int
<1> DEFINE rest == Without(NackedPit(i), NackedBy(i))
<1>1. NackedBy(i) \in SUBSET DOMAIN pit /\ DOMAIN NackedPit(i) = DOMAIN pit
  BY DEF NackedBy, NackedPit
<1>2. \A id \in DOMAIN pit :
        NackedPit(i)[id].origin = pit[id].origin /\ NackedPit(i)[id].nNotNacked \in Int
  BY DEF NackedPit, RecordNack, RecordsOK
<1>3. DOMAIN rest = DOMAIN pit \ NackedBy(i) /\ \A id \in DOMAIN rest : rest[id] = NackedPit(i)[id]
  BY <1>1 DEF Without
<1> QED
  BY <1>1, <1>2, <1>3

\* Tasks that end pending Interests.
LEMMA EndingTasksKeep == IInv /\ (RunRemove \/ RunRemoveAll \/ RunPutData \/ RunPutNack) => Kept
<1> SUFFICES ASSUME IInv, RunRemove \/ RunRemoveAll \/ RunPutData \/ RunPutNack PROVE Kept
  OBVIOUS
<1>1. RecordsOK /\ TablesOK
  BY TypeParts DEF IInv
<1>2. UNCHANGED <<filters, prefixes, lastId>>
  BY ZenonT(30) DEF RunRemove, RunRemoveAll, RunPutData, RunPutNack
<1>3. TablesOK'
  BY <1>1, <1>2 DEF TablesOK
<1>4. ASSUME NEW ids \in SUBSET DOMAIN pit, pit' = Without(pit, ids)
      PROVE  /\ DOMAIN pit' = DOMAIN pit \ ids
             /\ \A id \in DOMAIN pit' :
                  pit'[id].origin = pit[id].origin /\ pit'[id].nNotNacked \in Int
  BY <1>1, <1>4 DEF RecordsOK, Without
<1>5. ASSUME NEW op, NEW more, Run(op, more), Plain(more)
      PROVE  Waiting(posted, told', DOMAIN pit') => PostedInv'
  BY <1>5, RunPlain
<1>6. CASE RunRemove
  <2> DEFINE ids == {Task.id} \cap DOMAIN pit
  <2>1. told' = Tell(ids, "removed") /\ UNCHANGED <<prefixes, transport>>
    BY <1>6 DEF RunRemove
  <2>2. pit' = Without(pit, ids)
    BY <1>6 DEF RunRemove, Without
  <2>3. Waiting(posted, told', DOMAIN pit') => PostedInv'
    BY ZenonT(30), <1>6, <1>5, PlainPosts DEF RunRemove
  <2> HIDE DEF ids
  <2>4. ids \in SUBSET DOMAIN pit
    BY DEF ids
  <2> QED
    BY ZenonT(30), <1>3, <1>4, <2>1, <2>2, <2>3, <2>4, RemovalKeeps
<1>7. CASE RunRemoveAll
  <2>1. told' = Tell(DOMAIN pit, "removed") /\ UNCHANGED <<prefixes, transport>>
    BY <1>7 DEF RunRemoveAll
  <2>2. DOMAIN pit' = {} /\ DOMAIN pit \ DOMAIN pit = {}
    BY <1>7 DEF RunRemoveAll
  <2>3. Waiting(posted, told', DOMAIN pit') => PostedInv'
    BY <1>7, <1>5, PlainPosts DEF RunRemoveAll
  <2> QED
    BY <1>3, <2>1, <2>2, <2>3, RemovalKeeps
<1>8. CASE RunPutData
  <2> DEFINE ids == SatisfiedBy(Task.data)
  <2>1. /\ told' = Tell(ids, "data")
        /\ UNCHANGED <<prefixes, transport>> \/ transport' = Send(EnsureConnected(transport, TRUE))
    BY ZenonT(30), <1>8 DEF RunPutData
  <2>2. pit' = Without(pit, ids)
    BY <1>8 DEF RunPutData
  <2>3. Waiting(posted, told', DOMAIN pit') => PostedInv'
    BY <1>8, <1>5, PlainPosts DEF RunPutData
  <2>4. ids \in SUBSET DOMAIN pit
    BY DEF SatisfiedBy
  <2> HIDE DEF ids
  <2> QED
    BY ZenonT(30), <1>3, <1>4, <2>1, <2>2, <2>3, <2>4, RemovalKeeps
<1>9. CASE RunPutNack
  <2> DEFINE ids  == NackedBy(Task.interest)
             rest == Without(NackedPit(Task.interest), ids)
  <2>1. /\ told' = Tell(ids, "nack") /\ pit' = rest
        /\ UNCHANGED <<prefixes, transport>> \/ transport' = Send(EnsureConnected(transport, TRUE))
    BY ZenonT(30), <1>9 DEF RunPutNack
  <2>2. Waiting(posted, told', DOMAIN pit') => PostedInv'
    BY <1>9, <1>5, PlainPosts DEF RunPutNack
  <2>3. /\ ids \in SUBSET DOMAIN pit /\ DOMAIN rest = DOMAIN pit \ ids
        /\ \A id \in DOMAIN rest :
             rest[id].origin = pit[id].origin /\ rest[id].nNotNacked \in Int
    BY ZenonT(30), <1>1, NackedRecords
  <2> HIDE DEF ids, rest
  <2> QED
    BY ZenonT(30), <1>3, <2>1, <2>2, <2>3, RemovalKeeps
<1> QED
  BY <1>6, <1>7, <1>8, <1>9

\* Both tables are cleared and what waits goes on waiting.
LEMMA ClearedKeeps ==
  ASSUME IInv, RecordsOK', PromiseStep, DOMAIN pit' = {}, DOMAIN prefixes' = {},
         TransportOK', PostedInv', UNCHANGED <<filters, lastId>>
  PROVE  Kept
<1>1. TablesOK'
  BY TypeParts DEF IInv, TablesOK
<1>2. ListensWhilePending'
  BY DEF ListensWhilePending
<1> QED
  BY <1>1, <1>2, Assemble

\* An exception or a shutdown clears the tables.
LEMMA ClearingTasksKeep == IInv /\ (RunExpressOversized \/ RunPutDataOversized \/ RunShutdown) => Kept
<1> SUFFICES ASSUME IInv, RunExpressOversized \/ RunPutDataOversized \/ RunShutdown PROVE Kept
  OBVIOUS
<1>1. RecordsOK /\ TransportOK /\ Waiting(posted, told, DOMAIN pit) /\ told \in [DOMAIN told -> Heard]
  BY TypeParts DEF IInv, PostedInv, RecordsOK
<1>2. UNCHANGED <<filters, lastId>>
  BY ZenonT(30) DEF RunExpressOversized, RunPutDataOversized, RunShutdown
<1>3. CASE RunExpressOversized
  <2> DEFINE id    == Head(posted).id
             heard == [told EXCEPT ![id] = "removed"]
  <2>1. /\ posted # << >> /\ Head(posted).op = "express" /\ posted' = Tail(posted) \o BothEmpty
        /\ transport' = EnsureConnected(transport, TRUE)
        /\ ClearTables(heard)
    BY <1>3 DEF RunExpressOversized, Run, Task
  <2>2. /\ id \in DOMAIN told \ DOMAIN pit /\ told[id] = "none"
        /\ Waiting(Tail(posted), told, DOMAIN pit)
        /\ \A i \in 1 .. Len(Tail(posted)) :
             Expresses(Tail(posted), i) => Tail(posted)[i].id # id
    BY ZenonT(30), <1>1, <2>1, WaitingTail
  <2>3. /\ heard \in [DOMAIN told -> Heard]
        /\ heard[id] = "removed" /\ \A i \in DOMAIN told : i # id => heard[i] = told[i]
    BY <1>1, <2>2 DEF Heard
  <2> HIDE DEF id, heard
  <2>4. StatusOf(told, DOMAIN pit, id) = "posted"
    BY <2>2 DEF StatusOf
  <2>5. /\ RecordsOK' /\ PromiseStep /\ DOMAIN pit' = {} /\ DOMAIN prefixes' = {}
        /\ DOMAIN told' = DOMAIN told
        /\ \A i \in DOMAIN told : i \notin DOMAIN pit /\ heard[i] = told[i] => told'[i] = told[i]
    BY <1>1, <2>1, <2>3, <2>4, Clearing
  <2>6. Waiting(Tail(posted), told', DOMAIN pit')
    <3>1. \A i \in 1 .. Len(Tail(posted)) : Expresses(Tail(posted), i) =>
            /\ Tail(posted)[i].id \in DOMAIN told' /\ Tail(posted)[i].id \notin DOMAIN pit'
            /\ told'[Tail(posted)[i].id] = "none"
      BY <2>2, <2>3, <2>5 DEF Waiting
    <3> QED
      BY ZenonT(30), <3>1, <2>2, WaitingTable
  <2>7. PostedInv'
    BY <2>1, <2>6, WaitingPlain, PlainPosts DEF PostedInv
  <2>8. TransportOK'
    BY ZenonT(30), <1>1, <2>1, ConnectOnly
  <2> QED
    BY <1>2, <2>5, <2>7, <2>8, ClearedKeeps
<1>4. ASSUME NEW heard \in [DOMAIN told -> Heard], ClearTables(heard), NEW op, NEW more,
             Run(op, more), Plain(more), TransportOK',
             \A id \in DOMAIN told :
               \/ heard[id] = told[id]
               \/ StatusOf(told, DOMAIN pit, id) = "pending" /\ heard[id] = "data"
      PROVE  Kept
  <2>1. /\ RecordsOK' /\ PromiseStep /\ DOMAIN pit' = {} /\ DOMAIN prefixes' = {}
        /\ DOMAIN told' = DOMAIN told
        /\ \A i \in DOMAIN told : i \notin DOMAIN pit /\ heard[i] = told[i] => told'[i] = told[i]
    BY <1>1, <1>4, Clearing
  <2>2. \A i \in DOMAIN told : i \notin DOMAIN pit => heard[i] = told[i]
    BY <1>1, <1>4 DEF StatusOf, Heard
  <2>3. Waiting(posted, told', DOMAIN pit')
    <3>1. \A i \in 1 .. Len(posted) : Expresses(posted, i) =>
            /\ posted[i].id \in DOMAIN told' /\ posted[i].id \notin DOMAIN pit'
            /\ told'[posted[i].id] = "none"
      BY <1>1, <2>1, <2>2 DEF Waiting
    <3> QED
      BY <3>1, <1>1, WaitingTable
  <2>4. PostedInv'
    BY <1>4, <2>3, RunPlain
  <2> QED
    BY <1>2, <1>4, <2>1, <2>4, ClearedKeeps
<1>5. CASE RunPutDataOversized
  <2> DEFINE ids   == SatisfiedBy(Task.data)
             heard == Tell(ids, "data")
             more  == OnEmpty(Without(pit, ids)) \o BothEmpty
  <2>1. Run("putData", more) /\ ClearTables(heard) /\ transport' = EnsureConnected(transport, TRUE)
    BY <1>5 DEF RunPutDataOversized
  <2>2. Plain(more)
    BY PlainPosts, PlainConcat
  <2>3. ids \subseteq DOMAIN pit
    BY DEF SatisfiedBy
  <2>4. heard \in [DOMAIN told -> Heard]
    BY <1>1 DEF Tell, Heard
  <2>5. \A id \in DOMAIN told :
          \/ heard[id] = told[id]
          \/ StatusOf(told, DOMAIN pit, id) = "pending" /\ heard[id] = "data"
    BY <1>1, <2>3 DEF Tell, StatusOf, RecordsOK
  <2>6. TransportOK'
    BY ZenonT(30), <1>1, <2>1, ConnectOnly
  <2> HIDE DEF ids, heard, more
  <2> QED
    BY <1>4, <2>1, <2>2, <2>4, <2>5, <2>6
<1>6. CASE RunShutdown
  <2>1. Run("shutdown", BothEmpty) /\ ClearTables(told)
    BY <1>6 DEF RunShutdown
  <2>2. TransportOK'
    BY <1>1, <1>6 DEF RunShutdown, TransportOK, Closed
  <2> QED
    BY <1>1, <1>4, <2>1, <2>2, PlainPosts
<1> QED
  BY <1>3, <1>5, <1>6

\* Unregistering a prefix allocates an id for the command.
LEMMA RunUnregisterKeeps == IInv /\ RunUnregister => Kept
<1> SUFFICES ASSUME IInv, RunUnregister PROVE Kept
  OBVIOUS
<1> DEFINE task == NewInterest(CommandInterest(Len(told) + 1),
                               [verb |-> "unregister", id |-> Task.id])
<1>1. RecordsOK /\ TablesOK /\ TransportOK /\ ListensWhilePending /\ Waiting(posted, told, DOMAIN pit)
  BY TypeParts DEF IInv, PostedInv
<1>2. /\ posted # << >> /\ posted' = Tail(posted) \o <<task>>
      /\ told' = Append(told, "none")
      /\ UNCHANGED <<pit, prefixes, lastId, transport>>
      /\ DOMAIN filters' \subseteq DOMAIN filters
  BY DEF RunUnregister, Run, Without
<1>3. task.op = "express" /\ task.id = Len(told) + 1
  BY DEF NewInterest
<1> HIDE DEF task
<1>4. RecordsOK' /\ PromiseStep
  BY <1>1, <1>2, Allocation
<1>5. TransportOK' /\ ListensWhilePending'
  BY <1>1, <1>2, StillListens
<1>6. TablesOK'
  BY ZenonT(30), <1>1, <1>2, FiltersFinite DEF TablesOK
<1>7. Waiting(Tail(posted), told, DOMAIN pit)
  BY <1>1, <1>2, WaitingTail
<1>8. Waiting(posted', told', DOMAIN pit)
  BY <1>1, <1>2, <1>3, <1>7, WaitingNew DEF RecordsOK
<1>9. PostedInv'
  BY <1>2, <1>8 DEF PostedInv
<1> QED
  BY <1>4, <1>5, <1>6, <1>9, Assemble

\* Packets from the forwarder that make no record of a pending Interest.
LEMMA EndingArrivalsKeep ==
  ASSUME IInv,
         \/ \E d : ReceiveData(d)
         \/ \E i : ReceiveNack(i)
         \/ \E id \in DOMAIN pit : ReceiveFailure(id) \/ ReceiveRegistered(id) \/ ReceiveUnregistered(id)
         \/ \E id \in DOMAIN pit : Timeout(id)
  PROVE  Kept
<1>1. RecordsOK /\ TablesOK
  BY TypeParts DEF IInv
<1>2. ASSUME NEW ids \in SUBSET DOMAIN pit, pit' = Without(pit, ids)
      PROVE  /\ DOMAIN pit' = DOMAIN pit \ ids
             /\ \A id \in DOMAIN pit' :
                  pit'[id].origin = pit[id].origin /\ pit'[id].nNotNacked \in Int
  BY <1>1, <1>2 DEF RecordsOK, Without
<1>3. ASSUME NEW more, posted' = posted \o more, Plain(more)
      PROVE  Waiting(posted, told', DOMAIN pit') => PostedInv'
  BY <1>3, EventPlain
<1>4. ASSUME UNCHANGED <<filters, lastId>> PROVE TablesOK'
  BY <1>1, <1>4 DEF TablesOK
<1>5. ASSUME NEW d, ReceiveData(d) PROVE Kept
  <2> DEFINE ids == SatisfiedBy(d)
  <2>1. /\ told' = Tell(ids, "data") /\ pit' = Without(pit, ids)
        /\ UNCHANGED <<prefixes, transport>> /\ UNCHANGED <<filters, lastId>>
    BY <1>5 DEF ReceiveData, Arrive
  <2>2. Waiting(posted, told', DOMAIN pit') => PostedInv'
    BY <1>3, <1>5, PlainPosts DEF ReceiveData, Arrive
  <2>3. ids \in SUBSET DOMAIN pit
    BY DEF SatisfiedBy
  <2> HIDE DEF ids
  <2> QED
    BY ZenonT(30), <1>2, <1>4, <2>1, <2>2, <2>3, RemovalKeeps
<1>6. ASSUME NEW i, ReceiveNack(i) PROVE Kept
  <2> DEFINE ids  == NackedBy(i)
             rest == Without(NackedPit(i), ids)
  <2>1. /\ told' = Tell(ids, "nack") /\ pit' = rest
        /\ UNCHANGED <<prefixes, transport>> /\ UNCHANGED <<filters, lastId>>
    BY <1>6 DEF ReceiveNack, Arrive
  <2>2. Waiting(posted, told', DOMAIN pit') => PostedInv'
    BY <1>3, <1>6, PlainPosts DEF ReceiveNack, Arrive
  <2>3. /\ ids \in SUBSET DOMAIN pit /\ DOMAIN rest = DOMAIN pit \ ids
        /\ \A id \in DOMAIN rest :
             rest[id].origin = pit[id].origin /\ rest[id].nNotNacked \in Int
    BY <1>1, NackedRecords
  <2> HIDE DEF ids, rest
  <2> QED
    BY ZenonT(30), <1>4, <2>1, <2>2, <2>3, RemovalKeeps
<1>7. ASSUME NEW id \in DOMAIN pit, NEW what \in {"data", "timeout"}, told' = Tell({id}, what),
             pit' = Without(pit, {id}), NEW more, posted' = posted \o more, Plain(more),
             UNCHANGED <<prefixes, transport>> \/ (Receiving /\ UNCHANGED transport), TablesOK'
      PROVE  Kept
  <2>1. {id} \in SUBSET DOMAIN pit
    OBVIOUS
  <2> QED
    BY ZenonT(30), <1>2, <1>3, <1>7, <2>1, RemovalKeeps
<1>8. ASSUME NEW id \in DOMAIN pit, ReceiveFailure(id) \/ Timeout(id) PROVE Kept
  <2>1. \A table : Plain(OnEmpty(table))
    BY PlainPosts
  <2>2. CASE ReceiveFailure(id)
    BY ZenonT(30), <1>4, <1>7, <2>1, <2>2 DEF ReceiveFailure, Arrive
  <2>3. CASE Timeout(id)
    BY ZenonT(30), <1>4, <1>7, <2>1, <2>3 DEF Timeout
  <2> QED
    BY <1>8, <2>2, <2>3
<1>9. ASSUME NEW id \in DOMAIN pit, ReceiveRegistered(id) PROVE Kept
  <2>1. /\ told' = Tell({id}, "data") /\ pit' = Without(pit, {id})
        /\ posted' = posted \o OnEmpty(Without(pit, {id}))
        /\ Receiving /\ UNCHANGED transport
    BY <1>9 DEF ReceiveRegistered, Arrive
  <2>2. TablesOK'
    <3>1. lastId' \in [filter : Nat, prefix : Nat]
      BY <1>1, <1>9 DEF ReceiveRegistered, TablesOK
    <3>2. DOMAIN filters' \subseteq DOMAIN filters \cup {lastId.filter + 1}
      BY <1>9 DEF ReceiveRegistered, Extended
    <3> QED
      BY <1>1, <3>1, <3>2, FiltersFinite
  <2> QED
    BY ZenonT(30), <1>7, <2>1, <2>2, PlainPosts
<1>10. ASSUME NEW id \in DOMAIN pit, ReceiveUnregistered(id) PROVE Kept
  <2> DEFINE more == OnEmpty(Without(prefixes, {pit[id].then.id})) \o OnEmpty(Without(pit, {id}))
  <2>1. /\ told' = Tell({id}, "data") /\ pit' = Without(pit, {id})
        /\ posted' = posted \o more
        /\ Receiving /\ UNCHANGED transport /\ UNCHANGED <<filters, lastId>>
    BY ZenonT(30), <1>10 DEF ReceiveUnregistered, Arrive
  <2>2. Plain(more)
    BY PlainPosts, PlainConcat
  <2> HIDE DEF more
  <2> QED
    BY <1>4, <1>7, <2>1, <2>2
<1> QED
  BY <1>5, <1>6, <1>8, <1>9, <1>10

\* An Interest of the forwarder arrives.
LEMMA ReceiveInterestKeeps ==
  ASSUME IInv, NEW i, ReceiveInterest(i)
  PROVE  Kept
<1> DEFINE e == DispatchInterest(Pending("forwarder", i, [verb |-> "app"]))
<1>1. RecordsOK /\ TablesOK /\ TransportOK /\ ListensWhilePending /\ Waiting(posted, told, DOMAIN pit)
  BY TypeParts DEF IInv, PostedInv
<1>2. /\ told' = Append(told, "foreign") /\ posted' = posted \o << >>
      /\ Receiving /\ UNCHANGED <<transport, filters, lastId>>
      /\ pit' = Extended(pit, Len(told) + 1, e)
  BY DEF ReceiveInterest, Arrive
<1>3. e.origin = "forwarder" /\ e.nNotNacked \in Int
  <2> DEFINE p == Pending("forwarder", i, [verb |-> "app"])
  <2>1. p = [p EXCEPT !.nNotNacked = 0]
    BY DEF Pending
  <2> QED
    BY <1>1, <2>1, DispatchType
<1> HIDE DEF e
<1>4. RecordsOK' /\ PromiseStep
  BY <1>1, <1>2, <1>3, ForeignInsertion
<1>5. TransportOK' /\ ListensWhilePending'
  BY <1>1, <1>2 DEF TransportOK, ListensWhilePending, Receiving
<1>6. TablesOK'
  BY <1>1, <1>2 DEF TablesOK
<1>7. Waiting(posted, told', DOMAIN pit')
  <2>1. /\ DOMAIN told = 1 .. Len(told) /\ Len(told) \in Nat
        /\ DOMAIN told' = 1 .. (Len(told) + 1)
        /\ \A id \in DOMAIN told : told'[id] = told[id]
    BY <1>1, <1>2 DEF RecordsOK, Heard
  <2>2. DOMAIN pit' = DOMAIN pit \cup {Len(told) + 1}
    BY <1>2 DEF Extended
  <2>3. \A k \in 1 .. Len(posted) : Expresses(posted, k) =>
          /\ posted[k].id \in DOMAIN told' /\ posted[k].id \notin DOMAIN pit'
          /\ told'[posted[k].id] = "none"
    BY <1>1, <2>1, <2>2 DEF Waiting
  <2> QED
    BY <1>1, <2>3, WaitingTable
<1>8. PostedInv'
  BY ZenonT(30), <1>2, <1>7, PlainPosts, EventPlain
<1> QED
  BY <1>4, <1>5, <1>6, <1>8, Assemble

\* The handlers of the transport.
LEMMA TransportKeeps == IInv /\ (ConnectHandler \/ HandleAsyncWrite \/ SocketError) => Kept
<1> SUFFICES ASSUME IInv, ConnectHandler \/ HandleAsyncWrite \/ SocketError PROVE Kept
  OBVIOUS
<1>1. RecordsOK /\ TablesOK /\ TransportOK /\ ListensWhilePending /\ Waiting(posted, told, DOMAIN pit)
  BY TypeParts DEF IInv, PostedInv
<1>2. CASE ConnectHandler \/ HandleAsyncWrite
  <2>1. UNCHANGED <<posted, pit, filters, prefixes, lastId, told>>
    BY <1>2 DEF ConnectHandler, HandleAsyncWrite
  <2>2. RecordsOK' /\ PromiseStep
    BY <1>1, <2>1, NothingTold
  <2>3. TablesOK' /\ PostedInv'
    BY <1>1, <2>1 DEF TablesOK, PostedInv
  <2>4. TransportOK' /\ ListensWhilePending'
    <3>1. CASE ConnectHandler
      BY <3>1, <1>1, <2>1 DEF ConnectHandler, TransportOK, ListensWhilePending, Receiving
    <3>2. CASE HandleAsyncWrite
      <4>1. TransportOK'
        BY <3>2, <1>1 DEF HandleAsyncWrite, TransportOK
      <4>2. Receiving => Receiving'
        BY <3>2 DEF HandleAsyncWrite, Receiving
      <4>3. transport.conn = "connected"
        BY <3>2, <1>1 DEF HandleAsyncWrite, TransportOK
      <4> QED
        BY <4>1, <4>2, <4>3, <1>1, <2>1 DEF ListensWhilePending
    <3> QED
      BY <3>1, <3>2, <1>2
  <2> QED
    BY <2>2, <2>3, <2>4, Assemble
<1>3. CASE SocketError
  <2>1. /\ posted' = posted \o BothEmpty /\ ClearTables(told) /\ transport' = Closed
        /\ UNCHANGED <<filters, lastId>>
    BY <1>3 DEF SocketError
  <2>2. told \in [DOMAIN told -> Heard]
    BY <1>1 DEF RecordsOK
  <2>3. /\ RecordsOK' /\ PromiseStep /\ DOMAIN pit' = {} /\ DOMAIN prefixes' = {}
        /\ DOMAIN told' = DOMAIN told
        /\ \A i \in DOMAIN told : i \notin DOMAIN pit => told'[i] = told[i]
    BY <1>1, <2>1, <2>2, Clearing
  <2>4. Waiting(posted, told', DOMAIN pit')
    <3>1. \A i \in 1 .. Len(posted) : Expresses(posted, i) =>
            /\ posted[i].id \in DOMAIN told' /\ posted[i].id \notin DOMAIN pit'
            /\ told'[posted[i].id] = "none"
      BY <1>1, <2>3 DEF Waiting
    <3> QED
      BY <3>1, <1>1, WaitingTable
  <2>5. PostedInv'
    BY <2>1, <2>4, PlainPosts, EventPlain
  <2>6. TransportOK'
    BY <2>1 DEF TransportOK, Closed
  <2> QED
    BY <2>1, <2>3, <2>5, <2>6, ClearedKeeps
<1> QED
  BY <1>2, <1>3

---------------------------------------------------------------------------
(* The theorems.                                                           *)

\* Every step keeps the invariant and is a step of the abstract
\* specification.
LEMMA StepKeeps == IInv /\ [Next]_vars => IInv' /\ PromiseStep
<1> SUFFICES ASSUME IInv, [Next]_vars PROVE Kept
  BY DEF Kept
<1>1. CASE UNCHANGED vars
  <2>1. UNCHANGED <<pit, told>>
    BY <1>1 DEF vars
  <2>2. PromiseStep
    BY <2>1, TypeParts, NothingTold DEF IInv
  <2>3. IInv'
    BY <1>1 DEF vars, IInv, TypeOK, ListensWhilePending, Receiving, PostedInv
  <2> QED
    BY <2>2, <2>3 DEF Kept
<1>2. CASE Application
  BY <1>2, ApplicationKeeps
<1>3. CASE RunTask
  BY <1>3, OtherTasksKeep, RunExpressKeeps, EndingTasksKeep, ClearingTasksKeep, RunUnregisterKeeps
     DEF RunTask
<1>4. CASE FromForwarder
  BY <1>4, ReceiveInterestKeeps, EndingArrivalsKeep DEF FromForwarder
<1>5. CASE \E id \in DOMAIN pit : Timeout(id)
  BY <1>5, EndingArrivalsKeep
<1>6. CASE ConnectHandler \/ HandleAsyncWrite \/ SocketError
  BY <1>6, TransportKeeps
<1> QED
  BY <1>1, <1>2, <1>3, <1>4, <1>5, <1>6 DEF Next

\* The invariant holds of a new Face.
LEMMA InitInvariant == Init => IInv
<1> SUFFICES ASSUME Init PROVE IInv
  OBVIOUS
<1>1. TypeOK
  <2>1. IsFiniteSet(DOMAIN filters)
    BY FS_EmptySet DEF Init
  <2> QED
    BY <2>1 DEF Init, TypeOK, Heard, Closed
<1>2. ListensWhilePending
  BY DEF Init, ListensWhilePending
<1>3. PostedInv
  BY DEF Init, PostedInv, Waiting, Expresses, IsSeq
<1> QED
  BY <1>1, <1>2, <1>3 DEF IInv

\* The invariant holds of a Face at all times.
LEMMA Invariance == Spec => []IInv
<1>1. IInv /\ [Next]_vars => IInv'
  BY StepKeeps
<1> QED
  BY <1>1, InitInvariant, PTL DEF Spec

\* Whatever the scenarios, an Interest of the application is in the table of
\* face-impl.hpp only until its callback has run.
THEOREM ClientFaceTyped == Spec => []TypeOK
<1>1. IInv => TypeOK
  BY DEF IInv
<1> QED
  BY <1>1, Invariance, PTL

\* Whatever the scenarios, the Face never stops reading from its socket while
\* an Interest is pending or a prefix is registered.
THEOREM FaceListens == Spec => []ListensWhilePending
<1>1. IInv => ListensWhilePending
  BY DEF IInv
<1> QED
  BY <1>1, Invariance, PTL

\* The client Face implements the abstract specification of what happens to
\* an expressed Interest: it ends once, with at most one callback.
THEOREM FaceKeepsPromise == Spec => KeepsPromise
<1>1. Init => Promise!Init
  BY DEF Init, Promise!Init, Status
<1>2. IInv /\ [Next]_vars => [Promise!Next]_([id \in DOMAIN told |-> Status(id)])
  BY StepKeeps DEF PromiseStep, StatusSeq
<1> QED
  BY <1>1, <1>2, Invariance, PTL DEF Spec, KeepsPromise, Promise!Spec
=============================================================================
