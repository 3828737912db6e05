------------------------------ MODULE PitEntry ------------------------------
(***************************************************************************)
(* PIT entries of NFD-FC (daemon/table/pit-entry.cpp, pit-face-record.cpp, *)
(* pit.cpp) and the queries on them in daemon/fw/algorithm.cpp.            *)
(*                                                                         *)
(* An entry is a record: rep (the representative Interest), ins and outs   *)
(* (the in- and out-records by face), timer (when expiryTimer is due),     *)
(* satisfied, dataFresh (isSatisfied, dataFreshnessPeriod) and supp (the   *)
(* suppression interval RetxSuppressionExponential keeps on the entry, 0   *)
(* before it is created).                                                  *)
(***************************************************************************)
EXTENDS CsTable

CONSTANTS Face, MaxLifetime

None == 0
Congestion == 50
Duplicate == 100
NoRoute == 150
NackReason == {None, Congestion, Duplicate, NoRoute}
NotNacked == -1

\* What Pit::findOrInsert compares: canMatchWFunction and the NameTree node.
PitKey(int) == [nf |-> GetNameFunction(int), cbp |-> int.cbp, mbf |-> int.mbf]

Unscheduled == -1    \* the expiryTimer of an entry that nobody has armed

NewEntry(int) ==
  [rep |-> int, ins |-> << >>, outs |-> << >>, timer |-> Unscheduled,
   satisfied |-> FALSE, dataFresh |-> 0, supp |-> 0]

Put(fn, x, v) == [y \in DOMAIN fn \cup {x} |-> IF y = x THEN v ELSE fn[y]]

Without(fn, S) == [y \in DOMAIN fn \ S |-> fn[y]]

\* FaceRecord::update: m_expiry.
Expiry(int, t) == t + (IF int.life < MaxLifetime THEN int.life ELSE MaxLifetime)

InsertOrUpdateInRecord(e, f, int, t) ==
  [e EXCEPT !.ins = Put(@, f, [int |-> int, expiry |-> Expiry(int, t)])]

\* An out-record keeps the Nack it had: nothing calls clearIncomingNack.
InsertOrUpdateOutRecord(e, f, int, t) ==
  [e EXCEPT !.outs = Put(@, f,
     [nonce |-> int.nonce, expiry |-> Expiry(int, t), renewed |-> t,
      nack |-> IF f \in DOMAIN e.outs THEN e.outs[f].nack ELSE NotNacked])]

DeleteInRecords(e, S) == [e EXCEPT !.ins = Without(@, S)]

DeleteOutRecords(e, S) == [e EXCEPT !.outs = Without(@, S)]

SetIncomingNack(e, f, reason) ==
  [e EXCEPT !.outs = Put(@, f, [e.outs[f] EXCEPT !.nack = reason])]

SetExpiryTimer(e, t) == [e EXCEPT !.timer = t]

\* The expiry of the in-record that expires last.
LastExpiry(e) == Max({e.ins[f].expiry : f \in DOMAIN e.ins})

----------------------------------------------------------------------------
(* daemon/fw/algorithm.cpp                                                 *)

\* findDuplicateNonce, with the exemption that onIncomingInterest makes for a
\* retransmission on the same point-to-point face.
HasDuplicateNonce(e, f, nonce, isP2p) ==
  /\ \/ \E g \in DOMAIN e.ins : e.ins[g].int.nonce = nonce
     \/ \E g \in DOMAIN e.outs : e.outs[g].nonce = nonce
  /\ ~(isP2p /\ f \in DOMAIN e.ins /\ e.ins[f].int.nonce = nonce)

HasPendingOutRecords(e, t) ==
  \E g \in DOMAIN e.outs : e.outs[g].expiry >= t /\ e.outs[g].nack = NotNacked

GetLastOutgoing(e) == Max({e.outs[g].renewed : g \in DOMAIN e.outs})

PendingDownstreams(e, t) == {g \in DOMAIN e.ins : e.ins[g].expiry > t}

----------------------------------------------------------------------------
(* ProcessNackTraitsBase::processNack                                      *)

NotNackedFaces(e) == {g \in DOMAIN e.outs : e.outs[g].nack = NotNacked}

LeastSevereReason(e) ==
  LET reasons == {e.outs[g].nack : g \in DOMAIN e.outs \ NotNackedFaces(e)} \ {None}
  IN  IF reasons = {} THEN None ELSE Min(reasons)

\* The downstreams that get a Nack when one more upstream has answered so.
NackDownstreams(e) ==
  LET waiting == NotNackedFaces(e)
  IN  IF waiting = {} THEN DOMAIN e.ins
      ELSE IF \E g \in waiting : waiting = {g} THEN waiting \cap DOMAIN e.ins
      ELSE {}
=============================================================================
