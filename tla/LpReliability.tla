--------------------------- MODULE LpReliability ---------------------------
(***************************************************************************)
(* Link-layer reliability of one endpoint                                  *)
(* (NFD-FC/daemon/face/lp-reliability.cpp).                                *)
(*                                                                         *)
(* An endpoint e is a record:                                              *)
(*   unacked    TxSequence -> [frag, retx, greater], m_unackedFrags;       *)
(*   first      the key m_firstUnackedFrag points to, NoSeq for end();     *)
(*   netPkts    packet -> [frags, didRetx], the NetPkt objects: frags is   *)
(*              the set of iterators into unacked, so keys of it;          *)
(*   ackQueue, lastTx, idle (is the idle Ack timer running);               *)
(*   recent, recentQueue   the Sequences received lately;                  *)
(*   ended      the packets counted by nAcknowledged, nRetransmitted or    *)
(*              nRetxExhausted, with which of them;                        *)
(*   out        the LpPackets this handler has sent so far;                *)
(*   thrown     has an exception ended the program.                        *)
(* Timers carry no times: the RTO is estimated, so any order of expiries   *)
(* can happen.  The RTO timer of a fragment runs while it is in unacked.   *)
(***************************************************************************)
EXTENDS LpFragmenter, Containers

CONSTANTS
  TxModulus,            \* number of TxSequence numbers, 2^64 in the code
  MaxRetx,              \* m_options.maxRetx
  SeqNumLossThreshold   \* m_options.seqNumLossThreshold

ASSUME ReliabilityAssumption ==
  /\ TxModulus \in Nat /\ NMaxFragments < TxModulus
  /\ MaxRetx \in Nat /\ SeqNumLossThreshold \in Nat

NoSeq == -1
TxSequence == 0 .. (TxModulus - 1)
Without(f, x) == Restrict(f, DOMAIN f \ {x})

\* The octets of the fields of an LpPacket; an IDLE packet has no fragment.
HasFragment(pkt) == pkt.frag # << >>
Fields(pkt) ==
  AckSize * Len(pkt.acks)
  + IF ~HasFragment(pkt) THEN 0
    ELSE pkt.frag[1].hdr
         + (IF pkt.frag[1].count > 1 THEN FragFieldsSize ELSE 0)
         + (IF pkt.frag[1].seq # NoSeq THEN SequenceSize ELSE 0)
         + (IF pkt.tx # NoSeq THEN TxSequenceSize ELSE 0)
Payload(pkt) == IF HasFragment(pkt) THEN pkt.frag[1].end - pkt.frag[1].begin ELSE 0
SizeOf(pkt) == WireSize(Fields(pkt), Payload(pkt))

PiggybackWholeMtu(e, pkt) ==
  LET n == Min({Len(e.ackQueue), e.mtu \div AckSize})
  IN  [ep |-> [e EXCEPT !.ackQueue = SubSeq(@, n + 1, Len(@))],
       pkt |-> [pkt EXCEPT !.acks = SubSeq(e.ackQueue, 1, n)]]

\* LpReliability::piggyback: as many Acks as fit.
Piggyback(e, pkt) ==
  LET size == SizeOf(pkt)
      reserved == SizeOfVarNumber(MaxNdnPacketSize) - SizeOfVarNumber(size)
      space == (IF e.mtu = MtuUnlimited THEN MaxNdnPacketSize ELSE e.mtu) - reserved - size
      n == Min({Len(e.ackQueue), IF space < 0 THEN 0 ELSE space \div AckSize})
  IN  [ep |-> [e EXCEPT !.ackQueue = SubSeq(@, n + 1, Len(@))],
       pkt |-> [pkt EXCEPT !.acks = SubSeq(e.ackQueue, 1, n)]]

\* GenericLinkService::sendLpPacket up to the congestion mark.
SendLpPacket(e, frag, tx) ==
  LET pkt == [frag |-> frag, tx |-> tx, acks |-> << >>]
      pb == IF e.enabled THEN Piggyback(e, pkt) ELSE [ep |-> e, pkt |-> pkt]
  IN  [pb.ep EXCEPT !.out = Append(@, pb.pkt)]

\* The key after x in the map, from the beginning again after the last one.
NextKey(keys, x) ==
  LET later == {y \in keys : y > x}
  IN  IF keys = {} THEN NoSeq ELSE IF later # {} THEN Min(later) ELSE Min(keys)

DeleteNoWrap(e, ts) ==
  LET left == DOMAIN e.unacked \ ts
      later == {y \in left : y > e.first}
  IN  [e EXCEPT !.unacked = Restrict(@, left),
                !.first = IF left # {} /\ @ \notin ts THEN @
                          ELSE IF later = {} THEN NoSeq ELSE Min(later)]

\* LpReliability::deleteUnackedFrag, for each of ts: the start of the window
\* moves on to the next fragment that stays.
DeleteUnackedFrags(e, ts) ==
  LET left == DOMAIN e.unacked \ ts
  IN  [e EXCEPT !.unacked = Restrict(@, left),
                !.first = IF left # {} /\ @ \notin ts THEN @ ELSE NextKey(left, @)]

\* LpReliability::assignTxSequence for the k-th number from now.
TxAfter(e, k) == (e.lastTx + k) % TxModulus

\* "TxSequence range exceeded": nobody catches the std::length_error.
Throw(e) == [e EXCEPT !.thrown = TRUE]

\* LpReliability::handleOutgoing, for the fragments of packet p.
HandleOutgoing(e, p, frags) ==
  LET keys == {TxAfter(e, k) : k \in DOMAIN frags}
      entry(t) == [frag |-> frags[(t - e.lastTx) % TxModulus], retx |-> 0, greater |-> 0]
  IN  IF e.first \in keys THEN Throw(e)
      ELSE [e EXCEPT !.lastTx = TxAfter(e, Len(frags)),
                     !.unacked = [t \in DOMAIN @ \cup keys |-> IF t \in keys THEN entry(t) ELSE e.unacked[t]],
                     !.netPkts = Put(@, p, [frags |-> keys, didRetx |-> FALSE]),
                     !.first = IF @ = NoSeq THEN TxAfter(e, 1) ELSE @]

GiveUpUncounted(e, tx) ==
  LET id == e.unacked[tx].frag.net
      gone == DeleteUnackedFrags(e, e.netPkts[id].frags)
  IN  [gone EXCEPT !.netPkts = Without(@, id)]

\* onLpPacketLost when the fragment has used its retransmissions: all
\* fragments of its packet go.
GiveUp(e, tx) ==
  LET id == e.unacked[tx].frag.net
      gone == DeleteUnackedFrags(e, e.netPkts[id].frags)
  IN  [gone EXCEPT !.netPkts = Without(@, id),
                   !.ended = Append(@, [net |-> id, how |-> "exhausted"])]

RetransmitKeepIterator(e, tx) ==
  LET lost == e.unacked[tx]
      new == TxAfter(e, 1)
      moved == [e EXCEPT !.lastTx = new,
                         !.unacked = Put(@, new, [lost EXCEPT !.retx = @ + 1, !.greater = 0]),
                         !.netPkts[lost.frag.net].didRetx = TRUE]
  IN  IF new = e.first THEN Throw(e)
      ELSE SendLpPacket(DeleteUnackedFrags(moved, {tx}), << lost.frag >>, new)

\* onLpPacketLost otherwise: the fragment moves to a new TxSequence.
Retransmit(e, tx) ==
  LET lost == e.unacked[tx]
      new == TxAfter(e, 1)
      moved == [e EXCEPT !.lastTx = new,
                         !.unacked = Put(@, new, [lost EXCEPT !.retx = @ + 1, !.greater = 0]),
                         !.netPkts[lost.frag.net] = [frags |-> (@.frags \ {tx}) \cup {new}, didRetx |-> TRUE]]
  IN  IF new = e.first THEN Throw(e)
      ELSE SendLpPacket(DeleteUnackedFrags(moved, {tx}), << lost.frag >>, new)

OnLpPacketLost(e, tx) ==
  IF e.unacked[tx].retx >= MaxRetx THEN GiveUp(e, tx) ELSE Retransmit(e, tx)

\* findLostLpPackets visits the keys from the start of the window up to the
\* acknowledged one and counts this Ack for them.
KeysBefore(e, ack) ==
  {t \in DOMAIN e.unacked : IF e.first <= ack THEN e.first <= t /\ t < ack ELSE e.first <= t \/ t < ack}

CountGreater(e, before) ==
  [e EXCEPT !.unacked = [t \in DOMAIN @ |->
     IF t \in before THEN [e.unacked[t] EXCEPT !.greater = @ + 1] ELSE e.unacked[t]]]

AcknowledgedByOne(e, tx) ==
  LET id == e.unacked[tx].frag.net
      kept == [e EXCEPT !.netPkts[id].frags = @ \ {tx},
                        !.ended = Append(@, [net |-> id, how |-> "acknowledged"])]
  IN  DeleteUnackedFrags(kept, {tx})

\* LpReliability::onLpPacketAcknowledged; the packet is done with its last
\* fragment.
OnLpPacketAcknowledged(e, tx) ==
  LET id == e.unacked[tx].frag.net
      net == e.netPkts[id]
      left == net.frags \ {tx}
      kept == [e EXCEPT !.netPkts = IF left = {} THEN Without(@, id) ELSE [@ EXCEPT ![id].frags = left],
                        !.ended = IF left # {} THEN @
                                  ELSE Append(@, [net |-> id, how |-> IF net.didRetx THEN "retransmitted"
                                                                      ELSE "acknowledged"])]
  IN  DeleteUnackedFrags(kept, {tx})

\* Fragments that went with their packet in the meantime are not lost again
\* (removedLpPackets), and an exception ends it all.
LostUnlessGone(e, lost, t) ==
  IF t \in lost \cap DOMAIN e.unacked /\ ~e.thrown THEN OnLpPacketLost(e, t) ELSE e

\* The loop over the lost fragments, in the order of the window that starts
\* at first.
HandleLost(e, lost, first) ==
  LET f[i \in 0 .. TxModulus] ==
        IF i = 0 THEN e ELSE LostUnlessGone(f[i - 1], lost, (first + i - 1) % TxModulus)
  IN  f[TxModulus]

\* One Ack of processIncomingPacket.
HandleAck(e, tx) ==
  LET before == KeysBefore(e, tx)
      counted == CountGreater(e, before)
      lost == {t \in before : counted.unacked[t].greater >= SeqNumLossThreshold}
  IN  IF tx \notin DOMAIN e.unacked \/ e.thrown THEN e
      ELSE HandleLost(OnLpPacketAcknowledged(counted, tx), lost, e.first)

HandleAcks(e, acks) ==
  LET f[i \in 0 .. Len(acks)] == IF i = 0 THEN e ELSE HandleAck(f[i - 1], acks[i])
  IN  f[Len(acks)]

\* The Sequences that processIncomingPacket may find expired: a prefix of
\* the queue; a number that is no longer in the map goes on sight.
Forgettable(e) ==
  {k \in 0 .. Len(e.recentQueue) :
     k < Len(e.recentQueue) => e.recentQueue[k + 1] \in e.recent \ Range(SubSeq(e.recentQueue, 1, k))}

QueueAckNoTimer(e, pkt, k) ==
  [e EXCEPT !.ackQueue = Append(@, pkt.tx),
            !.recent = (@ \ Range(SubSeq(e.recentQueue, 1, k))) \cup {pkt.frag[1].seq},
            !.recentQueue = Append(SubSeq(@, k + 1, Len(@)), pkt.frag[1].seq)]

\* The rest of processIncomingPacket, for a packet with a fragment and a
\* TxSequence, when k Sequences have expired.
QueueAck(e, pkt, k) ==
  [e EXCEPT !.ackQueue = Append(@, pkt.tx),
            !.recent = (@ \ Range(SubSeq(e.recentQueue, 1, k))) \cup {pkt.frag[1].seq},
            !.recentQueue = Append(SubSeq(@, k + 1, Len(@)), pkt.frag[1].seq),
            !.idle = TRUE]
=============================================================================
