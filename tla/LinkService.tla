---------------------------- MODULE LinkService ----------------------------
(***************************************************************************)
(* Two forwarders joined by a link: GenericLinkService with its fragmenter,*)
(* reassembler and reliability (NFD-FC/daemon/face/generic-link-service,   *)
(* lp-fragmenter, lp-reassembler, lp-reliability) at both ends.            *)
(*                                                                         *)
(* Datagrams may be lost, arrive in any order, or stay in link when they   *)
(* are received and arrive again.  What a timer waits for is not timed     *)
(* (see LpReliability).                                                    *)
(***************************************************************************)
EXTENDS LpReliability

CONSTANTS
  Node,           \* the two ends
  Packet,         \* packets [id, from, size, hdr]; each is sent once
  Scenario,       \* what may happen in one history: [packets, duplicates, forgotten,
                  \*   inFlight, mtu, options]: the packets sent; bounds on the datagrams that
                  \*   arrive twice, on the Sequences that leave the window of recent ones, and
                  \*   on the datagrams on their way, those beyond being lost; the effective
                  \*   MTU at the start, MtuUnlimited for a stream; the options [enabled, mtu]
                  \*   that each end may change to
  SeqModulus,     \* number of Sequence numbers, 2^64 in the code
  InitialTx,      \* m_lastTxSeqNo when the history starts, all before acknowledged
  AllowMarking    \* options.allowCongestionMarking

MinMtu == 64
IsMtu(m) == m \in Int /\ (m = MtuUnlimited \/ m >= MinMtu)

ASSUME LinkAssumption ==
  /\ \A p \in Packet : p.from \in Node /\ p.size \in 1 .. MaxNdnPacketSize /\ p.hdr \in Nat
  /\ \A s \in Scenario :
       /\ s.packets \subseteq Packet /\ IsMtu(s.mtu) /\ DOMAIN s.options = Node
       /\ \A n \in Node : \A o \in s.options[n] : o.enabled \in BOOLEAN /\ IsMtu(o.mtu)
  /\ InitialTx \in TxSequence /\ AllowMarking \in BOOLEAN

VARIABLES
  scenario,  \* the one this history follows
  ep,        \* end -> its link service, a record (see LpReliability) that also
             \*   has enabled, mtu, lastSeq and partial: message -> [count, frags]
  link,      \* the datagrams on their way, with the end they go to
  duplicates,\* number of datagrams that have arrived twice
  sent,      \* packets given to the link service
  offered,   \* history: those that reliability looks after -> their Sequences
  seen,      \* history: [net, index, count] of the fragments that arrived
  passed,    \* history: packet -> times it was passed on, 2 for more
  forgotten, \* history: [node, seq] that left the window of recent Sequences
  oversized  \* history: sizes of the LpPackets that exceed the MTU only with their Acks

vars == <<scenario, ep, link, duplicates, sent, offered, seen, passed, forgotten, oversized>>

\* What reassembly makes of fragments that do not belong together.
Garbled == [id |-> "garbled", size |-> 0]

Init ==
  /\ scenario \in Scenario
  /\ ep = [n \in Node |->
       [unacked |-> << >>, first |-> NoSeq, netPkts |-> << >>, ackQueue |-> << >>,
        lastTx |-> InitialTx, idle |-> FALSE, recent |-> {}, recentQueue |-> << >>,
        ended |-> << >>, out |-> << >>, thrown |-> FALSE, partial |-> << >>, enabled |-> TRUE,
        mtu |-> scenario.mtu, lastSeq |-> SeqModulus - 2]]
  /\ link = {} /\ duplicates = 0 /\ sent = {} /\ offered = << >> /\ seen = {} /\ passed = << >>
  /\ forgotten = {} /\ oversized = {}

\* sendLpPacket after piggyback: the mark that checkCongestionLevel may set
\* (the queue of the transport and the time decide), and the limit of the MTU.
Fits(e, pkt, mark) ==
  e.mtu = MtuUnlimited
    \/ WireSize(Fields(pkt) + (IF mark THEN CongestionMarkOne ELSE 0), Payload(pkt)) <= e.mtu

Running(n) == ~ep[n].thrown

\* The handler at n ends with state e; what it sent joins the datagrams in l.
Transmit(n, e, l) ==
  \E marks \in [DOMAIN e.out -> IF AllowMarking THEN BOOLEAN ELSE {FALSE}] :
    LET went == {i \in DOMAIN e.out : Fits(e, e.out[i], marks[i])}
        on == l \cup {[to |-> CHOOSE m \in Node : m # n, pkt |-> e.out[i]] : i \in went}
        bare(i) == [e.out[i] EXCEPT !.acks = << >>]
    IN  /\ link' = IF Cardinality(on) <= scenario.inFlight THEN on ELSE l
        /\ ep' = [ep EXCEPT ![n] = IF e.thrown THEN Throw(@) ELSE [e EXCEPT !.out = << >>]]
        /\ oversized' = oversized \cup
             {SizeOf(bare(i)) : i \in {j \in DOMAIN e.out \ went : Fits(e, bare(j), marks[j])}}

----------------------------------------------------------------------------
(* Sending.                                                                *)

\* The MTU for fragmentation, with room for the fields added later.
FragmentMtu(e) ==
  e.mtu - (IF e.enabled THEN TxSequenceSize ELSE 0) - IF AllowMarking THEN CongestionMarkMax ELSE 0

MakeFragments(e, p) == IF e.mtu = MtuUnlimited THEN << Whole(p) >> ELSE FragmentPacket(p, FragmentMtu(e))

\* assignSequences.
WithSequences(e, p, frags) ==
  LET numbered == e.enabled \/ Len(frags) > 1
  IN  [k \in DOMAIN frags |->
         [net |-> p, index |-> frags[k].index, count |-> frags[k].count, begin |-> frags[k].begin,
          end |-> frags[k].end, hdr |-> frags[k].hdr,
          seq |-> IF numbered THEN (e.lastSeq + k) % SeqModulus ELSE NoSeq]]

\* The loop of sendNetPacket over the fragments; tx is the last TxSequence
\* before them, NoSeq without reliability.
SendFragments(e, frags, tx) ==
  LET f[k \in 0 .. Len(frags)] ==
        IF k = 0 THEN e
        ELSE SendLpPacket(f[k - 1], << frags[k] >>, IF tx = NoSeq THEN NoSeq ELSE (tx + k) % TxModulus)
  IN  f[Len(frags)]

\* doSendInterest, doSendData, doSendNack and sendNetPacket.
SendNetPacket(n, p) ==
  LET e == ep[n]
      frags == WithSequences(e, p, MakeFragments(e, p))
      numbered == IF e.enabled \/ Len(frags) > 1
                    THEN [e EXCEPT !.lastSeq = (@ + Len(frags)) % SeqModulus] ELSE e
      stored == IF e.enabled THEN HandleOutgoing(numbered, p, frags) ELSE numbered
  IN  /\ p.from = n /\ p \in scenario.packets \ sent
      /\ sent' = sent \cup {p}
      /\ offered' = IF e.enabled /\ frags # << >> /\ ~stored.thrown
                      THEN Put(offered, p, {frags[k].seq : k \in DOMAIN frags}) ELSE offered
      /\ IF frags = << >> THEN UNCHANGED <<ep, link, oversized>>     \* nFragmentationErrors
         ELSE Transmit(n, IF stored.thrown THEN stored
                          ELSE SendFragments(stored, frags, IF e.enabled THEN e.lastTx ELSE NoSeq), link)
      /\ UNCHANGED <<scenario, duplicates, seen, passed, forgotten>>

\* The RTO timer of a fragment: onLpPacketLost(txSeq, true).
RtoTimeout(n, tx) ==
  /\ tx \in DOMAIN ep[n].unacked
  /\ \E e \in {OnLpPacketLost(ep[n], tx)} : Transmit(n, e, link)
  /\ UNCHANGED <<scenario, duplicates, sent, offered, seen, passed, forgotten>>

IdleUnlessEmpty(e) == IF e.ackQueue = << >> THEN e ELSE SendLpPacket(e, << >>, NoSeq)

\* The idle Ack timer requests IDLE packets until no Acks are left.  The MTU
\* has room for one in each, so there are no more packets than Acks.
RequestIdlePackets(e) ==
  LET f[i \in 0 .. Len(e.ackQueue)] == IF i = 0 THEN e ELSE IdleUnlessEmpty(f[i - 1])
  IN  f[Len(e.ackQueue)]

IdleAckTimeout(n) ==
  /\ ep[n].idle
  /\ \E e \in {RequestIdlePackets([ep[n] EXCEPT !.idle = FALSE])} : Transmit(n, e, link)
  /\ UNCHANGED <<scenario, duplicates, sent, offered, seen, passed, forgotten>>

----------------------------------------------------------------------------
(* Receiving.                                                              *)

\* The message identifier, the Sequence of the first fragment.
Message(frag) == (frag.seq - frag.index) % SeqModulus

\* doReassembly: the packet that the fragments, in order, are the octets of.
DoReassembly(frags) ==
  LET p == frags[0].net
      last == frags[0].count - 1
  IN  IF /\ \A i \in 0 .. last : frags[i].net = p
         /\ frags[0].begin = 0 /\ frags[last].end = p.size
         /\ \A i \in 1 .. last : frags[i].begin = frags[i - 1].end
        THEN p ELSE Garbled

\* LpReassembler::receiveFragment: the endpoint and the packet completed, if any.
ReceiveFragment(e, frag) ==
  LET key == Message(frag)
      old == IF key \in DOMAIN e.partial THEN e.partial[key] ELSE [count |-> frag.count, frags |-> << >>]
      frags == Put(old.frags, frag.index, frag)
      kept == [e EXCEPT !.partial = Put(@, key, [old EXCEPT !.frags = frags])]
  IN  IF frag.count > NMaxFragments THEN [ep |-> e, done |-> {}]
      ELSE IF frag.count = 1 THEN [ep |-> e, done |-> {DoReassembly(frags)}]
      ELSE IF frag.count # old.count \/ frag.index \in DOMAIN old.frags THEN [ep |-> e, done |-> {}]
      ELSE IF Cardinality(DOMAIN frags) = old.count
        THEN [ep |-> [kept EXCEPT !.partial = Without(@, key)], done |-> {DoReassembly(frags)}]
      ELSE [ep |-> kept, done |-> {}]

IsDuplicateNever(e, pkt) == FALSE

\* A fragment with a Sequence that was received lately.
IsDuplicate(e, pkt) == pkt.frag[1].seq \in e.recent

\* doReceivePacket for datagram d, when k recent Sequences have expired; the
\* datagram may arrive again.
ReceivePacket(n, d, k, again) ==
  LET pkt == d.pkt
      tracked == ep[n].enabled /\ HasFragment(pkt) /\ pkt.tx # NoSeq
      acked == IF ep[n].enabled THEN HandleAcks(ep[n], pkt.acks) ELSE ep[n]
      noted == IF tracked THEN QueueAck(acked, pkt, k) ELSE acked
      r == IF acked.thrown \/ ~HasFragment(pkt) \/ (tracked /\ IsDuplicate(ep[n], pkt))
             THEN [ep |-> noted, done |-> {}] ELSE ReceiveFragment(noted, pkt.frag[1])
      times(p) == IF p \in DOMAIN passed THEN passed[p] ELSE 0
  IN  /\ d.to = n
      /\ IF tracked THEN k \in Forgettable(ep[n]) ELSE k = 0
      /\ k + Cardinality(forgotten) <= scenario.forgotten
      /\ again => duplicates < scenario.duplicates
      /\ duplicates' = IF again THEN duplicates + 1 ELSE duplicates
      /\ Transmit(n, r.ep, IF again THEN link ELSE link \ {d})
      /\ seen' = IF HasFragment(pkt)
                   THEN seen \cup {[net |-> pkt.frag[1].net, index |-> pkt.frag[1].index,
                                      count |-> pkt.frag[1].count]} ELSE seen
      /\ forgotten' = forgotten \cup {[node |-> n, seq |-> ep[n].recentQueue[i]] : i \in 1 .. k}
      /\ passed' = [p \in DOMAIN passed \cup r.done |-> IF p \in r.done THEN Min({2, times(p) + 1}) ELSE passed[p]]
      /\ UNCHANGED <<scenario, sent, offered>>

Lose(d) ==
  /\ link' = link \ {d}
  /\ UNCHANGED <<scenario, ep, duplicates, sent, offered, seen, passed, forgotten, oversized>>

\* timeoutPartialPacket.
TimeoutPartialPacket(n, key) ==
  /\ key \in DOMAIN ep[n].partial
  /\ ep' = [ep EXCEPT ![n].partial = Without(@, key)]
  /\ UNCHANGED <<scenario, link, duplicates, sent, offered, seen, passed, forgotten, oversized>>

\* setOptions, by management: reliability on or off, another MTU.
SetOptions(n, o) ==
  /\ ep' = [ep EXCEPT ![n].enabled = o.enabled, ![n].mtu = o.mtu,
                      ![n].idle = @ /\ ~(ep[n].enabled /\ ~o.enabled)]
  /\ UNCHANGED <<scenario, link, duplicates, sent, offered, seen, passed, forgotten, oversized>>

Next ==
  \/ \E d \in link : Lose(d)
  \/ \E n \in {m \in Node : Running(m)} :
    \/ \E p \in Packet : SendNetPacket(n, p)
    \/ \E tx \in TxSequence : RtoTimeout(n, tx)
    \/ IdleAckTimeout(n)
    \/ \E d \in link, k \in 0 .. Len(ep[n].recentQueue), again \in BOOLEAN :
         ReceivePacket(n, d, k, again)
    \/ \E key \in 0 .. (SeqModulus - 1) : TimeoutPartialPacket(n, key)
    \/ \E o \in scenario.options[n] : SetOptions(n, o)

AnyRtoTimeout(n) == \E tx \in DOMAIN ep[n].unacked : RtoTimeout(n, tx)

\* Weak fairness of the timers, with their ENABLED written out: an RTO timer
\* runs while there is an unacknowledged fragment.
Fairness ==
  \A n \in Node :
    /\ []<>(ep[n].unacked = << >> \/ ~Running(n)) \/ []<><<AnyRtoTimeout(n)>>_vars
    /\ []<>(~ep[n].idle \/ ~Running(n)) \/ []<><<IdleAckTimeout(n)>>_vars

Spec == Init /\ [][Next]_vars /\ Fairness

----------------------------------------------------------------------------
(* Properties.                                                             *)

\* m_firstUnackedFrag points to the oldest unacknowledged fragment, counting
\* around the end of the TxSequence numbers, however Acks, losses and
\* surrendered packets have thinned out the window (findLostLpPackets walks
\* from there to the acknowledged fragment).
FirstIsOldest ==
  \A n \in Node :
    LET age(t) == (ep[n].lastTx - t) % TxModulus
    IN  IF DOMAIN ep[n].unacked = {} THEN ep[n].first = NoSeq
        ELSE /\ ep[n].first \in DOMAIN ep[n].unacked
             /\ \A t \in DOMAIN ep[n].unacked : age(t) <= age(ep[n].first)

\* The iterators a NetPkt holds are exactly those of its unacknowledged
\* fragments: none dangles after a retransmission moved the fragment, no
\* fragment outlives its packet, and none is retransmitted too often.
IteratorsValid ==
  \A n \in Node :
    /\ \A t \in DOMAIN ep[n].unacked :
         /\ t \in TxSequence /\ ep[n].unacked[t].retx \in 0 .. MaxRetx
         /\ ep[n].unacked[t].frag.net \in DOMAIN ep[n].netPkts
    /\ \A p \in DOMAIN ep[n].netPkts :
         /\ ep[n].netPkts[p].frags # {}
         /\ ep[n].netPkts[p].frags = {t \in DOMAIN ep[n].unacked : ep[n].unacked[t].frag.net = p}

StaysOn(n) == \A o \in scenario.options[n] : o.enabled

\* A packet is passed to the forwarder whole; and a second time, by an end
\* where reliability stays on, only if one of its Sequences has left the
\* window in which duplicates are recognized.
PassedOnceInWindow ==
  /\ Garbled \notin DOMAIN passed
  /\ \A p \in DOMAIN offered \cap DOMAIN passed, n \in {m \in Node : StaysOn(m)} :
       passed[p] > 1 /\ n # p.from =>
         \E seq \in offered[p] : [node |-> n, seq |-> seq] \in forgotten

\* Acks do not make an LpPacket exceed the MTU that fits without them, but for
\* two sizes: piggyback reserves the octets by which the TLV-LENGTH may grow
\* according to the size of the whole packet, and at 253 and 254 octets that
\* needs three octets as a TLV-LENGTH while the packet's own still has one.
AcksFit == oversized \subseteq {253, 254}

\* Each packet that reliability looks after gets a verdict: acknowledged, or
\* given up after a bounded number of retransmissions, whatever the link does.
\* Stated for all at once: there is always a later state where all have one.
EveryOfferEnds ==
  []<>(\A p \in DOMAIN offered : ~Running(p.from) \/ \E r \in Range(ep[p.from].ended) : r.net = p)

\* Acks do not stay in the queue of an end that keeps reliability on.
AcksAreSent == \A n \in Node : []<>(StaysOn(n) /\ Running(n) => ep[n].ackQueue = << >>)

\* The abstract state: the packets whose fragments have all arrived, and the
\* counters as verdicts.
Arrived ==
  {p \in Packet : \E s \in seen :
     s.net = p /\ \A i \in 0 .. (s.count - 1) : [s EXCEPT !.index = i] \in seen}

Verdicts ==
  LET all == UNION {Range(ep[n].ended) : n \in Node}
  IN  [p \in {r.net : r \in all} |->
         LET mine == SelectSeq(ep[p.from].ended, LAMBDA r : r.net = p)
         IN  IF Len(mine) = 1 THEN mine[1].how ELSE "several"]

Promise == INSTANCE LinkPromise WITH offered <- DOMAIN offered,
  arrived <- Arrived, passed <- DOMAIN passed, verdict <- Verdicts

\* The two link services keep the promise of a reliable link: one verdict for
\* each packet, a favourable one only if every fragment has arrived, and
\* nothing passed on that has not arrived whole.
KeepsPromise == Promise!Spec
=============================================================================
