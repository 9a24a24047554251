----------------------------- MODULE SrtTransfer -----------------------------
(***************************************************************************)
(* An SRT connection after its handshake (class CUDT, srtcore/core.cpp):   *)
(* the sender of the stream, the receiver inside the app and the network   *)
(* between them, which loses, delays and reorders packets.                 *)
(*                                                                         *)
(* The configuration is the app's: live mode, so that every message is one *)
(* packet; TSBPD off at the receiver (SrtListener.cpp:136), and with it    *)
(* TLPKTDROP; periodic NAK reports on, as live mode sets them.  The loss   *)
(* lists are the sets of the sequence numbers they hold; the receiver's    *)
(* buffer is that of module RcvBuffer.  A step is what runs under          *)
(* m_RecvAckLock at the sender and under m_RcvBufferLock at the receiver.  *)
(*                                                                         *)
(* Time is left out: a timer may expire whenever its other conditions      *)
(* hold.  A retransmission that is skipped because the last one is less    *)
(* than a round trip old is, to the receiver, one that was lost.           *)
(***************************************************************************)
EXTENDS RcvBuffer, SequencesExt

CONSTANTS ISN,                  \* the sequence number of the first packet
          iMaxReorderTolerance, \* SRTO_LOSSMAXTTL
          MaxMsgs,              \* bound: how many messages are sent
          Flags,                \* the order flags that each of them may have
          MayAge,               \* messages sent with a time to live
          NetRoom,              \* bound: packets in the network
          MaxLosses             \* bound: how many packets the network loses

ASSUME TransferAssumption ==
    /\ ISN \in SeqNo
    /\ iMaxReorderTolerance \in Nat
    /\ MaxMsgs \in 1..(m_iSeqNoTH - 1)
    /\ MayAge \subseteq 1..MaxMsgs
    /\ Flags \in [1..MaxMsgs -> SUBSET BOOLEAN]
    /\ NetRoom \in Nat /\ MaxLosses \in Nat

VARIABLES sent,       \* the order flags of the messages in the sender's buffer so far
          tooOld,     \* the messages whose time to live has ended
          snd,        \* the sender's fields of CUDT
          rcv,        \* the receiver's
          delivered,  \* what receiveMessage has returned
          net,        \* the packets under way
          losses      \* how many the network has lost

vars == <<sent, tooOld, snd, rcv, delivered, net, losses>>

\* The handshake tells the sender flightCapacity(), which is m_szSize: one
\* more than the buffer can hold.
Init ==
    /\ sent = <<>> /\ tooOld = {}
    /\ snd = [m_iSndCurrSeqNo     |-> decseq(ISN),
              m_iSndLastAck       |-> ISN,
              m_iSndLastDataAck   |-> ISN,
              m_iFlowWindowSize   |-> m_szSize,
              m_pSndLossList      |-> {},
              m_bBroken           |-> FALSE]
    /\ rcv = [m_pRcvBuffer        |-> NewBuffer(ISN, FALSE),
              m_iRcvCurrSeqNo     |-> decseq(ISN),
              m_iRcvLastAck       |-> ISN,
              m_iRcvLastAckAck    |-> ISN,
              m_bBufferWasFull    |-> FALSE,
              m_pRcvLossList      |-> {},
              m_FreshLoss         |-> <<>>,
              m_iReorderTolerance |-> iMaxReorderTolerance]
    /\ delivered = <<>> /\ net = {} /\ losses = 0

-----------------------------------------------------------------------------
\* Sequence numbers and the packets of the protocol.

Between(lo, hi) == {incseqBy(lo, k) : k \in 0..seqoff(lo, hi)}

\* The maximal ranges that a loss list consists of.
Ranges(S) == {r \in [lo : S, hi : S] : /\ seqcmp(r.lo, r.hi) <= 0
                                       /\ Between(r.lo, r.hi) \subseteq S
                                       /\ decseq(r.lo) \notin S
                                       /\ incseq(r.hi) \notin S}

MsgNo(seqno)  == seqoff(ISN, seqno) + 1
SeqNoOf(m)      == incseqBy(ISN, m - 1)
m_iSndNextSeqNo == SeqNoOf(Len(sent) + 1)

Data(seqno, rexmit) ==
    [type |-> "DATA", rexmit |-> rexmit,
     pkt |-> [seqno |-> seqno, msgno |-> MsgNo(seqno), first |-> TRUE, last |-> TRUE,
              inorder |-> sent[MsgNo(seqno)]]]
Ack(seqno, left)       == [type |-> "ACK", seqno |-> seqno, left |-> left]
LiteAck(seqno)         == [type |-> "LITEACK", seqno |-> seqno]
AckAck(seqno)          == [type |-> "ACKACK", seqno |-> seqno]
LossReport(ranges)     == [type |-> "LOSSREPORT", ranges |-> ranges]
DropReq(lo, hi, msgno) == [type |-> "DROPREQ", lo |-> lo, hi |-> hi, msgno |-> msgno]

\* m is taken from the network and answered by these.
Answer(m, answers) == net' = (net \ {m}) \cup answers

Room == Cardinality(net) < NetRoom

-----------------------------------------------------------------------------
\* The sender.

\* A message is put into the sender's buffer (sendmsg2).
SendMsg(inorder) ==
    /\ Len(sent) < MaxMsgs
    /\ inorder \in Flags[Len(sent) + 1]
    /\ ~snd.m_bBroken
    /\ sent' = Append(sent, inorder)
    /\ UNCHANGED <<tooOld, snd, rcv, delivered, net, losses>>

\* The time to live of a message ends.
Age(m) ==
    /\ m \in MayAge \cap DOMAIN sent
    /\ tooOld' = tooOld \cup {m}
    /\ UNCHANGED <<sent, snd, rcv, delivered, net, losses>>

TooOld(seqno) == MsgNo(seqno) \in tooOld

getFlightSpan == seqoff(snd.m_iSndLastAck, incseq(snd.m_iSndCurrSeqNo))

\* packUniqueData: the next packet of the buffer that is not too old, if the
\* window is open.  Those before it are skipped; the receiver will miss them.
PackUniqueData ==
    LET unsent == Between(incseq(snd.m_iSndCurrSeqNo), decseq(m_iSndNextSeqNo))
        fresh  == {s \in unsent : ~TooOld(s)}
        next   == CHOOSE s \in fresh : \A t \in fresh : seqcmp(s, t) <= 0
    IN  /\ Room /\ ~snd.m_bBroken
        /\ snd.m_iFlowWindowSize > getFlightSpan
        /\ unsent # {}
        /\ IF fresh = {}
           THEN /\ snd' = [snd EXCEPT !.m_iSndCurrSeqNo = decseq(m_iSndNextSeqNo)]
                /\ UNCHANGED net
           ELSE /\ snd' = [snd EXCEPT !.m_iSndCurrSeqNo = next]
                /\ net' = net \cup {Data(next, FALSE)}
        /\ UNCHANGED <<sent, tooOld, rcv, delivered, losses>>

\* packLostData: the first packet of the loss list that is not too old is sent
\* again; for those before it the receiver is told to expect them no more.
PackLostData ==
    LET lost  == snd.m_pSndLossList
        alive == {s \in lost : ~TooOld(s)}
        next  == CHOOSE s \in alive : \A t \in alive : seqcmp(s, t) <= 0
        old   == {s \in lost : alive = {} \/ seqcmp(s, next) < 0}
    IN  /\ Room /\ ~snd.m_bBroken
        /\ lost # {}
        /\ net' = net \cup {DropReq(s, s, MsgNo(s)) : s \in old}
                      \cup (IF alive = {} THEN {} ELSE {Data(next, TRUE)})
        /\ snd' = [snd EXCEPT !.m_pSndLossList =
                                  IF alive = {} THEN {} ELSE lost \ (old \cup {next})]
        /\ UNCHANGED <<sent, tooOld, rcv, delivered, losses>>

\* updateSndLossListOnACK: what is acknowledged leaves the buffer and the
\* loss list.
Acknowledged(ack) ==
    IF seqoff(snd.m_iSndLastDataAck, ack) <= 0 THEN snd
    ELSE [snd EXCEPT !.m_iSndLastDataAck = ack,
                     !.m_pSndLossList = {s \in @ : seqcmp(s, ack) >= 0}]

ProcessLiteAck(m) ==
    /\ m.type = "LITEACK"
    /\ snd' = IF seqcmp(m.seqno, snd.m_iSndLastAck) < 0 THEN Acknowledged(m.seqno)
              ELSE [Acknowledged(m.seqno) EXCEPT
                       !.m_iFlowWindowSize = @ - seqoff(snd.m_iSndLastAck, m.seqno),
                       !.m_iSndLastAck = m.seqno]
    /\ Answer(m, {})

\* Mutant of AckIsWrong: an ACK names the packet after the last one it covers.
AckIsAhead(seqno) == seqcmp(seqno, snd.m_iSndCurrSeqNo) > 0

\* An acknowledgement of a packet that was never sent.
AckIsWrong(seqno) == seqcmp(seqno, incseq(snd.m_iSndCurrSeqNo)) > 0

\* processCtrlAck.  The ACKACK is left out within 10 ms of the last one.
ProcessAck(m) ==
    /\ m.type = "ACK"
    /\ snd' = IF AckIsWrong(m.seqno)
              THEN [Acknowledged(m.seqno) EXCEPT !.m_bBroken = TRUE]
              ELSE IF seqcmp(m.seqno, snd.m_iSndLastAck) < 0
              THEN Acknowledged(m.seqno)
              ELSE [Acknowledged(m.seqno) EXCEPT !.m_iFlowWindowSize = m.left,
                                                 !.m_iSndLastAck = m.seqno]
    /\ Answer(m, {AckAck(m.seqno)}) \/ Answer(m, {})

\* processCtrlLossReport: what is not acknowledged yet is to be sent again;
\* the receiver is told to forget the rest.
ProcessLossReport(m) ==
    LET reported == UNION {Between(r.lo, r.hi) : r \in m.ranges}
        wrong    == {s \in reported : seqcmp(s, snd.m_iSndCurrSeqNo) > 0}
        gone     == {r \in m.ranges : seqcmp(r.lo, snd.m_iSndLastAck) < 0}
        Upto(r)  == IF seqcmp(r.hi, snd.m_iSndLastAck) >= 0
                    THEN decseq(snd.m_iSndLastAck) ELSE r.hi
    IN  /\ m.type = "LOSSREPORT"
        /\ IF wrong # {}
           THEN /\ snd' = [snd EXCEPT !.m_bBroken = TRUE]
                /\ Answer(m, {})
           ELSE /\ snd' = [snd EXCEPT !.m_pSndLossList = @ \cup
                               {s \in reported : seqcmp(s, snd.m_iSndLastAck) >= 0}]
                /\ Answer(m, {DropReq(r.lo, Upto(r), 0) : r \in gone})

SenderReceives(m) ==
    /\ ~snd.m_bBroken
    /\ ProcessLiteAck(m) \/ ProcessAck(m) \/ ProcessLossReport(m)
    /\ UNCHANGED <<sent, tooOld, rcv, delivered, losses>>

-----------------------------------------------------------------------------
\* The receiver's record of fresh losses: ranges that are reported once their
\* ttl, counted in packets that came since, has run out.

\* CRcvFreshLoss::removeOne: a packet of a range came after all.
RemoveOne(fresh, seqno) ==
    LET hits == {i \in DOMAIN fresh : seqno \in Between(fresh[i].lo, fresh[i].hi)}
        i == Min(hits)
        Unless(empty, r) == IF empty THEN <<>> ELSE <<r>>
    IN  IF hits = {} THEN fresh
        ELSE SubSeq(fresh, 1, i - 1)
                \o Unless(fresh[i].lo = seqno, [fresh[i] EXCEPT !.hi = decseq(seqno)])
                \o Unless(fresh[i].hi = seqno, [fresh[i] EXCEPT !.lo = incseq(seqno)])
                \o SubSeq(fresh, i + 1, Len(fresh))

\* CRcvFreshLoss::revoke(lo, hi), from the front on: ranges up to hi go, the
\* first one that reaches further is cut, if it begins before hi.
RevokeUpTo(fresh, hi) ==
    LET keep == {i \in DOMAIN fresh : seqcmp(hi, fresh[i].hi) < 0}
        i == Min(keep)
    IN  IF keep = {} THEN <<>>
        ELSE <<IF seqcmp(hi, fresh[i].lo) < 0 THEN fresh[i]
               ELSE [fresh[i] EXCEPT !.lo = incseq(hi)]>>
             \o SubSeq(fresh, i + 1, Len(fresh))

-----------------------------------------------------------------------------
\* The receiver.

\* Mutant of Unlose: the packet stays in the loss list.
UnloseFreshOnly(r, seqno, rexmit) ==
    [r EXCEPT !.m_FreshLoss = RemoveOne(@, seqno)]

\* unlose: a packet that is not the newest came.  If it was sent only once,
\* the network reordered it, and more reordering is tolerated from now on.
Unlose(r, seqno, rexmit) ==
    LET seqdiff == abs(seqcmp(r.m_iRcvCurrSeqNo, seqno))
        grown == IF ~rexmit /\ seqdiff > r.m_iReorderTolerance
                 THEN Min({seqdiff, iMaxReorderTolerance}) ELSE r.m_iReorderTolerance
    IN  [r EXCEPT !.m_pRcvLossList = @ \ {seqno},
                  !.m_iReorderTolerance = grown,
                  !.m_FreshLoss = IF grown = 0 THEN @ ELSE RemoveOne(@, seqno)]

\* handleSocketPacketReception for a packet that fits into the buffer: it is
\* inserted, and the gap before it recorded as lost and, with a tolerance for
\* reordering, as fresh.
Received(pkt, rexmit) ==
    LET curr   == rcv.m_iRcvCurrSeqNo
        gap    == [lo |-> incseq(curr), hi |-> decseq(pkt.seqno),
                   ttl |-> rcv.m_iReorderTolerance]
        stored == [rcv EXCEPT !.m_pRcvBuffer = insert(@, pkt)]
        isNew  == InsertResult(rcv.m_pRcvBuffer, pkt) = 0
    IN  IF seqcmp(pkt.seqno, curr) <= 0 THEN Unlose(stored, pkt.seqno, rexmit)
        ELSE IF ~isNew \/ seqcmp(pkt.seqno, incseq(curr)) = 0
        THEN [stored EXCEPT !.m_iRcvCurrSeqNo = pkt.seqno]
        ELSE [stored EXCEPT !.m_iRcvCurrSeqNo = pkt.seqno,
                            !.m_pRcvLossList = @ \cup Between(gap.lo, gap.hi),
                            !.m_FreshLoss = IF gap.ttl = 0 THEN @ ELSE Append(@, gap)]

\* processData: then losses are reported, at once if nothing is tolerated,
\* otherwise the fresh ones whose ttl ran out; the ttl of the others goes
\* down.  After 50 packets in order, or 10 that came early, the tolerance
\* goes down; here that may happen after any.
ProcessData(m) ==
    LET seqno   == m.pkt.seqno
        ttl     == rcv.m_iReorderTolerance
        offset  == seqoff(rcv.m_pRcvBuffer.m_iStartSeqNo, seqno)
        isNew   == InsertResult(rcv.m_pRcvBuffer, m.pkt) = 0
        r       == Received(m.pkt, m.rexmit)
        atOnce  == IF ttl = 0 THEN Ranges(r.m_pRcvLossList \ rcv.m_pRcvLossList) ELSE {}
        nDue    == Max({k \in 0..Len(r.m_FreshLoss) :
                           \A j \in 1..k : r.m_FreshLoss[j].ttl <= 0})
        due     == IF ttl = 0 THEN <<>> ELSE SubSeq(r.m_FreshLoss, 1, nDue)
        waiting == [i \in 1..(Len(r.m_FreshLoss) - Len(due)) |->
                       LET f == r.m_FreshLoss[Len(due) + i]
                       IN  IF ttl = 0 THEN f ELSE [f EXCEPT !.ttl = @ - 1]]
        report  == atOnce \cup {[lo |-> due[i].lo, hi |-> due[i].hi] : i \in DOMAIN due}
    IN  /\ m.type = "DATA"
        /\ IF \/ offset < 0 \/ seqcmp(seqno, rcv.m_iRcvLastAck) < 0
              \/ offset >= capacity
           THEN UNCHANGED rcv /\ Answer(m, {})
           ELSE IF ~isNew THEN rcv' = r /\ Answer(m, {})
           ELSE /\ \E lower \in 0..(IF r.m_iReorderTolerance > 0 THEN 1 ELSE 0) :
                      rcv' = [r EXCEPT !.m_FreshLoss = waiting,
                                       !.m_iReorderTolerance = @ - lower]
                /\ Answer(m, IF report = {} THEN {} ELSE {LossReport(report)})

\* processCtrlAckAck
ProcessAckAck(m) ==
    /\ m.type = "ACKACK"
    /\ rcv' = [rcv EXCEPT !.m_iRcvLastAckAck = maxseq(@, m.seqno)]
    /\ Answer(m, {})

\* processCtrlDropReq and dropFromLossLists
ProcessDropReq(m) ==
    /\ m.type = "DROPREQ"
    /\ rcv' = [rcv EXCEPT
          !.m_pRcvBuffer = dropMessage(@, m.lo, m.hi, m.msgno, KEEP_EXISTING),
          !.m_pRcvLossList = @ \ Between(m.lo, m.hi),
          !.m_FreshLoss = IF rcv.m_iReorderTolerance = 0 THEN @ ELSE RevokeUpTo(@, m.hi),
          !.m_iRcvCurrSeqNo = IF /\ seqcmp(m.lo, incseq(@)) <= 0
                                 /\ seqcmp(m.hi, @) > 0
                              THEN m.hi ELSE @]
    /\ Answer(m, {})

ReceiverReceives(m) ==
    /\ ProcessData(m) \/ ProcessAckAck(m) \/ ProcessDropReq(m)
    /\ UNCHANGED <<sent, tooOld, snd, delivered, losses>>

\* Mutant of getFirstNoncontSequence: losses are not looked at.
getNextSequence == incseq(rcv.m_iRcvCurrSeqNo)

\* getFirstNoncontSequence, with TSBPD off and in message mode
getFirstNoncontSequence ==
    IF rcv.m_pRcvLossList = {} THEN incseq(rcv.m_iRcvCurrSeqNo)
    ELSE CHOOSE s \in rcv.m_pRcvLossList :
             \A t \in rcv.m_pRcvLossList : seqcmp(s, t) <= 0

RoomAfter(ack) == getAvailSize(rcv.m_pRcvBuffer, ack)

\* A full buffer was announced and there is room again.
bNeedFullAck == rcv.m_bBufferWasFull /\ RoomAfter(rcv.m_iRcvLastAck) > 0

\* Mutant of AlreadyConfirmed: what was sent is taken for received.
AlreadySent(ack) == rcv.m_iRcvLastAck = ack

\* The sender has confirmed a full ACK like this one.
AlreadyConfirmed(ack) == rcv.m_iRcvLastAckAck = ack

\* sendCtrlAck by checkACKTimer: a full ACK, as long as the sender has not
\* confirmed one like it, or because there is room again.
SendAck ==
    LET ack  == getFirstNoncontSequence
        last == maxseq(rcv.m_iRcvLastAck, ack)
    IN  /\ Room
        /\ ~AlreadyConfirmed(ack) \/ bNeedFullAck
        /\ seqcmp(ack, rcv.m_iRcvLastAck) >= 0 \/ bNeedFullAck
        /\ IF seqcmp(last, rcv.m_iRcvLastAckAck) > 0 \/ bNeedFullAck
           THEN /\ rcv' = [rcv EXCEPT !.m_iRcvLastAck = last,
                                      !.m_bBufferWasFull = RoomAfter(last) = 0]
                /\ net' = net \cup {Ack(last, RoomAfter(last))}
           ELSE rcv' = [rcv EXCEPT !.m_iRcvLastAck = last] /\ UNCHANGED net
        /\ UNCHANGED <<sent, tooOld, snd, delivered, losses>>

\* sendCtrlAck with SEND_LITE_ACK, after every 64 packets; here after any.
SendLiteAck ==
    /\ Room
    /\ ~AlreadyConfirmed(getFirstNoncontSequence)
    /\ ~bNeedFullAck
    /\ net' = net \cup {LiteAck(getFirstNoncontSequence)}
    /\ UNCHANGED <<sent, tooOld, snd, rcv, delivered, losses>>

\* Mutant of SendLossReport: it waits for the fresh losses to be reported.
SendLossReportLater ==
    /\ Room
    /\ rcv.m_pRcvLossList # {} /\ rcv.m_FreshLoss = <<>>
    /\ net' = net \cup {LossReport(Ranges(rcv.m_pRcvLossList))}
    /\ UNCHANGED <<sent, tooOld, snd, rcv, delivered, losses>>

\* checkNAKTimer: the whole loss list is reported again and again.
SendLossReport ==
    /\ Room
    /\ rcv.m_pRcvLossList # {}
    /\ net' = net \cup {LossReport(Ranges(rcv.m_pRcvLossList))}
    /\ UNCHANGED <<sent, tooOld, snd, rcv, delivered, losses>>

\* receiveMessage, called by SrtListener's loop: a message is one packet
ReceiveMessage ==
    LET b == rcv.m_pRcvBuffer
    IN  /\ isRcvDataReady(b)
        /\ \E pkt \in MessageRead(b) : delivered' = Append(delivered, pkt.msgno)
        /\ rcv' = [rcv EXCEPT !.m_pRcvBuffer = readMessage(b)]
        /\ UNCHANGED <<sent, tooOld, snd, net, losses>>

-----------------------------------------------------------------------------
\* A packet is lost.
Lose(m) ==
    /\ losses < MaxLosses
    /\ losses' = losses + 1
    /\ Answer(m, {})
    /\ UNCHANGED <<sent, tooOld, snd, rcv, delivered>>

Receive(m) == SenderReceives(m) \/ ReceiverReceives(m)

Next ==
    \/ \E inorder \in BOOLEAN : SendMsg(inorder)
    \/ \E m \in MayAge : Age(m)
    \/ PackUniqueData \/ PackLostData
    \/ SendAck \/ SendLiteAck \/ SendLossReport
    \/ ReceiveMessage
    \/ \E m \in net : Receive(m) \/ Lose(m)

Spec == Init /\ [][Next]_vars

Types == {"DATA", "ACK", "LITEACK", "ACKACK", "LOSSREPORT", "DROPREQ"}

Pending(type) == \E m \in net : m.type = type

Leaves(type) == \E m \in net \ net' : m.type = type

\* Both worker threads and their timers keep running, the app keeps calling
\* srt_recvmsg, and what the network does not lose it delivers.  Fairness is
\* strong where Room, a bound of the model, can stop a step.  The last two
\* conjuncts are the weak fairness of ReceiveMessage, which alone changes
\* delivered, and of the receipt of each type of packet: a packet leaves the
\* network by being received or, MaxLosses times at most, lost.
FairSpec ==
    /\ Spec
    /\ SF_vars(PackUniqueData) /\ SF_vars(PackLostData)
    /\ SF_vars(SendAck) /\ SF_vars(SendLossReport)
    /\ []<>(~isRcvDataReady(rcv.m_pRcvBuffer)) \/ []<><<TRUE>>_delivered
    /\ \A type \in Types : []<>(~Pending(type)) \/ []<><<Leaves(type)>>_net

-----------------------------------------------------------------------------
Entry(seqno) ==
    LET b == rcv.m_pRcvBuffer
    IN  b.m_entries[At(b, seqoff(b.m_iStartSeqNo, seqno))]

\* The sequence numbers from the start of the buffer to the newest packet.
Window == Between(rcv.m_pRcvBuffer.m_iStartSeqNo, rcv.m_iRcvCurrSeqNo)

TypeOK ==
    /\ sent \in Seq(BOOLEAN)
    /\ tooOld \subseteq DOMAIN sent
    /\ {snd.m_iSndCurrSeqNo, snd.m_iSndLastAck, snd.m_iSndLastDataAck} \subseteq SeqNo
    /\ snd.m_pSndLossList \subseteq SeqNo
    /\ snd.m_iFlowWindowSize \in Int
    /\ rcv.m_iRcvCurrSeqNo \in SeqNo
    /\ rcv.m_iRcvLastAck \in SeqNo /\ rcv.m_iRcvLastAckAck \in SeqNo
    /\ rcv.m_pRcvLossList \subseteq SeqNo
    /\ rcv.m_iReorderTolerance \in 0..iMaxReorderTolerance
    /\ delivered \in Seq(DOMAIN sent)
    /\ \A m \in net : m.type \in Types

\* The receiver's loss list is exact: it holds the packets that the buffer
\* lacks up to the newest one, and no other.  It decides what is acknowledged
\* and what is asked for again.
LossListExact ==
    /\ TypeOK
    /\ rcv.m_pRcvLossList = {s \in Window : Entry(s).status = "Empty"}

\* Messages that the receiver will not deliver any more: the buffer has moved
\* past them, or their entry is dropped.
GivenUp ==
    {m \in DOMAIN sent \ Range(delivered) :
        \/ seqoff(rcv.m_pRcvBuffer.m_iStartSeqNo, SeqNoOf(m)) < 0
        \/ /\ seqoff(rcv.m_pRcvBuffer.m_iStartSeqNo, SeqNoOf(m)) < m_szSize
           /\ Entry(SeqNoOf(m)).status = "Drop"}

\* The sender frees a packet only when the receiver does not need it again.
NothingFreedTooEarly ==
    \A m \in DOMAIN sent :
        seqcmp(SeqNoOf(m), snd.m_iSndLastDataAck) < 0 =>
            \/ m \in Range(delivered) \cup GivenUp
            \/ Entry(SeqNoOf(m)).status = "Avail"

\* Neither peer ever takes the other's reports for an attack, however late
\* they come: the checks that break the connection never hit.
NeverBroken == ~snd.m_bBroken

\* However late its acknowledgements come, the sender never takes more room
\* for granted than the receiver's buffer has, with one exception: at first it
\* counts on m_szSize packets, one more than the buffer holds.
RoomForAll ==
    seqoff(ISN, snd.m_iSndLastAck) + snd.m_iFlowWindowSize
        <= Max({m_szSize, seqoff(ISN, rcv.m_pRcvBuffer.m_iStartSeqNo) + capacity})

\* A connection does what it promises its users.
Service == INSTANCE SrtService WITH givenUp <- GivenUp
ImplementsService == Service!Spec

\* Packets that are missed come in the end or are given up, whichever of the
\* reports and retransmissions the network loses.  (A packet that is lost
\* after which none comes is never missed, and never sent again.)
LossesRepaired == rcv.m_pRcvLossList # {} ~> rcv.m_pRcvLossList = {}

\* What the receiver has without a gap is acknowledged in the end, and leaves
\* the sender's buffer.
SenderReleases ==
    snd.m_iSndLastDataAck # getFirstNoncontSequence
        ~> snd.m_iSndLastDataAck = getFirstNoncontSequence

\* "The full ACK should be sent to indicate there is now available space in
\* the RCV buffer since the last full ACK.  It should unblock the sender to
\* proceed further" (core.cpp:8092): a window that was closed opens again.
WindowReopens ==
    snd.m_iFlowWindowSize <= 0 ~> snd.m_iFlowWindowSize > 0

=============================================================================
