--------------------------- MODULE RcvBufferCalls ---------------------------
(***************************************************************************)
(* A CRcvBuffer under the calls of its connection: packets of a stream of  *)
(* messages are inserted in any order, more than once or never; messages   *)
(* are read, and dropped on request of the sender, when their time has     *)
(* come, or because they cannot be decrypted.                              *)
(*                                                                         *)
(* The calls are those of srtcore/core.cpp.  Which of them happen depends  *)
(* on the configuration: with TSBPD off, as SrtListener sets it, messages  *)
(* without order flag may be read out of order; with TSBPD on, TLPKTDROP   *)
(* decides whether late packets are dropped here or at the sender's        *)
(* request.                                                                *)
(***************************************************************************)
EXTENDS RcvBuffer, Sequences

CONSTANTS MessageOf,  \* the message that each packet of the stream belongs to
          ISN         \* the sequence number of the first packet

\* The numbers of messages ascend; a sequence number stands for one packet of
\* the stream.  A message fits into the sender's buffer (sendmsg2 refuses it
\* otherwise), which is far smaller than half the space of sequence numbers.
ASSUME StreamAssumption ==
    /\ MessageOf \in Seq(Nat \ {0})
    /\ \A i, j \in DOMAIN MessageOf : i < j => MessageOf[i] <= MessageOf[j]
    /\ \A i, j \in DOMAIN MessageOf : MessageOf[i] = MessageOf[j] => j - i < m_iSeqNoTH
    /\ Len(MessageOf) <= m_iMaxSeqNo
    /\ ISN \in SeqNo

VARIABLES b,          \* the buffer
          order,      \* order flag of each message of the stream
          TLPktDrop,  \* m_bTLPktDrop of the receiver
          delivered   \* the numbers of the messages that each read returned

vars == <<b, order, TLPktDrop, delivered>>

Msgs == {MessageOf[i] : i \in DOMAIN MessageOf}

Packet(i) ==
    [seqno   |-> incseqBy(ISN, i - 1),
     msgno   |-> MessageOf[i],
     first   |-> i = 1 \/ MessageOf[i - 1] # MessageOf[i],
     last    |-> i = Len(MessageOf) \/ MessageOf[i + 1] # MessageOf[i],
     inorder |-> order[MessageOf[i]]]

Stream == {Packet(i) : i \in DOMAIN MessageOf}

MsgPackets(m) == {Packet(i) : i \in {k \in DOMAIN MessageOf : MessageOf[k] = m}}

Init ==
    /\ \E tsbpd \in BOOLEAN :
          /\ b = NewBuffer(ISN, tsbpd)
          /\ TLPktDrop \in (IF tsbpd THEN BOOLEAN ELSE {FALSE})
    /\ order \in [Msgs -> BOOLEAN]
    /\ delivered = <<>>

\* A packet arrives (handleSocketPacketReception).
Insert(pkt) ==
    /\ b' = insert(b, pkt)
    /\ UNCHANGED <<order, TLPktDrop, delivered>>

\* It arrives and cannot be decrypted: it is dropped where it was put.
InsertUndecrypted(pkt) ==
    /\ b.tsbpd
    /\ InsertResult(b, pkt) = 0
    /\ b' = dropMessage(insert(b, pkt), pkt.seqno, pkt.seqno, SRT_SEQNO_NONE, DROP_EXISTING)
    /\ UNCHANGED <<order, TLPktDrop, delivered>>

\* The reader takes a message (receiveMessage).  With TSBPD its time has come.
ReadMessage ==
    /\ isRcvDataReady(b)
    /\ b' = readMessage(b)
    /\ delivered' = Append(delivered, {pkt.msgno : pkt \in MessageRead(b)})
    /\ UNCHANGED <<order, TLPktDrop>>

\* The time of the first packet there has come while packets before it are
\* missing: they are given up (tsbpd, rcvDropTooLateUpTo).
DropTooLate ==
    /\ b.tsbpd
    /\ TLPktDrop
    /\ getFirstValidOffset(b) > 0
    /\ b' = dropUpTo(b, packetAt(b, At(b, getFirstValidOffset(b))).seqno)
    /\ UNCHANGED <<order, TLPktDrop, delivered>>

InReach(seqno) == seqoff(b.m_iStartSeqNo, seqno) < capacity

\* The sender dropped a message from one of its packets to the last
\* (processCtrlDropReq).
DropMessage(m) ==
    /\ ~TLPktDrop
    /\ \E lo \in MsgPackets(m), hi \in MsgPackets(m) :
          /\ hi.last
          /\ InReach(hi.seqno)
          /\ b' = dropMessage(b, lo.seqno, hi.seqno, m, KEEP_EXISTING)
    /\ UNCHANGED <<order, TLPktDrop, delivered>>

\* The sender was asked for packets that it no longer has, because they were
\* acknowledged or, with TSBPD, because they became too late for it.
DropRange ==
    /\ ~TLPktDrop
    /\ \E lo \in Stream, hi \in Stream :
          LET last == seqoff(b.m_iStartSeqNo, hi.seqno)
          IN  /\ seqoff(lo.seqno, hi.seqno) >= 0
              /\ InReach(hi.seqno)
              /\ b.tsbpd \/ \A k \in 0..last : b.m_entries[At(b, k)].status # "Empty"
              /\ b' = dropMessage(b, lo.seqno, hi.seqno, 0, KEEP_EXISTING)
    /\ UNCHANGED <<order, TLPktDrop, delivered>>

Next ==
    \/ \E pkt \in Stream : Insert(pkt) \/ InsertUndecrypted(pkt)
    \/ ReadMessage
    \/ DropTooLate
    \/ \E m \in Msgs : DropMessage(m)
    \/ DropRange

Spec == Init /\ [][Next]_vars

-----------------------------------------------------------------------------
\* The shape of the buffer: positions in range, no more in use than its
\* capacity, a unit exactly in the entries that are available.
TypeOK ==
    /\ \A pos \in Positions : b.m_entries[pos] \in {Empty, Drop, Read}
                                 \cup {Avail(pkt) : pkt \in Stream}
    /\ b.m_iStartSeqNo \in SeqNo
    /\ b.m_iStartPos \in Positions
    /\ b.m_iFirstNonreadPos \in Positions
    /\ b.m_iMaxPosOff \in 0..capacity
    /\ b.m_numOutOfOrderPackets \in 0..capacity
    /\ b.m_iFirstReadableOutOfOrder \in Positions \cup {-1}
    /\ b.tsbpd \in BOOLEAN /\ TLPktDrop \in BOOLEAN
    /\ order \in [Msgs -> BOOLEAN]
    /\ delivered \in Seq(SUBSET Msgs)

\* Every packet is at the position of its sequence number, and counted in
\* m_iMaxPosOff: moving the start over fillers never shifts one against the
\* other.
WindowIntact ==
    /\ TypeOK
    /\ \A off \in 0..(m_szSize - 1) :
          HasUnit(b, At(b, off)) =>
              /\ packetAt(b, At(b, off)).seqno = incseqBy(b.m_iStartSeqNo, off)
              /\ off < b.m_iMaxPosOff

\* The counter of packets without order flag is exact.  The search of
\* updateFirstReadableOutOfOrder ends only when it has met that many.
OutOfOrderCount ==
    b.m_numOutOfOrderPackets =
        Cardinality({pos \in Positions : /\ ~b.tsbpd
                                         /\ HasUnit(b, pos)
                                         /\ ~packetAt(b, pos).inorder})

\* What may be read is a whole message, in order and out of order, whatever
\* was read and dropped around it: the reader never meets the null packet
\* that readMessage asserts against.
ReadsWholeMessage ==
    CanRead(b) => \E m \in Msgs : MessageRead(b) = MsgPackets(m)

\* No message is read twice, although a message read out of order stays
\* behind in the buffer and its packets may arrive again; and after a message
\* with order flag no earlier message is read: it overtakes nothing.
ReadInTurn ==
    \A i, j \in DOMAIN delivered : i < j =>
        \A m \in delivered[i], n \in delivered[j] :
            m # n /\ (order[m] \/ b.tsbpd => m < n)

\* A message that is all there at the start of the buffer is readable in order.
HeadReadable ==
    /\ HasUnit(b, b.m_iStartPos)
    /\ packetAt(b, b.m_iStartPos).first
    /\ MessageEnd(b, 0) # -1
    => hasReadableInorderPkts(b)

Units == {pos \in Positions : HasUnit(b, pos)}

\* Only a read, where updateNonreadPos is commented out, leaves a whole
\* message at the start of the buffer that m_iFirstNonreadPos has not passed:
\* neither a packet that comes nor a message that is dropped does, and the
\* next packet that gets into the buffer makes it readable again.
NoHeadLeftBehind ==
    [][delivered' = delivered /\ (HeadReadable \/ Cardinality(Units') > Cardinality(Units))
          => HeadReadable']_vars

=============================================================================
