-------------------------- MODULE SrtTransferProofs --------------------------
(***************************************************************************)
(* What an SRT connection keeps of its promises, for every size of the     *)
(* buffer and of the sequence space, every first sequence number, every    *)
(* number of messages below half of that space, and however many packets   *)
(* the network loses: the receiver's loss list is exact, the sender frees  *)
(* nothing too early and takes no more room for granted than there is, no  *)
(* late report breaks the connection, and all in all SrtTransfer           *)
(* implements SrtService.                                                  *)
(*                                                                         *)
(* Messages are counted from 1.  In live mode each is one packet, so that  *)
(* a message, its packet and its sequence number are the same thing; all   *)
(* that follows is said of messages, and the lemmas on sequence numbers    *)
(* carry it over, across the wrap.                                         *)
(***************************************************************************)
EXTENDS SrtTransfer, FiniteSetTheorems, WellFoundedInduction, TLAPS

\* The messages, and one more: the next number may be that of none yet.
Index == 1..(MaxMsgs + 1)

\* The sequence numbers of the messages, and the one after the last.
Numbers == {SeqNoOf(i) : i \in Index}

\* The packet of message i of the stream S (the order flags of its messages).
Pkt(S, i) == [seqno |-> SeqNoOf(i), msgno |-> i, first |-> TRUE, last |-> TRUE,
              inorder |-> S[i]]

\* What the entries of a buffer can hold.
Entries(S) == {Empty, Drop, Read} \cup {Avail(Pkt(S, i)) : i \in DOMAIN S}

BufferType(S) ==
    [m_entries : [Positions -> Entries(S)],
     m_iStartSeqNo : Numbers,
     m_iStartPos : Positions,
     m_iFirstNonreadPos : Positions,
     m_iMaxPosOff : {k \in Int : k <= capacity},
     m_numOutOfOrderPackets : Int,
     m_iFirstReadableOutOfOrder : Positions \cup {-1},
     tsbpd : {FALSE}]

\* The first message of a buffer, the entry at offset k from it, and the offset
\* of the first packet that cannot be read yet.
First(c) == MsgNo(c.m_iStartSeqNo)
EntryOf(c, k) == c.m_entries[At(c, k)]
NonreadOff(c) == offPos(c.m_iStartPos, c.m_iFirstNonreadPos)

\* Every packet is at the offset of its message.
InPlace(S, c) ==
    \A k \in 0..capacity :
        EntryOf(c, k).status = "Avail" =>
            /\ First(c) + k \in DOMAIN S
            /\ EntryOf(c, k) = Avail(Pkt(S, First(c) + k))

\* The start does not rest on an entry that is done with.
HeadWaits(c) == EntryOf(c, 0).status \notin {"Read", "Drop"}

\* What can be read in order is there without a gap.
InOrder(c) == \A k \in 0..(NonreadOff(c) - 1) : EntryOf(c, k).status = "Avail"

\* The message that may be read out of order is there and has no order flag.
Unordered(c) ==
    c.m_iFirstReadableOutOfOrder # -1 =>
        /\ c.m_entries[c.m_iFirstReadableOutOfOrder].status = "Avail"
        /\ ~c.m_entries[c.m_iFirstReadableOutOfOrder].unit.inorder

\* A buffer of messages of one packet.
Solo(S, c) ==
    c \in BufferType(S) /\ InPlace(S, c) /\ HeadWaits(c) /\ InOrder(c) /\ Unordered(c)

Streams == {S \in Seq(BOOLEAN) : Len(S) <= MaxMsgs}

\* The start has moved by n entries; those that it passed are empty.
Moves(c, n, d) ==
    /\ d.m_entries = [pos \in Positions |->
                         IF offPos(c.m_iStartPos, pos) < n THEN Empty ELSE c.m_entries[pos]]
    /\ d.m_iStartSeqNo = incseqBy(c.m_iStartSeqNo, n)
    /\ d.m_iStartPos = At(c, n)

\* What is at the offsets of c is F, then n entries at the start are passed.
Passes(c, F, n, d) ==
    /\ First(d) = First(c) + n
    /\ \A j \in 0..(n - 1) : F[j].status \in {"Read", "Drop"}
    /\ \A k \in 0..capacity :
          EntryOf(d, k) = IF n + k <= capacity THEN F[n + k] ELSE Empty

\* The first message that the receiver has not heard of, and the first that the
\* sender has not passed on yet.
RcvNext(r) == MsgNo(incseq(r.m_iRcvCurrSeqNo))
SndNext(s) == MsgNo(incseq(s.m_iSndCurrSeqNo))

StatusOf(c, i) == EntryOf(c, i - First(c)).status

\* The packets before the next one that the buffer lacks.
Lost(r) ==
    {s \in Numbers :
        /\ MsgNo(s) \in First(r.m_pRcvBuffer)..(RcvNext(r) - 1)
        /\ StatusOf(r.m_pRcvBuffer, MsgNo(s)) = "Empty"}

\* No packet before x is missing.
Covered(r, x) ==
    /\ x \in 1..RcvNext(r)
    /\ \A i \in First(r.m_pRcvBuffer)..(x - 1) : StatusOf(r.m_pRcvBuffer, i) # "Empty"

\* Records of fresh losses before message n.
RangesUpTo(n) ==
    {f \in [lo : Numbers, hi : Numbers, ttl : Int] :
        MsgNo(f.lo) <= MsgNo(f.hi) /\ MsgNo(f.hi) < n}

RcvRecord(S, n) ==
    [m_pRcvBuffer        : BufferType(S),
     m_iRcvCurrSeqNo     : {decseq(s) : s \in Numbers},
     m_iRcvLastAck       : Numbers,
     m_iRcvLastAckAck    : SeqNo,
     m_bBufferWasFull    : BOOLEAN,
     m_pRcvLossList      : SUBSET Numbers,
     m_FreshLoss         : Seq(RangesUpTo(n)),
     m_iReorderTolerance : 0..iMaxReorderTolerance]

\* The buffer has room up to the newest packet and nothing behind it.
NothingBeyond(r) ==
    LET c == r.m_pRcvBuffer
    IN  /\ RcvNext(r) \in First(c)..(First(c) + capacity)
        /\ \A k \in 0..capacity :
              First(c) + k >= RcvNext(r) => EntryOf(c, k).status = "Empty"

\* The receiver: its loss list says what the buffer lacks, and what it has
\* acknowledged is covered.
ReceiverInv(S, r) ==
    /\ r \in RcvRecord(S, RcvNext(r))
    /\ Solo(S, r.m_pRcvBuffer)
    /\ NothingBeyond(r)
    /\ r.m_pRcvLossList = Lost(r)
    /\ Covered(r, MsgNo(r.m_iRcvLastAck))

SndRecord ==
    [m_iSndCurrSeqNo   : {decseq(n) : n \in Numbers},
     m_iSndLastAck     : Numbers,
     m_iSndLastDataAck : Numbers,
     m_iFlowWindowSize : Int,
     m_pSndLossList    : SUBSET Numbers,
     m_bBroken         : {FALSE}]

\* The window that the sender knows ends within the buffer.
RoomTaken(s, r) ==
    LET most == First(r.m_pRcvBuffer) - 1 + capacity
    IN  MsgNo(s.m_iSndLastAck) - 1 + s.m_iFlowWindowSize
            <= IF m_szSize >= most THEN m_szSize ELSE most

\* The sender: ahead of the receiver, and what it takes for acknowledged is.
SenderInv(S, s, r) ==
    /\ s \in SndRecord
    /\ SndNext(s) \in RcvNext(r)..(Len(S) + 1)
    /\ Covered(r, MsgNo(s.m_iSndLastAck))
    /\ Covered(r, MsgNo(s.m_iSndLastDataAck))
    /\ \A n \in s.m_pSndLossList : MsgNo(n) < RcvNext(r)
    /\ RoomTaken(s, r)

\* What was delivered is behind the start or done with in the buffer, and what
\* was read was delivered.
DeliveredInv(S, D, r) ==
    LET c == r.m_pRcvBuffer
    IN  /\ D \in Seq(DOMAIN S)
        /\ \A i \in Range(D) :
              \/ i < First(c)
              \/ i < RcvNext(r) /\ StatusOf(c, i) \in {"Read", "Drop"}
        /\ \A i \in First(c)..(RcvNext(r) - 1) : StatusOf(c, i) = "Read" => i \in Range(D)

\* A range of messages that the receiver has heard of.
GoodRange(r, g) ==
    /\ g.lo \in Numbers /\ g.hi \in Numbers
    /\ MsgNo(g.lo) <= MsgNo(g.hi) /\ MsgNo(g.hi) < RcvNext(r)

\* What each packet under way says is still true, however late it comes: the
\* data are those of a message, an acknowledgement names nothing that is missing
\* and no room that the buffer does not have, a loss report names only what was
\* sent, and a drop request names nothing that is both alive and needed.
PacketInv(S, old, s, r, m) ==
    /\ m.type \in Types
    /\ m.type = "DATA" =>
           /\ m.rexmit \in BOOLEAN
           /\ \E i \in 1..(SndNext(s) - 1) : m.pkt = Pkt(S, i)
    /\ m.type \in {"ACK", "LITEACK"} => m.seqno \in Numbers /\ Covered(r, MsgNo(m.seqno))
    /\ m.type = "ACK" =>
           /\ m.left \in Int
           /\ MsgNo(m.seqno) + m.left <= First(r.m_pRcvBuffer) + capacity
    /\ m.type = "ACKACK" => m.seqno \in SeqNo
    /\ m.type = "LOSSREPORT" => \A g \in m.ranges : GoodRange(r, g)
    /\ m.type = "DROPREQ" =>
           /\ GoodRange(r, m)
           /\ m.msgno \in Int
           /\ \A i \in MsgNo(m.lo)..MsgNo(m.hi) : i \in old \/ Covered(r, i + 1)

\* The inductive invariant of a connection.
TransferInv ==
    /\ sent \in Streams
    /\ tooOld \subseteq DOMAIN sent
    /\ ReceiverInv(sent, rcv)
    /\ SenderInv(sent, snd, rcv)
    /\ DeliveredInv(sent, delivered, rcv)
    /\ \A m \in net : PacketInv(sent, tooOld, snd, rcv, m)

\* From r to q the receiver moves on, and misses no packet that it had.
Evolves(r, q) ==
    /\ First(r.m_pRcvBuffer) <= First(q.m_pRcvBuffer)
    /\ RcvNext(r) <= RcvNext(q)
    /\ \A i \in First(q.m_pRcvBuffer)..(RcvNext(r) - 1) :
          StatusOf(r.m_pRcvBuffer, i) # "Empty" => StatusOf(q.m_pRcvBuffer, i) # "Empty"

\* The stream S with more messages at its end.
ExtendedTo(S, T) == DOMAIN S \subseteq DOMAIN T /\ \A i \in DOMAIN S : T[i] = S[i]

-----------------------------------------------------------------------------
(* Sequence numbers *)

\* The assumptions on the constants.
LEMMA Sizes ==
    /\ m_szSize \in Nat /\ m_szSize >= 2 /\ capacity = m_szSize - 1 /\ capacity \in Nat
    /\ m_iSeqNoTH \in Nat /\ m_iMaxSeqNo \in Nat /\ m_iMaxSeqNo = 2 * m_iSeqNoTH + 1
    /\ MaxMsgs \in Nat /\ MaxMsgs >= 1 /\ MaxMsgs < m_iSeqNoTH
    /\ ISN \in SeqNo /\ iMaxReorderTolerance \in Nat
    /\ IsFiniteSet(Positions)
  BY SizeAssumption, SeqNoAssumption, TransferAssumption, FS_Interval DEF capacity, Positions

\* The sequence number of a message, across the wrap.
LEMMA NumberValue ==
    ASSUME NEW i \in Index
    PROVE  /\ SeqNoOf(i) \in SeqNo /\ SeqNoOf(i) \in Numbers
           /\ MsgNo(SeqNoOf(i)) = i
           /\ SeqNoOf(i) = IF ISN + i - 1 <= m_iMaxSeqNo THEN ISN + i - 1
                           ELSE ISN + i - 2 - m_iMaxSeqNo
  <1>1. i \in Int /\ 1 <= i /\ i <= m_iSeqNoTH
    BY Sizes DEF Index
  <1>2. SeqNoOf(i) = IF ISN + i - 1 <= m_iMaxSeqNo THEN ISN + i - 1
                    ELSE ISN + i - 2 - m_iMaxSeqNo
    BY <1>1, Sizes DEF SeqNoOf, incseqBy, SeqNo
  <1>3. SeqNoOf(i) \in SeqNo
    BY <1>1, <1>2, Sizes DEF SeqNo
  <1>4. seqoff(ISN, SeqNoOf(i)) = i - 1
    BY <1>1, <1>2, Sizes DEF SeqNo, seqoff, abs
  <1> QED
    BY <1>1, <1>2, <1>3, <1>4 DEF MsgNo, Numbers

\* Messages and their sequence numbers are the same thing.
LEMMA NumberOf ==
    ASSUME NEW s \in Numbers
    PROVE  /\ s \in SeqNo /\ MsgNo(s) \in Index /\ MsgNo(s) \in Int /\ SeqNoOf(MsgNo(s)) = s
           /\ 1 <= MsgNo(s) /\ MsgNo(s) <= MaxMsgs + 1
           /\ s = IF ISN + MsgNo(s) - 1 <= m_iMaxSeqNo THEN ISN + MsgNo(s) - 1
                  ELSE ISN + MsgNo(s) - 2 - m_iMaxSeqNo
  <1>1. PICK i \in Index : s = SeqNoOf(i)
    BY DEF Numbers
  <1>2. MsgNo(s) = i /\ s \in SeqNo
    BY <1>1, NumberValue
  <1> QED
    BY <1>1, <1>2, NumberValue, Sizes DEF Index

\* They are compared as the messages were sent.
LEMMA NumberOrder ==
    ASSUME NEW s \in Numbers, NEW t \in Numbers
    PROVE  /\ seqoff(s, t) = MsgNo(t) - MsgNo(s)
           /\ seqcmp(s, t) < 0 <=> MsgNo(s) < MsgNo(t)
           /\ seqcmp(s, t) <= 0 <=> MsgNo(s) <= MsgNo(t)
           /\ seqcmp(s, t) > 0 <=> MsgNo(s) > MsgNo(t)
           /\ seqcmp(s, t) >= 0 <=> MsgNo(s) >= MsgNo(t)
           /\ seqcmp(s, t) = 0 <=> s = t
           /\ s = t <=> MsgNo(s) = MsgNo(t)
           /\ MsgNo(s) <= MsgNo(t) => seqlen(s, t) = MsgNo(t) - MsgNo(s) + 1
  <1> DEFINE i == MsgNo(s)
             j == MsgNo(t)
  <1>1. /\ i \in Int /\ 1 <= i /\ i <= MaxMsgs + 1
        /\ s = IF ISN + i - 1 <= m_iMaxSeqNo THEN ISN + i - 1 ELSE ISN + i - 2 - m_iMaxSeqNo
    BY NumberOf
  <1>2. /\ j \in Int /\ 1 <= j /\ j <= MaxMsgs + 1
        /\ t = IF ISN + j - 1 <= m_iMaxSeqNo THEN ISN + j - 1 ELSE ISN + j - 2 - m_iMaxSeqNo
    BY NumberOf
  <1> HIDE DEF i, j
  <1>3. seqoff(s, t) = j - i
    BY <1>1, <1>2, Sizes DEF SeqNo, seqoff, abs
  <1>4. /\ seqcmp(s, t) < 0 <=> i < j
        /\ seqcmp(s, t) > 0 <=> i > j
        /\ seqcmp(s, t) = 0 <=> i = j
        /\ seqcmp(s, t) \in Int
    BY <1>1, <1>2, Sizes DEF SeqNo, seqcmp, abs
  <1>5. i <= j => seqlen(s, t) = j - i + 1
    BY <1>1, <1>2, Sizes DEF SeqNo, seqlen
  <1>6. s = t <=> i = j
    BY <1>1, <1>2 , Sizes DEF SeqNo
  <1> QED
    BY <1>1, <1>2, <1>3, <1>4, <1>5, <1>6 DEF i, j

\* Steps between the sequence numbers of messages.
LEMMA NumberSteps ==
    ASSUME NEW s \in Numbers
    PROVE  /\ incseq(decseq(s)) = s /\ decseq(incseq(s)) = s /\ decseq(s) \in SeqNo
           /\ MsgNo(s) <= MaxMsgs => incseq(s) \in Numbers /\ MsgNo(incseq(s)) = MsgNo(s) + 1
           /\ MsgNo(s) > 1 => decseq(s) \in Numbers /\ MsgNo(decseq(s)) = MsgNo(s) - 1
           /\ \A n \in Nat : MsgNo(s) + n <= MaxMsgs + 1 =>
                 incseqBy(s, n) \in Numbers /\ MsgNo(incseqBy(s, n)) = MsgNo(s) + n
  <1> DEFINE i == MsgNo(s)
  <1>1. /\ i \in Int /\ 1 <= i /\ i <= MaxMsgs + 1 /\ s \in SeqNo
        /\ s = IF ISN + i - 1 <= m_iMaxSeqNo THEN ISN + i - 1 ELSE ISN + i - 2 - m_iMaxSeqNo
    BY NumberOf
  <1> HIDE DEF i
  <1>2. incseq(decseq(s)) = s /\ decseq(incseq(s)) = s /\ decseq(s) \in SeqNo
    BY <1>1, Sizes DEF SeqNo, incseq, decseq
  <1>3. ASSUME NEW n \in Nat, i + n <= MaxMsgs + 1
        PROVE  incseqBy(s, n) \in Numbers /\ MsgNo(incseqBy(s, n)) = i + n
    <2>1. i + n \in Index
      BY <1>1, <1>3, Sizes DEF Index
    <2>2. SeqNoOf(i + n) = IF ISN + (i + n) - 1 <= m_iMaxSeqNo THEN ISN + (i + n) - 1
                          ELSE ISN + (i + n) - 2 - m_iMaxSeqNo
      BY <2>1, NumberValue
    <2>3. incseqBy(s, n) = SeqNoOf(i + n)
      BY <1>1, <1>3, <2>2, Sizes DEF SeqNo, incseqBy
    <2> QED
      BY <2>1, <2>3, NumberValue
  <1>4. ASSUME i <= MaxMsgs PROVE incseq(s) \in Numbers /\ MsgNo(incseq(s)) = i + 1
    <2>1. incseq(s) = incseqBy(s, 1)
      BY <1>1, Sizes DEF SeqNo, incseq, incseqBy
    <2> QED
      BY <1>1, <1>3, <1>4, <2>1, Sizes
  <1>5. ASSUME i > 1 PROVE decseq(s) \in Numbers /\ MsgNo(decseq(s)) = i - 1
    <2>1. i - 1 \in Index
      BY <1>1, <1>5, Sizes DEF Index
    <2>2. SeqNoOf(i - 1) = IF ISN + (i - 1) - 1 <= m_iMaxSeqNo THEN ISN + (i - 1) - 1
                          ELSE ISN + (i - 1) - 2 - m_iMaxSeqNo
      BY <2>1, NumberValue
    <2>3. decseq(s) = SeqNoOf(i - 1)
      BY <1>1, <1>5, <2>2, Sizes DEF SeqNo, decseq
    <2> QED
      BY <2>1, <2>3, NumberValue
  <1> QED
    BY <1>2, <1>3, <1>4, <1>5 DEF i

\* A newest packet is one before the next: it may precede the first one.
LEMMA NewestOrder ==
    ASSUME NEW s \in Numbers, NEW t \in Numbers, MsgNo(s) <= MaxMsgs
    PROVE  /\ seqcmp(s, decseq(t)) <= 0 <=> MsgNo(s) < MsgNo(t)
           /\ seqcmp(s, decseq(t)) > 0 <=> MsgNo(s) >= MsgNo(t)
           /\ abs(seqcmp(decseq(t), s)) \in Nat
  <1> DEFINE i == MsgNo(s)
             j == MsgNo(t)
  <1>1. /\ i \in Int /\ 1 <= i /\ i <= MaxMsgs
        /\ s = IF ISN + i - 1 <= m_iMaxSeqNo THEN ISN + i - 1 ELSE ISN + i - 2 - m_iMaxSeqNo
    BY NumberOf
  <1>2. /\ j \in Int /\ 1 <= j /\ j <= MaxMsgs + 1
        /\ t = IF ISN + j - 1 <= m_iMaxSeqNo THEN ISN + j - 1 ELSE ISN + j - 2 - m_iMaxSeqNo
    BY NumberOf
  <1> HIDE DEF i, j
  <1>3. decseq(t) = IF t = 0 THEN m_iMaxSeqNo ELSE t - 1
    BY DEF decseq
  <1>4. /\ seqcmp(s, decseq(t)) <= 0 <=> i < j
        /\ seqcmp(s, decseq(t)) > 0 <=> i >= j
    BY <1>1, <1>2, <1>3, Sizes DEF SeqNo, seqcmp, abs
  <1>5. abs(seqcmp(decseq(t), s)) \in Nat
    BY <1>1, <1>2, <1>3, Sizes DEF SeqNo, seqcmp, abs
  <1> QED
    BY <1>4, <1>5 DEF i, j

\* A range of sequence numbers is a range of messages.
LEMMA BetweenNumbers ==
    ASSUME NEW s \in Numbers, NEW t \in Numbers
    PROVE  /\ MsgNo(s) <= MsgNo(t) + 1 =>
                 Between(s, t) = {u \in Numbers : MsgNo(s) <= MsgNo(u) /\ MsgNo(u) <= MsgNo(t)}
           /\ MsgNo(s) <= MsgNo(t) =>
                 Between(s, decseq(t)) =
                     {u \in Numbers : MsgNo(s) <= MsgNo(u) /\ MsgNo(u) < MsgNo(t)}
  <1> DEFINE i == MsgNo(s)
             j == MsgNo(t)
  <1>1. /\ i \in Int /\ 1 <= i /\ i <= MaxMsgs + 1
        /\ s = IF ISN + i - 1 <= m_iMaxSeqNo THEN ISN + i - 1 ELSE ISN + i - 2 - m_iMaxSeqNo
    BY NumberOf
  <1>2. /\ j \in Int /\ 1 <= j /\ j <= MaxMsgs + 1
        /\ t = IF ISN + j - 1 <= m_iMaxSeqNo THEN ISN + j - 1 ELSE ISN + j - 2 - m_iMaxSeqNo
    BY NumberOf
  <1>3. ASSUME NEW e \in (i - 1)..(MaxMsgs + 1)
        PROVE  {incseqBy(s, k) : k \in 0..(e - i)}
                   = {u \in Numbers : i <= MsgNo(u) /\ MsgNo(u) <= e}
    <2>1. ASSUME NEW k \in 0..(e - i)
          PROVE  /\ incseqBy(s, k) \in Numbers
                 /\ i <= MsgNo(incseqBy(s, k)) /\ MsgNo(incseqBy(s, k)) <= e
      <3>1. k \in Nat /\ i + k <= MaxMsgs + 1 /\ i + k <= e
        BY <1>1, <1>3, <2>1, Sizes
      <3>2. incseqBy(s, k) \in Numbers /\ MsgNo(incseqBy(s, k)) = i + k
        BY <3>1, NumberSteps
      <3> QED
        BY <1>1, <3>1, <3>2
    <2>2. ASSUME NEW u \in Numbers, i <= MsgNo(u), MsgNo(u) <= e
          PROVE  \E k \in 0..(e - i) : u = incseqBy(s, k)
      <3> DEFINE k == MsgNo(u) - i
      <3>1. MsgNo(u) \in Int /\ MsgNo(u) <= MaxMsgs + 1
        BY NumberOf
      <3>2. k \in 0..(e - i) /\ k \in Nat /\ i + k = MsgNo(u)
        BY <1>1, <1>3, <2>2, <3>1, Sizes
      <3>3. incseqBy(s, k) \in Numbers /\ MsgNo(incseqBy(s, k)) = MsgNo(u)
        BY <3>1, <3>2, NumberSteps
      <3>4. incseqBy(s, k) = u
        BY <3>3, NumberOrder
      <3> QED
        BY <3>2, <3>4
    <2> QED
      BY <2>1, <2>2
  <1>4. ASSUME i <= j + 1
        PROVE  Between(s, t) = {u \in Numbers : i <= MsgNo(u) /\ MsgNo(u) <= j}
    <2>1. seqoff(s, t) = j - i /\ j \in (i - 1)..(MaxMsgs + 1)
      BY <1>1, <1>2, <1>4, NumberOrder
    <2> HIDE DEF i, j
    <2> QED
      BY <1>3, <2>1 DEF Between
  <1>5. ASSUME i <= j
        PROVE  Between(s, decseq(t)) = {u \in Numbers : i <= MsgNo(u) /\ MsgNo(u) < j}
    <2> HIDE DEF i, j
    <2>1. decseq(t) = IF t = 0 THEN m_iMaxSeqNo ELSE t - 1
      BY DEF decseq
    <2>2. seqoff(s, decseq(t)) = j - 1 - i /\ j - 1 \in (i - 1)..(MaxMsgs + 1)
      BY <1>1, <1>2, <1>5, <2>1, Sizes DEF SeqNo, seqoff, abs
    <2>3. Between(s, decseq(t)) = {u \in Numbers : i <= MsgNo(u) /\ MsgNo(u) <= j - 1}
      BY <1>3, <2>2 DEF Between
    <2>4. j \in Int /\ \A u \in Numbers : MsgNo(u) <= j - 1 <=> MsgNo(u) < j
      BY <1>2, NumberOf
    <2> QED
      BY <2>3, <2>4, Zenon
  <1> QED
    BY <1>4, <1>5 DEF i, j


-----------------------------------------------------------------------------
(* Positions *)

\* A circular position is the start plus the offset, less the size if need be.
LEMMA IncPosValue ==
    ASSUME NEW p \in Positions, NEW n \in 0..m_szSize
    PROVE  /\ incPos(p, n) = IF p + n < m_szSize THEN p + n ELSE p + n - m_szSize
           /\ incPos(p, n) \in Positions
  <1>1. m_szSize \in Nat \ {0} /\ p + n \in 0..(2 * m_szSize)
    BY SizeAssumption, SeqNoAssumption DEF Positions
  <1>2. p + n < m_szSize => (p + n) % m_szSize = p + n
    BY <1>1 DEF Positions
  <1>3. p + n >= m_szSize => (p + n) % m_szSize = p + n - m_szSize
    BY <1>1 DEF Positions
  <1> QED
    BY <1>1, <1>2, <1>3 DEF incPos, Positions

\* The offset of a position in the circular array.
LEMMA OffPosValue ==
    ASSUME NEW p \in Positions, NEW q \in Positions
    PROVE  offPos(p, q) \in 0..(m_szSize - 1) /\ incPos(p, offPos(p, q)) = q
  <1>1. m_szSize \in Nat /\ offPos(p, q) \in 0..(m_szSize - 1)
    BY SizeAssumption, SeqNoAssumption DEF offPos, Positions
  <1> DEFINE n == offPos(p, q)
  <1>2. n \in 0..m_szSize
    BY <1>1
  <1>3. incPos(p, n) = IF p + n < m_szSize THEN p + n ELSE p + n - m_szSize
    <2> HIDE DEF n
    <2> QED
      BY <1>2, IncPosValue
  <1> QED
    BY <1>1, <1>3 DEF offPos, Positions

\* Positions and offsets correspond.
LEMMA OffPosOfIncPos ==
    ASSUME NEW p \in Positions, NEW n \in 0..(m_szSize - 1)
    PROVE  offPos(p, incPos(p, n)) = n
  <1>1. m_szSize \in Nat /\ n \in 0..m_szSize
    BY SizeAssumption, SeqNoAssumption
  <1>2. incPos(p, n) = IF p + n < m_szSize THEN p + n ELSE p + n - m_szSize
    BY <1>1, IncPosValue
  <1> QED
    BY <1>1, <1>2 DEF offPos, Positions

\* Moving the start by n shifts offsets by n, around the end.
LEMMA IncPosAdd ==
    ASSUME NEW p \in Positions, NEW n \in 0..m_szSize, NEW k \in 0..(m_szSize - 1)
    PROVE  incPos(incPos(p, n), k) =
               incPos(p, IF n + k < m_szSize THEN n + k ELSE n + k - m_szSize)
  <1>1. m_szSize \in Nat \ {0} /\ incPos(p, n) \in Positions
    BY IncPosValue, SizeAssumption, SeqNoAssumption
  <1> DEFINE j == IF n + k < m_szSize THEN n + k ELSE n + k - m_szSize
  <1>2. j \in 0..m_szSize /\ k \in 0..m_szSize
    BY <1>1
  <1>3. incPos(p, j) = IF p + j < m_szSize THEN p + j ELSE p + j - m_szSize
    BY <1>2, IncPosValue
  <1>4. incPos(incPos(p, n), k) =
            IF incPos(p, n) + k < m_szSize THEN incPos(p, n) + k ELSE incPos(p, n) + k - m_szSize
    BY <1>1, <1>2, IncPosValue
  <1>5. incPos(p, n) = IF p + n < m_szSize THEN p + n ELSE p + n - m_szSize
    BY IncPosValue
  <1> QED
    BY <1>1, <1>3, <1>4, <1>5 DEF Positions

-----------------------------------------------------------------------------
(* Least and greatest elements *)

\* Min and Max are the least and the greatest element.
LEMMA LeastNat ==
    ASSUME NEW S \in SUBSET Nat, S # {}
    PROVE  Min(S) \in S /\ \A y \in S : Min(S) <= y
  <1>1. PICK n \in S : \A y \in S : <<y, n>> \notin OpToRel(<, Nat)
    BY NatLessThanWellFounded, WFMin
  <1>2. \A y \in S : ~(y < n)
    BY <1>1, Zenon DEF OpToRel
  <1>3. \A y \in S : n <= y
    BY <1>2
  <1> QED
    BY <1>3 DEF Min

LEMMA GreatestInt ==
    ASSUME NEW S \in SUBSET Int, S # {}, NEW u \in Int, \A y \in S : y <= u
    PROVE  Max(S) \in S /\ \A y \in S : y <= Max(S)
  <1> DEFINE T == {u - y : y \in S}
  <1>1. T \in SUBSET Nat /\ T # {}
    <2>1. \A y \in S : u - y \in Nat
      OBVIOUS
    <2> QED
      BY <2>1
  <1>2. Min(T) \in T /\ \A y \in T : Min(T) <= y
    <2> HIDE DEF T
    <2> QED
      BY <1>1, LeastNat
  <1>3. PICK x \in S : Min(T) = u - x
    BY <1>2
  <1>4. \A y \in S : x >= y
    <2> SUFFICES ASSUME NEW y \in S PROVE x >= y
      OBVIOUS
    <2>1. Min(T) <= u - y
      BY <1>2
    <2>2. x \in Int /\ y \in Int
      OBVIOUS
    <2> HIDE DEF T
    <2> QED
      BY <1>3, <2>1, <2>2
  <1>5. \E z \in S : \A y \in S : z >= y
    BY <1>4
  <1>6. Max(S) \in S /\ \A y \in S : Max(S) >= y
    BY <1>5 DEF Max
  <1> QED
    BY <1>6

LEMMA MaxOfTwo ==
    ASSUME NEW i \in Int, NEW j \in Int
    PROVE  Max({i, j}) = IF i >= j THEN i ELSE j
  <1>1. {i, j} \in SUBSET Int /\ \E u \in Int : \A y \in {i, j} : y <= u
    <2>1. CASE i >= j
      BY <2>1
    <2>2. CASE i < j
      BY <2>2
    <2> QED
      BY <2>1, <2>2
  <1>2. Max({i, j}) \in {i, j} /\ \A y \in {i, j} : y <= Max({i, j})
    BY <1>1, GreatestInt
  <1> QED
    BY <1>2

LEMMA MinOfTwo ==
    ASSUME NEW i \in Nat, NEW j \in Nat
    PROVE  Min({i, j}) = IF i <= j THEN i ELSE j
  <1>1. Min({i, j}) \in {i, j} /\ \A y \in {i, j} : Min({i, j}) <= y
    BY LeastNat
  <1> QED
    BY <1>1

-----------------------------------------------------------------------------
(* Buffers *)

\* A unit exactly in the entries that are available.
LEMMA EntryFacts ==
    ASSUME NEW S \in Streams, NEW e \in Entries(S)
    PROVE  /\ e.status \in {"Empty", "Drop", "Read", "Avail"}
           /\ e.unit # NoUnit <=> e.status = "Avail"
           /\ e.status = "Avail" =>
                 e.unit.first /\ e.unit.last /\ e.unit.inorder \in BOOLEAN
           /\ e.status = "Empty" => e = Empty
           /\ e.status = "Drop" => e = Drop
  <1>1. CASE e \in {Empty, Drop, Read}
    BY <1>1 DEF Empty, Drop, Read
  <1>2. ASSUME NEW i \in DOMAIN S, e = Avail(Pkt(S, i))
        PROVE  e.status = "Avail" /\ e.unit.first /\ e.unit.last /\ e.unit # NoUnit
               /\ e.unit.inorder \in BOOLEAN
    <2>1. i \in Index /\ S[i] \in BOOLEAN
      BY Sizes DEF Streams, Index
    <2>2. SeqNoOf(i) # SRT_SEQNO_NONE
      BY <2>1, NumberValue, Sizes DEF SeqNo, SRT_SEQNO_NONE
    <2>3. e.unit.seqno # NoUnit.seqno
      BY <1>2, <2>2 DEF Avail, Pkt, NoUnit
    <2> QED
      BY <1>2, <2>1, <2>3 DEF Avail, Pkt
  <1> QED
    BY <1>1, <1>2 DEF Entries

\* The entries without a packet.
LEMMA EmptyEntries ==
    /\ \A S : Empty \in Entries(S) /\ Drop \in Entries(S) /\ Read \in Entries(S)
    /\ Empty.unit = NoUnit /\ Drop.unit = NoUnit /\ Read.unit = NoUnit
    /\ Empty.status = "Empty" /\ Drop.status = "Drop" /\ Read.status = "Read"
  BY DEF Entries, Empty, Drop, Read

\* The fields of a buffer.
LEMMA BufferFields ==
    ASSUME NEW S, NEW c \in BufferType(S)
    PROVE  /\ c.m_entries \in [Positions -> Entries(S)] /\ c.m_iStartSeqNo \in Numbers
           /\ c.m_iStartPos \in Positions /\ c.m_iFirstNonreadPos \in Positions
           /\ c.m_iMaxPosOff \in Int /\ c.m_iMaxPosOff <= capacity /\ c.m_numOutOfOrderPackets \in Int
           /\ c.m_iFirstReadableOutOfOrder \in Positions \cup {-1} /\ c.tsbpd = FALSE
           /\ First(c) \in Index /\ First(c) \in Int
  BY NumberOf DEF BufferType, First

\* Offsets 0..capacity and positions are the same thing.
LEMMA Offsets ==
    ASSUME NEW S, NEW c \in BufferType(S)
    PROVE  /\ \A off \in 0..m_szSize : At(c, off) \in Positions
           /\ \A off \in 0..capacity : /\ At(c, off) \in Positions
                                        /\ offPos(c.m_iStartPos, At(c, off)) = off
                                        /\ EntryOf(c, off) \in Entries(S)
           /\ \A pos \in Positions : /\ offPos(c.m_iStartPos, pos) \in 0..capacity
                                     /\ At(c, offPos(c.m_iStartPos, pos)) = pos
                                     /\ c.m_entries[pos] \in Entries(S)
           /\ At(c, 0) = c.m_iStartPos
           /\ NonreadOff(c) \in 0..capacity /\ At(c, NonreadOff(c)) = c.m_iFirstNonreadPos
  <1>1. c.m_iStartPos \in Positions /\ c.m_iFirstNonreadPos \in Positions
        /\ c.m_entries \in [Positions -> Entries(S)]
    BY BufferFields
  <1>2. m_szSize \in Nat /\ 0 \in 0..m_szSize /\ capacity = m_szSize - 1
    BY Sizes
  <1>3. incPos(c.m_iStartPos, 0) = c.m_iStartPos
    BY <1>1, <1>2, IncPosValue DEF Positions
  <1>4. \A off \in 0..m_szSize : At(c, off) \in Positions
    BY <1>1, IncPosValue DEF At
  <1>5. \A off \in 0..capacity : /\ At(c, off) \in Positions
                                 /\ offPos(c.m_iStartPos, At(c, off)) = off
                                 /\ EntryOf(c, off) \in Entries(S)
    <2> SUFFICES ASSUME NEW off \in 0..capacity
                 PROVE  /\ At(c, off) \in Positions
                        /\ offPos(c.m_iStartPos, At(c, off)) = off
                        /\ EntryOf(c, off) \in Entries(S)
      OBVIOUS
    <2>1. off \in 0..(m_szSize - 1) /\ off \in 0..m_szSize
      BY <1>2
    <2>2. At(c, off) \in Positions /\ offPos(c.m_iStartPos, At(c, off)) = off
      BY <1>1, <2>1, <1>4, OffPosOfIncPos DEF At
    <2> QED
      BY <1>1, <2>2 DEF EntryOf
  <1>6. \A pos \in Positions : /\ offPos(c.m_iStartPos, pos) \in 0..capacity
                               /\ At(c, offPos(c.m_iStartPos, pos)) = pos
                               /\ c.m_entries[pos] \in Entries(S)
    BY <1>1, <1>2, OffPosValue DEF At
  <1> QED
    BY <1>1, <1>3, <1>4, <1>5, <1>6 DEF At, NonreadOff

\* Entries with a packet, by position.
LEMMA UnitFacts ==
    ASSUME NEW S \in Streams, NEW c \in BufferType(S), NEW pos \in Positions
    PROVE  /\ HasUnit(c, pos) <=> c.m_entries[pos].status = "Avail"
           /\ HasUnit(c, pos) => /\ packetAt(c, pos).first /\ packetAt(c, pos).last
                                 /\ packetAt(c, pos).inorder \in BOOLEAN
           /\ packetAt(c, pos) = c.m_entries[pos].unit
  BY Offsets, EntryFacts DEF HasUnit, packetAt

\* The same for an offset; the packet there is the one of its message.
LEMMA SoloFacts ==
    ASSUME NEW S \in Streams, NEW c \in BufferType(S), NEW k \in 0..capacity
    PROVE  /\ HasUnit(c, At(c, k)) <=> EntryOf(c, k).status = "Avail"
           /\ HasUnit(c, At(c, k)) => /\ packetAt(c, At(c, k)).first
                                      /\ packetAt(c, At(c, k)).last
                                      /\ packetAt(c, At(c, k)).inorder \in BOOLEAN
           /\ InPlace(S, c) /\ HasUnit(c, At(c, k)) =>
                 /\ First(c) + k \in DOMAIN S
                 /\ packetAt(c, At(c, k)) = Pkt(S, First(c) + k)
           /\ EntryOf(c, k).status \in {"Empty", "Drop", "Read", "Avail"}
           /\ EntryOf(c, k).status = "Empty" => EntryOf(c, k) = Empty
           /\ EntryOf(c, k).status = "Drop" => EntryOf(c, k) = Drop
  <1>1. At(c, k) \in Positions /\ EntryOf(c, k) \in Entries(S)
        /\ EntryOf(c, k) = c.m_entries[At(c, k)]
    BY Offsets DEF EntryOf
  <1>2. InPlace(S, c) /\ EntryOf(c, k).status = "Avail" =>
            First(c) + k \in DOMAIN S /\ EntryOf(c, k).unit = Pkt(S, First(c) + k)
    BY DEF InPlace, Avail
  <1> QED
    BY <1>1, <1>2, UnitFacts, EntryFacts DEF packetAt

\* What is said of the entries does not depend on the other fields.
LEMMA SameEntries ==
    ASSUME NEW S, NEW c, NEW d, d.m_entries = c.m_entries,
           d.m_iStartPos = c.m_iStartPos, d.m_iStartSeqNo = c.m_iStartSeqNo
    PROVE  /\ \A k : At(d, k) = At(c, k) /\ EntryOf(d, k) = EntryOf(c, k)
           /\ First(d) = First(c)
           /\ InPlace(S, c) <=> InPlace(S, d)
           /\ HeadWaits(c) <=> HeadWaits(d)
  <1>1. /\ \A k : At(d, k) = At(c, k) /\ EntryOf(d, k) = EntryOf(c, k)
        /\ First(d) = First(c)
    BY DEF At, EntryOf, First
  <1> QED
    BY <1>1 DEF InPlace, HeadWaits

\* Nothing is missing before the place that updateNonreadPos finds.
LEMMA UpdateNonread ==
    ASSUME NEW S \in Streams, NEW c \in BufferType(S), InOrder(c)
    PROVE  LET d == updateNonreadPos(c)
           IN  \E p \in Positions : /\ d = [c EXCEPT !.m_iFirstNonreadPos = p]
                                    /\ d \in BufferType(S) /\ InOrder(d)
  <1> DEFINE from == NonreadOff(c)
             T == {from} \cup {off \in from..c.m_iMaxPosOff : WholeMessages(c, from, off)}
             to == Max(T)
             r == [c EXCEPT !.m_iFirstNonreadPos = At(c, to)]
  <1>1. /\ from \in 0..capacity /\ c.m_iMaxPosOff \in Int /\ c.m_iMaxPosOff <= capacity
        /\ capacity \in Nat
    BY BufferFields, Offsets, Sizes
  <1>2. CASE c.m_iMaxPosOff = 0
    <2>1. updateNonreadPos(c) = c
      BY <1>2 DEF updateNonreadPos
    <2>2. c = [c EXCEPT !.m_iFirstNonreadPos = c.m_iFirstNonreadPos]
      BY DEF BufferType
    <2> QED
      BY <2>1, <2>2, BufferFields
  <1>3. CASE c.m_iMaxPosOff # 0
    <2>1. to \in T /\ to \in 0..capacity
      <3>1. T \in SUBSET Int /\ T # {} /\ \A y \in T : y <= capacity
        <4> HIDE DEF from
        <4> QED
          BY <1>1
      <3>2. T \subseteq 0..capacity
        <4> HIDE DEF from
        <4> QED
          BY <1>1
      <3>3. capacity \in Int
        BY <1>1
      <3> HIDE DEF T
      <3>4. Max(T) \in T
        BY <3>1, <3>3, GreatestInt
      <3> QED
        BY <3>2, <3>4
    <2>2. updateNonreadPos(c) = r
      BY <1>3 DEF updateNonreadPos, NonreadOff
    <2>3. At(c, to) \in Positions /\ offPos(c.m_iStartPos, At(c, to)) = to
      <3> HIDE DEF to
      <3> QED
        BY <2>1, Offsets
    <2>4. to = from \/ (from <= to /\ WholeMessages(c, from, to))
      <3> HIDE DEF to, from
      <3> QED
        BY <1>1, <2>1
    <2> HIDE DEF to, T, from
    <2>5. \A k \in 0..(to - 1) : EntryOf(c, k).status = "Avail"
      <3> SUFFICES ASSUME NEW k \in 0..(to - 1) PROVE EntryOf(c, k).status = "Avail"
        OBVIOUS
      <3>1. k \in 0..capacity
        BY <1>1, <2>1
      <3>2. CASE k < from
        <4>1. k \in 0..(from - 1)
          BY <1>1, <3>1, <3>2
        <4> QED
          BY <4>1 DEF InOrder, from
      <3>3. CASE k >= from
        <4>1. HasUnit(c, At(c, k))
          BY <1>1, <2>1, <2>4, <3>1, <3>3 DEF WholeMessages
        <4> QED
          BY <3>1, <4>1, SoloFacts
      <3> QED
        BY <1>1, <3>1, <3>2, <3>3
    <2>6. /\ r.m_entries = c.m_entries /\ r.m_iStartPos = c.m_iStartPos
          /\ r.m_iStartSeqNo = c.m_iStartSeqNo /\ r.m_iFirstNonreadPos = At(c, to)
          /\ r \in BufferType(S)
      BY <2>3 DEF BufferType
    <2> HIDE DEF r
    <2>7. InOrder(r)
      BY <2>3, <2>5, <2>6, SameEntries DEF InOrder, NonreadOff
    <2> QED
      BY <2>2, <2>3, <2>6, <2>7 DEF r
  <1> QED
    BY <1>2, <1>3

\* updateFirstReadableOutOfOrder may find a message that can be read.
LEMMA UpdateUnordered ==
    ASSUME NEW S \in Streams, NEW c \in BufferType(S), Unordered(c)
    PROVE  LET d == updateFirstReadableOutOfOrder(c)
           IN  \E p \in Positions \cup {-1} :
                  /\ d = [c EXCEPT !.m_iFirstReadableOutOfOrder = p]
                  /\ d \in BufferType(S) /\ Unordered(d)
  <1> DEFINE found == {span[1] : span \in UnorderedMessages(c)}
             p == At(c, Min(found))
             r == [c EXCEPT !.m_iFirstReadableOutOfOrder = p]
  <1>1. CASE updateFirstReadableOutOfOrder(c) = c
    <2>1. c = [c EXCEPT !.m_iFirstReadableOutOfOrder = c.m_iFirstReadableOutOfOrder]
      BY DEF BufferType
    <2> QED
      BY <1>1, <2>1, BufferFields
  <1>2. CASE updateFirstReadableOutOfOrder(c) # c
    <2>1. found # {} /\ updateFirstReadableOutOfOrder(c) = r
      BY <1>2 DEF updateFirstReadableOutOfOrder
    <2>2. capacity \in Nat /\ c.m_iMaxPosOff \in Int /\ c.m_iMaxPosOff <= capacity
      BY BufferFields, Sizes
    <2>3. found \in SUBSET Nat
      BY <2>2 DEF UnorderedMessages
    <2>4. Min(found) \in found
      <3> HIDE DEF found
      <3> QED
        BY <2>1, <2>3, LeastNat
    <2>5. PICK span \in UnorderedMessages(c) : Min(found) = span[1]
      BY <2>4
    <2>6. /\ span[1] \in 0..(c.m_iMaxPosOff - 1) /\ span[2] \in 0..(c.m_iMaxPosOff - 1)
          /\ span[1] <= span[2]
          /\ HasUnit(c, At(c, span[1]))
          /\ \A k \in span[1]..span[2] : ~packetAt(c, At(c, k)).inorder
      BY <2>5 DEF UnorderedMessages
    <2>7. span[1] \in 0..capacity /\ ~packetAt(c, At(c, span[1])).inorder
      BY <2>2, <2>6
    <2>8. /\ p \in Positions /\ c.m_entries[p].status = "Avail"
          /\ ~c.m_entries[p].unit.inorder
      <3>1. p = At(c, span[1])
        BY <2>5
      <3> HIDE DEF p
      <3> QED
        BY <2>6, <2>7, <3>1, Offsets, SoloFacts DEF EntryOf, packetAt
    <2> HIDE DEF p
    <2>9. r \in BufferType(S) /\ Unordered(r)
      BY <2>8 DEF BufferType, Unordered
    <2> QED
      BY <2>1, <2>8, <2>9
  <1> QED
    BY <1>1, <1>2

-----------------------------------------------------------------------------
(* The start of the buffer *)

\* Offsets into d and offsets into c.
LEMMA MovesOffsets ==
    ASSUME NEW S, NEW c \in BufferType(S), NEW n \in 0..m_szSize, NEW d, Moves(c, n, d),
           NEW k \in 0..capacity
    PROVE  /\ n + k <= capacity => /\ At(d, k) = At(c, n + k)
                                   /\ EntryOf(d, k) = EntryOf(c, n + k)
           /\ n + k > capacity => EntryOf(d, k) = Empty
  <1>1. m_szSize \in Nat /\ capacity = m_szSize - 1 /\ c.m_iStartPos \in Positions
    BY Sizes, BufferFields
  <1> DEFINE j == IF n + k < m_szSize THEN n + k ELSE n + k - m_szSize
  <1>2. j \in 0..capacity /\ k \in 0..(m_szSize - 1)
    BY <1>1
  <1>3. At(d, k) = At(c, j)
    BY <1>1, <1>2, IncPosAdd DEF At, Moves
  <1>4. At(c, j) \in Positions /\ offPos(c.m_iStartPos, At(c, j)) = j
    <2> HIDE DEF j
    <2> QED
      BY <1>2, Offsets
  <1> HIDE DEF j
  <1>5. EntryOf(d, k) = IF j < n THEN Empty ELSE EntryOf(c, j)
    BY <1>3, <1>4 DEF Moves, EntryOf
  <1> QED
    BY <1>1, <1>3, <1>5 DEF j

\* A buffer whose start has moved.
LEMMA MovesFacts ==
    ASSUME NEW S, NEW c \in BufferType(S), NEW n \in 0..m_szSize, NEW d, Moves(c, n, d),
           First(c) + n <= MaxMsgs + 1, InPlace(S, c)
    PROVE  /\ d.m_entries \in [Positions -> Entries(S)] /\ d.m_iStartSeqNo \in Numbers
           /\ d.m_iStartPos \in Positions
           /\ First(d) = First(c) + n
           /\ InPlace(S, d)
           /\ \A pos \in Positions :
                 offPos(c.m_iStartPos, pos) >= n => d.m_entries[pos] = c.m_entries[pos]
  <1>1. d.m_entries \in [Positions -> Entries(S)]
    <2>1. c.m_entries \in [Positions -> Entries(S)] /\ Empty \in Entries(S)
      BY BufferFields, EmptyEntries
    <2> QED
      BY <2>1 DEF Moves
  <1>2. d.m_iStartSeqNo \in Numbers /\ First(d) = First(c) + n
    <2>1. n \in Nat
      BY Sizes
    <2>2. c.m_iStartSeqNo \in Numbers
      BY BufferFields
    <2> QED
      BY <2>1, <2>2, NumberSteps DEF Moves, First
  <1>3. d.m_iStartPos \in Positions
    BY Offsets DEF Moves
  <1>4. InPlace(S, d)
    <2> SUFFICES ASSUME NEW k \in 0..capacity, EntryOf(d, k).status = "Avail"
                 PROVE  /\ First(d) + k \in DOMAIN S
                        /\ EntryOf(d, k) = Avail(Pkt(S, First(d) + k))
      BY DEF InPlace
    <2>1. n + k <= capacity /\ EntryOf(d, k) = EntryOf(c, n + k)
      <3>1. n + k > capacity => EntryOf(d, k) = Empty
        BY MovesOffsets
      <3>2. n + k <= capacity => EntryOf(d, k) = EntryOf(c, n + k)
        BY MovesOffsets
      <3> QED
        BY <3>1, <3>2, EmptyEntries, Sizes
    <2>2. n + k \in 0..capacity
      BY <2>1, Sizes
    <2>3. First(c) \in Int
      BY BufferFields
    <2> QED
      BY <1>2, <2>1, <2>2, <2>3 DEF InPlace
  <1>5. \A pos \in Positions :
            offPos(c.m_iStartPos, pos) >= n => d.m_entries[pos] = c.m_entries[pos]
    <2> SUFFICES ASSUME NEW pos \in Positions, offPos(c.m_iStartPos, pos) >= n
                 PROVE  d.m_entries[pos] = c.m_entries[pos]
      OBVIOUS
    <2>1. offPos(c.m_iStartPos, pos) \in 0..capacity
      BY Offsets
    <2> QED
      BY <2>1, Sizes DEF Moves
  <1> QED
    BY <1>1, <1>2, <1>3, <1>4, <1>5

\* releaseNextFillerEntries moves the start to the first entry that waits.
LEMMA Release ==
    ASSUME NEW S \in Streams, NEW c \in BufferType(S), InPlace(S, c),
           NEW e \in 0..capacity, EntryOf(c, e).status \notin {"Read", "Drop"},
           First(c) + e <= MaxMsgs + 1
    PROVE  LET d == releaseNextFillerEntries(c)
           IN  /\ d \in BufferType(S) /\ InPlace(S, d) /\ HeadWaits(d)
               /\ d.m_iFirstNonreadPos = c.m_iFirstNonreadPos
               /\ d.m_iFirstReadableOutOfOrder = c.m_iFirstReadableOutOfOrder
               /\ Unordered(c) => Unordered(d)
               /\ \E n \in 0..e :
                     /\ Moves(c, n, d)
                     /\ First(d) = First(c) + n
                     /\ \A j \in 0..(n - 1) : EntryOf(c, j).status \in {"Read", "Drop"}
                     /\ d.m_iMaxPosOff = IF c.m_iMaxPosOff >= n THEN c.m_iMaxPosOff - n ELSE 0
  <1> DEFINE T == {k \in 0..m_szSize : \A j \in 0..(k - 1) :
                       c.m_entries[At(c, j)].status \in {"Read", "Drop"}}
             n == Max(T)
             es == [pos \in Positions |->
                      IF offPos(c.m_iStartPos, pos) < n THEN Empty ELSE c.m_entries[pos]]
             s == incseqBy(c.m_iStartSeqNo, n)
             p == At(c, n)
             m == Max({0, c.m_iMaxPosOff - n})
             r == releaseNextFillerEntries(c)
  <1>1. /\ m_szSize \in Nat /\ capacity = m_szSize - 1 /\ c.m_iMaxPosOff \in Int /\ c.m_iMaxPosOff <= capacity
        /\ First(c) \in Int /\ capacity \in Nat
    BY Sizes, BufferFields
  <1>2. n \in T /\ \A y \in T : y <= n
    <2>1. T \in SUBSET Int /\ 0 \in T /\ \A y \in T : y <= m_szSize
      BY <1>1
    <2>2. m_szSize \in Int
      BY <1>1
    <2> HIDE DEF T
    <2> QED
      BY <2>1, <2>2, GreatestInt
  <1>3. n \in 0..m_szSize /\ \A j \in 0..(n - 1) : EntryOf(c, j).status \in {"Read", "Drop"}
    <2> HIDE DEF n
    <2> QED
      BY <1>2 DEF EntryOf
  <1>4. n \in 0..e
    <2> HIDE DEF n, T
    <2> QED
      BY <1>1, <1>3
  <1>5. m = IF c.m_iMaxPosOff >= n THEN c.m_iMaxPosOff - n ELSE 0
    <2> HIDE DEF n
    <2>1. c.m_iMaxPosOff \in Int /\ n \in Int
      BY <1>1, <1>3
    <2>2. c.m_iMaxPosOff - n \in Int
      BY <2>1
    <2> QED
      BY <2>1, <2>2, MaxOfTwo
  <1>6. r = [c EXCEPT !.m_entries = es, !.m_iStartSeqNo = s, !.m_iStartPos = p,
                      !.m_iMaxPosOff = m]
    BY DEF releaseNextFillerEntries
  <1>7. HeadWaits(r)
    <2>1. n < m_szSize /\ n \in 0..capacity
      <3> HIDE DEF n, T
      <3> QED
        BY <1>1, <1>4
    <2>2. EntryOf(c, n).status \notin {"Read", "Drop"}
      <3> SUFFICES ASSUME EntryOf(c, n).status \in {"Read", "Drop"} PROVE FALSE
        OBVIOUS
      <3> HIDE DEF n
      <3>1. n + 1 \in T
        BY <1>1, <1>3, <2>1 DEF EntryOf
      <3> QED
        BY <1>2, <1>3, <3>1
    <2> HIDE DEF n, T
    <2>3. Moves(c, n, r)
      BY <1>6 DEF Moves, BufferType
    <2>4. EntryOf(r, 0) = EntryOf(c, n)
      <3>1. 0 \in 0..capacity /\ n + 0 <= capacity /\ n + 0 = n
        BY <1>1, <2>1
      <3> QED
        BY <1>3, <2>3, <3>1, MovesOffsets
    <2> QED
      BY <2>2, <2>4 DEF HeadWaits
  <1> HIDE DEF n, T, es, s, p, m, r
  <1>8. /\ r.m_entries = es /\ r.m_iStartSeqNo = s /\ r.m_iStartPos = p /\ r.m_iMaxPosOff = m
        /\ r.m_iFirstNonreadPos = c.m_iFirstNonreadPos
        /\ r.m_iFirstReadableOutOfOrder = c.m_iFirstReadableOutOfOrder
        /\ es \in [Positions -> Entries(S)] /\ s \in Numbers /\ p \in Positions
           /\ m \in Int /\ m <= capacity => r \in BufferType(S)
    BY <1>6 DEF BufferType
  <1>9. Moves(c, n, r)
    BY <1>8 DEF Moves, es, s, p
  <1>10. First(c) + n <= MaxMsgs + 1
    BY <1>1, <1>4, Sizes
  <1>11. /\ r.m_entries \in [Positions -> Entries(S)] /\ r.m_iStartSeqNo \in Numbers
         /\ r.m_iStartPos \in Positions /\ First(r) = First(c) + n /\ InPlace(S, r)
         /\ \A pos \in Positions :
                 offPos(c.m_iStartPos, pos) >= n => r.m_entries[pos] = c.m_entries[pos]
    BY <1>3, <1>9, <1>10, MovesFacts
  <1>12. m \in Int /\ m <= capacity
    BY <1>1, <1>4, <1>5
  <1>13. r \in BufferType(S)
    BY <1>8, <1>11, <1>12
  <1>14. Unordered(c) => Unordered(r)
    <2> SUFFICES ASSUME Unordered(c), c.m_iFirstReadableOutOfOrder # -1
                 PROVE  /\ r.m_entries[c.m_iFirstReadableOutOfOrder].status = "Avail"
                        /\ ~r.m_entries[c.m_iFirstReadableOutOfOrder].unit.inorder
      BY <1>8 DEF Unordered
    <2> DEFINE q == c.m_iFirstReadableOutOfOrder
               o == offPos(c.m_iStartPos, q)
    <2>1. /\ q \in Positions /\ c.m_entries[q].status = "Avail"
          /\ ~c.m_entries[q].unit.inorder
      BY BufferFields DEF Unordered
    <2>2. o \in 0..capacity /\ At(c, o) = q
      BY <2>1, Offsets
    <2>3. EntryOf(c, o).status = "Avail"
      BY <2>1, <2>2 DEF EntryOf
    <2> HIDE DEF o
    <2>4. ~(o < n)
      BY <1>3, <2>2, <2>3
    <2>5. o >= n
      BY <1>1, <1>3, <2>2, <2>4
    <2>6. r.m_entries[q] = c.m_entries[q]
      BY <1>11, <2>1, <2>5 DEF o
    <2> QED
      BY <2>1, <2>6
  <1>15. r.m_iMaxPosOff = IF c.m_iMaxPosOff >= n THEN c.m_iMaxPosOff - n ELSE 0
    BY <1>5, <1>8
  <1>16. /\ r \in BufferType(S) /\ InPlace(S, r) /\ HeadWaits(r)
         /\ r.m_iFirstNonreadPos = c.m_iFirstNonreadPos
         /\ r.m_iFirstReadableOutOfOrder = c.m_iFirstReadableOutOfOrder
         /\ Unordered(c) => Unordered(r)
         /\ \E k \in 0..e :
               /\ Moves(c, k, r)
               /\ First(r) = First(c) + k
               /\ \A j \in 0..(k - 1) : EntryOf(c, j).status \in {"Read", "Drop"}
               /\ r.m_iMaxPosOff = IF c.m_iMaxPosOff >= k THEN c.m_iMaxPosOff - k ELSE 0
    BY <1>3, <1>4, <1>7, <1>8, <1>9, <1>11, <1>13, <1>14, <1>15
  <1> QED
    BY <1>16 DEF r

-----------------------------------------------------------------------------
(* What the methods do to a buffer of messages of one packet *)

\* A message of one packet that was inserted is complete.
LEMMA OnInsert ==
    ASSUME NEW S \in Streams, NEW c \in BufferType(S), NEW pos \in Positions,
           HasUnit(c, pos), ~packetAt(c, pos).inorder, Unordered(c)
    PROVE  LET d == onInsertNotInOrderPacket(c, pos)
           IN  \E p \in Positions \cup {-1} :
                  /\ d = [c EXCEPT !.m_iFirstReadableOutOfOrder = p]
                  /\ d \in BufferType(S) /\ Unordered(d)
  <1> DEFINE off == offPos(c.m_iStartPos, pos)
             pkt == packetAt(c, pos)
             firsts == IF pkt.first THEN {off} ELSE scanNotInOrderMessageLeft(c, off, pkt.msgno)
             r == [c EXCEPT !.m_iFirstReadableOutOfOrder = At(c, Max(firsts))]
  <1>1. off \in 0..capacity /\ At(c, off) = pos /\ pkt.first
    BY Offsets, UnitFacts
  <1>2. CASE onInsertNotInOrderPacket(c, pos) = c
    <2>1. c = [c EXCEPT !.m_iFirstReadableOutOfOrder = c.m_iFirstReadableOutOfOrder]
      BY DEF BufferType
    <2> QED
      BY <1>2, <2>1, BufferFields
  <1>3. CASE onInsertNotInOrderPacket(c, pos) # c
    <2>1. onInsertNotInOrderPacket(c, pos) = r
      BY <1>3 DEF onInsertNotInOrderPacket
    <2>2. Max(firsts) = off
      <3>1. firsts = {off, off} /\ off \in Int
        BY <1>1
      <3> HIDE DEF firsts, off
      <3> QED
        BY <3>1, MaxOfTwo
    <2>3. r = [c EXCEPT !.m_iFirstReadableOutOfOrder = pos]
      BY <1>1, <2>2
    <2>4. c.m_entries[pos].status = "Avail" /\ ~c.m_entries[pos].unit.inorder
      BY UnitFacts
    <2> HIDE DEF r
    <2>5. r \in BufferType(S) /\ Unordered(r)
      BY <2>3, <2>4 DEF BufferType, Unordered
    <2> QED
      BY <2>1, <2>3, <2>5
  <1> QED
    BY <1>2, <1>3

\* insert takes a packet into an empty entry within the buffer.
LEMMA InsertResultValue ==
    ASSUME NEW S \in Streams, NEW c, Solo(S, c), NEW i \in DOMAIN S
    PROVE  LET off == i - First(c)
               result == InsertResult(c, Pkt(S, i))
           IN  /\ seqoff(c.m_iStartSeqNo, Pkt(S, i).seqno) = off
               /\ off \in Int
               /\ off < 0 => result = -2
               /\ off >= capacity => result = -3
               /\ off >= 0 /\ off < capacity =>
                     result = IF EntryOf(c, off).status # "Empty" THEN -1 ELSE 0
  <1>1. c \in BufferType(S) /\ c.m_iStartSeqNo \in Numbers /\ First(c) \in Int
    BY BufferFields DEF Solo
  <1>2. i \in Index /\ i \in Int
    BY Sizes DEF Streams, Index
  <1>3. SeqNoOf(i) \in Numbers /\ MsgNo(SeqNoOf(i)) = i /\ Pkt(S, i).seqno = SeqNoOf(i)
    BY <1>2, NumberValue DEF Pkt
  <1>4. seqoff(c.m_iStartSeqNo, Pkt(S, i).seqno) = i - First(c)
    BY <1>1, <1>3, NumberOrder DEF First
  <1>5. i - First(c) \in Int
    BY <1>1, <1>2
  <1> QED
    BY <1>4, <1>5, Sizes DEF InsertResult, EntryOf

\* insert puts the packet into its entry, if that is empty and in reach.
LEMMA InsertEffect ==
    ASSUME NEW S \in Streams, NEW c, Solo(S, c), NEW i \in DOMAIN S
    PROVE  LET d == insert(c, Pkt(S, i))
               isNew == InsertResult(c, Pkt(S, i)) = 0
           IN  /\ Solo(S, d) /\ First(d) = First(c) /\ d.m_iStartSeqNo = c.m_iStartSeqNo
               /\ \A k \in 0..capacity :
                     EntryOf(d, k) = IF isNew /\ k = i - First(c) THEN Avail(Pkt(S, i))
                                     ELSE EntryOf(c, k)
  <1> DEFINE pkt == Pkt(S, i)
             off == seqoff(c.m_iStartSeqNo, pkt.seqno)
             pos == At(c, off)
             m == Max({c.m_iMaxPosOff, off + 1})
             reached == Reach(c, off)
             placed == [reached EXCEPT !.m_entries[pos] = Avail(pkt)]
             counted == [placed EXCEPT !.m_numOutOfOrderPackets = @ + 1]
             Goal(d, isNew) ==
                 /\ Solo(S, d) /\ First(d) = First(c) /\ d.m_iStartSeqNo = c.m_iStartSeqNo
                 /\ \A k \in 0..capacity :
                       EntryOf(d, k) = IF isNew /\ k = i - First(c) THEN Avail(pkt)
                                       ELSE EntryOf(c, k)
  <1>1. c \in BufferType(S) /\ capacity \in Nat
    BY Sizes DEF Solo
  <1>2. off = i - First(c) /\ off \in Int
    BY InsertResultValue
  <1>3. insert(c, pkt) = CASE InsertResult(c, pkt) \in {-2, -3} -> c
                           [] InsertResult(c, pkt) = -1 -> reached
                           [] OTHER -> IF ~c.tsbpd /\ ~pkt.inorder
                                       THEN updateNonreadPos(onInsertNotInOrderPacket(counted, pos))
                                       ELSE updateNonreadPos(placed)
    BY DEF insert
  <1>4. CASE off < 0 \/ off >= capacity
    <2>1. InsertResult(c, pkt) \in {-2, -3}
      BY <1>2, <1>4, InsertResultValue
    <2> HIDE DEF off, pos, reached, placed, counted, pkt
    <2>2. insert(c, pkt) = c /\ ~(InsertResult(c, pkt) = 0)
      BY <1>3, <2>1
    <2> QED
      BY <2>2 DEF pkt
  <1>5. CASE off >= 0 /\ off < capacity
    <2>1. off \in 0..capacity /\ pos \in Positions /\ m \in Int /\ m <= capacity
      <3>1. off \in 0..capacity
        BY <1>1, <1>2, <1>5
      <3>2. c.m_iMaxPosOff \in Int /\ c.m_iMaxPosOff <= capacity
        BY <1>1, BufferFields
      <3>3. off \in Int /\ off + 1 \in Int /\ c.m_iMaxPosOff \in Int
        BY <1>1, <1>2, <3>2
      <3> HIDE DEF off
      <3>4. m = IF c.m_iMaxPosOff >= off + 1 THEN c.m_iMaxPosOff ELSE off + 1
        BY <3>3, MaxOfTwo
      <3> QED
        BY <1>1, <1>5, <3>1, <3>2, <3>4, Offsets
    <2>2. reached = [c EXCEPT !.m_iMaxPosOff = m]
      BY DEF Reach
    <2>3. InsertResult(c, pkt) = IF EntryOf(c, off).status # "Empty" THEN -1 ELSE 0
      BY <1>2, <1>5, InsertResultValue
    <2>4. /\ pkt \in {Pkt(S, j) : j \in DOMAIN S} /\ pkt.inorder = S[i] /\ S[i] \in BOOLEAN
          /\ Avail(pkt) \in Entries(S)
          /\ Avail(pkt).status = "Avail" /\ Avail(pkt).unit = pkt
      <3>1. S[i] \in BOOLEAN
        BY DEF Streams
      <3>2. pkt.inorder = S[i] /\ Avail(pkt) \in {Avail(Pkt(S, j)) : j \in DOMAIN S}
        BY DEF Pkt
      <3> QED
        BY <3>1, <3>2 DEF Entries, Avail
    <2> HIDE DEF m, reached, off, pkt
    <2>5. /\ reached \in BufferType(S)
          /\ reached.m_entries = c.m_entries /\ reached.m_iStartSeqNo = c.m_iStartSeqNo
          /\ reached.m_iStartPos = c.m_iStartPos /\ reached.tsbpd = FALSE
          /\ reached.m_iFirstNonreadPos = c.m_iFirstNonreadPos
          /\ reached.m_iFirstReadableOutOfOrder = c.m_iFirstReadableOutOfOrder
      BY <1>1, <2>1, <2>2 DEF BufferType
    <2>6. CASE EntryOf(c, off).status # "Empty"
      <3>1. InsertResult(c, pkt) = -1
        BY <2>3, <2>6
      <3> HIDE DEF pos, placed, counted
      <3>2. insert(c, pkt) = reached
        BY <1>3, <3>1
      <3>3. InPlace(S, reached) /\ HeadWaits(reached) /\ First(reached) = First(c)
            /\ \A k : EntryOf(reached, k) = EntryOf(c, k)
        BY <2>5, SameEntries DEF Solo
      <3>4. InOrder(reached) /\ Unordered(reached)
        BY <2>5, <3>3 DEF Solo, InOrder, Unordered, NonreadOff
      <3>5. ~(InsertResult(c, pkt) = 0)
        BY <3>1
      <3> QED
        BY <2>5, <3>2, <3>3, <3>4, <3>5 DEF Solo, pkt
    <2>7. CASE EntryOf(c, off).status = "Empty"
      <3>1. InsertResult(c, pkt) = 0
        BY <2>3, <2>7
      <3> DEFINE filled == [c.m_entries EXCEPT ![pos] = Avail(pkt)]
                 d0 == IF ~pkt.inorder THEN onInsertNotInOrderPacket(counted, pos) ELSE placed
                 base == IF ~pkt.inorder THEN counted ELSE placed
      <3>2. insert(c, pkt) = updateNonreadPos(d0)
        <4>1. c.tsbpd = FALSE
          BY <1>1, BufferFields
        <4> HIDE DEF pos, placed, counted
        <4>2. insert(c, pkt) = IF ~pkt.inorder
                               THEN updateNonreadPos(onInsertNotInOrderPacket(counted, pos))
                               ELSE updateNonreadPos(placed)
          BY <1>3, <3>1, <4>1
        <4> QED
          BY <4>2
      <3>3. filled \in [Positions -> Entries(S)] /\ filled[pos] = Avail(pkt)
            /\ \A q \in Positions : q # pos => filled[q] = c.m_entries[q]
        BY <1>1, <2>1, <2>4, BufferFields
      <3>4. /\ base \in BufferType(S) /\ base.m_entries = filled
            /\ base.m_iStartSeqNo = c.m_iStartSeqNo /\ base.m_iStartPos = c.m_iStartPos
            /\ base.m_iFirstNonreadPos = c.m_iFirstNonreadPos
            /\ base.m_iFirstReadableOutOfOrder = c.m_iFirstReadableOutOfOrder
        <4> HIDE DEF pos
        <4>1. placed = [reached EXCEPT !.m_entries = filled]
          BY <2>5
        <4>2. /\ placed \in BufferType(S) /\ placed.m_entries = filled
              /\ placed.m_iStartSeqNo = c.m_iStartSeqNo /\ placed.m_iStartPos = c.m_iStartPos
              /\ placed.m_iFirstNonreadPos = c.m_iFirstNonreadPos
              /\ placed.m_iFirstReadableOutOfOrder = c.m_iFirstReadableOutOfOrder
              /\ placed.m_numOutOfOrderPackets \in Int
          <5> HIDE DEF filled, placed
          <5> QED
            BY <2>5, <3>3, <4>1 DEF BufferType
        <4> HIDE DEF filled, placed
        <4>3. /\ counted \in BufferType(S) /\ counted.m_entries = filled
              /\ counted.m_iStartSeqNo = c.m_iStartSeqNo /\ counted.m_iStartPos = c.m_iStartPos
              /\ counted.m_iFirstNonreadPos = c.m_iFirstNonreadPos
              /\ counted.m_iFirstReadableOutOfOrder = c.m_iFirstReadableOutOfOrder
          <5> DEFINE q == placed.m_numOutOfOrderPackets + 1
          <5>1. q \in Int /\ counted = [placed EXCEPT !.m_numOutOfOrderPackets = q]
            BY <4>2
          <5> HIDE DEF q, counted
          <5> QED
            BY <4>2, <5>1 DEF BufferType
        <4> HIDE DEF counted
        <4> QED
          BY <4>2, <4>3
      <3>5. /\ First(base) = First(c)
            /\ \A k \in 0..capacity :
                  EntryOf(base, k) = IF k = off THEN Avail(pkt) ELSE EntryOf(c, k)
        <4> HIDE DEF base, filled
        <4>1. \A k : At(base, k) = At(c, k)
          BY <3>4 DEF At
        <4>2. \A k \in 0..capacity : At(c, k) \in Positions /\ (At(c, k) = pos => k = off)
          <5> SUFFICES ASSUME NEW k \in 0..capacity
                       PROVE  At(c, k) \in Positions /\ (At(c, k) = pos => k = off)
            OBVIOUS
          <5>1. offPos(c.m_iStartPos, At(c, k)) = k /\ offPos(c.m_iStartPos, pos) = off
            BY <1>1, <2>1, Offsets
          <5> QED
            BY <1>1, <5>1, Offsets
        <4> QED
          BY <3>3, <3>4, <4>1, <4>2 DEF EntryOf, First
      <3> HIDE DEF filled, base, placed, counted
      <3>6. Unordered(base)
        <4>1. Unordered(c) /\ c.m_iFirstReadableOutOfOrder \in Positions \cup {-1}
          BY <1>1, BufferFields DEF Solo
        <4>2. c.m_entries[pos].status = "Empty"
          BY <2>7 DEF EntryOf
        <4> HIDE DEF pos
        <4> QED
          BY <3>3, <3>4, <4>1, <4>2 DEF Unordered
      <3>7. InPlace(S, base) /\ HeadWaits(base) /\ InOrder(base)
        <4>1. InPlace(S, c) /\ HeadWaits(c) /\ InOrder(c)
          BY DEF Solo
        <4>2. First(c) + off = i /\ i \in DOMAIN S
          <5>1. First(c) \in Int
            BY <1>1, BufferFields
          <5>2. i \in Int
            BY DEF Streams
          <5> QED
            BY <1>2, <5>1, <5>2
        <4>3. InPlace(S, base)
          BY <2>4, <3>5, <4>1, <4>2 DEF InPlace, pkt
        <4>4. HeadWaits(base)
          BY <1>1, <2>4, <3>5, <4>1 DEF HeadWaits
        <4>5. InOrder(base)
          <5>1. NonreadOff(base) = NonreadOff(c)
            BY <3>4 DEF NonreadOff
          <5>2. \A k \in 0..(NonreadOff(c) - 1) : k \in 0..capacity
            BY <1>1, Offsets
          <5> QED
            BY <2>4, <3>5, <4>1, <5>1, <5>2 DEF InOrder
        <4> QED
          BY <4>3, <4>4, <4>5
      <3>8. \E p \in Positions \cup {-1} :
                  /\ d0 = [base EXCEPT !.m_iFirstReadableOutOfOrder = p]
                  /\ d0 \in BufferType(S) /\ Unordered(d0)
        <4>1. CASE ~pkt.inorder
          <5>1. base = counted /\ d0 = onInsertNotInOrderPacket(base, pos)
            BY <4>1 DEF base
          <5>2. HasUnit(base, pos) /\ ~packetAt(base, pos).inorder
            BY <2>1, <2>4, <3>3, <3>4, <4>1, UnitFacts
          <5> HIDE DEF d0
          <5> QED
            BY <2>1, <3>4, <3>6, <5>1, <5>2, OnInsert
        <4>2. CASE pkt.inorder
          <5>1. d0 = base
            BY <4>2 DEF base
          <5>2. base = [base EXCEPT !.m_iFirstReadableOutOfOrder =
                                        base.m_iFirstReadableOutOfOrder]
            BY <3>4 DEF BufferType
          <5>3. base.m_iFirstReadableOutOfOrder \in Positions \cup {-1}
            BY <3>4, BufferFields
          <5> QED
            BY <3>4, <3>6, <5>1, <5>2, <5>3
        <4> QED
          BY <2>4, <4>1, <4>2
      <3> HIDE DEF d0
      <3>9. /\ d0.m_entries = base.m_entries /\ d0.m_iStartSeqNo = base.m_iStartSeqNo
            /\ d0.m_iStartPos = base.m_iStartPos
            /\ d0.m_iFirstNonreadPos = base.m_iFirstNonreadPos
            /\ d0 \in BufferType(S) /\ Unordered(d0)
        BY <3>4, <3>8 DEF BufferType
      <3>10. InOrder(d0)
        BY <3>7, <3>9, SameEntries DEF InOrder, NonreadOff
      <3> DEFINE d == updateNonreadPos(d0)
      <3>11. PICK p \in Positions : /\ d = [d0 EXCEPT !.m_iFirstNonreadPos = p]
                                    /\ d \in BufferType(S) /\ InOrder(d)
        BY <3>9, <3>10, UpdateNonread
      <3> HIDE DEF d
      <3>12. /\ d.m_entries = base.m_entries /\ d.m_iStartSeqNo = base.m_iStartSeqNo
             /\ d.m_iStartPos = base.m_iStartPos
             /\ d.m_iFirstReadableOutOfOrder = d0.m_iFirstReadableOutOfOrder
        BY <3>9, <3>11 DEF BufferType
      <3>13. Unordered(d)
        BY <3>9, <3>12 DEF Unordered
      <3>14. InPlace(S, d) /\ HeadWaits(d) /\ First(d) = First(base)
             /\ \A k : EntryOf(d, k) = EntryOf(base, k)
        BY <3>7, <3>12, SameEntries
      <3>15. Solo(S, d)
        BY <3>11, <3>13, <3>14 DEF Solo
      <3>16. insert(c, pkt) = d
        BY <3>2 DEF d
      <3> QED
        BY <1>2, <3>1, <3>4, <3>5, <3>12, <3>14, <3>15, <3>16 DEF pkt
    <2> QED
      BY <2>6, <2>7
  <1> QED
    BY <1>2, <1>4, <1>5, <1>1

\* Drops that leave the packets alone.
LEMMA DropUnitsEffect ==
    ASSUME NEW S \in Streams, NEW c \in BufferType(S), NEW poss \in SUBSET Positions,
           \A pos \in poss : ~HasUnit(c, pos)
    PROVE  LET d == DropUnits(c, poss, Drop)
           IN  /\ d \in BufferType(S)
               /\ d.m_entries = [pos \in Positions |->
                                   IF pos \in poss THEN Drop ELSE c.m_entries[pos]]
               /\ d.m_iStartSeqNo = c.m_iStartSeqNo /\ d.m_iStartPos = c.m_iStartPos
               /\ d.m_iFirstNonreadPos = c.m_iFirstNonreadPos
               /\ d.m_iFirstReadableOutOfOrder = c.m_iFirstReadableOutOfOrder
  <1> DEFINE es == [pos \in Positions |-> IF pos \in poss THEN Drop ELSE c.m_entries[pos]]
             q == c.m_numOutOfOrderPackets - Cardinality(UnorderedAt(c, poss))
             f == IF c.m_iFirstReadableOutOfOrder \in UnorderedAt(c, poss) THEN -1
                  ELSE c.m_iFirstReadableOutOfOrder
             d == DropUnits(c, poss, Drop)
  <1>1. UnorderedAt(c, poss) = {}
    BY DEF UnorderedAt
  <1>2. f = c.m_iFirstReadableOutOfOrder
    BY <1>1
  <1>3. q \in Int
    <2>1. Cardinality(UnorderedAt(c, poss)) = 0
      BY <1>1, FS_EmptySet
    <2>2. c.m_numOutOfOrderPackets \in Int
      BY BufferFields
    <2> QED
      BY <2>1, <2>2
  <1>4. es \in [Positions -> Entries(S)]
    <2>1. c.m_entries \in [Positions -> Entries(S)] /\ Drop \in Entries(S)
      BY BufferFields, EmptyEntries
    <2> QED
      BY <2>1
  <1>5. d = [c EXCEPT !.m_entries = es, !.m_numOutOfOrderPackets = q,
                      !.m_iFirstReadableOutOfOrder = f]
    BY DEF DropUnits
  <1> HIDE DEF es, q, f, d
  <1>6. d \in BufferType(S) /\ d.m_entries = es
        /\ d.m_iStartSeqNo = c.m_iStartSeqNo /\ d.m_iStartPos = c.m_iStartPos
        /\ d.m_iFirstNonreadPos = c.m_iFirstNonreadPos
        /\ d.m_iFirstReadableOutOfOrder = f
    BY <1>2, <1>3, <1>4, <1>5 DEF BufferType
  <1> QED
    BY <1>2, <1>6 DEF es, d

\* dropMessage of packets before the newest: the entries of lo..hi that have
\* no packet are dropped, then the start moves.
LEMMA DropEffect ==
    ASSUME NEW S \in Streams, NEW c, Solo(S, c), NEW lo \in Numbers, NEW hi \in Numbers,
           NEW msgno \in Int, MsgNo(lo) <= MsgNo(hi),
           NEW e \in 0..capacity, EntryOf(c, e).status \notin {"Read", "Drop"},
           First(c) + e <= MaxMsgs + 1, MsgNo(hi) < First(c) + e
    PROVE  LET d == dropMessage(c, lo, hi, msgno, KEEP_EXISTING)
               F == [k \in 0..capacity |->
                        IF /\ MsgNo(lo) <= First(c) + k /\ First(c) + k <= MsgNo(hi)
                           /\ EntryOf(c, k).status # "Avail"
                        THEN Drop ELSE EntryOf(c, k)]
           IN  Solo(S, d) /\ \E n \in 0..e : Passes(c, F, n, d)
  <1> DEFINE offset_a == seqoff(c.m_iStartSeqNo, lo)
             offset_b == seqoff(c.m_iStartSeqNo, hi)
             start_off == Max({0, offset_a})
             end_off == Min({m_szSize - 1, offset_b + 1})
             Alone(off) == /\ HasUnit(c, At(c, off))
                           /\ packetAt(c, At(c, off)).first
                           /\ packetAt(c, At(c, off)).last
             range == {off \in start_off..(end_off - 1) :
                          /\ c.m_entries[At(c, off)].status # "Drop"
                          /\ ~(KEEP_EXISTING /\ Alone(off))}
             met == \E off \in start_off..(end_off - 1) :
                        \/ KEEP_EXISTING /\ Alone(off)
                        \/ /\ off \in range
                           /\ HasUnit(c, At(c, off))
                           /\ packetAt(c, At(c, off)).first
                           /\ ~packetAt(c, At(c, off)).last
             poss == {At(c, off) : off \in range}
             dropped == DropUnits(c, poss, Drop)
             earlier == IF msgno <= 0 \/ met THEN {}
                        ELSE {off \in 0..start_off :
                                 /\ HasUnit(dropped, At(c, off))
                                 /\ \A k \in off..start_off :
                                       HasUnit(dropped, At(c, k)) =>
                                          LET pkt == packetAt(dropped, At(c, k))
                                          IN  /\ pkt.msgno = msgno
                                              /\ ~(KEEP_EXISTING /\ pkt.first /\ pkt.last)
                                              /\ k > off => ~pkt.first}
             all == DropUnits(dropped, {At(c, off) : off \in earlier}, Drop)
             before == /\ range \cup earlier # {}
                       /\ Min(range \cup earlier)
                              <= offPos(c.m_iStartPos, c.m_iFirstNonreadPos)
             released == releaseNextFillerEntries(all)
             restarted == [released EXCEPT !.m_iFirstNonreadPos = released.m_iStartPos]
             renewed == IF before THEN updateNonreadPos(restarted) ELSE released
             checked == IF checkFirstReadableOutOfOrder(renewed) THEN renewed
                        ELSE [renewed EXCEPT !.m_iFirstReadableOutOfOrder = -1]
             i == MsgNo(lo)
             j == MsgNo(hi)
             F == [k \in 0..capacity |->
                      IF i <= First(c) + k /\ First(c) + k <= j /\ EntryOf(c, k).status # "Avail"
                      THEN Drop ELSE EntryOf(c, k)]
             d == dropMessage(c, lo, hi, msgno, KEEP_EXISTING)
  <1>1. /\ c \in BufferType(S) /\ m_szSize \in Nat /\ capacity \in Nat /\ capacity = m_szSize - 1
        /\ First(c) \in Int /\ i \in Int /\ j \in Int /\ i <= j /\ c.tsbpd = FALSE
        /\ j < First(c) + e
    BY Sizes, BufferFields, NumberOf DEF Solo
  <1>2. d = IF offset_b < 0 THEN c
            ELSE IF c.tsbpd THEN renewed ELSE updateFirstReadableOutOfOrder(checked)
    BY DEF dropMessage
  <1>3. offset_a = i - First(c) /\ offset_b = j - First(c)
    BY <1>1, BufferFields, NumberOrder DEF First
  <1> HIDE DEF i, j, d
  <1>4. CASE offset_b < 0
    <2>1. d = c
      <3> HIDE DEF offset_b, renewed, checked
      <3> QED
        BY <1>2, <1>4
    <2>2. j < First(c)
      BY <1>1, <1>3, <1>4
    <2>3. \A k \in 0..capacity : F[k] = EntryOf(c, k)
      BY <1>1, <2>2
    <2> HIDE DEF F
    <2>4. Passes(c, F, 0, c)
      BY <1>1, <2>3 DEF Passes
    <2>5. Solo(S, d) /\ \E n \in 0..e : Passes(c, F, n, d)
      BY <1>1, <2>1, <2>4
    <2> QED
      BY <2>5 DEF d, F, i, j
  <1>5. CASE offset_b >= 0
    <2> HIDE DEF d
    <2>1. start_off \in Nat /\ start_off = IF First(c) >= i THEN 0 ELSE i - First(c)
      <3>1. 0 \in Int /\ offset_a \in Int
        BY <1>1, <1>3
      <3>2. start_off = IF 0 >= offset_a THEN 0 ELSE offset_a
        <4> HIDE DEF offset_a
        <4> QED
          BY <3>1, MaxOfTwo
      <3> HIDE DEF start_off, offset_a
      <3> QED
        BY <1>1, <1>3, <3>2
    <2>2. end_off = j - First(c) + 1 /\ end_off <= capacity
      <3>1. m_szSize - 1 \in Nat /\ offset_b + 1 \in Nat
        BY <1>1, <1>3, <1>5
      <3>2. end_off = IF m_szSize - 1 <= offset_b + 1 THEN m_szSize - 1 ELSE offset_b + 1
        <4> HIDE DEF offset_b
        <4> QED
          BY <3>1, MinOfTwo
      <3> QED
        BY <1>1, <1>3, <3>2
    <2> HIDE DEF offset_a, offset_b, start_off, end_off
    <2>3. \A k \in 0..capacity : Alone(k) <=> EntryOf(c, k).status = "Avail"
      BY <1>1, SoloFacts
    <2>4. range \in SUBSET (0..capacity)
      BY <1>1, <2>1, <2>2
    <2>5. \A k \in 0..capacity :
              k \in range <=> /\ i <= First(c) + k /\ First(c) + k <= j
                              /\ EntryOf(c, k).status \notin {"Drop", "Avail"}
      <3> SUFFICES ASSUME NEW k \in 0..capacity
                   PROVE  k \in range <=> /\ i <= First(c) + k /\ First(c) + k <= j
                                          /\ EntryOf(c, k).status \notin {"Drop", "Avail"}
        OBVIOUS
      <3>1. k \in start_off..(end_off - 1) <=> i <= First(c) + k /\ First(c) + k <= j
        BY <1>1, <2>1, <2>2
      <3>2. Alone(k) <=> EntryOf(c, k).status = "Avail"
        BY <2>3
      <3>3. EntryOf(c, k) = c.m_entries[At(c, k)]
        BY DEF EntryOf
      <3> HIDE DEF Alone
      <3> QED
        BY <3>1, <3>2, <3>3 DEF KEEP_EXISTING
    <2> HIDE DEF range
    <2>6. poss \in SUBSET Positions /\ \A pos \in poss : ~HasUnit(c, pos)
      <3> SUFFICES ASSUME NEW k \in range
                   PROVE  At(c, k) \in Positions /\ ~HasUnit(c, At(c, k))
        OBVIOUS
      <3>1. k \in 0..capacity /\ EntryOf(c, k).status # "Avail"
        BY <2>4, <2>5
      <3> QED
        BY <1>1, <3>1, Offsets, SoloFacts
    <2> HIDE DEF poss, dropped
    <2>7. /\ dropped \in BufferType(S)
          /\ dropped.m_entries = [pos \in Positions |->
                                    IF pos \in poss THEN Drop ELSE c.m_entries[pos]]
          /\ dropped.m_iStartSeqNo = c.m_iStartSeqNo /\ dropped.m_iStartPos = c.m_iStartPos
          /\ dropped.m_iFirstNonreadPos = c.m_iFirstNonreadPos
          /\ dropped.m_iFirstReadableOutOfOrder = c.m_iFirstReadableOutOfOrder
      BY <1>1, <2>6, DropUnitsEffect DEF dropped
    <2>8. earlier = {}
      <3> SUFFICES ASSUME NEW off \in earlier PROVE FALSE
        OBVIOUS
      <3>1. /\ off \in 0..start_off /\ HasUnit(dropped, At(c, off))
            /\ HasUnit(dropped, At(c, off)) =>
                  ~(KEEP_EXISTING /\ packetAt(dropped, At(c, off)).first
                                  /\ packetAt(dropped, At(c, off)).last)
        <4> HIDE DEF met
        <4> QED
          BY <2>1
      <3>2. off \in 0..capacity
        BY <1>1, <2>1, <2>2, <3>1, <1>5, <1>3
      <3>3. At(c, off) \in Positions
        BY <1>1, <3>2, Offsets
      <3> QED
        BY <2>7, <3>1, <3>3, UnitFacts DEF KEEP_EXISTING
    <2> HIDE DEF earlier
    <2>9. /\ all \in BufferType(S)
          /\ all.m_entries = [pos \in Positions |->
                                IF pos \in poss THEN Drop ELSE c.m_entries[pos]]
          /\ all.m_iStartSeqNo = c.m_iStartSeqNo /\ all.m_iStartPos = c.m_iStartPos
          /\ all.m_iFirstNonreadPos = c.m_iFirstNonreadPos
          /\ all.m_iFirstReadableOutOfOrder = c.m_iFirstReadableOutOfOrder
      <3>1. {At(c, off) : off \in earlier} = {}
        BY <2>8
      <3>2. {} \in SUBSET Positions /\ \A pos \in {} : ~HasUnit(dropped, pos)
        OBVIOUS
      <3>3. /\ all \in BufferType(S)
            /\ all.m_entries = [pos \in Positions |->
                                  IF pos \in {} THEN Drop ELSE dropped.m_entries[pos]]
            /\ all.m_iStartSeqNo = dropped.m_iStartSeqNo /\ all.m_iStartPos = dropped.m_iStartPos
            /\ all.m_iFirstNonreadPos = dropped.m_iFirstNonreadPos
            /\ all.m_iFirstReadableOutOfOrder = dropped.m_iFirstReadableOutOfOrder
        BY <2>7, <3>1, <3>2, DropUnitsEffect
      <3> HIDE DEF all
      <3> QED
        BY <2>7, <3>3
    <2> HIDE DEF all
    <2>10. /\ First(all) = First(c)
           /\ \A k \in 0..capacity : EntryOf(all, k) = F[k]
      <3>1. First(all) = First(c)
        BY <2>9 DEF First
      <3> SUFFICES ASSUME NEW k \in 0..capacity PROVE EntryOf(all, k) = F[k]
        BY <3>1
      <3>2. At(all, k) = At(c, k) /\ At(c, k) \in Positions
        BY <1>1, <2>9, Offsets DEF At
      <3>3. At(c, k) \in poss <=> k \in range
        <4>1. ASSUME NEW o \in range, At(c, o) = At(c, k) PROVE o = k
          BY <1>1, <2>4, <4>1, Offsets
        <4> QED
          BY <4>1 DEF poss
      <3>4. EntryOf(all, k) = IF k \in range THEN Drop ELSE EntryOf(c, k)
        BY <2>9, <3>2, <3>3 DEF EntryOf
      <3>5. EntryOf(c, k).status = "Drop" => EntryOf(c, k) = Drop
        BY <1>1, SoloFacts
      <3> QED
        BY <2>5, <3>4, <3>5
    <2>11. InPlace(S, all) /\ InOrder(all) /\ Unordered(all)
      <3>1. InPlace(S, c) /\ InOrder(c) /\ Unordered(c)
        BY DEF Solo
      <3>2. InPlace(S, all)
        BY <2>10, <3>1, EmptyEntries DEF InPlace
      <3>3. InOrder(all)
        <4>1. NonreadOff(all) = NonreadOff(c)
          BY <2>9 DEF NonreadOff
        <4>2. \A k \in 0..(NonreadOff(c) - 1) : k \in 0..capacity
          BY <1>1, Offsets
        <4> QED
          BY <2>10, <3>1, <4>1, <4>2 DEF InOrder
      <3>4. Unordered(all)
        <4> DEFINE q == c.m_iFirstReadableOutOfOrder
        <4>1. q # -1 => q \in Positions /\ c.m_entries[q].status = "Avail"
          BY <1>1, <3>1, BufferFields DEF Unordered
        <4>2. q # -1 => HasUnit(c, q)
          BY <1>1, <4>1, UnitFacts
        <4>3. q # -1 => q \notin poss
          BY <2>6, <4>2
        <4> QED
          BY <2>9, <3>1, <4>1, <4>3 DEF Unordered
      <3> QED
        BY <3>2, <3>3, <3>4
    <2>12. /\ EntryOf(all, e).status \notin {"Read", "Drop"}
           /\ First(all) + e <= MaxMsgs + 1
      <3>1. F[e] = EntryOf(c, e)
        BY <1>1 DEF j
      <3> HIDE DEF F
      <3> QED
        BY <2>10, <3>1
    <2> HIDE DEF released
    <2>13. PICK n \in 0..e :
               /\ Moves(all, n, released)
               /\ First(released) = First(all) + n
               /\ \A k \in 0..(n - 1) : EntryOf(all, k).status \in {"Read", "Drop"}
      BY <2>9, <2>11, <2>12, Release DEF released
    <2>14. /\ released \in BufferType(S) /\ InPlace(S, released) /\ HeadWaits(released)
           /\ released.m_iFirstNonreadPos = all.m_iFirstNonreadPos
           /\ Unordered(released)
      BY <2>9, <2>11, <2>12, Release DEF released
    <2>15. Passes(c, F, n, released)
      <3>1. n \in 0..m_szSize /\ \A k \in 0..(n - 1) : k \in 0..capacity
        BY <1>1
      <3>2. \A k \in 0..capacity :
                EntryOf(released, k) = IF n + k <= capacity THEN F[n + k] ELSE Empty
        <4> SUFFICES ASSUME NEW k \in 0..capacity
                     PROVE  EntryOf(released, k) = IF n + k <= capacity THEN F[n + k] ELSE Empty
          OBVIOUS
        <4>1. CASE n + k <= capacity
          <5>1. EntryOf(released, k) = EntryOf(all, n + k)
            BY <2>9, <2>13, <3>1, <4>1, MovesOffsets
          <5>2. n + k \in 0..capacity
            BY <4>1, <1>1
          <5> QED
            BY <2>10, <4>1, <5>1, <5>2
        <4>2. CASE n + k > capacity
          <5>1. EntryOf(released, k) = Empty
            BY <2>9, <2>13, <3>1, <4>2, MovesOffsets
          <5> HIDE DEF F
          <5> QED
            BY <1>1, <4>2, <5>1
        <4> QED
          BY <1>1, <4>1, <4>2
      <3>3. \A k \in 0..(n - 1) : F[k].status \in {"Read", "Drop"}
        BY <2>10, <2>13, <3>1
      <3> HIDE DEF F
      <3> QED
        BY <2>10, <2>13, <3>2, <3>3 DEF Passes
    <2>16. /\ renewed \in BufferType(S) /\ InOrder(renewed) /\ Unordered(renewed)
           /\ renewed.m_entries = released.m_entries
           /\ renewed.m_iStartPos = released.m_iStartPos
           /\ renewed.m_iStartSeqNo = released.m_iStartSeqNo
      <3>1. CASE before
        <4>1. /\ restarted \in BufferType(S)
              /\ restarted.m_entries = released.m_entries
              /\ restarted.m_iStartPos = released.m_iStartPos
              /\ restarted.m_iStartSeqNo = released.m_iStartSeqNo
              /\ restarted.m_iFirstNonreadPos = released.m_iStartPos
              /\ restarted.m_iFirstReadableOutOfOrder = released.m_iFirstReadableOutOfOrder
          BY <2>14 DEF BufferType
        <4> HIDE DEF restarted
        <4>2. InOrder(restarted)
          <5>1. NonreadOff(restarted) = 0
            <6>1. released.m_iStartPos \in 0..(m_szSize - 1)
              BY <2>14, BufferFields DEF Positions
            <6> QED
              BY <1>1, <4>1, <6>1 DEF NonreadOff, offPos
          <5> QED
            BY <5>1 DEF InOrder
        <4>3. renewed = updateNonreadPos(restarted)
          <5> HIDE DEF before
          <5> QED
            BY <3>1
        <4> HIDE DEF renewed
        <4>4. PICK p \in Positions : /\ renewed = [restarted EXCEPT !.m_iFirstNonreadPos = p]
                                     /\ renewed \in BufferType(S) /\ InOrder(renewed)
          BY <4>1, <4>2, <4>3, UpdateNonread
        <4>5. /\ renewed.m_entries = released.m_entries
              /\ renewed.m_iStartPos = released.m_iStartPos
              /\ renewed.m_iStartSeqNo = released.m_iStartSeqNo
              /\ renewed.m_iFirstReadableOutOfOrder = released.m_iFirstReadableOutOfOrder
          BY <4>1, <4>4 DEF BufferType
        <4>6. Unordered(renewed)
          BY <2>14, <4>5 DEF Unordered
        <4> QED
          BY <4>4, <4>5, <4>6
      <3>2. CASE ~before
        <4>1. renewed = released
          <5> HIDE DEF before, restarted
          <5> QED
            BY <3>2
        <4>2. 0 \notin range
          <5> SUFFICES ASSUME 0 \in range PROVE FALSE
            OBVIOUS
          <5>1. range \cup earlier = range
            BY <2>8
          <5>2. range \in SUBSET Nat /\ range # {}
            BY <1>1, <2>4
          <5>3. Min(range) \in range /\ Min(range) <= 0
            BY <5>2, LeastNat
          <5>4. NonreadOff(c) \in 0..capacity
            BY <1>1, Offsets
          <5>5. ~(Min(range) <= NonreadOff(c))
            BY <3>2, <5>1, <5>2 DEF NonreadOff
          <5> DEFINE least == Min(range)
          <5>6. least \in 0..capacity /\ least <= 0 /\ ~(least <= NonreadOff(c))
            BY <2>4, <5>3, <5>5
          <5> HIDE DEF least
          <5> QED
            BY <1>1, <5>4, <5>6
        <4>3. F[0] = EntryOf(c, 0) /\ EntryOf(all, 0) = EntryOf(c, 0)
          <5>1. 0 \in 0..capacity
            BY <1>1
          <5>2. EntryOf(c, 0).status = "Drop" => EntryOf(c, 0) = Drop
            BY <1>1, <5>1, SoloFacts
          <5>3. F[0] = EntryOf(c, 0)
            BY <2>5, <4>2, <5>1, <5>2
          <5> HIDE DEF F
          <5> QED
            BY <2>10, <5>1, <5>3
        <4>4. n = 0
          <5>1. EntryOf(all, 0).status \notin {"Read", "Drop"}
            BY <4>3 DEF Solo, HeadWaits
          <5>2. ~(0 \in 0..(n - 1))
            BY <2>13, <5>1
          <5> QED
            BY <1>1, <5>2
        <4>5. released.m_iStartPos = all.m_iStartPos
          <5>1. At(all, 0) = all.m_iStartPos
            BY <2>9, Offsets
          <5> QED
            BY <2>13, <4>4, <5>1 DEF Moves
        <4>6. NonreadOff(released) = NonreadOff(all) /\ NonreadOff(all) \in 0..capacity
          BY <2>9, <2>14, <4>5, Offsets DEF NonreadOff
        <4>7. \A k \in 0..(NonreadOff(all) - 1) : EntryOf(released, k) = EntryOf(all, k)
          <5> SUFFICES ASSUME NEW k \in 0..(NonreadOff(all) - 1)
                       PROVE  EntryOf(released, k) = EntryOf(all, k)
            OBVIOUS
          <5>1. k \in 0..capacity /\ 0 \in 0..m_szSize /\ 0 + k <= capacity /\ 0 + k = k
            BY <1>1, <4>6
          <5> QED
            BY <2>9, <2>13, <4>4, <5>1, MovesOffsets
        <4>8. InOrder(released)
          BY <2>11, <4>6, <4>7 DEF InOrder
        <4> QED
          BY <2>14, <4>1, <4>8
      <3> QED
        BY <3>1, <3>2
    <2> HIDE DEF renewed
    <2>17. /\ checked \in BufferType(S) /\ InOrder(checked) /\ Unordered(checked)
           /\ checked.m_entries = released.m_entries
           /\ checked.m_iStartPos = released.m_iStartPos
           /\ checked.m_iStartSeqNo = released.m_iStartSeqNo
      <3> DEFINE cleared == [renewed EXCEPT !.m_iFirstReadableOutOfOrder = -1]
      <3>1. /\ cleared \in BufferType(S) /\ cleared.m_entries = renewed.m_entries
            /\ cleared.m_iStartPos = renewed.m_iStartPos
            /\ cleared.m_iStartSeqNo = renewed.m_iStartSeqNo
            /\ cleared.m_iFirstNonreadPos = renewed.m_iFirstNonreadPos
            /\ cleared.m_iFirstReadableOutOfOrder = -1
        BY <2>16 DEF BufferType
      <3>2. checked = renewed \/ checked = cleared
        BY Zenon
      <3> HIDE DEF cleared, checked
      <3>3. InOrder(cleared) /\ Unordered(cleared)
        BY <2>16, <3>1, SameEntries DEF InOrder, Unordered, NonreadOff
      <3> QED
        BY <2>16, <3>1, <3>2, <3>3
    <2> HIDE DEF checked
    <2>18. d = updateFirstReadableOutOfOrder(checked)
      BY <1>1, <1>2, <1>3, <1>5
    <2>19. PICK p \in Positions \cup {-1} :
               /\ d = [checked EXCEPT !.m_iFirstReadableOutOfOrder = p]
               /\ d \in BufferType(S) /\ Unordered(d)
      BY <2>17, <2>18, UpdateUnordered
    <2>20. /\ d.m_entries = released.m_entries /\ d.m_iStartPos = released.m_iStartPos
           /\ d.m_iStartSeqNo = released.m_iStartSeqNo
           /\ d.m_iFirstNonreadPos = checked.m_iFirstNonreadPos
           /\ d.m_iStartPos = checked.m_iStartPos /\ d.m_entries = checked.m_entries
           /\ d.m_iStartSeqNo = checked.m_iStartSeqNo
      BY <2>17, <2>19 DEF BufferType
    <2> HIDE DEF met, before, restarted, F
    <2>21. InPlace(S, d) /\ HeadWaits(d) /\ First(d) = First(released)
           /\ \A k : EntryOf(d, k) = EntryOf(released, k)
      <3>1. First(d) = First(released) /\ \A k : EntryOf(d, k) = EntryOf(released, k)
        BY <2>20 DEF First, EntryOf, At
      <3>2. InPlace(S, released) /\ HeadWaits(released)
        BY <2>14
      <3>3. InPlace(S, d)
        BY <3>1, <3>2 DEF InPlace
      <3>4. HeadWaits(d)
        BY <3>1, <3>2 DEF HeadWaits
      <3> QED
        BY <3>1, <3>3, <3>4
    <2>22. InOrder(d)
      <3>1. \A k : EntryOf(d, k) = EntryOf(checked, k)
        BY <2>20 DEF EntryOf, At
      <3>2. NonreadOff(d) = NonreadOff(checked)
        BY <2>20 DEF NonreadOff
      <3>3. InOrder(checked)
        BY <2>17
      <3> QED
        BY <3>1, <3>2, <3>3 DEF InOrder
    <2>23. Solo(S, d)
      BY <2>19, <2>21, <2>22 DEF Solo
    <2>24. Passes(c, F, n, d)
      BY <2>15, <2>21 DEF Passes
    <2> QED
      BY <2>13, <2>23, <2>24 DEF F, d, i, j
  <1>6. offset_b \in Int
    BY <1>1, <1>3
  <1> HIDE DEF offset_b
  <1> QED
    BY <1>4, <1>5, <1>6

\* The offset of a position after the start has moved.
LEMMA OffAfterMove ==
    ASSUME NEW p \in Positions, NEW q \in Positions, NEW n \in 0..capacity
    PROVE  offPos(incPos(p, n), q) = IF n <= offPos(p, q) THEN offPos(p, q) - n
                                     ELSE offPos(p, q) - n + m_szSize
  <1>1. m_szSize \in Nat /\ n \in 0..m_szSize /\ n \in 0..(m_szSize - 1)
    BY Sizes
  <1>2. incPos(p, n) = IF p + n < m_szSize THEN p + n ELSE p + n - m_szSize
    BY <1>1, IncPosValue
  <1> QED
    BY <1>1, <1>2 DEF offPos, Positions

\* A position that the start has moved past is out of range, and is reset.
LEMMA Ranged ==
    ASSUME NEW S \in Streams, NEW c \in BufferType(S), NEW d \in BufferType(S), Unordered(d),
           NEW n \in 0..capacity, d.m_iStartPos = At(c, n),
           d.m_iFirstNonreadPos = c.m_iFirstNonreadPos,
           d.m_iMaxPosOff <= capacity - n,
           \A k \in 0..(NonreadOff(c) - 1 - n) : EntryOf(d, k).status = "Avail"
    PROVE  LET r == IF isInRange(d) THEN d
                    ELSE [d EXCEPT !.m_iFirstNonreadPos = d.m_iStartPos]
           IN  /\ r \in BufferType(S) /\ InOrder(r) /\ Unordered(r)
               /\ r.m_entries = d.m_entries /\ r.m_iStartPos = d.m_iStartPos
               /\ r.m_iStartSeqNo = d.m_iStartSeqNo
  <1> DEFINE r == [d EXCEPT !.m_iFirstNonreadPos = d.m_iStartPos]
  <1>1. /\ NonreadOff(c) \in 0..capacity /\ capacity \in Nat /\ m_szSize = capacity + 1
        /\ c.m_iStartPos \in Positions /\ c.m_iFirstNonreadPos \in Positions
    BY Offsets, BufferFields, Sizes
  <1>2. NonreadOff(d) = IF n <= NonreadOff(c) THEN NonreadOff(c) - n
                        ELSE NonreadOff(c) - n + m_szSize
    BY <1>1, OffAfterMove DEF NonreadOff, At
  <1>3. isInRange(d) <=> NonreadOff(d) <= d.m_iMaxPosOff
    BY DEF isInRange, NonreadOff
  <1>4. isInRange(d) => InOrder(d)
    <2> SUFFICES ASSUME isInRange(d) PROVE InOrder(d)
      OBVIOUS
    <2>1. d.m_iMaxPosOff \in Int
      BY BufferFields
    <2>2. n <= NonreadOff(c)
      BY <1>1, <1>2, <1>3, <2>1
    <2> QED
      BY <1>1, <1>2, <2>2 DEF InOrder
  <1>5. /\ r \in BufferType(S) /\ r.m_entries = d.m_entries /\ r.m_iStartPos = d.m_iStartPos
        /\ r.m_iStartSeqNo = d.m_iStartSeqNo /\ r.m_iFirstNonreadPos = d.m_iStartPos
        /\ r.m_iFirstReadableOutOfOrder = d.m_iFirstReadableOutOfOrder
    BY DEF BufferType
  <1> HIDE DEF r
  <1>6. InOrder(r)
    <2>1. d.m_iStartPos \in Positions
      BY BufferFields
    <2>2. NonreadOff(r) = 0
      BY <1>5, <2>1, Sizes DEF NonreadOff, offPos, Positions
    <2> QED
      BY <2>2 DEF InOrder
  <1>7. Unordered(r)
    BY <1>5 DEF Unordered
  <1> QED
    BY <1>4, <1>5, <1>6, <1>7 DEF r

\* The packet that is read: the first one, or one without order flag.
LEMMA ReadFacts ==
    ASSUME NEW S \in Streams, NEW c, Solo(S, c), isRcvDataReady(c)
    PROVE  LET k == offPos(c.m_iStartPos, ReadPos(c))
           IN  /\ k \in 0..capacity /\ At(c, k) = ReadPos(c)
               /\ EntryOf(c, k).status = "Avail"
               /\ ReadOffsets(c) = {k}
               /\ MessageRead(c) = {Pkt(S, First(c) + k)} /\ First(c) + k \in DOMAIN S
               /\ k # 0 => ~S[First(c) + k] /\ NonreadOff(c) = 0
               /\ (k = 0) <=> (ReadPos(c) = c.m_iStartPos)
               /\ packetAt(c, ReadPos(c)).last
  <1> DEFINE k == offPos(c.m_iStartPos, ReadPos(c))
             stops == {o \in k..(m_szSize - 1) :
                          ~HasUnit(c, At(c, o)) \/ packetAt(c, At(c, o)).last}
  <1>1. c \in BufferType(S) /\ InPlace(S, c) /\ capacity \in Nat /\ capacity = m_szSize - 1
        /\ m_szSize \in Nat
    BY Sizes DEF Solo
  <1>2. /\ ReadPos(c) \in Positions /\ c.m_entries[ReadPos(c)].status = "Avail"
        /\ ReadPos(c) # c.m_iStartPos =>
              /\ ~c.m_entries[ReadPos(c)].unit.inorder
              /\ c.m_iFirstNonreadPos = c.m_iStartPos
    <2>1. CASE hasReadableInorderPkts(c)
      <3>1. NonreadOff(c) \in 0..capacity /\ NonreadOff(c) # 0
        BY <1>1, <2>1, Offsets DEF hasReadableInorderPkts
      <3>2. EntryOf(c, 0).status = "Avail"
        BY <1>1, <3>1 DEF Solo, InOrder
      <3>3. At(c, 0) = c.m_iStartPos /\ c.m_iStartPos \in Positions
        BY <1>1, Offsets, BufferFields
      <3> QED
        BY <2>1, <3>2, <3>3 DEF ReadPos, EntryOf
    <2>2. CASE ~hasReadableInorderPkts(c)
      <3>1. c.m_iFirstReadableOutOfOrder # -1
        BY <2>2 DEF isRcvDataReady
      <3>2. c.m_iFirstReadableOutOfOrder \in Positions
        BY <1>1, <3>1, BufferFields
      <3> QED
        BY <2>2, <3>1, <3>2 DEF ReadPos, Solo, Unordered, hasReadableInorderPkts
    <2> QED
      BY <2>1, <2>2
  <1>3. k \in 0..capacity /\ At(c, k) = ReadPos(c) /\ At(c, 0) = c.m_iStartPos
    BY <1>1, <1>2, Offsets
  <1>4. (k = 0) <=> (ReadPos(c) = c.m_iStartPos)
    <2>1. offPos(c.m_iStartPos, At(c, 0)) = 0
      BY <1>1, Offsets
    <2> QED
      BY <1>3, <2>1
  <1> HIDE DEF k
  <1>5. EntryOf(c, k).status = "Avail" /\ HasUnit(c, At(c, k))
        /\ packetAt(c, At(c, k)) = Pkt(S, First(c) + k) /\ First(c) + k \in DOMAIN S
        /\ packetAt(c, At(c, k)).last
    <2>1. EntryOf(c, k).status = "Avail"
      BY <1>2, <1>3 DEF EntryOf
    <2> QED
      BY <1>1, <1>3, <2>1, SoloFacts
  <1>6. Min(stops) = k
    <2>1. k \in stops /\ stops \in SUBSET Nat /\ \A o \in stops : k <= o
      BY <1>1, <1>3, <1>5
    <2> HIDE DEF stops
    <2>2. Min(stops) \in stops /\ Min(stops) <= k
      BY <2>1, LeastNat
    <2> DEFINE least == Min(stops)
    <2>3. least \in Nat /\ least <= k /\ k <= least
      BY <2>1, <2>2
    <2> HIDE DEF least
    <2>4. least = k
      BY <1>1, <1>3, <2>3
    <2> QED
      BY <2>4 DEF least
  <1>7. ReadOffsets(c) = {k}
    <2>1. ReadOffsets(c) = IF HasUnit(c, At(c, Min(stops))) THEN k..Min(stops)
                           ELSE k..(Min(stops) - 1)
      BY DEF ReadOffsets, k
    <2> HIDE DEF stops
    <2>2. ReadOffsets(c) = k..k
      BY <1>5, <1>6, <2>1
    <2> QED
      BY <1>1, <1>3, <2>2
  <1>8. MessageRead(c) = {Pkt(S, First(c) + k)}
    BY <1>5, <1>7 DEF MessageRead
  <1>9. k # 0 => ~S[First(c) + k] /\ NonreadOff(c) = 0
    <2> SUFFICES ASSUME k # 0 PROVE ~S[First(c) + k] /\ NonreadOff(c) = 0
      OBVIOUS
    <2>1. ~packetAt(c, At(c, k)).inorder
      BY <1>2, <1>3, <1>4 DEF packetAt
    <2>2. ~S[First(c) + k]
      BY <1>5, <2>1 DEF Pkt
    <2>3. NonreadOff(c) = 0
      <3>1. offPos(c.m_iStartPos, At(c, 0)) = 0
        BY <1>1, Offsets
      <3> QED
        BY <1>2, <1>3, <1>4, <3>1 DEF NonreadOff
    <2> QED
      BY <2>2, <2>3
  <1> QED
    BY <1>3, <1>4, <1>5, <1>7, <1>8, <1>9 DEF k

\* readMessage: the entry of the packet is read, then the start moves.
LEMMA ReadEffect ==
    ASSUME NEW S \in Streams, NEW c, Solo(S, c), isRcvDataReady(c),
           NEW e \in 0..capacity, EntryOf(c, e).status = "Empty",
           First(c) + e <= MaxMsgs + 1
    PROVE  LET read == offPos(c.m_iStartPos, ReadPos(c))
               d == readMessage(c)
               F == [k \in 0..capacity |-> IF k = read THEN Read ELSE EntryOf(c, k)]
           IN  Solo(S, d) /\ \E n \in 0..e : Passes(c, F, n, d)
  <1> DEFINE read == offPos(c.m_iStartPos, ReadPos(c))
             pos == ReadPos(c)
             F == [k \in 0..capacity |-> IF k = read THEN Read ELSE EntryOf(c, k)]
             offs == ReadOffsets(c)
             poss == {At(c, k) : k \in offs}
             cnt == Cardinality(offs)
             unordered == {q \in poss : ~packetAt(c, q).inorder}
             done == /\ pos = c.m_iFirstReadableOutOfOrder
                     /\ \E q \in poss : packetAt(c, q).last
             inTurn == pos = c.m_iStartPos
             left == Max({0, c.m_numOutOfOrderPackets - Cardinality(unordered)})
             fro == IF done THEN -1 ELSE c.m_iFirstReadableOutOfOrder
             es == [q \in Positions |-> IF q \notin poss THEN c.m_entries[q]
                                       ELSE IF inTurn THEN Empty ELSE Read]
             counted == [c EXCEPT !.m_numOutOfOrderPackets = left,
                                  !.m_iFirstReadableOutOfOrder = fro,
                                  !.m_entries = es]
             shifted == [counted EXCEPT !.m_iStartPos = At(c, cnt),
                                        !.m_iMaxPosOff = @ - cnt,
                                        !.m_iStartSeqNo = incseqBy(@, cnt)]
             moved == IF inTurn THEN shifted ELSE counted
             released == releaseNextFillerEntries(moved)
             ranged == IF isInRange(released) THEN released
                       ELSE [released EXCEPT !.m_iFirstNonreadPos = released.m_iStartPos]
             d == readMessage(c)
  <1>1. /\ c \in BufferType(S) /\ InPlace(S, c) /\ HeadWaits(c) /\ InOrder(c) /\ Unordered(c)
        /\ capacity \in Nat /\ capacity = m_szSize - 1 /\ m_szSize \in Nat
        /\ First(c) \in Int /\ c.tsbpd = FALSE
    BY Sizes, BufferFields DEF Solo
  <1>2. d = IF c.tsbpd THEN ranged ELSE updateFirstReadableOutOfOrder(ranged)
    BY DEF readMessage
  <1> HIDE DEF d, read, pos
  <1>3. /\ read \in 0..capacity /\ At(c, read) = pos /\ pos \in Positions
        /\ EntryOf(c, read).status = "Avail" /\ offs = {read} /\ packetAt(c, pos).last
        /\ read # 0 => NonreadOff(c) = 0
        /\ read = 0 <=> inTurn
    <2>1. /\ read \in 0..capacity /\ At(c, read) = pos
          /\ EntryOf(c, read).status = "Avail" /\ offs = {read} /\ packetAt(c, pos).last
          /\ read # 0 => NonreadOff(c) = 0
          /\ read = 0 <=> inTurn
      BY ReadFacts DEF read, pos
    <2> QED
      BY <1>1, <2>1, Offsets
  <1>4. poss = {pos} /\ cnt = 1
    <2>1. cnt = 1
      BY <1>3, FS_Singleton
    <2> HIDE DEF cnt, offs
    <2> QED
      BY <1>3, <2>1
  <1>5. left \in Int
    <2> DEFINE u == Cardinality(unordered)
    <2>1. unordered \in SUBSET {pos} /\ IsFiniteSet({pos})
      BY <1>4, FS_Singleton
    <2>2. u \in Nat
      BY <2>1, FS_Subset, FS_CardinalityType
    <2>3. c.m_numOutOfOrderPackets \in Int
      BY <1>1, BufferFields
    <2> HIDE DEF u
    <2>4. c.m_numOutOfOrderPackets - u \in Int
      BY <2>2, <2>3
    <2>5. Max({0, c.m_numOutOfOrderPackets - u}) \in Int
      BY <2>4, MaxOfTwo
    <2> QED
      BY <2>5 DEF u
  <1>6. /\ fro \in Positions \cup {-1}
        /\ fro # -1 => fro # pos /\ fro = c.m_iFirstReadableOutOfOrder
    <2>1. done <=> pos = c.m_iFirstReadableOutOfOrder
      BY <1>3, <1>4
    <2> HIDE DEF done
    <2> QED
      BY <1>1, <2>1, BufferFields
  <1>7. /\ es \in [Positions -> Entries(S)]
        /\ es[pos] = IF inTurn THEN Empty ELSE Read
        /\ \A q \in Positions : q # pos => es[q] = c.m_entries[q]
    <2>1. c.m_entries \in [Positions -> Entries(S)] /\ Empty \in Entries(S) /\ Read \in Entries(S)
      BY <1>1, BufferFields, EmptyEntries
    <2> HIDE DEF poss, inTurn
    <2> QED
      BY <1>3, <1>4, <2>1
  <1> HIDE DEF left, fro, es, cnt, poss
  <1>8. /\ counted \in BufferType(S) /\ counted.m_entries = es
        /\ counted.m_iFirstReadableOutOfOrder = fro
        /\ counted.m_iStartPos = c.m_iStartPos /\ counted.m_iStartSeqNo = c.m_iStartSeqNo
        /\ counted.m_iMaxPosOff = c.m_iMaxPosOff
        /\ counted.m_iFirstNonreadPos = c.m_iFirstNonreadPos
    BY <1>1, <1>5, <1>6, <1>7 DEF BufferType
  <1> HIDE DEF counted
  <1>9. Unordered(counted)
    BY <1>1, <1>6, <1>7, <1>8 DEF Unordered
  <1>10. \A k \in 0..capacity : k # read => es[At(c, k)] = EntryOf(c, k)
    <2> SUFFICES ASSUME NEW k \in 0..capacity, k # read PROVE es[At(c, k)] = EntryOf(c, k)
      OBVIOUS
    <2>1. At(c, k) # pos /\ At(c, k) \in Positions
      BY <1>1, <1>3, Offsets
    <2> QED
      BY <1>7, <2>1 DEF EntryOf
  <1>11. e # read
    BY <1>3
  <1>12. /\ released \in BufferType(S) /\ InPlace(S, released) /\ HeadWaits(released)
         /\ Unordered(released)
         /\ released.m_iFirstNonreadPos = c.m_iFirstNonreadPos
         /\ \E n \in 0..e :
               /\ Passes(c, F, n, released)
               /\ released.m_iStartPos = At(c, n)
               /\ released.m_iMaxPosOff <= capacity - n
               /\ inTurn => n >= 1
    <2>1. CASE inTurn
      <3>1. moved = shifted
        BY <2>1
      <3> HIDE DEF moved, inTurn
      <3>2. Moves(c, 1, moved)
        <4>1. es = [q \in Positions |->
                       IF offPos(c.m_iStartPos, q) < 1 THEN Empty ELSE c.m_entries[q]]
          <5> SUFFICES ASSUME NEW q \in Positions
                       PROVE  es[q] = IF offPos(c.m_iStartPos, q) < 1 THEN Empty
                                      ELSE c.m_entries[q]
            BY <1>7, Zenon
          <5>1. offPos(c.m_iStartPos, q) \in 0..capacity
                /\ At(c, offPos(c.m_iStartPos, q)) = q
            BY <1>1, Offsets
          <5>2. offPos(c.m_iStartPos, At(c, 0)) = 0 /\ At(c, 0) = pos
            BY <1>1, <1>3, <2>1, Offsets
          <5>3. offPos(c.m_iStartPos, q) < 1 <=> q = pos
            BY <1>1, <5>1, <5>2
          <5> QED
            BY <1>7, <2>1, <5>3
        <4> QED
          BY <1>4, <1>8, <3>1, <4>1 DEF Moves, BufferType
      <3>3. /\ moved.m_iMaxPosOff = c.m_iMaxPosOff - 1
            /\ moved.m_iFirstNonreadPos = c.m_iFirstNonreadPos
            /\ moved.m_iFirstReadableOutOfOrder = fro
            /\ moved.m_entries = es
        BY <1>4, <1>8, <3>1 DEF BufferType
      <3>4. e - 1 \in 0..capacity /\ 1 \in 0..m_szSize /\ First(c) + 1 <= MaxMsgs + 1
        BY <1>1, <1>3, <1>11, <2>1, Sizes
      <3>5. /\ moved.m_entries \in [Positions -> Entries(S)] /\ moved.m_iStartSeqNo \in Numbers
            /\ moved.m_iStartPos \in Positions /\ First(moved) = First(c) + 1
            /\ InPlace(S, moved)
        BY <1>1, <3>2, <3>4, MovesFacts
      <3>6. moved \in BufferType(S)
        <4>1. c.m_iMaxPosOff - 1 \in Int /\ c.m_iMaxPosOff - 1 <= capacity
          <5>1. c.m_iMaxPosOff \in Int /\ c.m_iMaxPosOff <= capacity
            BY <1>1, BufferFields
          <5> QED
            BY <1>1, <5>1
        <4> QED
          BY <1>8, <3>1, <3>3, <3>5, <4>1 DEF BufferType
      <3>7. Unordered(moved)
        BY <1>8, <1>9, <3>3 DEF Unordered
      <3>8. EntryOf(moved, e - 1) = EntryOf(c, e)
        <4>1. 1 + (e - 1) = e /\ 1 + (e - 1) <= capacity
          BY <1>1, <3>4
        <4> QED
          BY <1>1, <3>2, <3>4, <4>1, MovesOffsets
      <3>9. EntryOf(moved, e - 1).status \notin {"Read", "Drop"}
            /\ First(moved) + (e - 1) <= MaxMsgs + 1
        BY <1>1, <3>5, <3>8
      <3> HIDE DEF released
      <3>10. /\ released \in BufferType(S) /\ InPlace(S, released) /\ HeadWaits(released)
             /\ Unordered(released)
             /\ released.m_iFirstNonreadPos = c.m_iFirstNonreadPos
        BY <3>3, <3>4, <3>5, <3>6, <3>7, <3>9, Release DEF released
      <3>11. PICK n \in 0..(e - 1) :
                 /\ Moves(moved, n, released)
                 /\ First(released) = First(moved) + n
                 /\ \A j \in 0..(n - 1) : EntryOf(moved, j).status \in {"Read", "Drop"}
                 /\ released.m_iMaxPosOff = IF moved.m_iMaxPosOff >= n
                                            THEN moved.m_iMaxPosOff - n ELSE 0
        BY <3>4, <3>5, <3>6, <3>9, Release DEF released
      <3>12. n \in 0..m_szSize /\ n \in 0..capacity /\ 1 + n \in 0..e /\ 1 + n <= capacity
        BY <1>1, <3>4
      <3>13. released.m_iStartPos = At(c, 1 + n)
        <4>1. released.m_iStartPos = At(moved, n)
          BY <3>11 DEF Moves
        <4> QED
          BY <1>1, <3>2, <3>4, <3>12, <4>1, MovesOffsets
      <3>14. \A k \in 0..capacity : 1 + k <= capacity => EntryOf(moved, k) = F[1 + k]
        <4> SUFFICES ASSUME NEW k \in 0..capacity, 1 + k <= capacity
                     PROVE  EntryOf(moved, k) = F[1 + k]
          OBVIOUS
        <4>1. EntryOf(moved, k) = EntryOf(c, 1 + k)
          BY <1>1, <3>2, <3>4, MovesOffsets
        <4>2. 1 + k \in 0..capacity /\ 1 + k # read
          BY <1>1, <1>3, <2>1
        <4> QED
          BY <4>1, <4>2
      <3>15. F[0] = Read
        BY <1>1, <1>3, <2>1
      <3> HIDE DEF F
      <3>16. Passes(c, F, 1 + n, released)
        <4>1. First(released) = First(c) + (1 + n)
          BY <1>1, <3>5, <3>11
        <4>2. \A j \in 0..((1 + n) - 1) : F[j].status \in {"Read", "Drop"}
          <5> SUFFICES ASSUME NEW j \in 0..((1 + n) - 1)
                       PROVE  F[j].status \in {"Read", "Drop"}
            OBVIOUS
          <5>1. CASE j = 0
            BY <3>15, <5>1, EmptyEntries
          <5>2. CASE j # 0
            <6>1. j - 1 \in 0..(n - 1) /\ j - 1 \in 0..capacity /\ 1 + (j - 1) = j
                  /\ 1 + (j - 1) <= capacity
              BY <1>1, <3>12, <5>2
            <6> QED
              BY <3>11, <3>14, <6>1
          <5> QED
            BY <5>1, <5>2
        <4>3. ASSUME NEW k \in 0..capacity
              PROVE  EntryOf(released, k) = IF (1 + n) + k <= capacity THEN F[(1 + n) + k]
                                            ELSE Empty
          <5>1. CASE (1 + n) + k <= capacity
            <6>1. n + k <= capacity /\ n + k \in 0..capacity /\ 1 + (n + k) = (1 + n) + k
                  /\ 1 + (n + k) <= capacity
              BY <1>1, <3>12, <5>1
            <6>2. EntryOf(released, k) = EntryOf(moved, n + k)
              BY <3>6, <3>11, <3>12, <6>1, MovesOffsets
            <6> QED
              BY <3>14, <5>1, <6>1, <6>2
          <5>2. CASE ~((1 + n) + k <= capacity)
            <6>1. CASE n + k > capacity
              <7>1. EntryOf(released, k) = Empty
                BY <3>6, <3>11, <3>12, <6>1, MovesOffsets
              <7> QED
                BY <5>2, <7>1
            <6>2. CASE n + k <= capacity
              <7>1. n + k \in 0..capacity /\ 1 + (n + k) > capacity
                BY <1>1, <3>12, <5>2, <6>2
              <7>2. EntryOf(released, k) = EntryOf(moved, n + k)
                BY <3>6, <3>11, <3>12, <6>2, MovesOffsets
              <7>3. EntryOf(moved, n + k) = Empty
                BY <1>1, <3>2, <3>4, <7>1, MovesOffsets
              <7> QED
                BY <5>2, <7>2, <7>3
            <6> QED
              BY <1>1, <3>12, <6>1, <6>2
          <5> QED
            BY <5>1, <5>2
        <4> QED
          BY <4>1, <4>2, <4>3 DEF Passes
      <3>17. released.m_iMaxPosOff <= capacity - (1 + n)
        <4>1. c.m_iMaxPosOff \in Int /\ c.m_iMaxPosOff <= capacity
          BY <1>1, BufferFields
        <4> QED
          BY <1>1, <3>3, <3>11, <3>12, <4>1
      <3>18. 1 + n >= 1
        BY <3>12
      <3> QED
        BY <3>10, <3>12, <3>13, <3>16, <3>17, <3>18
    <2>2. CASE ~inTurn
      <3>1. moved = counted
        BY <2>2
      <3> HIDE DEF moved, inTurn
      <3>2. /\ moved \in BufferType(S) /\ First(moved) = First(c) /\ Unordered(moved)
            /\ moved.m_iStartPos = c.m_iStartPos /\ moved.m_entries = es
            /\ moved.m_iMaxPosOff = c.m_iMaxPosOff
            /\ moved.m_iFirstNonreadPos = c.m_iFirstNonreadPos
        BY <1>8, <1>9, <3>1 DEF First
      <3>3. \A k \in 0..capacity : EntryOf(moved, k) = F[k]
        <4> SUFFICES ASSUME NEW k \in 0..capacity PROVE EntryOf(moved, k) = F[k]
          OBVIOUS
        <4>1. EntryOf(moved, k) = es[At(c, k)]
          BY <3>2 DEF EntryOf, At
        <4> QED
          BY <1>3, <1>7, <1>10, <2>2, <4>1
      <3>4. InPlace(S, moved)
        BY <1>1, <3>2, <3>3, EmptyEntries DEF InPlace
      <3>5. EntryOf(moved, e).status \notin {"Read", "Drop"}
            /\ First(moved) + e <= MaxMsgs + 1
        BY <1>11, <3>2, <3>3
      <3> HIDE DEF released
      <3>6. /\ released \in BufferType(S) /\ InPlace(S, released) /\ HeadWaits(released)
            /\ Unordered(released)
            /\ released.m_iFirstNonreadPos = c.m_iFirstNonreadPos
        BY <3>2, <3>4, <3>5, Release DEF released
      <3>7. PICK n \in 0..e :
                 /\ Moves(moved, n, released)
                 /\ First(released) = First(moved) + n
                 /\ \A j \in 0..(n - 1) : EntryOf(moved, j).status \in {"Read", "Drop"}
                 /\ released.m_iMaxPosOff = IF moved.m_iMaxPosOff >= n
                                            THEN moved.m_iMaxPosOff - n ELSE 0
        BY <3>2, <3>4, <3>5, Release DEF released
      <3>8. n \in 0..m_szSize /\ n \in 0..capacity
        BY <1>1
      <3>9. released.m_iStartPos = At(c, n)
        BY <3>2, <3>7 DEF Moves, At
      <3> HIDE DEF F
      <3>10. Passes(c, F, n, released)
        <4>1. \A j \in 0..(n - 1) : F[j].status \in {"Read", "Drop"}
          <5>1. \A j \in 0..(n - 1) : j \in 0..capacity
            BY <1>1, <3>8
          <5> QED
            BY <3>3, <3>7, <5>1
        <4>2. ASSUME NEW k \in 0..capacity
              PROVE  EntryOf(released, k) = IF n + k <= capacity THEN F[n + k] ELSE Empty
          <5>1. CASE n + k <= capacity
            <6>1. EntryOf(released, k) = EntryOf(moved, n + k) /\ n + k \in 0..capacity
              BY <1>1, <3>2, <3>7, <3>8, <5>1, MovesOffsets
            <6> QED
              BY <3>3, <5>1, <6>1
          <5>2. CASE ~(n + k <= capacity)
            <6>1. n + k > capacity
              BY <1>1, <3>8, <5>2
            <6>2. EntryOf(released, k) = Empty
              BY <3>2, <3>7, <3>8, <6>1, MovesOffsets
            <6> QED
              BY <5>2, <6>2
          <5> QED
            BY <5>1, <5>2
        <4> QED
          BY <3>2, <3>7, <4>1, <4>2 DEF Passes
      <3>11. released.m_iMaxPosOff <= capacity - n
        <4>1. c.m_iMaxPosOff \in Int /\ c.m_iMaxPosOff <= capacity
          BY <1>1, BufferFields
        <4> QED
          BY <1>1, <3>2, <3>7, <3>8, <4>1
      <3> QED
        BY <2>2, <3>6, <3>9, <3>10, <3>11
    <2> QED
      BY <2>1, <2>2
  <1> HIDE DEF released, F
  <1>13. PICK n \in 0..e :
             /\ Passes(c, F, n, released)
             /\ released.m_iStartPos = At(c, n)
             /\ released.m_iMaxPosOff <= capacity - n
             /\ inTurn => n >= 1
    BY <1>12
  <1>14. n \in 0..capacity
    BY <1>1
  <1>15. \A k \in 0..(NonreadOff(c) - 1 - n) : EntryOf(released, k).status = "Avail"
    <2> SUFFICES ASSUME NEW k \in 0..(NonreadOff(c) - 1 - n)
                 PROVE  EntryOf(released, k).status = "Avail"
      OBVIOUS
    <2>1. NonreadOff(c) \in 0..capacity
      BY <1>1, Offsets
    <2>2. read = 0
      BY <1>1, <1>3, <1>14, <2>1
    <2>3. n >= 1
      BY <1>3, <1>13, <2>2
    <2>4. /\ k \in 0..capacity /\ n + k <= capacity /\ n + k \in 0..capacity /\ n + k # 0
          /\ n + k \in 0..(NonreadOff(c) - 1)
      BY <1>1, <1>14, <2>1, <2>3
    <2>5. F[n + k] = EntryOf(c, n + k)
      BY <2>2, <2>4 DEF F
    <2>6. EntryOf(c, n + k).status = "Avail"
      BY <1>1, <2>4 DEF InOrder
    <2> QED
      BY <1>13, <2>4, <2>5, <2>6 DEF Passes
  <1> HIDE DEF ranged
  <1>16. /\ ranged \in BufferType(S) /\ InOrder(ranged) /\ Unordered(ranged)
         /\ ranged.m_entries = released.m_entries /\ ranged.m_iStartPos = released.m_iStartPos
         /\ ranged.m_iStartSeqNo = released.m_iStartSeqNo
    BY <1>1, <1>12, <1>13, <1>14, <1>15, Ranged DEF ranged
  <1>17. d = updateFirstReadableOutOfOrder(ranged)
    BY <1>1, <1>2
  <1>18. PICK p \in Positions \cup {-1} :
             /\ d = [ranged EXCEPT !.m_iFirstReadableOutOfOrder = p]
             /\ d \in BufferType(S) /\ Unordered(d)
    BY <1>16, <1>17, UpdateUnordered
  <1>19. /\ d.m_entries = ranged.m_entries /\ d.m_iStartPos = ranged.m_iStartPos
         /\ d.m_iStartSeqNo = ranged.m_iStartSeqNo
         /\ d.m_iFirstNonreadPos = ranged.m_iFirstNonreadPos
    BY <1>16, <1>18 DEF BufferType
  <1>20. InOrder(d)
    <2>1. NonreadOff(d) = NonreadOff(ranged) /\ \A k : EntryOf(d, k) = EntryOf(ranged, k)
      BY <1>19 DEF NonreadOff, EntryOf, At
    <2> QED
      BY <1>16, <2>1 DEF InOrder
  <1>21. InPlace(S, d) /\ HeadWaits(d) /\ First(d) = First(released)
         /\ \A k : EntryOf(d, k) = EntryOf(released, k)
    BY <1>12, <1>16, <1>19, SameEntries
  <1>22. Solo(S, d)
    BY <1>18, <1>20, <1>21 DEF Solo
  <1>23. Passes(c, F, n, d)
    BY <1>13, <1>21 DEF Passes
  <1>24. Solo(S, d) /\ \E k \in 0..e : Passes(c, F, k, d)
    BY <1>22, <1>23
  <1> QED
    BY <1>24 DEF d, F, read

-----------------------------------------------------------------------------
(* The protocol *)

\* The earliest of some packets, as the loss lists find it.
LEMMA Earliest ==
    ASSUME NEW T \in SUBSET Numbers, T # {}
    PROVE  LET next == CHOOSE s \in T : \A t \in T : seqcmp(s, t) <= 0
           IN  /\ next \in T
               /\ \A t \in T : seqcmp(next, t) <= 0 /\ MsgNo(next) <= MsgNo(t)
  <1> DEFINE I == {MsgNo(s) : s \in T}
  <1>1. I \in SUBSET Nat /\ I # {}
    BY NumberOf
  <1>2. Min(I) \in I /\ \A i \in I : Min(I) <= i
    <2> HIDE DEF I
    <2> QED
      BY <1>1, LeastNat
  <1>3. PICK s \in T : Min(I) = MsgNo(s)
    BY <1>2
  <1>4. \A t \in T : MsgNo(s) <= MsgNo(t)
    BY <1>2, <1>3
  <1>5. \A t \in T : seqcmp(s, t) <= 0
    BY <1>4, NumberOrder
  <1> DEFINE next == CHOOSE x \in T : \A t \in T : seqcmp(x, t) <= 0
  <1>6. next \in T /\ \A t \in T : seqcmp(next, t) <= 0
    BY <1>5
  <1> HIDE DEF next
  <1>7. \A t \in T : MsgNo(next) <= MsgNo(t)
    BY <1>6, NumberOrder
  <1> QED
    BY <1>6, <1>7 DEF next

\* The newest sequence number, which is the one before the next.
LEMMA NewestFacts ==
    ASSUME NEW x \in {decseq(s) : s \in Numbers}
    PROVE  /\ incseq(x) \in Numbers /\ x = decseq(incseq(x)) /\ x \in SeqNo
           /\ MsgNo(incseq(x)) \in Index /\ MsgNo(incseq(x)) \in Int
           /\ 1 <= MsgNo(incseq(x)) /\ MsgNo(incseq(x)) <= MaxMsgs + 1
  <1>1. PICK s \in Numbers : x = decseq(s)
    OBVIOUS
  <1>2. incseq(x) = s /\ x \in SeqNo
    BY <1>1, NumberSteps
  <1> QED
    BY <1>1, <1>2, NumberOf

\* The receiver's fields, and the sender's.
LEMMA RcvFacts ==
    ASSUME NEW S, NEW r, ReceiverInv(S, r)
    PROVE  /\ r.m_pRcvBuffer \in BufferType(S) /\ Solo(S, r.m_pRcvBuffer)
           /\ r.m_pRcvBuffer.m_iStartSeqNo \in Numbers
           /\ First(r.m_pRcvBuffer) \in Int /\ 1 <= First(r.m_pRcvBuffer)
           /\ incseq(r.m_iRcvCurrSeqNo) \in Numbers
           /\ r.m_iRcvCurrSeqNo = decseq(incseq(r.m_iRcvCurrSeqNo))
           /\ r.m_iRcvCurrSeqNo \in SeqNo
           /\ RcvNext(r) \in Int /\ 1 <= RcvNext(r) /\ RcvNext(r) <= MaxMsgs + 1
           /\ First(r.m_pRcvBuffer) <= RcvNext(r)
           /\ RcvNext(r) <= First(r.m_pRcvBuffer) + capacity
           /\ r.m_iRcvLastAck \in Numbers /\ r.m_iRcvLastAckAck \in SeqNo
           /\ r.m_bBufferWasFull \in BOOLEAN
           /\ r.m_pRcvLossList \in SUBSET Numbers /\ r.m_pRcvLossList = Lost(r)
           /\ r.m_FreshLoss \in Seq(RangesUpTo(RcvNext(r)))
           /\ r.m_iReorderTolerance \in 0..iMaxReorderTolerance
           /\ Covered(r, MsgNo(r.m_iRcvLastAck))
  <1>1. /\ r.m_pRcvBuffer \in BufferType(S)
        /\ r.m_iRcvCurrSeqNo \in {decseq(s) : s \in Numbers}
        /\ r.m_iRcvLastAck \in Numbers /\ r.m_iRcvLastAckAck \in SeqNo
        /\ r.m_bBufferWasFull \in BOOLEAN
        /\ r.m_pRcvLossList \in SUBSET Numbers
        /\ r.m_FreshLoss \in Seq(RangesUpTo(RcvNext(r)))
        /\ r.m_iReorderTolerance \in 0..iMaxReorderTolerance
    BY DEF ReceiverInv, RcvRecord
  <1>2. /\ r.m_pRcvBuffer.m_iStartSeqNo \in Numbers
        /\ First(r.m_pRcvBuffer) \in Int /\ 1 <= First(r.m_pRcvBuffer)
    <2>1. /\ r.m_pRcvBuffer.m_iStartSeqNo \in Numbers
          /\ First(r.m_pRcvBuffer) \in Int /\ First(r.m_pRcvBuffer) \in Index
      BY <1>1, BufferFields
    <2> QED
      BY <2>1, Sizes DEF Index
  <1>3. /\ incseq(r.m_iRcvCurrSeqNo) \in Numbers
        /\ r.m_iRcvCurrSeqNo = decseq(incseq(r.m_iRcvCurrSeqNo))
        /\ r.m_iRcvCurrSeqNo \in SeqNo
        /\ RcvNext(r) \in Int /\ 1 <= RcvNext(r) /\ RcvNext(r) <= MaxMsgs + 1
    BY <1>1, NewestFacts DEF RcvNext
  <1>4. /\ First(r.m_pRcvBuffer) <= RcvNext(r)
        /\ RcvNext(r) <= First(r.m_pRcvBuffer) + capacity
    BY <1>2, <1>3, Sizes DEF ReceiverInv, NothingBeyond
  <1> QED
    BY <1>1, <1>2, <1>3, <1>4 DEF ReceiverInv

LEMMA SndFacts ==
    ASSUME NEW S, NEW s, NEW r, SenderInv(S, s, r)
    PROVE  /\ incseq(s.m_iSndCurrSeqNo) \in Numbers
           /\ s.m_iSndCurrSeqNo = decseq(incseq(s.m_iSndCurrSeqNo))
           /\ s.m_iSndCurrSeqNo \in SeqNo
           /\ SndNext(s) \in Int /\ 1 <= SndNext(s) /\ SndNext(s) <= MaxMsgs + 1
           /\ s.m_iSndLastAck \in Numbers /\ s.m_iSndLastDataAck \in Numbers
           /\ s.m_iFlowWindowSize \in Int /\ s.m_pSndLossList \in SUBSET Numbers
           /\ s.m_bBroken = FALSE
  <1>1. /\ s.m_iSndCurrSeqNo \in {decseq(n) : n \in Numbers}
        /\ s.m_iSndLastAck \in Numbers /\ s.m_iSndLastDataAck \in Numbers
        /\ s.m_iFlowWindowSize \in Int /\ s.m_pSndLossList \in SUBSET Numbers
        /\ s.m_bBroken = FALSE
    BY DEF SenderInv, SndRecord
  <1> QED
    BY <1>1, NewestFacts DEF SndNext

\* What is covered stays so, for fewer messages and for a later receiver.
LEMMA CoveredDown ==
    ASSUME NEW S, NEW r, ReceiverInv(S, r), NEW x, Covered(r, x), NEW y \in Int, 1 <= y, y <= x
    PROVE  Covered(r, y)
  <1>1. First(r.m_pRcvBuffer) \in Int /\ RcvNext(r) \in Int
    BY RcvFacts
  <1> QED
    BY <1>1 DEF Covered

LEMMA CoveredOn ==
    ASSUME NEW S, NEW r, ReceiverInv(S, r), NEW T, NEW q, ReceiverInv(T, q), Evolves(r, q),
           NEW x, Covered(r, x)
    PROVE  Covered(q, x)
  <1>1. /\ First(r.m_pRcvBuffer) \in Int /\ RcvNext(r) \in Int
        /\ First(q.m_pRcvBuffer) \in Int /\ RcvNext(q) \in Int
    BY RcvFacts
  <1> QED
    BY <1>1 DEF Covered, Evolves

\* What is in the network stays right when the two peers move on.
LEMMA PacketOn ==
    ASSUME NEW S \in Streams, NEW r, ReceiverInv(S, r), NEW T \in Streams, NEW q,
           ReceiverInv(T, q), Evolves(r, q), ExtendedTo(S, T),
           NEW old, NEW aged, old \subseteq aged,
           NEW s, NEW u, SenderInv(S, s, r), SenderInv(T, u, q), SndNext(s) <= SndNext(u),
           NEW m, PacketInv(S, old, s, r, m)
    PROVE  PacketInv(T, aged, u, q, m)
  <1>1. /\ First(r.m_pRcvBuffer) \in Int /\ RcvNext(r) \in Int
        /\ First(q.m_pRcvBuffer) \in Int /\ RcvNext(q) \in Int
        /\ SndNext(s) \in Int /\ SndNext(u) \in Int
    BY RcvFacts, SndFacts
  <1>2. m.type \in Types
    BY DEF PacketInv
  <1>3. ASSUME m.type = "DATA"
        PROVE  m.rexmit \in BOOLEAN /\ \E i \in 1..(SndNext(u) - 1) : m.pkt = Pkt(T, i)
    <2>1. PICK i \in 1..(SndNext(s) - 1) : m.pkt = Pkt(S, i)
      BY <1>3 DEF PacketInv
    <2>2. i \in DOMAIN S
      BY <1>1, <2>1 DEF SenderInv, Streams
    <2>3. Pkt(T, i) = Pkt(S, i)
      BY <2>2 DEF Pkt, ExtendedTo
    <2>4. i \in 1..(SndNext(u) - 1)
      BY <1>1, <2>1
    <2> QED
      BY <1>3, <2>1, <2>3, <2>4 DEF PacketInv
  <1>4. ASSUME m.type \in {"ACK", "LITEACK"}
        PROVE  m.seqno \in Numbers /\ Covered(q, MsgNo(m.seqno))
    BY <1>4, CoveredOn DEF PacketInv
  <1>5. ASSUME m.type = "ACK"
        PROVE  /\ m.left \in Int
               /\ MsgNo(m.seqno) + m.left <= First(q.m_pRcvBuffer) + capacity
    <2>1. /\ m.left \in Int /\ m.seqno \in Numbers
          /\ MsgNo(m.seqno) + m.left <= First(r.m_pRcvBuffer) + capacity
      BY <1>5 DEF PacketInv
    <2>2. MsgNo(m.seqno) \in Int
      BY <2>1, NumberOf
    <2> QED
      BY <1>1, <2>1, <2>2, Sizes DEF Evolves
  <1>6. m.type = "ACKACK" => m.seqno \in SeqNo
    BY DEF PacketInv
  <1>7. ASSUME NEW g, GoodRange(r, g) PROVE GoodRange(q, g)
    <2>1. MsgNo(g.hi) \in Int
      BY <1>7, NumberOf DEF GoodRange
    <2> QED
      BY <1>1, <1>7, <2>1 DEF GoodRange, Evolves
  <1>8. ASSUME m.type = "LOSSREPORT" PROVE \A g \in m.ranges : GoodRange(q, g)
    BY <1>7, <1>8 DEF PacketInv
  <1>9. ASSUME m.type = "DROPREQ"
        PROVE  /\ GoodRange(q, m)
               /\ m.msgno \in Int
               /\ \A i \in MsgNo(m.lo)..MsgNo(m.hi) : i \in aged \/ Covered(q, i + 1)
    <2>1. /\ GoodRange(r, m) /\ m.msgno \in Int
          /\ \A i \in MsgNo(m.lo)..MsgNo(m.hi) : i \in old \/ Covered(r, i + 1)
      BY <1>9 DEF PacketInv
    <2> QED
      BY <1>7, <2>1, CoveredOn
  <1> QED
    BY <1>2, <1>3, <1>4, <1>5, <1>6, <1>8, <1>9 DEF PacketInv

\* getFirstNoncontSequence, of any state of the receiver
FirstMissing(r) ==
    IF r.m_pRcvLossList = {} THEN incseq(r.m_iRcvCurrSeqNo)
    ELSE CHOOSE s \in r.m_pRcvLossList :
             \A t \in r.m_pRcvLossList : seqcmp(s, t) <= 0

\* Everything before the first missing packet is there.
LEMMA UpToFirstMissing ==
    ASSUME NEW S, NEW r, ReceiverInv(S, r)
    PROVE  FirstMissing(r) \in Numbers /\ Covered(r, MsgNo(FirstMissing(r)))
  <1> DEFINE c == r.m_pRcvBuffer
  <1>1. /\ First(c) \in Int /\ 1 <= First(c) /\ RcvNext(r) \in Int /\ 1 <= RcvNext(r)
        /\ RcvNext(r) <= MaxMsgs + 1 /\ incseq(r.m_iRcvCurrSeqNo) \in Numbers
        /\ r.m_pRcvLossList = Lost(r)
    BY RcvFacts
  <1> HIDE DEF c
  <1>2. ASSUME NEW i \in First(c)..(RcvNext(r) - 1), StatusOf(c, i) = "Empty"
        PROVE  SeqNoOf(i) \in Lost(r) /\ MsgNo(SeqNoOf(i)) = i
    <2>1. i \in Index
      BY <1>1, Sizes DEF Index
    <2> QED
      BY <1>2, <2>1, NumberValue DEF Lost, c
  <1>3. CASE r.m_pRcvLossList = {}
    <2>1. FirstMissing(r) = incseq(r.m_iRcvCurrSeqNo)
      BY <1>3 DEF FirstMissing
    <2>2. \A i \in First(c)..(RcvNext(r) - 1) : StatusOf(c, i) # "Empty"
      BY <1>1, <1>2, <1>3
    <2> QED
      BY <1>1, <2>1, <2>2 DEF Covered, RcvNext, c
  <1>4. CASE r.m_pRcvLossList # {}
    <2> DEFINE next == CHOOSE s \in Lost(r) : \A t \in Lost(r) : seqcmp(s, t) <= 0
    <2>1. FirstMissing(r) = next
      BY <1>1, <1>4 DEF FirstMissing
    <2>2. Lost(r) \in SUBSET Numbers /\ Lost(r) # {}
      BY <1>1, <1>4 DEF Lost
    <2>3. next \in Lost(r) /\ \A t \in Lost(r) : MsgNo(next) <= MsgNo(t)
      BY <2>2, Earliest
    <2> HIDE DEF next
    <2>4. next \in Numbers /\ MsgNo(next) \in First(c)..(RcvNext(r) - 1)
      BY <2>3 DEF Lost, c
    <2>5. \A i \in First(c)..(MsgNo(next) - 1) : StatusOf(c, i) # "Empty"
      <3> SUFFICES ASSUME NEW i \in First(c)..(MsgNo(next) - 1), StatusOf(c, i) = "Empty"
                   PROVE  FALSE
        OBVIOUS
      <3>1. i \in First(c)..(RcvNext(r) - 1)
        BY <1>1, <2>4
      <3>2. MsgNo(next) <= i
        BY <1>2, <2>3, <3>1
      <3> QED
        BY <1>1, <2>4, <3>2
    <2> QED
      BY <1>1, <2>1, <2>4, <2>5 DEF Covered, c
  <1> QED
    BY <1>3, <1>4

\* What is in the buffer once some of its first entries are passed.
LEMMA PassedOn ==
    ASSUME NEW S, NEW c \in BufferType(S), NEW d \in BufferType(S), NEW F,
           NEW e \in 0..capacity, NEW n \in 0..e, Passes(c, F, n, d),
           \A k \in 0..capacity : k >= e => F[k].status = "Empty"
    PROVE  /\ First(d) = First(c) + n
           /\ \A i \in First(d)..(First(c) + capacity) : StatusOf(d, i) = F[i - First(c)].status
           /\ \A i \in First(c)..(First(d) - 1) : F[i - First(c)].status \in {"Read", "Drop"}
           /\ \A k \in 0..capacity : First(d) + k >= First(c) + e => EntryOf(d, k).status = "Empty"
  <1>1. First(c) \in Int /\ First(d) \in Int /\ capacity \in Nat /\ n \in Nat /\ e \in Nat
        /\ First(d) = First(c) + n
    <2>1. First(c) \in Int /\ First(d) \in Int
      BY BufferFields
    <2>2. capacity \in Nat
      BY Sizes
    <2>3. n \in Nat /\ e \in Nat
      BY <2>2
    <2> QED
      BY <2>1, <2>2, <2>3 DEF Passes
  <1>2. ASSUME NEW i \in First(d)..(First(c) + capacity)
        PROVE  StatusOf(d, i) = F[i - First(c)].status
    <2>1. i - First(d) \in 0..capacity /\ n + (i - First(d)) = i - First(c)
          /\ n + (i - First(d)) <= capacity
      BY <1>1
    <2>2. EntryOf(d, i - First(d)) = F[n + (i - First(d))]
      BY <2>1 DEF Passes
    <2> QED
      BY <2>1, <2>2 DEF StatusOf
  <1>3. ASSUME NEW i \in First(c)..(First(d) - 1)
        PROVE  F[i - First(c)].status \in {"Read", "Drop"}
    <2>1. i - First(c) \in 0..(n - 1)
      BY <1>1
    <2> QED
      BY <2>1 DEF Passes
  <1>4. ASSUME NEW k \in 0..capacity, First(d) + k >= First(c) + e
        PROVE  EntryOf(d, k).status = "Empty"
    <2>1. n + k >= e
      BY <1>1, <1>4
    <2>2. CASE n + k <= capacity
      <3>1. n + k \in 0..capacity /\ EntryOf(d, k) = F[n + k]
        BY <1>1, <2>2 DEF Passes
      <3> QED
        BY <2>1, <3>1
    <2>3. CASE ~(n + k <= capacity)
      BY <2>3, EmptyEntries DEF Passes
    <2> QED
      BY <2>2, <2>3
  <1> QED
    BY <1>1, <1>2, <1>3, <1>4

\* A step of the receiver that changes entries before the newest packet, then
\* passes some.
LEMMA ReceiverPasses ==
    ASSUME NEW S \in Streams, NEW r, ReceiverInv(S, r), NEW q,
           NEW F, NEW n \in 0..(RcvNext(r) - First(r.m_pRcvBuffer)),
           Passes(r.m_pRcvBuffer, F, n, q.m_pRcvBuffer),
           Solo(S, q.m_pRcvBuffer),
           q \in RcvRecord(S, RcvNext(r)),
           q.m_iRcvCurrSeqNo = r.m_iRcvCurrSeqNo, q.m_iRcvLastAck = r.m_iRcvLastAck,
           \A k \in 0..capacity : F[k].status = "Empty" => EntryOf(r.m_pRcvBuffer, k).status = "Empty",
           \A k \in 0..capacity :
              First(r.m_pRcvBuffer) + k >= RcvNext(r) => F[k].status = "Empty",
           q.m_pRcvLossList =
              {s \in r.m_pRcvLossList : F[MsgNo(s) - First(r.m_pRcvBuffer)].status = "Empty"}
    PROVE  ReceiverInv(S, q) /\ Evolves(r, q)
  <1> DEFINE c == r.m_pRcvBuffer
             d == q.m_pRcvBuffer
             e == RcvNext(r) - First(c)
  <1>1. /\ c \in BufferType(S) /\ d \in BufferType(S) /\ First(c) \in Int /\ First(d) \in Int
        /\ capacity \in Nat /\ RcvNext(r) \in Int
        /\ First(c) <= RcvNext(r) /\ RcvNext(r) <= First(c) + capacity
        /\ r.m_pRcvLossList = Lost(r) /\ Covered(r, MsgNo(r.m_iRcvLastAck))
    BY RcvFacts, BufferFields, Sizes DEF Solo
  <1>2. e \in 0..capacity /\ n \in 0..e /\ First(c) + e = RcvNext(r)
    BY <1>1
  <1>3. \A k \in 0..capacity : k >= e => F[k].status = "Empty"
    BY <1>1
  <1>4. RcvNext(q) = RcvNext(r)
    BY DEF RcvNext
  <1>5. Passes(c, F, n, d)
    OBVIOUS
  <1> HIDE DEF c, d, e
  <1>6. /\ First(d) = First(c) + n
        /\ \A i \in First(d)..(First(c) + capacity) : StatusOf(d, i) = F[i - First(c)].status
        /\ \A i \in First(c)..(First(d) - 1) : F[i - First(c)].status \in {"Read", "Drop"}
        /\ \A k \in 0..capacity : First(d) + k >= First(c) + e => EntryOf(d, k).status = "Empty"
    BY <1>1, <1>2, <1>3, <1>5, PassedOn
  <1>7. n \in Int /\ 0 <= n /\ n <= e /\ e \in Int
    BY <1>1, <1>2
  <1>8. First(c) <= First(d) /\ First(d) <= RcvNext(r)
    BY <1>1, <1>2, <1>6, <1>7
  <1>9. RcvNext(q) \in First(d)..(First(d) + capacity)
    BY <1>1, <1>4, <1>6, <1>7, <1>8
  <1>10. NothingBeyond(q)
    BY <1>2, <1>4, <1>6, <1>9 DEF NothingBeyond, d
  <1>11. \A i \in First(c)..(First(c) + capacity) :
            F[i - First(c)].status = "Empty" => StatusOf(c, i) = "Empty"
    <2> SUFFICES ASSUME NEW i \in First(c)..(First(c) + capacity),
                        F[i - First(c)].status = "Empty"
                 PROVE  StatusOf(c, i) = "Empty"
      OBVIOUS
    <2>1. i - First(c) \in 0..capacity
      BY <1>1
    <2> QED
      BY <2>1 DEF StatusOf, c
  <1>12. Lost(q) = q.m_pRcvLossList
    <2>1. ASSUME NEW s \in Numbers
          PROVE  s \in Lost(q) <=> s \in Lost(r) /\ F[MsgNo(s) - First(c)].status = "Empty"
      <3>1. MsgNo(s) \in Int
        BY NumberOf
      <3>2. s \in Lost(q) <=> /\ MsgNo(s) \in First(d)..(RcvNext(r) - 1)
                              /\ StatusOf(d, MsgNo(s)) = "Empty"
        BY <1>4 DEF Lost, d
      <3>3. s \in Lost(r) <=> /\ MsgNo(s) \in First(c)..(RcvNext(r) - 1)
                              /\ StatusOf(c, MsgNo(s)) = "Empty"
        BY DEF Lost, c
      <3>4. CASE MsgNo(s) \in First(d)..(RcvNext(r) - 1)
        <4>1. /\ MsgNo(s) \in First(d)..(First(c) + capacity)
              /\ MsgNo(s) \in First(c)..(First(c) + capacity)
              /\ MsgNo(s) \in First(c)..(RcvNext(r) - 1)
          BY <1>1, <1>8, <3>1, <3>4
        <4> QED
          BY <1>6, <1>11, <3>2, <3>3, <3>4, <4>1
      <3>5. CASE MsgNo(s) \notin First(d)..(RcvNext(r) - 1)
        <4>1. s \notin Lost(q)
          BY <3>2, <3>5
        <4>2. ASSUME MsgNo(s) \in First(c)..(RcvNext(r) - 1)
              PROVE  F[MsgNo(s) - First(c)].status # "Empty"
          <5>1. MsgNo(s) \in First(c)..(First(d) - 1)
            BY <1>1, <1>8, <3>1, <3>5, <4>2
          <5> QED
            BY <1>6, <5>1
        <4> QED
          BY <3>3, <4>1, <4>2
      <3> QED
        BY <3>4, <3>5
    <2>2. Lost(q) \subseteq Numbers /\ Lost(r) \subseteq Numbers
      BY DEF Lost
    <2>3. q.m_pRcvLossList = {s \in Lost(r) : F[MsgNo(s) - First(c)].status = "Empty"}
      BY <1>1 DEF c
    <2> QED
      BY <2>1, <2>2, <2>3
  <1>13. \A i \in First(d)..(RcvNext(r) - 1) : StatusOf(c, i) # "Empty" => StatusOf(d, i) # "Empty"
    <2> SUFFICES ASSUME NEW i \in First(d)..(RcvNext(r) - 1), StatusOf(d, i) = "Empty"
                 PROVE  StatusOf(c, i) = "Empty"
      OBVIOUS
    <2>1. i \in First(d)..(First(c) + capacity) /\ i \in First(c)..(First(c) + capacity)
      BY <1>1, <1>8
    <2> QED
      BY <1>6, <1>11, <2>1
  <1>14. Evolves(r, q)
    BY <1>1, <1>4, <1>8, <1>13 DEF Evolves, c, d
  <1>15. Covered(q, MsgNo(q.m_iRcvLastAck))
    <2>1. Covered(r, MsgNo(q.m_iRcvLastAck))
      BY <1>1
    <2> QED
      BY <1>1, <1>4, <1>8, <1>13, <2>1 DEF Covered, c, d
  <1> QED
    BY <1>4, <1>10, <1>12, <1>14, <1>15 DEF ReceiverInv

\* What the receiver gave up, of any of its states: the messages that were not
\* delivered and are behind the start or dropped.
GivenUpIn(S, D, r) ==
    {m \in DOMAIN S \ Range(D) :
        \/ m < First(r.m_pRcvBuffer)
        \/ m < RcvNext(r) /\ StatusOf(r.m_pRcvBuffer, m) = "Drop"}

\* What such a step delivers and gives up.
LEMMA DeliveredPasses ==
    ASSUME NEW S \in Streams, NEW r, ReceiverInv(S, r), NEW q,
           NEW F, NEW n \in 0..(RcvNext(r) - First(r.m_pRcvBuffer)),
           Passes(r.m_pRcvBuffer, F, n, q.m_pRcvBuffer),
           Solo(S, q.m_pRcvBuffer),
           q.m_iRcvCurrSeqNo = r.m_iRcvCurrSeqNo,
           \A k \in 0..capacity :
              First(r.m_pRcvBuffer) + k >= RcvNext(r) => F[k].status = "Empty",
           NEW D \in Seq(DOMAIN S),
           \A i \in Range(D) :
              \/ i < First(r.m_pRcvBuffer)
              \/ /\ i < RcvNext(r)
                 /\ F[i - First(r.m_pRcvBuffer)].status \in {"Read", "Drop"},
           \A i \in First(r.m_pRcvBuffer)..(RcvNext(r) - 1) :
              F[i - First(r.m_pRcvBuffer)].status = "Read" => i \in Range(D)
    PROVE  /\ DeliveredInv(S, D, q)
           /\ GivenUpIn(S, D, q) =
                 {m \in DOMAIN S \ Range(D) :
                     \/ m < First(r.m_pRcvBuffer)
                     \/ /\ m < RcvNext(r)
                        /\ F[m - First(r.m_pRcvBuffer)].status = "Drop"}
  <1> DEFINE c == r.m_pRcvBuffer
             d == q.m_pRcvBuffer
             e == RcvNext(r) - First(c)
  <1>1. /\ c \in BufferType(S) /\ d \in BufferType(S) /\ First(c) \in Int /\ First(d) \in Int
        /\ capacity \in Nat /\ RcvNext(r) \in Int
        /\ First(c) <= RcvNext(r) /\ RcvNext(r) <= First(c) + capacity
    BY RcvFacts, BufferFields, Sizes DEF Solo
  <1>2. e \in 0..capacity /\ n \in 0..e /\ First(c) + e = RcvNext(r)
    BY <1>1
  <1>3. \A k \in 0..capacity : k >= e => F[k].status = "Empty"
    BY <1>1
  <1>4. RcvNext(q) = RcvNext(r)
    BY DEF RcvNext
  <1>5. /\ Passes(c, F, n, d)
        /\ \A i \in Range(D) :
              i < First(c) \/ (i < RcvNext(r) /\ F[i - First(c)].status \in {"Read", "Drop"})
        /\ \A i \in First(c)..(RcvNext(r) - 1) :
              F[i - First(c)].status = "Read" => i \in Range(D)
    OBVIOUS
  <1> HIDE DEF c, d, e
  <1>6. /\ First(d) = First(c) + n
        /\ \A i \in First(d)..(First(c) + capacity) : StatusOf(d, i) = F[i - First(c)].status
        /\ \A i \in First(c)..(First(d) - 1) : F[i - First(c)].status \in {"Read", "Drop"}
    BY <1>1, <1>2, <1>3, <1>5, PassedOn
  <1>7. First(c) <= First(d) /\ First(d) <= RcvNext(r)
    BY <1>1, <1>2, <1>6
  <1>8. \A i \in DOMAIN S : i \in Int
    BY DEF Streams
  <1>9. \A i \in Range(D) : i \in DOMAIN S
    BY DEF Range
  <1>10. \A i \in First(d)..(RcvNext(r) - 1) : StatusOf(d, i) = F[i - First(c)].status
    BY <1>1, <1>6, <1>7
  <1>11. ASSUME NEW i \in Range(D)
         PROVE  i < First(d) \/ (i < RcvNext(q) /\ StatusOf(d, i) \in {"Read", "Drop"})
    <2>1. i \in Int
      BY <1>8, <1>9
    <2>2. i < First(c) \/ (i < RcvNext(r) /\ F[i - First(c)].status \in {"Read", "Drop"})
      BY <1>5
    <2>3. i < First(c) => i < First(d)
      BY <1>1, <1>7, <2>1
    <2>4. ~(i < First(d)) /\ i < RcvNext(r) => i \in First(d)..(RcvNext(r) - 1)
      BY <1>1, <2>1
    <2> QED
      BY <1>4, <1>10, <2>2, <2>3, <2>4
  <1>12. ASSUME NEW i \in First(d)..(RcvNext(q) - 1), StatusOf(d, i) = "Read"
         PROVE  i \in Range(D)
    <2>1. i \in First(c)..(RcvNext(r) - 1) /\ i \in First(d)..(RcvNext(r) - 1)
      BY <1>1, <1>4, <1>7
    <2> QED
      BY <1>5, <1>10, <1>12, <2>1
  <1>13. DeliveredInv(S, D, q)
    BY <1>11, <1>12 DEF DeliveredInv, d
  <1>14. ASSUME NEW m \in DOMAIN S \ Range(D)
         PROVE  m \in GivenUpIn(S, D, q) <=>
                    m < First(c) \/ (m < RcvNext(r) /\ F[m - First(c)].status = "Drop")
    <2>1. m \in Int
      BY <1>8
    <2>2. m \in GivenUpIn(S, D, q) <=>
              m < First(d) \/ (m < RcvNext(r) /\ StatusOf(d, m) = "Drop")
      BY <1>4 DEF GivenUpIn, d
    <2>3. CASE m < First(c)
      BY <1>1, <1>7, <2>1, <2>2, <2>3
    <2>4. CASE First(c) <= m /\ m < First(d)
      <3>1. m \in First(c)..(First(d) - 1) /\ m \in First(c)..(RcvNext(r) - 1)
        BY <1>1, <1>7, <2>1, <2>4
      <3>2. F[m - First(c)].status \in {"Read", "Drop"} /\ F[m - First(c)].status # "Read"
        BY <1>5, <1>6, <1>14, <3>1
      <3> QED
        BY <1>1, <1>7, <2>1, <2>2, <2>4, <3>2
    <2>5. CASE First(d) <= m /\ m < RcvNext(r)
      <3>1. m \in First(d)..(RcvNext(r) - 1)
        BY <1>1, <2>1, <2>5
      <3> QED
        BY <1>1, <1>7, <1>10, <2>1, <2>2, <2>5, <3>1
    <2>6. CASE RcvNext(r) <= m
      BY <1>1, <1>7, <2>1, <2>2, <2>6
    <2> QED
      BY <1>1, <2>1, <2>3, <2>4, <2>5, <2>6
  <1>15. GivenUpIn(S, D, q) \subseteq DOMAIN S \ Range(D)
    BY DEF GivenUpIn
  <1>16. GivenUpIn(S, D, q) =
            {m \in DOMAIN S \ Range(D) :
                m < First(c) \/ (m < RcvNext(r) /\ F[m - First(c)].status = "Drop")}
    BY <1>14, <1>15
  <1> QED
    BY <1>13, <1>16 DEF c

\* What a list has with one element more.
LEMMA RangeOfAppend ==
    ASSUME NEW A, NEW D \in Seq(A), NEW m
    PROVE  Range(Append(D, m)) = Range(D) \cup {m}
  <1>1. Len(D) \in Nat /\ DOMAIN D = 1..Len(D)
    OBVIOUS
  <1>2. /\ DOMAIN Append(D, m) = 1..(Len(D) + 1)
        /\ \A i \in 1..(Len(D) + 1) :
              Append(D, m)[i] = IF i = Len(D) + 1 THEN m ELSE D[i]
    OBVIOUS
  <1>3. ASSUME NEW x \in Range(Append(D, m)) PROVE x \in Range(D) \cup {m}
    BY <1>1, <1>2, <1>3 DEF Range
  <1>4. m \in Range(Append(D, m))
    BY <1>1, <1>2 DEF Range
  <1>5. ASSUME NEW x \in Range(D) PROVE x \in Range(Append(D, m))
    <2>1. PICK i \in 1..Len(D) : x = D[i]
      BY <1>1 DEF Range
    <2>2. i \in 1..(Len(D) + 1) /\ i # Len(D) + 1
      BY <1>1
    <2> QED
      BY <1>2, <2>1, <2>2 DEF Range
  <1> QED
    BY <1>3, <1>4, <1>5

\* receiveMessage delivers a message that was sent and neither delivered nor
\* given up; one with order flag is the first in the buffer.
LEMMA ReceiverReads ==
    ASSUME NEW S \in Streams, NEW r, ReceiverInv(S, r), NEW D, DeliveredInv(S, D, r),
           isRcvDataReady(r.m_pRcvBuffer)
    PROVE  LET q == [r EXCEPT !.m_pRcvBuffer = readMessage(r.m_pRcvBuffer)]
           IN  /\ ReceiverInv(S, q) /\ Evolves(r, q) /\ RcvNext(q) = RcvNext(r)
               /\ \E m \in DOMAIN S :
                     /\ MessageRead(r.m_pRcvBuffer) = {Pkt(S, m)}
                     /\ m \notin Range(D) /\ m \notin GivenUpIn(S, D, r)
                     /\ S[m] => \A i \in 1..(m - 1) : i \in Range(D) \cup GivenUpIn(S, D, r)
                     /\ DeliveredInv(S, Append(D, m), q)
                     /\ GivenUpIn(S, Append(D, m), q) = GivenUpIn(S, D, r)
  <1> DEFINE c == r.m_pRcvBuffer
             d == readMessage(c)
             q == [r EXCEPT !.m_pRcvBuffer = d]
             e == RcvNext(r) - First(c)
             read == offPos(c.m_iStartPos, ReadPos(c))
             m == First(c) + read
             F == [k \in 0..capacity |-> IF k = read THEN Read ELSE EntryOf(c, k)]
  <1>1. /\ Solo(S, c) /\ c \in BufferType(S) /\ First(c) \in Int /\ 1 <= First(c)
        /\ capacity \in Nat /\ RcvNext(r) \in Int /\ RcvNext(r) <= MaxMsgs + 1
        /\ First(c) <= RcvNext(r) /\ RcvNext(r) <= First(c) + capacity
        /\ r.m_pRcvLossList = Lost(r) /\ r \in RcvRecord(S, RcvNext(r))
    BY RcvFacts, Sizes DEF ReceiverInv
  <1>2. e \in 0..capacity /\ First(c) + e = RcvNext(r)
    BY <1>1
  <1>3. \A k \in 0..capacity : First(c) + k >= RcvNext(r) => EntryOf(c, k).status = "Empty"
    BY DEF ReceiverInv, NothingBeyond
  <1>4. isRcvDataReady(c)
    OBVIOUS
  <1> HIDE DEF c, d
  <1>5. /\ read \in 0..capacity /\ EntryOf(c, read).status = "Avail"
        /\ MessageRead(c) = {Pkt(S, m)} /\ m \in DOMAIN S
        /\ read # 0 => ~S[m]
    BY <1>1, <1>4, ReadFacts
  <1>6. EntryOf(c, e).status = "Empty" /\ First(c) + e <= MaxMsgs + 1
    <2> HIDE DEF e
    <2> QED
      BY <1>1, <1>2, <1>3
  <1>7. Solo(S, d) /\ \E n \in 0..e : Passes(c, F, n, d)
    <2> HIDE DEF e
    <2> QED
      BY <1>1, <1>2, <1>4, <1>6, ReadEffect DEF d
  <1>8. /\ \A k \in 0..capacity : F[k] = IF k = read THEN Read ELSE EntryOf(c, k)
        /\ F[read] = Read
    BY <1>5
  <1> HIDE DEF F
  <1>9. PICK n \in 0..e : Passes(c, F, n, d)
    BY <1>7
  <1>10. /\ q.m_pRcvBuffer = d /\ q.m_iRcvCurrSeqNo = r.m_iRcvCurrSeqNo
         /\ q.m_iRcvLastAck = r.m_iRcvLastAck /\ q.m_pRcvLossList = r.m_pRcvLossList
         /\ q \in RcvRecord(S, RcvNext(r))
    <2>1. d \in BufferType(S)
      BY <1>7 DEF Solo
    <2> QED
      BY <1>1, <2>1 DEF RcvRecord
  <1> HIDE DEF q, read
  <1>11. \A k \in 0..capacity :
            /\ F[k].status = "Empty" <=> EntryOf(c, k).status = "Empty"
            /\ F[k].status = "Drop" <=> EntryOf(c, k).status = "Drop"
            /\ F[k].status = "Read" <=> k = read \/ EntryOf(c, k).status = "Read"
    BY <1>5, <1>8, EmptyEntries
  <1>12. \A k \in 0..capacity : First(c) + k >= RcvNext(r) => F[k].status = "Empty"
    BY <1>3, <1>11
  <1>13. read \in Int /\ 0 <= read /\ read < e /\ m \in First(c)..(RcvNext(r) - 1)
    <2>1. ~(First(c) + read >= RcvNext(r))
      BY <1>3, <1>5
    <2>2. read \in Int /\ 0 <= read
      BY <1>1, <1>5
    <2> QED
      BY <1>1, <2>1, <2>2
  <1>14. ASSUME NEW s \in r.m_pRcvLossList PROVE F[MsgNo(s) - First(c)].status = "Empty"
    <2>1. MsgNo(s) \in First(c)..(RcvNext(r) - 1) /\ StatusOf(c, MsgNo(s)) = "Empty"
      BY <1>1 DEF Lost, c
    <2>2. MsgNo(s) - First(c) \in 0..capacity
      BY <1>1, <2>1
    <2> QED
      BY <1>11, <2>1, <2>2 DEF StatusOf
  <1>15. q.m_pRcvLossList = {s \in r.m_pRcvLossList : F[MsgNo(s) - First(c)].status = "Empty"}
    BY <1>10, <1>14
  <1>16. ReceiverInv(S, q) /\ Evolves(r, q)
    BY <1>7, <1>9, <1>10, <1>11, <1>12, <1>15, ReceiverPasses DEF c, e
  <1>17. \A i \in First(c)..(RcvNext(r) - 1) :
            i - First(c) \in 0..capacity /\ (i - First(c) = read <=> i = m)
    BY <1>1, <1>13
  <1>18. /\ D \in Seq(DOMAIN S)
         /\ \A i \in Range(D) : /\ i \in DOMAIN S /\ i \in Int
                                /\ \/ i < First(c)
                                   \/ i < RcvNext(r) /\ StatusOf(c, i) \in {"Read", "Drop"}
         /\ \A i \in First(c)..(RcvNext(r) - 1) : StatusOf(c, i) = "Read" => i \in Range(D)
    <2>1. D \in Seq(DOMAIN S)
      BY DEF DeliveredInv
    <2>2. \A i \in Range(D) : i \in DOMAIN S
      BY <2>1 DEF Range
    <2>3. \A i \in DOMAIN S : i \in Int
      BY DEF Streams
    <2> QED
      BY <2>1, <2>2, <2>3 DEF DeliveredInv, c
  <1>19. StatusOf(c, m) = "Avail"
    BY <1>5, <1>13, <1>17 DEF StatusOf
  <1>20. m \notin Range(D) /\ m \notin GivenUpIn(S, D, r)
    <2>1. ~(m < First(c))
      BY <1>1, <1>13
    <2> QED
      BY <1>18, <1>19, <2>1 DEF GivenUpIn, c
  <1>21. S[m] => \A i \in 1..(m - 1) : i \in Range(D) \cup GivenUpIn(S, D, r)
    <2> SUFFICES ASSUME S[m], NEW i \in 1..(m - 1) PROVE i \in Range(D) \cup GivenUpIn(S, D, r)
      OBVIOUS
    <2>1. m = First(c)
      BY <1>1, <1>5, <1>13
    <2>2. i < First(c) /\ i \in DOMAIN S
      BY <1>1, <1>5, <2>1 DEF Streams
    <2> QED
      BY <2>2 DEF GivenUpIn, c
  <1> DEFINE E == Append(D, m)
  <1>22. E \in Seq(DOMAIN S) /\ Range(E) = Range(D) \cup {m}
    BY <1>5, <1>18, RangeOfAppend
  <1> HIDE DEF E, m
  <1>23. ASSUME NEW i \in Range(E)
         PROVE  i < First(c) \/ (i < RcvNext(r) /\ F[i - First(c)].status \in {"Read", "Drop"})
    <2>1. CASE i = m
      BY <1>1, <1>8, <1>11, <1>13, <1>17, <2>1, EmptyEntries
    <2>2. CASE i \in Range(D) /\ ~(i < First(c))
      <3>1. i \in First(c)..(RcvNext(r) - 1) /\ StatusOf(c, i) \in {"Read", "Drop"}
        BY <1>1, <1>18, <2>2
      <3> QED
        BY <1>1, <1>11, <1>17, <3>1 DEF StatusOf
    <2> QED
      BY <1>22, <2>1, <2>2
  <1>24. ASSUME NEW i \in First(c)..(RcvNext(r) - 1), F[i - First(c)].status = "Read"
         PROVE  i \in Range(E)
    BY <1>11, <1>17, <1>18, <1>22, <1>24 DEF StatusOf
  <1>25. /\ DeliveredInv(S, E, q)
         /\ GivenUpIn(S, E, q) =
               {i \in DOMAIN S \ Range(E) :
                   \/ i < First(c)
                   \/ i < RcvNext(r) /\ F[i - First(c)].status = "Drop"}
    BY <1>7, <1>9, <1>10, <1>12, <1>22, <1>23, <1>24, DeliveredPasses DEF c, e
  <1>26. ASSUME NEW i \in DOMAIN S
         PROVE  i \in GivenUpIn(S, E, q) <=> i \in GivenUpIn(S, D, r)
    <2>1. i \in Int
      BY DEF Streams
    <2>2. CASE i < First(c)
      <3>1. i # m
        BY <1>1, <1>13, <2>1, <2>2
      <3> QED
        BY <1>22, <1>25, <2>2, <3>1 DEF GivenUpIn, c
    <2>3. CASE i \in First(c)..(RcvNext(r) - 1)
      <3>1. F[i - First(c)].status = "Drop" <=> StatusOf(c, i) = "Drop"
        BY <1>11, <1>17, <2>3 DEF StatusOf
      <3>2. ~(i < First(c)) /\ i < RcvNext(r)
        BY <1>1, <2>1, <2>3
      <3> QED
        BY <1>19, <1>22, <1>25, <3>1, <3>2 DEF GivenUpIn, c
    <2>4. CASE i >= RcvNext(r)
      <3>1. ~(i < First(c)) /\ ~(i < RcvNext(r))
        BY <1>1, <2>1, <2>4
      <3> QED
        BY <1>25, <3>1 DEF GivenUpIn, c
    <2> QED
      BY <1>1, <2>1, <2>2, <2>3, <2>4
  <1>27. GivenUpIn(S, E, q) = GivenUpIn(S, D, r)
    BY <1>26 DEF GivenUpIn
  <1>28. m \in DOMAIN S /\ MessageRead(c) = {Pkt(S, m)}
    BY <1>5 DEF m
  <1>29. RcvNext(q) = RcvNext(r)
    BY <1>10 DEF RcvNext
  <1> QED
    BY <1>16, <1>20, <1>21, <1>25, <1>27, <1>28, <1>29 DEF E, q, d, c

\* The record of fresh losses stays a sequence of ranges of sequence numbers.
LEMMA RangesOn ==
    ASSUME NEW n \in Int, NEW m \in Int, n <= m, NEW fresh \in Seq(RangesUpTo(n))
    PROVE  fresh \in Seq(RangesUpTo(m))
  <1>1. ASSUME NEW f \in RangesUpTo(n) PROVE f \in RangesUpTo(m)
    <2>1. f \in [lo : Numbers, hi : Numbers, ttl : Int] /\ MsgNo(f.lo) <= MsgNo(f.hi)
          /\ MsgNo(f.hi) < n
      BY DEF RangesUpTo
    <2>2. MsgNo(f.hi) \in Int
      BY <2>1, NumberOf
    <2> QED
      BY <2>1, <2>2 DEF RangesUpTo
  <1> QED
    BY <1>1

\* Cutting the records of fresh losses leaves records of fresh losses.
LEMMA RevokeUpToRanges ==
    ASSUME NEW n \in Int, NEW fresh \in Seq(RangesUpTo(n)), NEW hi \in Numbers
    PROVE  RevokeUpTo(fresh, hi) \in Seq(RangesUpTo(n))
  <1> DEFINE keep == {i \in DOMAIN fresh : seqcmp(hi, fresh[i].hi) < 0}
             i == Min(keep)
             x == IF seqcmp(hi, fresh[i].lo) < 0 THEN fresh[i]
                  ELSE [fresh[i] EXCEPT !.lo = incseq(hi)]
  <1>1. CASE keep = {}
    BY <1>1 DEF RevokeUpTo
  <1>2. CASE keep # {}
    <2>1. DOMAIN fresh = 1..Len(fresh) /\ Len(fresh) \in Nat
      OBVIOUS
    <2>2. i \in keep
      <3>1. keep \in SUBSET Nat
        BY <2>1
      <3> HIDE DEF keep
      <3> QED
        BY <1>2, <3>1, LeastNat
    <2>3. i \in 1..Len(fresh) /\ seqcmp(hi, fresh[i].hi) < 0
      BY <2>1, <2>2
    <2>4. RevokeUpTo(fresh, hi) = <<x>> \o SubSeq(fresh, i + 1, Len(fresh))
      BY <1>2 DEF RevokeUpTo
    <2> HIDE DEF i, keep
    <2>5. /\ fresh[i] \in RangesUpTo(n)
          /\ fresh[i] \in [lo : Numbers, hi : Numbers, ttl : Int]
          /\ fresh[i].lo \in Numbers /\ fresh[i].hi \in Numbers
          /\ MsgNo(fresh[i].hi) < n
      BY <2>1, <2>3 DEF RangesUpTo
    <2>6. MsgNo(hi) < MsgNo(fresh[i].hi)
      BY <2>3, <2>5, NumberOrder
    <2>7. incseq(hi) \in Numbers /\ MsgNo(incseq(hi)) <= MsgNo(fresh[i].hi)
      <3>1. /\ MsgNo(hi) \in Int /\ MsgNo(fresh[i].hi) \in Int
            /\ MsgNo(fresh[i].hi) <= MaxMsgs + 1 /\ MaxMsgs \in Int
        BY <2>5, NumberOf, Sizes
      <3>2. incseq(hi) \in Numbers /\ MsgNo(incseq(hi)) = MsgNo(hi) + 1
        BY <2>6, <3>1, NumberSteps
      <3> QED
        BY <2>6, <3>1, <3>2
    <2>8. [fresh[i] EXCEPT !.lo = incseq(hi)] \in RangesUpTo(n)
      <3> DEFINE y == [fresh[i] EXCEPT !.lo = incseq(hi)]
      <3>1. y \in [lo : Numbers, hi : Numbers, ttl : Int] /\ y.lo = incseq(hi)
            /\ y.hi = fresh[i].hi
        BY <2>5, <2>7
      <3> HIDE DEF y
      <3>2. y \in RangesUpTo(n)
        BY <2>5, <2>7, <3>1 DEF RangesUpTo
      <3> QED
        BY <3>2 DEF y
    <2>9. x \in RangesUpTo(n)
      BY <2>5, <2>8
    <2> HIDE DEF x
    <2>10. <<x>> \in Seq(RangesUpTo(n)) /\ SubSeq(fresh, i + 1, Len(fresh)) \in Seq(RangesUpTo(n))
      BY <2>1, <2>3, <2>9
    <2> QED
      BY <2>4, <2>10
  <1> QED
    BY <1>1, <1>2

LEMMA RemoveOneRanges ==
    ASSUME NEW n \in Int, NEW fresh \in Seq(RangesUpTo(n)), NEW seqno \in Numbers
    PROVE  RemoveOne(fresh, seqno) \in Seq(RangesUpTo(n))
  <1> DEFINE hits == {i \in DOMAIN fresh : seqno \in Between(fresh[i].lo, fresh[i].hi)}
             i == Min(hits)
             left == IF fresh[i].lo = seqno THEN <<>>
                     ELSE <<[fresh[i] EXCEPT !.hi = decseq(seqno)]>>
             right == IF fresh[i].hi = seqno THEN <<>>
                      ELSE <<[fresh[i] EXCEPT !.lo = incseq(seqno)]>>
  <1>1. CASE hits = {}
    BY <1>1 DEF RemoveOne
  <1>2. CASE hits # {}
    <2>1. DOMAIN fresh = 1..Len(fresh) /\ Len(fresh) \in Nat
      OBVIOUS
    <2>2. i \in hits
      <3>1. hits \in SUBSET Nat
        BY <2>1
      <3> HIDE DEF hits
      <3> QED
        BY <1>2, <3>1, LeastNat
    <2>3. i \in 1..Len(fresh) /\ seqno \in Between(fresh[i].lo, fresh[i].hi)
      BY <2>1, <2>2
    <2>4. RemoveOne(fresh, seqno) =
              SubSeq(fresh, 1, i - 1) \o left \o right \o SubSeq(fresh, i + 1, Len(fresh))
      BY <1>2 DEF RemoveOne
    <2> HIDE DEF i, hits
    <2>5. /\ fresh[i] \in [lo : Numbers, hi : Numbers, ttl : Int]
          /\ fresh[i].lo \in Numbers /\ fresh[i].hi \in Numbers
          /\ MsgNo(fresh[i].lo) <= MsgNo(fresh[i].hi) /\ MsgNo(fresh[i].hi) < n
      BY <2>1, <2>3 DEF RangesUpTo
    <2>6. /\ MsgNo(seqno) \in Int /\ MsgNo(fresh[i].lo) \in Int /\ MsgNo(fresh[i].hi) \in Int
          /\ MsgNo(fresh[i].hi) <= MaxMsgs + 1 /\ MaxMsgs \in Int /\ 1 <= MsgNo(fresh[i].lo)
      BY <2>5, NumberOf, Sizes
    <2>7. MsgNo(fresh[i].lo) <= MsgNo(seqno) /\ MsgNo(seqno) <= MsgNo(fresh[i].hi)
      <3>1. MsgNo(fresh[i].lo) <= MsgNo(fresh[i].hi) + 1
        BY <2>5, <2>6
      <3> QED
        BY <2>3, <2>5, <3>1, BetweenNumbers
    <2>8. left \in Seq(RangesUpTo(n))
      <3>1. CASE fresh[i].lo = seqno
        BY <3>1
      <3>2. CASE fresh[i].lo # seqno
        <4> DEFINE y == [fresh[i] EXCEPT !.hi = decseq(seqno)]
        <4>1. MsgNo(fresh[i].lo) # MsgNo(seqno)
          BY <2>5, <3>2, NumberOrder
        <4>2. decseq(seqno) \in Numbers /\ MsgNo(decseq(seqno)) = MsgNo(seqno) - 1
          BY <2>6, <2>7, <4>1, NumberSteps
        <4>3. y \in [lo : Numbers, hi : Numbers, ttl : Int] /\ y.hi = decseq(seqno)
              /\ y.lo = fresh[i].lo
          BY <2>5, <4>2
        <4> HIDE DEF y
        <4>4. MsgNo(y.lo) <= MsgNo(y.hi) /\ MsgNo(y.hi) < n
          BY <2>5, <2>6, <2>7, <4>1, <4>2, <4>3
        <4>5. y \in RangesUpTo(n)
          BY <4>3, <4>4 DEF RangesUpTo
        <4>6. left = <<y>>
          BY <3>2 DEF y
        <4> HIDE DEF left
        <4> QED
          BY <4>5, <4>6
      <3> QED
        BY <3>1, <3>2
    <2>9. right \in Seq(RangesUpTo(n))
      <3>1. CASE fresh[i].hi = seqno
        BY <3>1
      <3>2. CASE fresh[i].hi # seqno
        <4> DEFINE y == [fresh[i] EXCEPT !.lo = incseq(seqno)]
        <4>1. MsgNo(fresh[i].hi) # MsgNo(seqno)
          BY <2>5, <3>2, NumberOrder
        <4>2. incseq(seqno) \in Numbers /\ MsgNo(incseq(seqno)) = MsgNo(seqno) + 1
          <5>1. MsgNo(seqno) <= MaxMsgs
            BY <2>6, <2>7, <4>1
          <5> QED
            BY <5>1, NumberSteps
        <4>3. y \in [lo : Numbers, hi : Numbers, ttl : Int] /\ y.lo = incseq(seqno)
              /\ y.hi = fresh[i].hi
          BY <2>5, <4>2
        <4> HIDE DEF y
        <4>4. MsgNo(y.lo) <= MsgNo(y.hi) /\ MsgNo(y.hi) < n
          BY <2>5, <2>6, <2>7, <4>1, <4>2, <4>3
        <4>5. y \in RangesUpTo(n)
          BY <4>3, <4>4 DEF RangesUpTo
        <4>6. right = <<y>>
          BY <3>2 DEF y
        <4> HIDE DEF right
        <4> QED
          BY <4>5, <4>6
      <3> QED
        BY <3>1, <3>2
    <2> HIDE DEF left, right
    <2>10. /\ SubSeq(fresh, 1, i - 1) \in Seq(RangesUpTo(n))
           /\ SubSeq(fresh, i + 1, Len(fresh)) \in Seq(RangesUpTo(n))
      BY <2>1, <2>3
    <2> QED
      BY <2>4, <2>8, <2>9, <2>10
  <1> QED
    BY <1>1, <1>2

\* ProcessDropReq, of any state of the receiver
AfterDropReq(r, m) ==
    [r EXCEPT
        !.m_pRcvBuffer = dropMessage(@, m.lo, m.hi, m.msgno, KEEP_EXISTING),
        !.m_pRcvLossList = @ \ Between(m.lo, m.hi),
        !.m_FreshLoss = IF r.m_iReorderTolerance = 0 THEN @ ELSE RevokeUpTo(@, m.hi),
        !.m_iRcvCurrSeqNo = IF /\ seqcmp(m.lo, incseq(@)) <= 0
                               /\ seqcmp(m.hi, @) > 0
                            THEN m.hi ELSE @]

\* A drop request makes the receiver give up messages that are too old, and
\* no others: what it has or had is kept.
LEMMA ReceiverDrops ==
    ASSUME NEW S \in Streams, NEW r, ReceiverInv(S, r), NEW D, DeliveredInv(S, D, r),
           NEW old, NEW m, GoodRange(r, m), m.msgno \in Int,
           \A i \in MsgNo(m.lo)..MsgNo(m.hi) : i \in old \/ Covered(r, i + 1)
    PROVE  LET q == AfterDropReq(r, m)
           IN  /\ ReceiverInv(S, q) /\ Evolves(r, q) /\ DeliveredInv(S, D, q)
               /\ RcvNext(q) = RcvNext(r)
               /\ GivenUpIn(S, D, r) \subseteq GivenUpIn(S, D, q)
               /\ GivenUpIn(S, D, q) \ GivenUpIn(S, D, r) \subseteq old
  <1> DEFINE c == r.m_pRcvBuffer
             d == dropMessage(c, m.lo, m.hi, m.msgno, KEEP_EXISTING)
             fresh == IF r.m_iReorderTolerance = 0 THEN r.m_FreshLoss
                      ELSE RevokeUpTo(r.m_FreshLoss, m.hi)
             q == AfterDropReq(r, m)
             e == RcvNext(r) - First(c)
             lo == MsgNo(m.lo)
             hi == MsgNo(m.hi)
             F == [k \in 0..capacity |->
                      IF /\ lo <= First(c) + k /\ First(c) + k <= hi
                         /\ EntryOf(c, k).status # "Avail"
                      THEN Drop ELSE EntryOf(c, k)]
  <1>1. /\ Solo(S, c) /\ c \in BufferType(S) /\ First(c) \in Int /\ 1 <= First(c)
        /\ capacity \in Nat /\ RcvNext(r) \in Int /\ RcvNext(r) <= MaxMsgs + 1
        /\ First(c) <= RcvNext(r) /\ RcvNext(r) <= First(c) + capacity
        /\ r.m_pRcvLossList = Lost(r) /\ r.m_pRcvLossList \in SUBSET Numbers
        /\ r \in RcvRecord(S, RcvNext(r))
        /\ incseq(r.m_iRcvCurrSeqNo) \in Numbers
        /\ r.m_iRcvCurrSeqNo = decseq(incseq(r.m_iRcvCurrSeqNo))
        /\ r.m_FreshLoss \in Seq(RangesUpTo(RcvNext(r)))
    BY RcvFacts, Sizes DEF ReceiverInv
  <1>2. /\ m.lo \in Numbers /\ m.hi \in Numbers /\ lo \in Int /\ hi \in Int
        /\ lo <= hi /\ hi < RcvNext(r) /\ MaxMsgs \in Int
    BY NumberOf, Sizes DEF GoodRange
  <1>3. e \in 0..capacity /\ First(c) + e = RcvNext(r)
    BY <1>1
  <1>4. \A k \in 0..capacity : First(c) + k >= RcvNext(r) => EntryOf(c, k).status = "Empty"
    BY DEF ReceiverInv, NothingBeyond
  <1>5. /\ q.m_pRcvBuffer = d /\ q.m_iRcvCurrSeqNo = r.m_iRcvCurrSeqNo
        /\ q.m_iRcvLastAck = r.m_iRcvLastAck
        /\ q.m_pRcvLossList = r.m_pRcvLossList \ Between(m.lo, m.hi)
        /\ q = [r EXCEPT !.m_pRcvBuffer = d,
                         !.m_pRcvLossList = r.m_pRcvLossList \ Between(m.lo, m.hi),
                         !.m_FreshLoss = fresh]
    <2>1. ~(seqcmp(m.hi, r.m_iRcvCurrSeqNo) > 0)
      <3>1. MsgNo(m.hi) <= MaxMsgs
        BY <1>1, <1>2
      <3>2. seqcmp(m.hi, decseq(incseq(r.m_iRcvCurrSeqNo))) > 0
                <=> MsgNo(m.hi) >= MsgNo(incseq(r.m_iRcvCurrSeqNo))
        BY <1>1, <1>2, <3>1, NewestOrder
      <3>3. MsgNo(incseq(r.m_iRcvCurrSeqNo)) = RcvNext(r)
        BY DEF RcvNext
      <3> HIDE DEF c, d, fresh, q, e
      <3> QED
        BY <1>1, <1>2, <3>2, <3>3
    <2> HIDE DEF c, d, fresh
    <2>2. q = [r EXCEPT !.m_pRcvBuffer = d,
                        !.m_pRcvLossList = r.m_pRcvLossList \ Between(m.lo, m.hi),
                        !.m_FreshLoss = fresh,
                        !.m_iRcvCurrSeqNo = r.m_iRcvCurrSeqNo]
      BY <1>1, <2>1 DEF AfterDropReq, RcvRecord, c, d, fresh
    <2> HIDE DEF q
    <2> QED
      BY <1>1, <2>2 DEF RcvRecord
  <1>6. EntryOf(c, e).status = "Empty" /\ EntryOf(c, e).status \notin {"Read", "Drop"}
        /\ First(c) + e <= MaxMsgs + 1 /\ MsgNo(m.hi) < First(c) + e
    <2> HIDE DEF e, c
    <2> QED
      BY <1>1, <1>2, <1>3, <1>4
  <1> HIDE DEF c, d, q
  <1>7. Solo(S, d) /\ \E n \in 0..e : Passes(c, F, n, d)
    <2> HIDE DEF e
    <2> QED
      BY <1>1, <1>2, <1>3, <1>6, DropEffect DEF d
  <1>8. \A k \in 0..capacity :
           F[k] = IF /\ lo <= First(c) + k /\ First(c) + k <= hi
                     /\ EntryOf(c, k).status # "Avail"
                  THEN Drop ELSE EntryOf(c, k)
    OBVIOUS
  <1> HIDE DEF F, lo, hi
  <1>9. PICK n \in 0..e : Passes(c, F, n, d)
    BY <1>7
  <1>10. q \in RcvRecord(S, RcvNext(r))
    <2>1. d \in BufferType(S)
      BY <1>7 DEF Solo
    <2>2. fresh \in Seq(RangesUpTo(RcvNext(r)))
      BY <1>1, <1>2, RevokeUpToRanges
    <2> HIDE DEF fresh
    <2> QED
      BY <1>1, <1>5, <2>1, <2>2 DEF RcvRecord
  <1>11. \A k \in 0..capacity :
            /\ F[k].status = "Empty" <=> /\ EntryOf(c, k).status = "Empty"
                                         /\ ~(lo <= First(c) + k /\ First(c) + k <= hi)
            /\ EntryOf(c, k).status \in {"Read", "Drop"} => F[k].status \in {"Read", "Drop"}
            /\ F[k].status = "Read" => EntryOf(c, k).status = "Read"
            /\ EntryOf(c, k).status = "Drop" => F[k].status = "Drop"
            /\ F[k].status = "Drop" =>
                  \/ EntryOf(c, k).status = "Drop"
                  \/ /\ lo <= First(c) + k /\ First(c) + k <= hi
                     /\ EntryOf(c, k).status \in {"Empty", "Read"}
    <2> SUFFICES ASSUME NEW k \in 0..capacity
                 PROVE  /\ F[k].status = "Empty" <=>
                              /\ EntryOf(c, k).status = "Empty"
                              /\ ~(lo <= First(c) + k /\ First(c) + k <= hi)
                        /\ EntryOf(c, k).status \in {"Read", "Drop"}
                              => F[k].status \in {"Read", "Drop"}
                        /\ F[k].status = "Read" => EntryOf(c, k).status = "Read"
                        /\ EntryOf(c, k).status = "Drop" => F[k].status = "Drop"
                        /\ F[k].status = "Drop" =>
                              \/ EntryOf(c, k).status = "Drop"
                              \/ /\ lo <= First(c) + k /\ First(c) + k <= hi
                                 /\ EntryOf(c, k).status \in {"Empty", "Read"}
      OBVIOUS
    <2>1. EntryOf(c, k).status \in {"Empty", "Drop", "Read", "Avail"}
      BY <1>1, SoloFacts
    <2> QED
      BY <1>8, <2>1, EmptyEntries
  <1>12. \A k \in 0..capacity : First(c) + k >= RcvNext(r) => F[k].status = "Empty"
    <2> SUFFICES ASSUME NEW k \in 0..capacity, First(c) + k >= RcvNext(r)
                 PROVE  F[k].status = "Empty"
      OBVIOUS
    <2>1. ~(First(c) + k <= hi)
      BY <1>1, <1>2
    <2> QED
      BY <1>4, <1>11, <2>1
  <1>13. \A i \in First(c)..(RcvNext(r) - 1) :
            /\ i - First(c) \in 0..capacity /\ First(c) + (i - First(c)) = i
            /\ StatusOf(c, i) = EntryOf(c, i - First(c)).status
    BY <1>1 DEF StatusOf
  <1>14. Between(m.lo, m.hi) = {u \in Numbers : lo <= MsgNo(u) /\ MsgNo(u) <= hi}
    <2>1. MsgNo(m.lo) <= MsgNo(m.hi) + 1
      BY <1>2 DEF lo, hi
    <2> QED
      BY <1>2, <2>1, BetweenNumbers DEF lo, hi
  <1>15. ASSUME NEW s \in r.m_pRcvLossList
         PROVE  F[MsgNo(s) - First(c)].status = "Empty" <=> s \notin Between(m.lo, m.hi)
    <2>1. MsgNo(s) \in First(c)..(RcvNext(r) - 1) /\ StatusOf(c, MsgNo(s)) = "Empty"
          /\ s \in Numbers
      BY <1>1 DEF Lost, c
    <2> QED
      BY <1>11, <1>13, <1>14, <2>1
  <1>16. q.m_pRcvLossList = {s \in r.m_pRcvLossList : F[MsgNo(s) - First(c)].status = "Empty"}
    BY <1>5, <1>15
  <1>17. ReceiverInv(S, q) /\ Evolves(r, q)
    <2>1. \A k \in 0..capacity : F[k].status = "Empty" => EntryOf(c, k).status = "Empty"
      BY <1>11
    <2>2. /\ q.m_pRcvBuffer = d /\ q.m_iRcvCurrSeqNo = r.m_iRcvCurrSeqNo
          /\ q.m_iRcvLastAck = r.m_iRcvLastAck
      BY <1>5
    <2> QED
      BY <1>7, <1>9, <1>10, <1>12, <1>16, <2>1, <2>2, ReceiverPasses DEF c, e
  <1>18. /\ D \in Seq(DOMAIN S)
         /\ \A i \in Range(D) : /\ i \in DOMAIN S /\ i \in Int
                                /\ \/ i < First(c)
                                   \/ i < RcvNext(r) /\ StatusOf(c, i) \in {"Read", "Drop"}
         /\ \A i \in First(c)..(RcvNext(r) - 1) : StatusOf(c, i) = "Read" => i \in Range(D)
    <2>1. D \in Seq(DOMAIN S)
      BY DEF DeliveredInv
    <2>2. \A i \in Range(D) : i \in DOMAIN S
      BY <2>1 DEF Range
    <2>3. \A i \in DOMAIN S : i \in Int
      BY DEF Streams
    <2> QED
      BY <2>1, <2>2, <2>3 DEF DeliveredInv, c
  <1>19. ASSUME NEW i \in Range(D)
         PROVE  i < First(c) \/ (i < RcvNext(r) /\ F[i - First(c)].status \in {"Read", "Drop"})
    <2>1. CASE ~(i < First(c))
      <3>1. i \in First(c)..(RcvNext(r) - 1) /\ StatusOf(c, i) \in {"Read", "Drop"}
        BY <1>1, <1>18, <2>1
      <3>2. i - First(c) \in 0..capacity /\ StatusOf(c, i) = EntryOf(c, i - First(c)).status
        BY <1>13, <3>1
      <3>3. F[i - First(c)].status \in {"Read", "Drop"}
        BY <1>11, <3>1, <3>2
      <3>4. i < RcvNext(r)
        BY <1>1, <3>1
      <3> QED
        BY <3>3, <3>4
    <2> QED
      BY <2>1
  <1>20. ASSUME NEW i \in First(c)..(RcvNext(r) - 1), F[i - First(c)].status = "Read"
         PROVE  i \in Range(D)
    BY <1>11, <1>13, <1>18, <1>20
  <1>21. /\ DeliveredInv(S, D, q)
         /\ GivenUpIn(S, D, q) =
               {i \in DOMAIN S \ Range(D) :
                   \/ i < First(c)
                   \/ i < RcvNext(r) /\ F[i - First(c)].status = "Drop"}
    <2>1. q.m_pRcvBuffer = d /\ q.m_iRcvCurrSeqNo = r.m_iRcvCurrSeqNo
      BY <1>5
    <2>2. D \in Seq(DOMAIN S)
      BY <1>18
    <2> QED
      BY <1>7, <1>9, <1>12, <1>19, <1>20, <2>1, <2>2, DeliveredPasses DEF c, e
  <1>22. ASSUME NEW i \in GivenUpIn(S, D, r) PROVE i \in GivenUpIn(S, D, q)
    <2>1. i \in DOMAIN S \ Range(D) /\ i \in Int
      BY DEF GivenUpIn, Streams
    <2>2. CASE i < First(c)
      BY <1>21, <2>1, <2>2
    <2>3. CASE ~(i < First(c))
      <3>1. i \in First(c)..(RcvNext(r) - 1) /\ StatusOf(c, i) = "Drop"
        BY <1>1, <2>1, <2>3 DEF GivenUpIn, c
      <3>2. i - First(c) \in 0..capacity /\ EntryOf(c, i - First(c)).status = "Drop"
        BY <1>13, <3>1
      <3>3. F[i - First(c)].status = "Drop"
        BY <1>11, <3>2
      <3>4. i < RcvNext(r)
        BY <1>1, <3>1
      <3> QED
        BY <1>21, <2>1, <3>3, <3>4
    <2> QED
      BY <2>2, <2>3
  <1>23. ASSUME NEW i \in GivenUpIn(S, D, q), i \notin GivenUpIn(S, D, r) PROVE i \in old
    <2>1. i \in DOMAIN S \ Range(D) /\ i \in Int
      BY DEF GivenUpIn, Streams
    <2>2. ~(i < First(c))
      BY <1>23, <2>1 DEF GivenUpIn, c
    <2>3. i < RcvNext(r) /\ F[i - First(c)].status = "Drop"
      BY <1>21, <2>2
    <2>4. i \in First(c)..(RcvNext(r) - 1)
      BY <1>1, <2>1, <2>2, <2>3
    <2>5. StatusOf(c, i) # "Drop"
      BY <1>23, <2>1, <2>3 DEF GivenUpIn, c
    <2>6. lo <= i /\ i <= hi /\ StatusOf(c, i) \in {"Empty", "Read"}
      BY <1>11, <1>13, <2>3, <2>4, <2>5
    <2>7. StatusOf(c, i) = "Empty"
      BY <1>18, <2>1, <2>4, <2>6
    <2>8. i \in First(c)..((i + 1) - 1)
      BY <1>1, <2>1, <2>4
    <2>9. ~Covered(r, i + 1)
      BY <2>7, <2>8 DEF Covered, c
    <2>10. i \in lo..hi
      BY <1>2, <2>1, <2>6
    <2> QED
      BY <2>9, <2>10 DEF lo, hi
  <1>24. RcvNext(q) = RcvNext(r)
    BY <1>5 DEF RcvNext
  <1> QED
    BY <1>17, <1>21, <1>22, <1>23, <1>24 DEF q

\* A packet that fits into the buffer is stored.  If it is the newest, those
\* between the newest so far and it are lost; if not, it is lost no more.
LEMMA ReceiverStores ==
    ASSUME NEW S \in Streams, NEW r, ReceiverInv(S, r), NEW D, DeliveredInv(S, D, r),
           NEW i \in DOMAIN S, First(r.m_pRcvBuffer) <= i,
           i < First(r.m_pRcvBuffer) + capacity,
           NEW q, q \in RcvRecord(S, RcvNext(q)),
           q.m_pRcvBuffer = insert(r.m_pRcvBuffer, Pkt(S, i)),
           q.m_iRcvLastAck = r.m_iRcvLastAck,
           RcvNext(q) = IF i < RcvNext(r) THEN RcvNext(r) ELSE i + 1,
           q.m_pRcvLossList =
              IF i < RcvNext(r) THEN r.m_pRcvLossList \ {SeqNoOf(i)}
              ELSE r.m_pRcvLossList
                      \cup {u \in Numbers : RcvNext(r) <= MsgNo(u) /\ MsgNo(u) < i}
    PROVE  /\ ReceiverInv(S, q) /\ Evolves(r, q) /\ DeliveredInv(S, D, q)
           /\ GivenUpIn(S, D, q) = GivenUpIn(S, D, r)
  <1> DEFINE c == r.m_pRcvBuffer
             d == q.m_pRcvBuffer
             isNew == InsertResult(c, Pkt(S, i)) = 0
  <1>1. /\ Solo(S, c) /\ c \in BufferType(S) /\ First(c) \in Int /\ 1 <= First(c)
        /\ capacity \in Nat /\ RcvNext(r) \in Int /\ i \in Int
        /\ First(c) <= RcvNext(r) /\ RcvNext(r) <= First(c) + capacity
        /\ r.m_pRcvLossList = Lost(r) /\ Covered(r, MsgNo(r.m_iRcvLastAck))
    <2>1. i \in Int
      BY DEF Streams
    <2> QED
      BY <2>1, RcvFacts, Sizes
  <1>2. First(c) <= i /\ i < First(c) + capacity /\ i - First(c) \in 0..capacity
    BY <1>1
  <1>3. /\ Solo(S, d) /\ First(d) = First(c)
        /\ \A k \in 0..capacity :
              EntryOf(d, k) = IF isNew /\ k = i - First(c) THEN Avail(Pkt(S, i))
                              ELSE EntryOf(c, k)
    BY <1>1, InsertEffect
  <1>4. isNew <=> EntryOf(c, i - First(c)).status = "Empty"
    <2>1. i - First(c) >= 0 /\ i - First(c) < capacity
      BY <1>1, <1>2
    <2> QED
      BY <1>1, <2>1, InsertResultValue
  <1>5. \A k \in 0..capacity : First(c) + k >= RcvNext(r) => EntryOf(c, k).status = "Empty"
    BY DEF ReceiverInv, NothingBeyond
  <1>6. /\ q.m_pRcvBuffer = d /\ q.m_iRcvLastAck = r.m_iRcvLastAck
        /\ RcvNext(q) = IF i < RcvNext(r) THEN RcvNext(r) ELSE i + 1
        /\ q.m_pRcvLossList =
              IF i < RcvNext(r) THEN r.m_pRcvLossList \ {SeqNoOf(i)}
              ELSE r.m_pRcvLossList
                      \cup {u \in Numbers : RcvNext(r) <= MsgNo(u) /\ MsgNo(u) < i}
    OBVIOUS
  <1>7. Avail(Pkt(S, i)).status = "Avail"
    BY DEF Avail
  <1> HIDE DEF c, d, isNew
  <1>8. \A k \in 0..capacity :
           /\ EntryOf(d, k).status = "Empty" <=>
                 EntryOf(c, k).status = "Empty" /\ First(c) + k # i
           /\ EntryOf(d, k).status = "Drop" <=> EntryOf(c, k).status = "Drop"
           /\ EntryOf(d, k).status = "Read" <=> EntryOf(c, k).status = "Read"
    <2> SUFFICES ASSUME NEW k \in 0..capacity
                 PROVE  /\ EntryOf(d, k).status = "Empty" <=>
                              EntryOf(c, k).status = "Empty" /\ First(c) + k # i
                        /\ EntryOf(d, k).status = "Drop" <=> EntryOf(c, k).status = "Drop"
                        /\ EntryOf(d, k).status = "Read" <=> EntryOf(c, k).status = "Read"
      OBVIOUS
    <2>1. k \in Int /\ (k = i - First(c) <=> First(c) + k = i)
      BY <1>1
    <2>2. CASE k = i - First(c)
      BY <1>3, <1>4, <1>7, <2>1, <2>2
    <2>3. CASE k # i - First(c)
      BY <1>3, <2>1, <2>3
    <2> QED
      BY <2>2, <2>3
  <1>9. \A j \in First(c)..(First(c) + capacity) :
           /\ StatusOf(d, j) = "Empty" <=> StatusOf(c, j) = "Empty" /\ j # i
           /\ StatusOf(d, j) = "Drop" <=> StatusOf(c, j) = "Drop"
           /\ StatusOf(d, j) = "Read" <=> StatusOf(c, j) = "Read"
           /\ j >= RcvNext(r) => StatusOf(c, j) = "Empty"
    <2> SUFFICES ASSUME NEW j \in First(c)..(First(c) + capacity)
                 PROVE  /\ StatusOf(d, j) = "Empty" <=> StatusOf(c, j) = "Empty" /\ j # i
                        /\ StatusOf(d, j) = "Drop" <=> StatusOf(c, j) = "Drop"
                        /\ StatusOf(d, j) = "Read" <=> StatusOf(c, j) = "Read"
                        /\ j >= RcvNext(r) => StatusOf(c, j) = "Empty"
      OBVIOUS
    <2>1. j - First(c) \in 0..capacity /\ First(c) + (j - First(c)) = j
      BY <1>1
    <2>2. StatusOf(d, j) = EntryOf(d, j - First(c)).status
          /\ StatusOf(c, j) = EntryOf(c, j - First(c)).status
      BY <1>3 DEF StatusOf
    <2> QED
      BY <1>5, <1>8, <2>1, <2>2
  <1>10. RcvNext(q) \in Int /\ RcvNext(r) <= RcvNext(q) /\ i < RcvNext(q)
         /\ RcvNext(q) <= First(c) + capacity /\ First(c) <= RcvNext(q)
    BY <1>1, <1>2, <1>6
  <1>11. NothingBeyond(q)
    <2>1. RcvNext(q) \in First(d)..(First(d) + capacity)
      BY <1>1, <1>3, <1>10
    <2>2. ASSUME NEW k \in 0..capacity, First(d) + k >= RcvNext(q)
          PROVE  EntryOf(d, k).status = "Empty"
      <3>1. First(c) + k >= RcvNext(r) /\ First(c) + k # i
        BY <1>1, <1>3, <1>10, <2>2
      <3> QED
        BY <1>5, <1>8, <3>1
    <2> QED
      BY <2>1, <2>2 DEF NothingBeyond, d
  <1>12. Lost(q) = q.m_pRcvLossList
    <2>1. ASSUME NEW s \in Numbers PROVE s \in Lost(q) <=> s \in q.m_pRcvLossList
      <3> DEFINE j == MsgNo(s)
      <3>1. j \in Int /\ i \in Index /\ (s = SeqNoOf(i) <=> j = i)
        <4>1. i \in Index
          BY Sizes DEF Streams, Index
        <4>2. SeqNoOf(i) \in Numbers /\ MsgNo(SeqNoOf(i)) = i
          BY <4>1, NumberValue
        <4> QED
          BY <4>1, <4>2, NumberOf, NumberOrder
      <3>2. s \in Lost(q) <=> j \in First(c)..(RcvNext(q) - 1) /\ StatusOf(d, j) = "Empty"
        BY <1>3 DEF Lost, d
      <3>3. s \in Lost(r) <=> j \in First(c)..(RcvNext(r) - 1) /\ StatusOf(c, j) = "Empty"
        BY DEF Lost, c
      <3>4. s \in q.m_pRcvLossList <=>
               IF i < RcvNext(r) THEN s \in Lost(r) /\ j # i
               ELSE s \in Lost(r) \/ (RcvNext(r) <= j /\ j < i)
        BY <1>1, <1>6, <3>1
      <3>5. j \in First(c)..(RcvNext(q) - 1) => j \in First(c)..(First(c) + capacity)
        BY <1>1, <1>10, <3>1
      <3> HIDE DEF j
      <3>6. CASE i < RcvNext(r)
        BY <1>1, <1>6, <1>9, <3>1, <3>2, <3>3, <3>4, <3>5, <3>6
      <3>7. CASE ~(i < RcvNext(r))
        <4>1. RcvNext(q) = i + 1
          BY <1>6, <3>7
        <4>2. CASE j \in First(c)..(RcvNext(r) - 1)
          BY <1>1, <1>9, <1>10, <3>1, <3>2, <3>3, <3>4, <3>5, <3>7, <4>2
        <4>3. CASE RcvNext(r) <= j /\ j <= i
          BY <1>1, <1>9, <1>10, <3>1, <3>2, <3>3, <3>4, <3>5, <3>7, <4>1, <4>3
        <4>4. CASE j < First(c) \/ i < j
          BY <1>1, <1>2, <1>10, <3>1, <3>2, <3>3, <3>4, <3>7, <4>1, <4>4
        <4> QED
          BY <1>1, <3>1, <4>2, <4>3, <4>4
      <3> QED
        BY <3>6, <3>7
    <2>2. Lost(q) \subseteq Numbers /\ Lost(r) \subseteq Numbers
      BY DEF Lost
    <2>3. q.m_pRcvLossList \subseteq Numbers
      BY <1>1, <1>6, <2>2
    <2> QED
      BY <2>1, <2>2, <2>3
  <1>13. Evolves(r, q)
    <2>1. ASSUME NEW j \in First(d)..(RcvNext(r) - 1), StatusOf(c, j) # "Empty"
          PROVE  StatusOf(d, j) # "Empty"
      <3>1. j \in First(c)..(First(c) + capacity)
        BY <1>1, <1>3, <2>1
      <3> QED
        BY <1>9, <2>1, <3>1
    <2> QED
      BY <1>1, <1>3, <1>10, <2>1 DEF Evolves, c, d
  <1>14. Covered(q, MsgNo(q.m_iRcvLastAck))
    <2>1. First(q.m_pRcvBuffer) = First(r.m_pRcvBuffer)
      BY <1>3 DEF c, d
    <2>2. Covered(r, MsgNo(q.m_iRcvLastAck))
      BY <1>1, <1>6
    <2> QED
      BY <1>1, <1>10, <1>13, <2>1, <2>2 DEF Covered, Evolves
  <1>15. ReceiverInv(S, q)
    BY <1>3, <1>6, <1>11, <1>12, <1>14 DEF ReceiverInv
  <1>16. /\ D \in Seq(DOMAIN S)
         /\ \A j \in Range(D) : /\ j \in DOMAIN S /\ j \in Int
                                /\ \/ j < First(c)
                                   \/ j < RcvNext(r) /\ StatusOf(c, j) \in {"Read", "Drop"}
         /\ \A j \in First(c)..(RcvNext(r) - 1) : StatusOf(c, j) = "Read" => j \in Range(D)
    <2>1. D \in Seq(DOMAIN S)
      BY DEF DeliveredInv
    <2>2. \A j \in Range(D) : j \in DOMAIN S
      BY <2>1 DEF Range
    <2>3. \A j \in DOMAIN S : j \in Int
      BY DEF Streams
    <2> QED
      BY <2>1, <2>2, <2>3 DEF DeliveredInv, c
  <1>17. ASSUME NEW j \in Range(D)
         PROVE  j < First(d) \/ (j < RcvNext(q) /\ StatusOf(d, j) \in {"Read", "Drop"})
    <2>1. CASE ~(j < First(c))
      <3>1. /\ j \in First(c)..(First(c) + capacity) /\ j < RcvNext(q)
            /\ StatusOf(c, j) \in {"Read", "Drop"}
        BY <1>1, <1>10, <1>16, <2>1
      <3> QED
        BY <1>9, <3>1
    <2> QED
      BY <1>3, <2>1
  <1>18. ASSUME NEW j \in First(d)..(RcvNext(q) - 1), StatusOf(d, j) = "Read"
         PROVE  j \in Range(D)
    <2>1. j \in First(c)..(First(c) + capacity) /\ j \in Int
      BY <1>1, <1>3, <1>10
    <2>2. StatusOf(c, j) = "Read" /\ ~(j >= RcvNext(r))
      BY <1>9, <1>18, <2>1
    <2>3. j \in First(c)..(RcvNext(r) - 1)
      BY <1>1, <2>1, <2>2
    <2> QED
      BY <1>16, <2>2, <2>3
  <1>19. DeliveredInv(S, D, q)
    BY <1>16, <1>17, <1>18 DEF DeliveredInv, d
  <1>20. ASSUME NEW j \in DOMAIN S
         PROVE  j \in GivenUpIn(S, D, q) <=> j \in GivenUpIn(S, D, r)
    <2>1. j \in Int
      BY DEF Streams
    <2>2. /\ j \in GivenUpIn(S, D, q) <=>
                /\ j \notin Range(D)
                /\ j < First(c) \/ (j < RcvNext(q) /\ StatusOf(d, j) = "Drop")
          /\ j \in GivenUpIn(S, D, r) <=>
                /\ j \notin Range(D)
                /\ j < First(c) \/ (j < RcvNext(r) /\ StatusOf(c, j) = "Drop")
      BY <1>3 DEF GivenUpIn, c, d
    <2>3. CASE j \in First(c)..(First(c) + capacity)
      <3>1. j >= RcvNext(r) => StatusOf(c, j) # "Drop"
        BY <1>9, <2>3
      <3> QED
        BY <1>1, <1>9, <1>10, <2>1, <2>2, <2>3, <3>1
    <2>4. CASE j < First(c)
      BY <2>2, <2>4
    <2>5. CASE j > First(c) + capacity
      BY <1>1, <1>10, <2>1, <2>2, <2>5
    <2> QED
      BY <1>1, <2>1, <2>3, <2>4, <2>5
  <1>21. GivenUpIn(S, D, q) = GivenUpIn(S, D, r)
    BY <1>20 DEF GivenUpIn
  <1> QED
    BY <1>13, <1>15, <1>19, <1>21

\* The record of fresh losses and the tolerance may be anything of their type.
LEMMA FreshOn ==
    ASSUME NEW S \in Streams, NEW D, NEW r, NEW q, ReceiverInv(S, q), Evolves(r, q),
           DeliveredInv(S, D, q), GivenUpIn(S, D, q) = GivenUpIn(S, D, r),
           NEW p, p \in RcvRecord(S, RcvNext(q)), p.m_pRcvBuffer = q.m_pRcvBuffer,
           p.m_iRcvCurrSeqNo = q.m_iRcvCurrSeqNo, p.m_iRcvLastAck = q.m_iRcvLastAck,
           p.m_pRcvLossList = q.m_pRcvLossList
    PROVE  /\ ReceiverInv(S, p) /\ Evolves(r, p) /\ DeliveredInv(S, D, p)
           /\ GivenUpIn(S, D, p) = GivenUpIn(S, D, r) /\ RcvNext(p) = RcvNext(q)
  <1>1. q \in RcvRecord(S, RcvNext(q)) /\ q.m_pRcvLossList = Lost(q)
    BY DEF ReceiverInv
  <1>2. /\ p \in RcvRecord(S, RcvNext(q)) /\ p.m_pRcvBuffer = q.m_pRcvBuffer
        /\ p.m_iRcvCurrSeqNo = q.m_iRcvCurrSeqNo /\ p.m_iRcvLastAck = q.m_iRcvLastAck
        /\ p.m_pRcvLossList = q.m_pRcvLossList
    OBVIOUS
  <1>3. RcvNext(p) = RcvNext(q)
    BY <1>2 DEF RcvNext
  <1>4. Lost(p) = Lost(q)
    BY <1>2, <1>3 DEF Lost
  <1>5. Solo(S, q.m_pRcvBuffer) /\ NothingBeyond(q) /\ Covered(q, MsgNo(q.m_iRcvLastAck))
    BY DEF ReceiverInv
  <1>6. NothingBeyond(p) /\ Covered(p, MsgNo(p.m_iRcvLastAck))
    BY <1>2, <1>3, <1>5 DEF NothingBeyond, Covered
  <1>7. ReceiverInv(S, p)
    BY <1>1, <1>2, <1>3, <1>4, <1>5, <1>6 DEF ReceiverInv
  <1>8. Evolves(r, p)
    BY <1>2, <1>3 DEF Evolves
  <1>9. DeliveredInv(S, D, p)
    BY <1>2, <1>3 DEF DeliveredInv
  <1>10. GivenUpIn(S, D, p) = GivenUpIn(S, D, r)
    BY <1>2, <1>3 DEF GivenUpIn
  <1> QED
    BY <1>3, <1>7, <1>8, <1>9, <1>10

\* Received, of any state of the receiver
AfterData(r, pkt, rexmit) ==
    LET curr   == r.m_iRcvCurrSeqNo
        gap    == [lo |-> incseq(curr), hi |-> decseq(pkt.seqno),
                   ttl |-> r.m_iReorderTolerance]
        stored == [r EXCEPT !.m_pRcvBuffer = insert(@, pkt)]
        isNew  == InsertResult(r.m_pRcvBuffer, pkt) = 0
    IN  IF seqcmp(pkt.seqno, curr) <= 0 THEN Unlose(stored, pkt.seqno, rexmit)
        ELSE IF ~isNew \/ seqcmp(pkt.seqno, incseq(curr)) = 0
        THEN [stored EXCEPT !.m_iRcvCurrSeqNo = pkt.seqno]
        ELSE [stored EXCEPT !.m_iRcvCurrSeqNo = pkt.seqno,
                            !.m_pRcvLossList = @ \cup Between(gap.lo, gap.hi),
                            !.m_FreshLoss = IF gap.ttl = 0 THEN @ ELSE Append(@, gap)]

\* handleSocketPacketReception: the packet is stored or was there, and what was
\* jumped over is recorded as lost.
LEMMA ReceiverGetsData ==
    ASSUME NEW S \in Streams, NEW r, ReceiverInv(S, r), NEW D, DeliveredInv(S, D, r),
           NEW i \in DOMAIN S, First(r.m_pRcvBuffer) <= i,
           i < First(r.m_pRcvBuffer) + capacity, NEW rexmit \in BOOLEAN
    PROVE  LET q == AfterData(r, Pkt(S, i), rexmit)
           IN  /\ ReceiverInv(S, q) /\ Evolves(r, q) /\ DeliveredInv(S, D, q)
               /\ GivenUpIn(S, D, q) = GivenUpIn(S, D, r)
               /\ RcvNext(q) = IF i < RcvNext(r) THEN RcvNext(r) ELSE i + 1
  <1> DEFINE c == r.m_pRcvBuffer
             d == insert(c, Pkt(S, i))
             seqno == SeqNoOf(i)
             curr == r.m_iRcvCurrSeqNo
             next == incseq(curr)
             ttl == r.m_iReorderTolerance
             gap == [lo |-> next, hi |-> decseq(seqno), ttl |-> ttl]
             stored == [r EXCEPT !.m_pRcvBuffer = d]
             isNew == InsertResult(c, Pkt(S, i)) = 0
             q == AfterData(r, Pkt(S, i), rexmit)
  <1>1. /\ Solo(S, c) /\ First(c) \in Int /\ 1 <= First(c)
        /\ capacity \in Nat /\ RcvNext(r) \in Int /\ i \in Int
        /\ First(c) <= RcvNext(r) /\ RcvNext(r) <= First(c) + capacity
        /\ next \in Numbers /\ curr = decseq(next) /\ MsgNo(next) = RcvNext(r)
        /\ r.m_FreshLoss \in Seq(RangesUpTo(RcvNext(r)))
        /\ ttl \in 0..iMaxReorderTolerance /\ iMaxReorderTolerance \in Nat
        /\ r.m_pRcvLossList \in SUBSET Numbers
    <2>1. i \in Int
      BY DEF Streams
    <2>2. MsgNo(next) = RcvNext(r)
      BY DEF RcvNext
    <2> QED
      BY <2>1, <2>2, RcvFacts, Sizes
  <1>2. r \in RcvRecord(S, RcvNext(r))
    BY DEF ReceiverInv
  <1>3. /\ i \in Index /\ 1 <= i /\ i <= MaxMsgs /\ MaxMsgs \in Int
        /\ Pkt(S, i).seqno = seqno /\ seqno \in Numbers /\ MsgNo(seqno) = i
        /\ seqno \in SeqNo
    <2>1. i \in Index /\ 1 <= i /\ i <= MaxMsgs /\ MaxMsgs \in Int
      BY Sizes DEF Streams, Index
    <2> QED
      BY <2>1, NumberValue DEF Pkt
  <1>4. /\ seqcmp(seqno, curr) <= 0 <=> i < RcvNext(r)
        /\ abs(seqcmp(curr, seqno)) \in Nat
    BY <1>1, <1>3, NewestOrder
  <1>5. d \in BufferType(S)
    <2>1. Solo(S, d)
      BY <1>1, InsertEffect
    <2> QED
      BY <2>1 DEF Solo
  <1>6. stored \in [m_pRcvBuffer        : BufferType(S),
                    m_iRcvCurrSeqNo     : {decseq(s) : s \in Numbers},
                    m_iRcvLastAck       : Numbers,
                    m_iRcvLastAckAck    : SeqNo,
                    m_bBufferWasFull    : BOOLEAN,
                    m_pRcvLossList      : SUBSET Numbers,
                    m_FreshLoss         : Seq(RangesUpTo(RcvNext(r))),
                    m_iReorderTolerance : 0..iMaxReorderTolerance]
        /\ stored.m_pRcvBuffer = d /\ stored.m_iRcvCurrSeqNo = curr
        /\ stored.m_iRcvLastAck = r.m_iRcvLastAck /\ stored.m_pRcvLossList = r.m_pRcvLossList
        /\ stored.m_FreshLoss = r.m_FreshLoss /\ stored.m_iReorderTolerance = ttl
    <2> HIDE DEF d
    <2> QED
      BY <1>2, <1>5 DEF RcvRecord
  <1>7. q = IF seqcmp(seqno, curr) <= 0 THEN Unlose(stored, seqno, rexmit)
            ELSE IF ~isNew \/ seqcmp(seqno, next) = 0
            THEN [stored EXCEPT !.m_iRcvCurrSeqNo = seqno]
            ELSE [stored EXCEPT
                     !.m_iRcvCurrSeqNo = seqno,
                     !.m_pRcvLossList = r.m_pRcvLossList \cup Between(next, decseq(seqno)),
                     !.m_FreshLoss = IF ttl = 0 THEN r.m_FreshLoss
                                     ELSE Append(r.m_FreshLoss, gap)]
    <2>1. q = IF seqcmp(seqno, curr) <= 0 THEN Unlose(stored, seqno, rexmit)
              ELSE IF ~isNew \/ seqcmp(seqno, next) = 0
              THEN [stored EXCEPT !.m_iRcvCurrSeqNo = seqno]
              ELSE [stored EXCEPT
                       !.m_iRcvCurrSeqNo = seqno,
                       !.m_pRcvLossList = @ \cup Between(next, decseq(seqno)),
                       !.m_FreshLoss = IF ttl = 0 THEN @ ELSE Append(@, gap)]
      BY <1>3 DEF AfterData
    <2> HIDE DEF stored, q, curr, next, isNew, ttl
    <2> QED
      BY <1>6, <2>1
  <1> HIDE DEF q, stored, d, seqno, curr, next, isNew
  <1>8. CASE i < RcvNext(r)
    <2> DEFINE seqdiff == abs(seqcmp(curr, seqno))
               grown == IF ~rexmit /\ seqdiff > ttl
                        THEN Min({seqdiff, iMaxReorderTolerance}) ELSE ttl
               fresh == IF grown = 0 THEN r.m_FreshLoss ELSE RemoveOne(r.m_FreshLoss, seqno)
    <2>1. q = [stored EXCEPT !.m_pRcvLossList = r.m_pRcvLossList \ {seqno},
                             !.m_iReorderTolerance = grown,
                             !.m_FreshLoss = fresh]
      BY <1>4, <1>6, <1>7, <1>8 DEF Unlose
    <2>2. grown \in 0..iMaxReorderTolerance
      <3>1. seqdiff \in Nat
        BY <1>4
      <3> HIDE DEF seqdiff
      <3>2. Min({seqdiff, iMaxReorderTolerance}) =
                IF seqdiff <= iMaxReorderTolerance THEN seqdiff ELSE iMaxReorderTolerance
        BY <1>1, <3>1, MinOfTwo
      <3> QED
        BY <1>1, <3>1, <3>2
    <2>3. fresh \in Seq(RangesUpTo(RcvNext(r)))
      BY <1>1, <1>3, RemoveOneRanges
    <2> HIDE DEF grown, fresh
    <2>4. /\ q \in RcvRecord(S, RcvNext(r)) /\ q.m_pRcvBuffer = d
          /\ q.m_iRcvCurrSeqNo = r.m_iRcvCurrSeqNo /\ q.m_iRcvLastAck = r.m_iRcvLastAck
          /\ q.m_pRcvLossList = r.m_pRcvLossList \ {seqno}
      BY <1>1, <1>6, <2>1, <2>2, <2>3 DEF RcvRecord, curr
    <2>5. RcvNext(q) = RcvNext(r)
      BY <2>4 DEF RcvNext
    <2>6. /\ q.m_pRcvBuffer = insert(r.m_pRcvBuffer, Pkt(S, i))
          /\ q.m_pRcvLossList = r.m_pRcvLossList \ {SeqNoOf(i)}
          /\ q \in RcvRecord(S, RcvNext(q))
      BY <2>4, <2>5 DEF d, seqno
    <2>7. /\ RcvNext(q) = IF i < RcvNext(r) THEN RcvNext(r) ELSE i + 1
          /\ q.m_pRcvLossList =
                IF i < RcvNext(r) THEN r.m_pRcvLossList \ {SeqNoOf(i)}
                ELSE r.m_pRcvLossList
                        \cup {u \in Numbers : RcvNext(r) <= MsgNo(u) /\ MsgNo(u) < i}
      BY <1>8, <2>5, <2>6
    <2>8. /\ ReceiverInv(S, q) /\ Evolves(r, q) /\ DeliveredInv(S, D, q)
          /\ GivenUpIn(S, D, q) = GivenUpIn(S, D, r)
      BY <2>4, <2>6, <2>7, ReceiverStores
    <2> QED
      BY <2>7, <2>8 DEF q
  <1>9. CASE ~(i < RcvNext(r))
    <2> DEFINE missed == {u \in Numbers : RcvNext(r) <= MsgNo(u) /\ MsgNo(u) < i}
               fresh == IF ttl = 0 THEN r.m_FreshLoss ELSE Append(r.m_FreshLoss, gap)
    <2>1. ~(seqcmp(seqno, curr) <= 0)
      BY <1>4, <1>9
    <2>2. isNew
      <3>1. i - First(c) >= 0 /\ i - First(c) < capacity /\ i - First(c) \in 0..capacity
        BY <1>1
      <3>2. EntryOf(c, i - First(c)).status = "Empty"
        <4>1. First(c) + (i - First(c)) >= RcvNext(r)
          BY <1>1, <1>9
        <4> QED
          BY <3>1, <4>1 DEF ReceiverInv, NothingBeyond
      <3> QED
        BY <1>1, <3>1, <3>2, InsertResultValue DEF isNew
    <2>3. Between(next, decseq(seqno)) = missed
      <3>1. MsgNo(next) <= MsgNo(seqno)
        BY <1>1, <1>3, <1>9
      <3> QED
        BY <1>1, <1>3, <3>1, BetweenNumbers
    <2>4. seqcmp(seqno, next) = 0 <=> i = RcvNext(r)
      BY <1>1, <1>3, NumberOrder
    <2>5. ASSUME i # RcvNext(r)
          PROVE  gap \in RangesUpTo(i + 1)
      <3>1. decseq(seqno) \in Numbers /\ MsgNo(decseq(seqno)) = i - 1
        BY <1>1, <1>3, <1>9, <2>5, NumberSteps
      <3>2. gap.lo = next /\ gap.hi = decseq(seqno)
            /\ gap \in [lo : Numbers, hi : Numbers, ttl : Int]
        BY <1>1, <3>1
      <3>3. MsgNo(gap.lo) <= MsgNo(gap.hi) /\ MsgNo(gap.hi) < i + 1
        <4> HIDE DEF gap
        <4> QED
          BY <1>1, <1>9, <2>5, <3>1, <3>2
      <3> HIDE DEF gap
      <3> QED
        BY <3>2, <3>3 DEF RangesUpTo
    <2>6. r.m_FreshLoss \in Seq(RangesUpTo(i + 1))
      BY <1>1, <1>9, RangesOn
    <2>7. seqno \in {decseq(s) : s \in Numbers} /\ incseq(seqno) \in Numbers
          /\ MsgNo(incseq(seqno)) = i + 1
      <3>1. incseq(seqno) \in Numbers /\ MsgNo(incseq(seqno)) = i + 1
            /\ decseq(incseq(seqno)) = seqno
        BY <1>3, NumberSteps
      <3> QED
        BY <3>1
    <2>8. /\ q \in RcvRecord(S, i + 1) /\ q.m_pRcvBuffer = d
          /\ q.m_iRcvCurrSeqNo = seqno /\ q.m_iRcvLastAck = r.m_iRcvLastAck
          /\ q.m_pRcvLossList = r.m_pRcvLossList \cup missed
      <3> HIDE DEF gap
      <3>1. CASE i = RcvNext(r)
        <4>1. q = [stored EXCEPT !.m_iRcvCurrSeqNo = seqno]
          BY <1>7, <2>1, <2>4, <3>1
        <4>2. missed = {}
          <5>1. \A u \in Numbers : MsgNo(u) \in Int
            BY NumberOf
          <5> QED
            BY <1>1, <3>1, <5>1
        <4> HIDE DEF missed
        <4>3. q.m_pRcvLossList = r.m_pRcvLossList
          BY <1>6, <4>1
        <4> QED
          BY <1>6, <2>6, <2>7, <4>1, <4>2, <4>3 DEF RcvRecord
      <3>2. CASE i # RcvNext(r)
        <4>1. q = [stored EXCEPT !.m_iRcvCurrSeqNo = seqno,
                                 !.m_pRcvLossList = r.m_pRcvLossList \cup missed,
                                 !.m_FreshLoss = fresh]
          BY <1>7, <2>1, <2>2, <2>3, <2>4, <3>2
        <4>2. fresh \in Seq(RangesUpTo(i + 1))
          <5>1. gap \in RangesUpTo(i + 1)
            BY <2>5, <3>2
          <5> DEFINE A == RangesUpTo(i + 1)
                     f == r.m_FreshLoss
          <5>2. gap \in A /\ f \in Seq(A)
            BY <2>6, <5>1
          <5> HIDE DEF A, f, ttl
          <5>3. Append(f, gap) \in Seq(A)
            BY <5>2
          <5> QED
            BY <5>2, <5>3 DEF A, f
        <4>3. r.m_pRcvLossList \cup missed \in SUBSET Numbers
          BY <1>1
        <4> HIDE DEF fresh, missed
        <4> QED
          BY <1>6, <2>7, <4>1, <4>2, <4>3 DEF RcvRecord
      <3> QED
        BY <3>1, <3>2
    <2>9. RcvNext(q) = i + 1
      BY <2>7, <2>8 DEF RcvNext
    <2>10. /\ q.m_pRcvBuffer = insert(r.m_pRcvBuffer, Pkt(S, i))
           /\ q \in RcvRecord(S, RcvNext(q)) /\ q.m_iRcvLastAck = r.m_iRcvLastAck
      BY <2>8, <2>9 DEF d
    <2>11. /\ RcvNext(q) = IF i < RcvNext(r) THEN RcvNext(r) ELSE i + 1
           /\ q.m_pRcvLossList =
                 IF i < RcvNext(r) THEN r.m_pRcvLossList \ {SeqNoOf(i)}
                 ELSE r.m_pRcvLossList
                         \cup {u \in Numbers : RcvNext(r) <= MsgNo(u) /\ MsgNo(u) < i}
      BY <1>9, <2>8, <2>9
    <2>12. /\ ReceiverInv(S, q) /\ Evolves(r, q) /\ DeliveredInv(S, D, q)
           /\ GivenUpIn(S, D, q) = GivenUpIn(S, D, r)
      BY <2>10, <2>11, ReceiverStores
    <2> QED
      BY <2>11, <2>12 DEF q
  <1> QED
    BY <1>8, <1>9

\* The sender's part holds on, when the receiver has not got more than was sent.
LEMMA SenderOn ==
    ASSUME NEW S, NEW r, ReceiverInv(S, r), NEW q, ReceiverInv(S, q), Evolves(r, q),
           NEW s, SenderInv(S, s, r), RcvNext(q) <= SndNext(s)
    PROVE  SenderInv(S, s, q)
  <1>1. /\ First(r.m_pRcvBuffer) \in Int /\ First(q.m_pRcvBuffer) \in Int
        /\ RcvNext(r) \in Int /\ RcvNext(q) \in Int
        /\ First(r.m_pRcvBuffer) <= First(q.m_pRcvBuffer) /\ RcvNext(r) <= RcvNext(q)
    BY RcvFacts DEF Evolves
  <1>2. /\ SndNext(s) \in Int /\ s.m_iSndLastAck \in Numbers
        /\ s.m_iFlowWindowSize \in Int /\ s.m_pSndLossList \in SUBSET Numbers
        /\ MsgNo(s.m_iSndLastAck) \in Int /\ capacity \in Nat /\ m_szSize \in Nat
    BY SndFacts, NumberOf, Sizes
  <1>3. SndNext(s) \in RcvNext(q)..(Len(S) + 1)
    BY <1>1, <1>2 DEF SenderInv
  <1>4. Covered(q, MsgNo(s.m_iSndLastAck)) /\ Covered(q, MsgNo(s.m_iSndLastDataAck))
    BY CoveredOn DEF SenderInv
  <1>5. ASSUME NEW n \in s.m_pSndLossList PROVE MsgNo(n) < RcvNext(q)
    <2>1. MsgNo(n) < RcvNext(r) /\ MsgNo(n) \in Int
      BY <1>2, NumberOf DEF SenderInv
    <2> QED
      BY <1>1, <2>1
  <1>6. RoomTaken(s, q)
    <2> DEFINE a == First(r.m_pRcvBuffer)
               b == First(q.m_pRcvBuffer)
               x == MsgNo(s.m_iSndLastAck)
               w == s.m_iFlowWindowSize
    <2>1. x - 1 + w <= IF m_szSize >= a - 1 + capacity THEN m_szSize ELSE a - 1 + capacity
      BY DEF SenderInv, RoomTaken
    <2>2. a \in Int /\ b \in Int /\ a <= b /\ x \in Int /\ w \in Int
      BY <1>1, <1>2
    <2> HIDE DEF a, b, x, w
    <2>3. x - 1 + w <= IF m_szSize >= b - 1 + capacity THEN m_szSize ELSE b - 1 + capacity
      BY <1>2, <2>1, <2>2
    <2> QED
      BY <2>3 DEF RoomTaken, b, x, w
  <1> QED
    BY <1>3, <1>4, <1>5, <1>6 DEF SenderInv

\* Every receiver follows itself.
LEMMA EvolvesNot ==
    ASSUME NEW S, NEW r, ReceiverInv(S, r)
    PROVE  Evolves(r, r) /\ ExtendedTo(S, S)
  BY RcvFacts DEF Evolves, ExtendedTo

\* A step keeps the invariant if its parts, and the packets it sends, do.
LEMMA PartsKept ==
    ASSUME TransferInv, sent' \in Streams, ExtendedTo(sent, sent'),
           tooOld \subseteq tooOld', tooOld' \subseteq DOMAIN sent',
           ReceiverInv(sent', rcv'), Evolves(rcv, rcv'),
           SenderInv(sent', snd', rcv'), SndNext(snd) <= SndNext(snd'),
           DeliveredInv(sent', delivered', rcv'),
           \A m \in net' \ net : PacketInv(sent', tooOld', snd', rcv', m)
    PROVE  TransferInv'
  <1>1. ASSUME NEW m \in net' PROVE PacketInv(sent', tooOld', snd', rcv', m)
    <2>1. CASE m \in net
      <3>1. /\ sent \in Streams /\ ReceiverInv(sent, rcv) /\ SenderInv(sent, snd, rcv)
            /\ PacketInv(sent, tooOld, snd, rcv, m)
        BY <2>1 DEF TransferInv
      <3> QED
        BY <3>1, PacketOn
    <2>2. CASE m \notin net
      BY <1>1, <2>2
    <2> QED
      BY <2>1, <2>2
  <1>2. (\A m \in net : PacketInv(sent, tooOld, snd, rcv, m))'
    BY <1>1
  <1> QED
    BY <1>2 DEF TransferInv

\* The same for a step of the receiver.
LEMMA ReceiverPartsKept ==
    ASSUME TransferInv, UNCHANGED <<sent, tooOld, snd>>,
           ReceiverInv(sent, rcv'), Evolves(rcv, rcv'), RcvNext(rcv') <= SndNext(snd),
           DeliveredInv(sent, delivered', rcv'),
           \A m \in net' \ net : PacketInv(sent, tooOld, snd, rcv', m)
    PROVE  TransferInv'
  <1>1. /\ sent \in Streams /\ tooOld \subseteq DOMAIN sent
        /\ ReceiverInv(sent, rcv) /\ SenderInv(sent, snd, rcv)
    BY DEF TransferInv
  <1>2. SenderInv(sent, snd, rcv')
    BY <1>1, SenderOn
  <1>3. SndNext(snd) \in Int /\ SndNext(snd) <= SndNext(snd) /\ ExtendedTo(sent, sent)
    <2>1. SndNext(snd) \in Int
      BY <1>1, SndFacts
    <2>2. ExtendedTo(sent, sent)
      BY <1>1, EvolvesNot
    <2> QED
      BY <2>1, <2>2
  <1>4. sent' = sent /\ tooOld' = tooOld /\ snd' = snd
    OBVIOUS
  <1>5. SndNext(snd) <= SndNext(snd')
    BY <1>3, <1>4
  <1>6. /\ sent' \in Streams /\ ExtendedTo(sent, sent')
        /\ tooOld \subseteq tooOld' /\ tooOld' \subseteq DOMAIN sent'
        /\ ReceiverInv(sent', rcv') /\ SenderInv(sent', snd', rcv')
        /\ DeliveredInv(sent', delivered', rcv')
        /\ \A m \in net' \ net : PacketInv(sent', tooOld', snd', rcv', m)
    BY <1>1, <1>2, <1>3, <1>4
  <1> QED
    BY <1>5, <1>6, PartsKept

\* And for one of the sender.
LEMMA SenderPartsKept ==
    ASSUME TransferInv, UNCHANGED <<sent, tooOld, rcv, delivered>>,
           SenderInv(sent, snd', rcv), SndNext(snd) <= SndNext(snd'),
           \A m \in net' \ net : PacketInv(sent, tooOld, snd', rcv, m)
    PROVE  TransferInv'
  <1>1. /\ sent \in Streams /\ tooOld \subseteq DOMAIN sent
        /\ ReceiverInv(sent, rcv) /\ DeliveredInv(sent, delivered, rcv)
    BY DEF TransferInv
  <1>2. Evolves(rcv, rcv) /\ ExtendedTo(sent, sent)
    BY <1>1, EvolvesNot
  <1>3. sent' = sent /\ tooOld' = tooOld /\ rcv' = rcv /\ delivered' = delivered
    OBVIOUS
  <1>4. /\ sent' \in Streams /\ ExtendedTo(sent, sent')
        /\ tooOld \subseteq tooOld' /\ tooOld' \subseteq DOMAIN sent'
        /\ ReceiverInv(sent', rcv') /\ Evolves(rcv, rcv') /\ SenderInv(sent', snd', rcv')
        /\ DeliveredInv(sent', delivered', rcv')
        /\ \A m \in net' \ net : PacketInv(sent', tooOld', snd', rcv', m)
    BY <1>1, <1>2, <1>3
  <1> QED
    BY <1>4, PartsKept

\* What is reported lost was missed by the receiver.
LEMMA RangesAreGood ==
    ASSUME NEW S, NEW r, ReceiverInv(S, r), NEW L, L \subseteq r.m_pRcvLossList, NEW g \in Ranges(L)
    PROVE  GoodRange(r, g)
  <1>1. g.lo \in L /\ g.hi \in L /\ seqcmp(g.lo, g.hi) <= 0
    BY DEF Ranges
  <1>2. g.lo \in Numbers /\ g.hi \in Numbers /\ g.hi \in Lost(r)
    BY <1>1, RcvFacts
  <1>3. MsgNo(g.lo) <= MsgNo(g.hi)
    BY <1>1, <1>2, NumberOrder
  <1>4. MsgNo(g.hi) < RcvNext(r)
    <2>1. MsgNo(g.hi) \in First(r.m_pRcvBuffer)..(RcvNext(r) - 1)
      BY <1>2 DEF Lost
    <2>2. RcvNext(r) \in Int /\ First(r.m_pRcvBuffer) \in Int
      BY RcvFacts
    <2> QED
      BY <2>1, <2>2
  <1> QED
    BY <1>2, <1>3, <1>4 DEF GoodRange

\* The fresh losses that are due and those that wait, as processData parts them
nDueOf(fresh) == Max({k \in 0..Len(fresh) : \A j \in 1..k : fresh[j].ttl <= 0})
DueOf(fresh, ttl) == IF ttl = 0 THEN <<>> ELSE SubSeq(fresh, 1, nDueOf(fresh))
WaitingOf(fresh, ttl) ==
    [i \in 1..(Len(fresh) - Len(DueOf(fresh, ttl))) |->
        LET f == fresh[Len(DueOf(fresh, ttl)) + i]
        IN  IF ttl = 0 THEN f ELSE [f EXCEPT !.ttl = @ - 1]]

\* The records that are due and those that wait are records of fresh losses.
LEMMA FreshParted ==
    ASSUME NEW n \in Int, NEW fresh \in Seq(RangesUpTo(n)), NEW ttl
    PROVE  /\ \A i \in DOMAIN DueOf(fresh, ttl) : DueOf(fresh, ttl)[i] \in RangesUpTo(n)
           /\ WaitingOf(fresh, ttl) \in Seq(RangesUpTo(n))
  <1> DEFINE due == DueOf(fresh, ttl)
             m == nDueOf(fresh)
             ks == {k \in 0..Len(fresh) : \A j \in 1..k : fresh[j].ttl <= 0}
             waiting == WaitingOf(fresh, ttl)
  <1>1. Len(fresh) \in Nat /\ DOMAIN fresh = 1..Len(fresh)
    OBVIOUS
  <1>2. m \in 0..Len(fresh)
    <2>1. ks \in SUBSET Int /\ Len(fresh) \in Int /\ \A k \in ks : k <= Len(fresh)
      BY <1>1
    <2>2. 0 \in ks
      BY <1>1
    <2> HIDE DEF ks
    <2>3. ks # {}
      BY <2>2
    <2>4. Max(ks) \in ks
      BY <2>1, <2>3, GreatestInt
    <2> QED
      BY <2>4 DEF nDueOf, ks
  <1>3. due \in Seq(RangesUpTo(n)) /\ Len(due) \in 0..Len(fresh)
    <2>1. CASE ttl = 0
      BY <1>1, <2>1 DEF DueOf
    <2>2. CASE ttl # 0
      <3>1. due = SubSeq(fresh, 1, m)
        BY <2>2 DEF DueOf
      <3> HIDE DEF m, due
      <3> QED
        BY <1>1, <1>2, <3>1
    <2> QED
      BY <2>1, <2>2
  <1> HIDE DEF due, m
  <1>4. \A i \in DOMAIN due : due[i] \in RangesUpTo(n)
    BY <1>3
  <1>5. waiting = [i \in 1..(Len(fresh) - Len(due)) |->
                      IF ttl = 0 THEN fresh[Len(due) + i]
                      ELSE [fresh[Len(due) + i] EXCEPT !.ttl = @ - 1]]
    BY DEF WaitingOf, due
  <1>6. Len(fresh) - Len(due) \in Nat
    BY <1>1, <1>3
  <1>7. ASSUME NEW i \in 1..(Len(fresh) - Len(due))
        PROVE  waiting[i] \in RangesUpTo(n)
    <2> DEFINE f == fresh[Len(due) + i]
    <2>1. Len(due) + i \in 1..Len(fresh)
      BY <1>1, <1>3
    <2>2. f \in RangesUpTo(n)
      BY <1>1, <2>1
    <2>3. waiting[i] = IF ttl = 0 THEN f ELSE [f EXCEPT !.ttl = @ - 1]
      BY <1>5
    <2> HIDE DEF f, waiting
    <2>4. [f EXCEPT !.ttl = @ - 1] \in RangesUpTo(n)
      <3> DEFINE y == [f EXCEPT !.ttl = @ - 1]
      <3>1. f \in [lo : Numbers, hi : Numbers, ttl : Int] /\ MsgNo(f.lo) <= MsgNo(f.hi)
            /\ MsgNo(f.hi) < n
        BY <2>2 DEF RangesUpTo
      <3>2. y \in [lo : Numbers, hi : Numbers, ttl : Int] /\ y.lo = f.lo /\ y.hi = f.hi
        BY <3>1
      <3> HIDE DEF y
      <3>3. y \in RangesUpTo(n)
        BY <3>1, <3>2 DEF RangesUpTo
      <3> QED
        BY <3>3 DEF y
    <2> QED
      BY <2>2, <2>3, <2>4
  <1>8. waiting \in Seq(RangesUpTo(n))
    <2>1. DOMAIN waiting = 1..(Len(fresh) - Len(due))
      BY <1>5
    <2>2. waiting = [i \in 1..(Len(fresh) - Len(due)) |-> waiting[i]]
      BY <1>5
    <2> HIDE DEF waiting
    <2> QED
      BY <1>6, <1>7, <2>1, <2>2
  <1> QED
    BY <1>4, <1>8 DEF due, waiting

\* One lemma for each action: it keeps the invariant, and what it changes of the
\* set of messages that are given up.
LEMMA ProcessDataKeeps ==
    ASSUME TransferInv, NEW m \in net, ProcessData(m),
           UNCHANGED <<sent, tooOld, snd, delivered, losses>>
    PROVE  TransferInv' /\ GivenUpIn(sent, delivered, rcv') = GivenUpIn(sent, delivered, rcv)
  <1> DEFINE S == sent
             c == rcv.m_pRcvBuffer
             ttl == rcv.m_iReorderTolerance
             offset == seqoff(c.m_iStartSeqNo, m.pkt.seqno)
             isNew == InsertResult(c, m.pkt) = 0
             r == Received(m.pkt, m.rexmit)
             atOnce == IF ttl = 0 THEN Ranges(r.m_pRcvLossList \ rcv.m_pRcvLossList) ELSE {}
             due == DueOf(r.m_FreshLoss, ttl)
             waiting == WaitingOf(r.m_FreshLoss, ttl)
             report == atOnce \cup {[lo |-> due[i].lo, hi |-> due[i].hi] : i \in DOMAIN due}
             out == \/ offset < 0 \/ seqcmp(m.pkt.seqno, rcv.m_iRcvLastAck) < 0
                    \/ offset >= capacity
  <1>1. /\ m.type = "DATA"
        /\ IF out THEN UNCHANGED rcv /\ Answer(m, {})
           ELSE IF ~isNew THEN rcv' = r /\ Answer(m, {})
           ELSE /\ \E lower \in 0..(IF r.m_iReorderTolerance > 0 THEN 1 ELSE 0) :
                      rcv' = [r EXCEPT !.m_FreshLoss = waiting,
                                       !.m_iReorderTolerance = @ - lower]
                /\ Answer(m, IF report = {} THEN {} ELSE {LossReport(report)})
    BY DEF ProcessData, DueOf, WaitingOf, nDueOf
  <1>2. /\ S \in Streams /\ ReceiverInv(S, rcv) /\ SenderInv(S, snd, rcv)
        /\ DeliveredInv(S, delivered, rcv) /\ PacketInv(S, tooOld, snd, rcv, m)
    BY DEF TransferInv
  <1>3. PICK i \in 1..(SndNext(snd) - 1) : m.pkt = Pkt(S, i) /\ m.rexmit \in BOOLEAN
    BY <1>1, <1>2 DEF PacketInv
  <1>4. SndNext(snd) \in Int /\ RcvNext(rcv) \in Int /\ RcvNext(rcv) <= SndNext(snd)
        /\ SndNext(snd) <= Len(S) + 1 /\ First(c) \in Int
    <2>1. SndNext(snd) \in Int /\ RcvNext(rcv) \in Int /\ First(c) \in Int
      BY <1>2, SndFacts, RcvFacts
    <2>2. Len(S) \in Nat
      BY <1>2 DEF Streams
    <2> QED
      BY <1>2, <2>1, <2>2 DEF SenderInv
  <1>5. i \in DOMAIN S /\ i \in Int /\ i + 1 <= SndNext(snd)
    <2>1. Len(S) \in Nat /\ DOMAIN S = 1..Len(S)
      BY <1>2 DEF Streams
    <2> QED
      BY <1>3, <1>4, <2>1
  <1>6. offset = i - First(c)
    BY <1>2, <1>3, <1>5, RcvFacts, InsertResultValue
  <1>7. r = AfterData(rcv, Pkt(S, i), m.rexmit)
    BY <1>3 DEF Received, AfterData
  <1> HIDE DEF r, isNew, S, c, atOnce, due, waiting
  <1>8. CASE out
    <2>1. UNCHANGED rcv /\ Answer(m, {})
      BY <1>1, <1>8
    <2>2. net' \ net = {}
      BY <2>1 DEF Answer
    <2>3. ReceiverInv(S, rcv') /\ Evolves(rcv, rcv') /\ RcvNext(rcv') <= SndNext(snd)
          /\ DeliveredInv(S, delivered', rcv')
      BY <1>2, <1>4, <2>1, EvolvesNot
    <2> QED
      BY <2>1, <2>2, <2>3, ReceiverPartsKept DEF S
  <1>9. CASE ~out
    <2>1. First(c) <= i /\ i < First(c) + capacity
      <3>1. ~(offset < 0) /\ ~(offset >= capacity)
        BY <1>9
      <3> HIDE DEF offset
      <3> QED
        BY <1>4, <1>5, <1>6, <3>1, Sizes
    <2>2. /\ ReceiverInv(S, r) /\ Evolves(rcv, r) /\ DeliveredInv(S, delivered, r)
          /\ GivenUpIn(S, delivered, r) = GivenUpIn(S, delivered, rcv)
          /\ RcvNext(r) = IF i < RcvNext(rcv) THEN RcvNext(rcv) ELSE i + 1
      BY <1>2, <1>3, <1>5, <1>7, <2>1, ReceiverGetsData DEF c
    <2>3. RcvNext(r) <= SndNext(snd)
      BY <1>4, <1>5, <2>2
    <2>4. CASE ~isNew
      <3>1. rcv' = r /\ Answer(m, {})
        BY <1>1, <1>9, <2>4
      <3>2. net' \ net = {}
        BY <3>1 DEF Answer
      <3> QED
        BY <2>2, <2>3, <3>1, <3>2, ReceiverPartsKept DEF S
    <2>5. CASE isNew
      <3>1. /\ \E lower \in 0..(IF r.m_iReorderTolerance > 0 THEN 1 ELSE 0) :
                  rcv' = [r EXCEPT !.m_FreshLoss = waiting,
                                   !.m_iReorderTolerance = @ - lower]
            /\ Answer(m, IF report = {} THEN {} ELSE {LossReport(report)})
        BY <1>1, <1>9, <2>5
      <3>2. PICK lower \in 0..(IF r.m_iReorderTolerance > 0 THEN 1 ELSE 0) :
                  rcv' = [r EXCEPT !.m_FreshLoss = waiting,
                                   !.m_iReorderTolerance = @ - lower]
        BY <3>1
      <3>3. r.m_iReorderTolerance \in 0..iMaxReorderTolerance
            /\ r.m_FreshLoss \in Seq(RangesUpTo(RcvNext(r))) /\ RcvNext(r) \in Int
        BY <2>2, RcvFacts
      <3>4. r.m_iReorderTolerance - lower \in 0..iMaxReorderTolerance
        <4> DEFINE tolerance == r.m_iReorderTolerance
        <4>1. tolerance \in 0..iMaxReorderTolerance /\ iMaxReorderTolerance \in Nat
          BY <3>3, Sizes
        <4>2. lower \in 0..(IF tolerance > 0 THEN 1 ELSE 0)
          OBVIOUS
        <4> HIDE DEF tolerance
        <4>3. tolerance - lower \in 0..iMaxReorderTolerance
          BY <4>1, <4>2
        <4> QED
          BY <4>3 DEF tolerance
      <3>5. waiting \in Seq(RangesUpTo(RcvNext(r)))
            /\ \A j \in DOMAIN due : due[j] \in RangesUpTo(RcvNext(r))
        BY <3>3, FreshParted DEF waiting, due
      <3>6. rcv' = [r EXCEPT !.m_FreshLoss = waiting,
                             !.m_iReorderTolerance = r.m_iReorderTolerance - lower]
        BY <3>2
      <3>7. /\ ReceiverInv(S, rcv') /\ Evolves(rcv, rcv') /\ DeliveredInv(S, delivered, rcv')
            /\ GivenUpIn(S, delivered, rcv') = GivenUpIn(S, delivered, rcv)
            /\ RcvNext(rcv') = RcvNext(r)
        <4> DEFINE tolerance == r.m_iReorderTolerance - lower
                   q == [r EXCEPT !.m_FreshLoss = waiting, !.m_iReorderTolerance = tolerance]
        <4>1. /\ r \in RcvRecord(S, RcvNext(r)) /\ tolerance \in 0..iMaxReorderTolerance
              /\ waiting \in Seq(RangesUpTo(RcvNext(r)))
          BY <2>2, <3>4, <3>5 DEF ReceiverInv
        <4>2. rcv' = q
          BY <3>6
        <4> HIDE DEF tolerance
        <4>3. /\ q \in RcvRecord(S, RcvNext(r)) /\ q.m_pRcvBuffer = r.m_pRcvBuffer
              /\ q.m_iRcvCurrSeqNo = r.m_iRcvCurrSeqNo /\ q.m_iRcvLastAck = r.m_iRcvLastAck
              /\ q.m_pRcvLossList = r.m_pRcvLossList
          BY <4>1 DEF RcvRecord
        <4> HIDE DEF q
        <4>4. /\ ReceiverInv(S, q) /\ Evolves(rcv, q) /\ DeliveredInv(S, delivered, q)
              /\ GivenUpIn(S, delivered, q) = GivenUpIn(S, delivered, rcv)
              /\ RcvNext(q) = RcvNext(r)
          BY <1>2, <2>2, <4>3, FreshOn
        <4> QED
          BY <4>2, <4>4
      <3>9. ASSUME NEW g \in report PROVE GoodRange(rcv', g)
        <4>1. CASE g \in atOnce
          <5>1. g \in Ranges(r.m_pRcvLossList \ rcv.m_pRcvLossList)
            BY <4>1 DEF atOnce
          <5>2. GoodRange(r, g)
            BY <2>2, <5>1, RangesAreGood
          <5> QED
            BY <3>7, <5>2 DEF GoodRange
        <4>2. CASE g \notin atOnce
          <5>1. PICK j \in DOMAIN due : g = [lo |-> due[j].lo, hi |-> due[j].hi]
            BY <3>9, <4>2
          <5>2. due[j] \in RangesUpTo(RcvNext(r))
            BY <3>5
          <5>3. g.lo = due[j].lo /\ g.hi = due[j].hi
            BY <5>1
          <5> HIDE DEF due
          <5> QED
            BY <3>7, <5>2, <5>3 DEF GoodRange, RangesUpTo
        <4> QED
          BY <4>1, <4>2
      <3> HIDE DEF report
      <3>10. ASSUME NEW p \in net' \ net PROVE PacketInv(S, tooOld, snd, rcv', p)
        <4>1. p = LossReport(report)
          BY <3>1, <3>10 DEF Answer
        <4>2. p.type = "LOSSREPORT" /\ p.ranges = report
          BY <4>1 DEF LossReport
        <4> QED
          BY <3>9, <4>2 DEF PacketInv, Types
      <3> QED
        BY <2>3, <3>7, <3>10, ReceiverPartsKept DEF S
    <2> QED
      BY <2>4, <2>5
  <1> QED
    BY <1>8, <1>9

LEMMA ProcessDropReqKeeps ==
    ASSUME TransferInv, NEW m \in net, ProcessDropReq(m),
           UNCHANGED <<sent, tooOld, snd, delivered, losses>>
    PROVE  /\ TransferInv'
           /\ GivenUpIn(sent, delivered, rcv) \subseteq GivenUpIn(sent, delivered, rcv')
           /\ GivenUpIn(sent, delivered, rcv') \ GivenUpIn(sent, delivered, rcv) \subseteq tooOld
  <1>1. /\ m.type = "DROPREQ" /\ rcv' = AfterDropReq(rcv, m) /\ Answer(m, {})
    BY DEF ProcessDropReq, AfterDropReq
  <1>2. /\ sent \in Streams /\ ReceiverInv(sent, rcv) /\ SenderInv(sent, snd, rcv)
        /\ DeliveredInv(sent, delivered, rcv) /\ PacketInv(sent, tooOld, snd, rcv, m)
    BY DEF TransferInv
  <1>3. /\ GoodRange(rcv, m) /\ m.msgno \in Int
        /\ \A i \in MsgNo(m.lo)..MsgNo(m.hi) : i \in tooOld \/ Covered(rcv, i + 1)
    BY <1>1, <1>2 DEF PacketInv
  <1>4. /\ ReceiverInv(sent, rcv') /\ Evolves(rcv, rcv') /\ DeliveredInv(sent, delivered, rcv')
        /\ RcvNext(rcv') = RcvNext(rcv)
        /\ GivenUpIn(sent, delivered, rcv) \subseteq GivenUpIn(sent, delivered, rcv')
        /\ GivenUpIn(sent, delivered, rcv') \ GivenUpIn(sent, delivered, rcv) \subseteq tooOld
    BY <1>1, <1>2, <1>3, ReceiverDrops
  <1>5. RcvNext(rcv') <= SndNext(snd)
    BY <1>2, <1>4, RcvFacts, SndFacts DEF SenderInv
  <1>6. net' \ net = {}
    BY <1>1 DEF Answer
  <1>7. DeliveredInv(sent, delivered', rcv')
    BY <1>4
  <1> QED
    BY <1>4, <1>5, <1>6, <1>7, ReceiverPartsKept

LEMMA ReceiveMessageKeeps ==
    ASSUME TransferInv, ReceiveMessage
    PROVE  /\ TransferInv'
           /\ \E m \in DOMAIN sent :
                 /\ delivered' = Append(delivered, m)
                 /\ m \notin Range(delivered) /\ m \notin GivenUpIn(sent, delivered, rcv)
                 /\ sent[m] => \A i \in 1..(m - 1) :
                                  i \in Range(delivered) \cup GivenUpIn(sent, delivered, rcv)
                 /\ GivenUpIn(sent, delivered', rcv') = GivenUpIn(sent, delivered, rcv)
  <1> DEFINE c == rcv.m_pRcvBuffer
             q == [rcv EXCEPT !.m_pRcvBuffer = readMessage(c)]
  <1>1. /\ isRcvDataReady(c) /\ rcv' = q
        /\ \E pkt \in MessageRead(c) : delivered' = Append(delivered, pkt.msgno)
        /\ UNCHANGED <<sent, tooOld, snd, net, losses>>
    BY DEF ReceiveMessage
  <1>2. /\ sent \in Streams /\ ReceiverInv(sent, rcv) /\ SenderInv(sent, snd, rcv)
        /\ DeliveredInv(sent, delivered, rcv)
    BY DEF TransferInv
  <1>3. /\ ReceiverInv(sent, q) /\ Evolves(rcv, q) /\ RcvNext(q) = RcvNext(rcv)
        /\ \E m \in DOMAIN sent :
              /\ MessageRead(c) = {Pkt(sent, m)}
              /\ m \notin Range(delivered) /\ m \notin GivenUpIn(sent, delivered, rcv)
              /\ sent[m] => \A i \in 1..(m - 1) :
                               i \in Range(delivered) \cup GivenUpIn(sent, delivered, rcv)
              /\ DeliveredInv(sent, Append(delivered, m), q)
              /\ GivenUpIn(sent, Append(delivered, m), q) = GivenUpIn(sent, delivered, rcv)
    BY <1>1, <1>2, ReceiverReads
  <1>4. PICK m \in DOMAIN sent :
              /\ MessageRead(c) = {Pkt(sent, m)}
              /\ m \notin Range(delivered) /\ m \notin GivenUpIn(sent, delivered, rcv)
              /\ sent[m] => \A i \in 1..(m - 1) :
                               i \in Range(delivered) \cup GivenUpIn(sent, delivered, rcv)
              /\ DeliveredInv(sent, Append(delivered, m), q)
              /\ GivenUpIn(sent, Append(delivered, m), q) = GivenUpIn(sent, delivered, rcv)
    BY <1>3
  <1> HIDE DEF q, c
  <1>5. Pkt(sent, m).msgno = m
    BY DEF Pkt
  <1>6. delivered' = Append(delivered, m)
    BY <1>1, <1>4, <1>5
  <1>7. RcvNext(rcv') <= SndNext(snd)
    BY <1>1, <1>2, <1>3, RcvFacts, SndFacts DEF SenderInv
  <1>8. TransferInv'
    <2>1. ReceiverInv(sent, rcv') /\ Evolves(rcv, rcv') /\ DeliveredInv(sent, delivered', rcv')
      BY <1>1, <1>3, <1>4, <1>6
    <2>2. net' \ net = {}
      BY <1>1
    <2> QED
      BY <1>1, <1>7, <2>1, <2>2, ReceiverPartsKept
  <1>9. GivenUpIn(sent, delivered', rcv') = GivenUpIn(sent, delivered, rcv)
    BY <1>1, <1>4, <1>6
  <1> QED
    BY <1>4, <1>6, <1>8, <1>9

\* So may the fields of the acknowledgements.
LEMMA AckOn ==
    ASSUME NEW S \in Streams, NEW D, NEW r, ReceiverInv(S, r), DeliveredInv(S, D, r),
           NEW q, q \in RcvRecord(S, RcvNext(r)), q.m_pRcvBuffer = r.m_pRcvBuffer,
           q.m_iRcvCurrSeqNo = r.m_iRcvCurrSeqNo, q.m_pRcvLossList = r.m_pRcvLossList,
           Covered(r, MsgNo(q.m_iRcvLastAck))
    PROVE  /\ ReceiverInv(S, q) /\ Evolves(r, q) /\ DeliveredInv(S, D, q)
           /\ GivenUpIn(S, D, q) = GivenUpIn(S, D, r) /\ RcvNext(q) = RcvNext(r)
  <1>1. r.m_pRcvLossList = Lost(r) /\ Solo(S, r.m_pRcvBuffer) /\ NothingBeyond(r)
    BY DEF ReceiverInv
  <1>2. RcvNext(q) = RcvNext(r)
    BY DEF RcvNext
  <1>3. Lost(q) = Lost(r)
    BY <1>2 DEF Lost
  <1>4. NothingBeyond(q) /\ Covered(q, MsgNo(q.m_iRcvLastAck))
    BY <1>1, <1>2 DEF NothingBeyond, Covered
  <1>5. ReceiverInv(S, q)
    BY <1>1, <1>2, <1>3, <1>4 DEF ReceiverInv
  <1>6. Evolves(r, q)
    <2>1. Evolves(r, r)
      BY EvolvesNot
    <2> QED
      BY <1>2, <2>1 DEF Evolves
  <1>7. DeliveredInv(S, D, q)
    BY <1>2 DEF DeliveredInv
  <1>8. GivenUpIn(S, D, q) = GivenUpIn(S, D, r)
    BY <1>2 DEF GivenUpIn
  <1> QED
    BY <1>2, <1>5, <1>6, <1>7, <1>8

LEMMA ProcessAckAckKeeps ==
    ASSUME TransferInv, NEW m \in net, ProcessAckAck(m),
           UNCHANGED <<sent, tooOld, snd, delivered, losses>>
    PROVE  TransferInv' /\ GivenUpIn(sent, delivered, rcv') = GivenUpIn(sent, delivered, rcv)
  <1>1. /\ m.type = "ACKACK" /\ Answer(m, {})
        /\ rcv' = [rcv EXCEPT !.m_iRcvLastAckAck = maxseq(rcv.m_iRcvLastAckAck, m.seqno)]
    BY DEF ProcessAckAck
  <1>2. /\ sent \in Streams /\ ReceiverInv(sent, rcv) /\ SenderInv(sent, snd, rcv)
        /\ DeliveredInv(sent, delivered, rcv) /\ PacketInv(sent, tooOld, snd, rcv, m)
    BY DEF TransferInv
  <1>3. maxseq(rcv.m_iRcvLastAckAck, m.seqno) \in SeqNo
    BY <1>1, <1>2, RcvFacts DEF PacketInv, maxseq
  <1>4. rcv \in RcvRecord(sent, RcvNext(rcv)) /\ Covered(rcv, MsgNo(rcv.m_iRcvLastAck))
    BY <1>2 DEF ReceiverInv
  <1>5. /\ rcv' \in RcvRecord(sent, RcvNext(rcv))
        /\ rcv'.m_pRcvBuffer = rcv.m_pRcvBuffer
        /\ rcv'.m_iRcvCurrSeqNo = rcv.m_iRcvCurrSeqNo
        /\ rcv'.m_pRcvLossList = rcv.m_pRcvLossList
        /\ rcv'.m_iRcvLastAck = rcv.m_iRcvLastAck
    BY <1>1, <1>3, <1>4 DEF RcvRecord
  <1>6. /\ ReceiverInv(sent, rcv') /\ Evolves(rcv, rcv') /\ DeliveredInv(sent, delivered, rcv')
        /\ GivenUpIn(sent, delivered, rcv') = GivenUpIn(sent, delivered, rcv)
        /\ RcvNext(rcv') = RcvNext(rcv)
    BY <1>2, <1>4, <1>5, AckOn
  <1>7. RcvNext(rcv') <= SndNext(snd)
    BY <1>2, <1>6, RcvFacts, SndFacts DEF SenderInv
  <1>8. net' \ net = {} /\ DeliveredInv(sent, delivered', rcv')
    BY <1>1, <1>6 DEF Answer
  <1> QED
    BY <1>6, <1>7, <1>8, ReceiverPartsKept

LEMMA SendAckKeeps ==
    ASSUME TransferInv, SendAck
    PROVE  TransferInv' /\ GivenUpIn(sent, delivered, rcv') = GivenUpIn(sent, delivered, rcv)
  <1> DEFINE ack == FirstMissing(rcv)
             last == maxseq(rcv.m_iRcvLastAck, ack)
             c == rcv.m_pRcvBuffer
             left == getAvailSize(c, last)
  <1>1. /\ \/ /\ rcv' = [rcv EXCEPT !.m_iRcvLastAck = last, !.m_bBufferWasFull = left = 0]
              /\ net' = net \cup {Ack(last, left)}
           \/ rcv' = [rcv EXCEPT !.m_iRcvLastAck = last] /\ UNCHANGED net
        /\ UNCHANGED <<sent, tooOld, snd, delivered, losses>>
    BY DEF SendAck, getFirstNoncontSequence, FirstMissing, RoomAfter
  <1>2. /\ sent \in Streams /\ ReceiverInv(sent, rcv) /\ SenderInv(sent, snd, rcv)
        /\ DeliveredInv(sent, delivered, rcv)
    BY DEF TransferInv
  <1>3. /\ rcv \in RcvRecord(sent, RcvNext(rcv))
        /\ rcv.m_iRcvLastAck \in Numbers /\ Covered(rcv, MsgNo(rcv.m_iRcvLastAck))
        /\ ack \in Numbers /\ Covered(rcv, MsgNo(ack))
    BY <1>2, RcvFacts, UpToFirstMissing DEF ReceiverInv
  <1> HIDE DEF ack
  <1>4. last \in Numbers /\ Covered(rcv, MsgNo(last))
    BY <1>3 DEF maxseq
  <1> HIDE DEF last
  <1>5. left \in Int /\ MsgNo(last) + left <= First(c) + capacity
    <2>1. /\ c.m_iStartSeqNo \in Numbers /\ First(c) \in Int /\ First(c) = MsgNo(c.m_iStartSeqNo)
          /\ MsgNo(last) \in Int /\ capacity \in Nat
      BY <1>2, <1>4, RcvFacts, NumberOf, Sizes DEF First
    <2>2. CASE seqcmp(c.m_iStartSeqNo, last) >= 0
      <3>1. left = capacity
        BY <2>2 DEF getAvailSize
      <3>2. First(c) >= MsgNo(last)
        BY <1>4, <2>1, <2>2, NumberOrder
      <3> QED
        BY <2>1, <3>1, <3>2
    <2>3. CASE ~(seqcmp(c.m_iStartSeqNo, last) >= 0)
      <3>1. left = capacity - seqlen(c.m_iStartSeqNo, last) + 1
        BY <2>3 DEF getAvailSize
      <3>2. First(c) < MsgNo(last)
        <4>1. ~(First(c) >= MsgNo(last))
          BY <1>4, <2>1, <2>3, NumberOrder
        <4> QED
          BY <2>1, <4>1
      <3>3. seqlen(c.m_iStartSeqNo, last) = MsgNo(last) - First(c) + 1
        <4>1. MsgNo(c.m_iStartSeqNo) <= MsgNo(last)
          BY <2>1, <3>2
        <4> QED
          BY <1>4, <2>1, <4>1, NumberOrder
      <3> QED
        BY <2>1, <3>1, <3>3
    <2> QED
      BY <2>2, <2>3
  <1> HIDE DEF left
  <1>6. /\ rcv' \in RcvRecord(sent, RcvNext(rcv))
        /\ rcv'.m_pRcvBuffer = rcv.m_pRcvBuffer
        /\ rcv'.m_iRcvCurrSeqNo = rcv.m_iRcvCurrSeqNo
        /\ rcv'.m_pRcvLossList = rcv.m_pRcvLossList
        /\ rcv'.m_iRcvLastAck = last
    <2>1. (left = 0) \in BOOLEAN
      OBVIOUS
    <2>2. CASE rcv' = [rcv EXCEPT !.m_iRcvLastAck = last, !.m_bBufferWasFull = left = 0]
      BY <1>3, <1>4, <2>2 DEF RcvRecord
    <2>3. CASE rcv' = [rcv EXCEPT !.m_iRcvLastAck = last]
      BY <1>3, <1>4, <2>3 DEF RcvRecord
    <2> QED
      BY <1>1, <2>2, <2>3
  <1>7. Covered(rcv, MsgNo(rcv'.m_iRcvLastAck))
    BY <1>4, <1>6
  <1>8. /\ ReceiverInv(sent, rcv') /\ Evolves(rcv, rcv') /\ DeliveredInv(sent, delivered, rcv')
        /\ GivenUpIn(sent, delivered, rcv') = GivenUpIn(sent, delivered, rcv)
        /\ RcvNext(rcv') = RcvNext(rcv)
    BY <1>2, <1>6, <1>7, AckOn
  <1>9. RcvNext(rcv') <= SndNext(snd)
    BY <1>2, <1>8, RcvFacts, SndFacts DEF SenderInv
  <1>10. ASSUME NEW p \in net' \ net PROVE PacketInv(sent, tooOld, snd, rcv', p)
    <2>1. p = Ack(last, left)
      BY <1>1, <1>10
    <2>2. p.type = "ACK" /\ p.seqno = last /\ p.left = left
      BY <2>1 DEF Ack
    <2>3. First(rcv'.m_pRcvBuffer) = First(c)
      BY <1>6
    <2>4. Covered(rcv', MsgNo(last))
      BY <1>6, <1>8 DEF ReceiverInv
    <2> QED
      BY <1>4, <1>5, <2>2, <2>3, <2>4 DEF PacketInv, Types
  <1>11. DeliveredInv(sent, delivered', rcv')
    BY <1>1, <1>8
  <1> QED
    BY <1>1, <1>8, <1>9, <1>10, <1>11, ReceiverPartsKept

\* What the receiver sends without changing anything itself
LEMMA SendLiteAckKeeps ==
    ASSUME TransferInv, SendLiteAck
    PROVE  TransferInv'
  <1>1. /\ net' = net \cup {LiteAck(FirstMissing(rcv))}
        /\ UNCHANGED <<sent, tooOld, snd, rcv, delivered, losses>>
    BY DEF SendLiteAck, getFirstNoncontSequence, FirstMissing
  <1>2. /\ ReceiverInv(sent, rcv) /\ SenderInv(sent, snd, rcv)
    BY DEF TransferInv
  <1>3. ASSUME NEW p \in net' \ net PROVE PacketInv(sent, tooOld, snd', rcv, p)
    <2>1. p = LiteAck(FirstMissing(rcv))
      BY <1>1, <1>3
    <2>2. p.type = "LITEACK" /\ p.seqno = FirstMissing(rcv)
      BY <2>1 DEF LiteAck
    <2>3. FirstMissing(rcv) \in Numbers /\ Covered(rcv, MsgNo(FirstMissing(rcv)))
      BY <1>2, UpToFirstMissing
    <2> QED
      BY <2>2, <2>3 DEF PacketInv, Types
  <1>4. SndNext(snd) <= SndNext(snd') /\ SenderInv(sent, snd', rcv)
    <2>1. SndNext(snd) \in Int
      BY <1>2, SndFacts
    <2>2. snd' = snd
      BY <1>1
    <2> QED
      BY <1>2, <2>1, <2>2
  <1> QED
    BY <1>1, <1>3, <1>4, SenderPartsKept

LEMMA SendLossReportKeeps ==
    ASSUME TransferInv, SendLossReport
    PROVE  TransferInv'
  <1> DEFINE report == Ranges(rcv.m_pRcvLossList)
  <1>1. /\ net' = net \cup {LossReport(report)}
        /\ UNCHANGED <<sent, tooOld, snd, rcv, delivered, losses>>
    BY DEF SendLossReport
  <1>2. /\ ReceiverInv(sent, rcv) /\ SenderInv(sent, snd, rcv)
    BY DEF TransferInv
  <1>3. \A g \in report : GoodRange(rcv, g)
    BY <1>2, RangesAreGood
  <1> HIDE DEF report
  <1>4. ASSUME NEW p \in net' \ net PROVE PacketInv(sent, tooOld, snd', rcv, p)
    <2>1. p = LossReport(report)
      BY <1>1, <1>4
    <2>2. p.type = "LOSSREPORT" /\ p.ranges = report
      BY <2>1 DEF LossReport
    <2> QED
      BY <1>3, <2>2 DEF PacketInv, Types
  <1>5. SndNext(snd) <= SndNext(snd') /\ SenderInv(sent, snd', rcv)
    <2>1. SndNext(snd) \in Int
      BY <1>2, SndFacts
    <2>2. snd' = snd
      BY <1>1
    <2> QED
      BY <1>2, <2>1, <2>2
  <1> QED
    BY <1>1, <1>4, <1>5, SenderPartsKept

\* What the sender sends is a packet of its stream.
LEMMA DataIsSent ==
    ASSUME NEW s \in Numbers, NEW rexmit
    PROVE  /\ Data(s, rexmit).type = "DATA" /\ Data(s, rexmit).rexmit = rexmit
           /\ Data(s, rexmit).pkt = Pkt(sent, MsgNo(s))
  <1>1. SeqNoOf(MsgNo(s)) = s
    BY NumberOf
  <1> QED
    BY <1>1 DEF Data, Pkt

LEMMA PackUniqueDataKeeps ==
    ASSUME TransferInv, PackUniqueData
    PROVE  TransferInv'
  <1> DEFINE curr == incseq(snd.m_iSndCurrSeqNo)
             last == m_iSndNextSeqNo
             unsent == Between(curr, decseq(last))
             fresh == {s \in unsent : ~TooOld(s)}
             next == CHOOSE s \in fresh : \A t \in fresh : seqcmp(s, t) <= 0
  <1>1. /\ IF fresh = {}
           THEN /\ snd' = [snd EXCEPT !.m_iSndCurrSeqNo = decseq(last)]
                /\ UNCHANGED net
           ELSE /\ snd' = [snd EXCEPT !.m_iSndCurrSeqNo = next]
                /\ net' = net \cup {Data(next, FALSE)}
        /\ UNCHANGED <<sent, tooOld, rcv, delivered, losses>>
    BY DEF PackUniqueData
  <1>2. /\ sent \in Streams /\ ReceiverInv(sent, rcv) /\ SenderInv(sent, snd, rcv)
    BY DEF TransferInv
  <1>3. /\ Len(sent) \in Nat /\ Len(sent) <= MaxMsgs /\ MaxMsgs \in Nat
        /\ SndNext(snd) \in Int /\ 1 <= SndNext(snd) /\ SndNext(snd) <= Len(sent) + 1
        /\ RcvNext(rcv) \in Int /\ RcvNext(rcv) <= SndNext(snd)
        /\ curr \in Numbers /\ MsgNo(curr) = SndNext(snd)
    <2>1. /\ Len(sent) \in Nat /\ Len(sent) <= MaxMsgs /\ MaxMsgs \in Nat
      BY <1>2, Sizes DEF Streams
    <2>2. SndNext(snd) \in Int /\ 1 <= SndNext(snd) /\ RcvNext(rcv) \in Int /\ curr \in Numbers
      BY <1>2, SndFacts, RcvFacts
    <2>3. MsgNo(curr) = SndNext(snd)
      BY DEF SndNext
    <2> HIDE DEF curr
    <2> QED
      BY <1>2, <2>1, <2>2, <2>3 DEF SenderInv
  <1>4. last \in Numbers /\ MsgNo(last) = Len(sent) + 1
    <2>1. Len(sent) + 1 \in Index
      BY <1>3 DEF Index
    <2> QED
      BY <2>1, NumberValue DEF m_iSndNextSeqNo
  <1>5. unsent = {u \in Numbers : SndNext(snd) <= MsgNo(u) /\ MsgNo(u) < Len(sent) + 1}
    <2>1. MsgNo(curr) <= MsgNo(last)
      BY <1>3, <1>4
    <2> HIDE DEF curr, last
    <2> QED
      BY <1>3, <1>4, <2>1, BetweenNumbers
  <1>6. fresh \in SUBSET Numbers
    BY <1>5
  <1> HIDE DEF curr, last, unsent
  <1> DEFINE new == IF fresh = {} THEN decseq(last) ELSE next
  <1>7. snd' = [snd EXCEPT !.m_iSndCurrSeqNo = new]
    BY <1>1
  <1>8. fresh # {} => /\ next \in Numbers /\ MsgNo(next) \in Int
                      /\ SndNext(snd) <= MsgNo(next) /\ MsgNo(next) < Len(sent) + 1
    <2> SUFFICES ASSUME fresh # {}
                 PROVE  /\ next \in Numbers /\ MsgNo(next) \in Int
                        /\ SndNext(snd) <= MsgNo(next) /\ MsgNo(next) < Len(sent) + 1
      OBVIOUS
    <2>1. next \in fresh
      <3> HIDE DEF fresh
      <3> QED
        BY <1>6, Earliest
    <2> HIDE DEF next
    <2> QED
      BY <1>5, <2>1, NumberOf
  <1> HIDE DEF next, fresh
  <1>9. /\ new \in {decseq(n) : n \in Numbers} /\ MsgNo(incseq(new)) \in Int
        /\ SndNext(snd) <= MsgNo(incseq(new)) /\ MsgNo(incseq(new)) <= Len(sent) + 1
        /\ fresh # {} => MsgNo(incseq(new)) = MsgNo(next) + 1
    <2>1. CASE fresh = {}
      <3>1. new = decseq(last) /\ incseq(new) = last
        BY <1>4, <2>1, NumberSteps
      <3> QED
        BY <1>3, <1>4, <2>1, <3>1
    <2>2. CASE fresh # {}
      <3>1. /\ new = next /\ incseq(next) \in Numbers /\ MsgNo(incseq(next)) = MsgNo(next) + 1
            /\ decseq(incseq(next)) = next
        BY <1>3, <1>8, <2>2, NumberSteps
      <3> QED
        BY <1>3, <1>8, <2>2, <3>1
    <2> QED
      BY <2>1, <2>2
  <1> HIDE DEF new
  <1>10. /\ snd' \in SndRecord /\ snd'.m_iSndCurrSeqNo = new
         /\ snd'.m_iSndLastAck = snd.m_iSndLastAck
         /\ snd'.m_iSndLastDataAck = snd.m_iSndLastDataAck
         /\ snd'.m_iFlowWindowSize = snd.m_iFlowWindowSize
         /\ snd'.m_pSndLossList = snd.m_pSndLossList
    BY <1>2, <1>7, <1>9 DEF SenderInv, SndRecord
  <1>11. SndNext(snd') = MsgNo(incseq(new))
    BY <1>10 DEF SndNext
  <1>12. SndNext(snd') \in RcvNext(rcv)..(Len(sent) + 1) /\ SndNext(snd) <= SndNext(snd')
    BY <1>3, <1>9, <1>11
  <1>13. SenderInv(sent, snd', rcv)
    BY <1>2, <1>10, <1>12 DEF SenderInv, RoomTaken
  <1>14. ASSUME NEW p \in net' \ net PROVE PacketInv(sent, tooOld, snd', rcv, p)
    <2>1. fresh # {} /\ p = Data(next, FALSE)
      BY <1>1, <1>14
    <2>2. p.type = "DATA" /\ p.rexmit = FALSE /\ p.pkt = Pkt(sent, MsgNo(next))
      BY <1>8, <2>1, DataIsSent
    <2>3. MsgNo(next) \in 1..(SndNext(snd') - 1)
      BY <1>3, <1>8, <1>9, <1>11, <2>1
    <2> QED
      BY <2>2, <2>3 DEF PacketInv, Types
  <1> QED
    BY <1>1, <1>12, <1>13, <1>14, SenderPartsKept

LEMMA PackLostDataKeeps ==
    ASSUME TransferInv, PackLostData
    PROVE  TransferInv'
  <1> DEFINE lost == snd.m_pSndLossList
             alive == {s \in lost : ~TooOld(s)}
             next == CHOOSE s \in alive : \A t \in alive : seqcmp(s, t) <= 0
             old == {s \in lost : alive = {} \/ seqcmp(s, next) < 0}
             left == IF alive = {} THEN {} ELSE lost \ (old \cup {next})
  <1>1. /\ net' = net \cup {DropReq(s, s, MsgNo(s)) : s \in old}
                      \cup (IF alive = {} THEN {} ELSE {Data(next, TRUE)})
        /\ snd' = [snd EXCEPT !.m_pSndLossList = left]
        /\ UNCHANGED <<sent, tooOld, rcv, delivered, losses>>
    BY DEF PackLostData
  <1>2. /\ sent \in Streams /\ ReceiverInv(sent, rcv) /\ SenderInv(sent, snd, rcv)
    BY DEF TransferInv
  <1>3. /\ lost \in SUBSET Numbers /\ SndNext(snd) \in Int /\ RcvNext(rcv) \in Int
        /\ RcvNext(rcv) <= SndNext(snd)
        /\ \A s \in lost : MsgNo(s) < RcvNext(rcv) /\ MsgNo(s) \in Int /\ 1 <= MsgNo(s)
    <2>1. lost \in SUBSET Numbers /\ SndNext(snd) \in Int /\ RcvNext(rcv) \in Int
      BY <1>2, SndFacts, RcvFacts
    <2>2. RcvNext(rcv) <= SndNext(snd) /\ \A s \in lost : MsgNo(s) < RcvNext(rcv)
      BY <1>2, <2>1 DEF SenderInv
    <2> QED
      BY <2>1, <2>2, NumberOf
  <1> HIDE DEF lost
  <1>4. alive \in SUBSET Numbers
    BY <1>3
  <1>5. alive # {} => next \in alive /\ \A t \in alive : MsgNo(next) <= MsgNo(t)
    <2> HIDE DEF alive
    <2> QED
      BY <1>4, Earliest
  <1> HIDE DEF next
  <1>6. ASSUME NEW s \in old PROVE s \in lost /\ MsgNo(s) \in tooOld
    <2>1. s \in lost /\ (alive = {} \/ seqcmp(s, next) < 0)
      OBVIOUS
    <2>2. CASE alive = {}
      BY <2>1, <2>2 DEF TooOld
    <2>3. CASE alive # {}
      <3>1. seqcmp(s, next) < 0 /\ next \in alive /\ next \in lost
        BY <1>5, <2>1, <2>3
      <3>2. s \in Numbers /\ next \in Numbers /\ MsgNo(s) \in Int /\ MsgNo(next) \in Int
        BY <1>3, <2>1, <3>1
      <3>3. MsgNo(s) < MsgNo(next)
        BY <3>1, <3>2, NumberOrder
      <3>4. s \notin alive
        <4> HIDE DEF alive
        <4> QED
          BY <1>5, <2>3, <3>2, <3>3
      <3> QED
        BY <2>1, <3>4 DEF TooOld
    <2> QED
      BY <2>2, <2>3
  <1>7. alive # {} => next \in lost
    BY <1>5
  <1>8. left \subseteq lost
    OBVIOUS
  <1> HIDE DEF alive, old, left
  <1>9. /\ snd' \in SndRecord /\ snd'.m_iSndCurrSeqNo = snd.m_iSndCurrSeqNo
        /\ snd'.m_iSndLastAck = snd.m_iSndLastAck
        /\ snd'.m_iSndLastDataAck = snd.m_iSndLastDataAck
        /\ snd'.m_iFlowWindowSize = snd.m_iFlowWindowSize
        /\ snd'.m_pSndLossList = left
    BY <1>1, <1>2, <1>3, <1>8 DEF SenderInv, SndRecord
  <1>10. SndNext(snd') = SndNext(snd)
    BY <1>9 DEF SndNext
  <1>11. \A n \in snd'.m_pSndLossList : MsgNo(n) < RcvNext(rcv)
    BY <1>3, <1>8, <1>9
  <1>12. SenderInv(sent, snd', rcv)
    BY <1>2, <1>9, <1>10, <1>11 DEF SenderInv, RoomTaken
  <1>13. ASSUME NEW p \in net' \ net PROVE PacketInv(sent, tooOld, snd', rcv, p)
    <2>1. CASE \E s \in old : p = DropReq(s, s, MsgNo(s))
      <3>1. PICK s \in old : p = DropReq(s, s, MsgNo(s))
        BY <2>1
      <3>2. p.type = "DROPREQ" /\ p.lo = s /\ p.hi = s /\ p.msgno = MsgNo(s)
        BY <3>1 DEF DropReq
      <3>3. /\ s \in Numbers /\ MsgNo(s) < RcvNext(rcv) /\ MsgNo(s) \in Int
            /\ MsgNo(s) \in tooOld
        BY <1>3, <1>6
      <3>4. GoodRange(rcv, p)
        BY <3>2, <3>3 DEF GoodRange
      <3>5. \A i \in MsgNo(p.lo)..MsgNo(p.hi) : i \in tooOld
        BY <3>2, <3>3
      <3> QED
        BY <3>2, <3>3, <3>4, <3>5 DEF PacketInv, Types
    <2>2. CASE ~ \E s \in old : p = DropReq(s, s, MsgNo(s))
      <3>1. alive # {} /\ p = Data(next, TRUE)
        BY <1>1, <1>13, <2>2
      <3>2. next \in lost /\ next \in Numbers
        BY <1>3, <1>7, <3>1
      <3>3. p.type = "DATA" /\ p.rexmit = TRUE /\ p.pkt = Pkt(sent, MsgNo(next))
        BY <3>1, <3>2, DataIsSent
      <3>4. MsgNo(next) \in 1..(SndNext(snd') - 1)
        BY <1>3, <1>10, <3>2
      <3> QED
        BY <3>3, <3>4 DEF PacketInv, Types
    <2> QED
      BY <2>1, <2>2
  <1>14. SndNext(snd) <= SndNext(snd')
    BY <1>3, <1>10
  <1> QED
    BY <1>1, <1>12, <1>13, <1>14, SenderPartsKept

\* updateSndLossListOnACK: what the receiver has is acknowledged.
LEMMA AcknowledgedKeeps ==
    ASSUME NEW S, ReceiverInv(S, rcv), SenderInv(S, snd, rcv),
           NEW ack \in Numbers, Covered(rcv, MsgNo(ack))
    PROVE  LET s == Acknowledged(ack)
           IN  /\ s \in SndRecord /\ SenderInv(S, s, rcv)
               /\ s.m_iSndCurrSeqNo = snd.m_iSndCurrSeqNo
               /\ s.m_iSndLastAck = snd.m_iSndLastAck
               /\ s.m_iFlowWindowSize = snd.m_iFlowWindowSize
               /\ s.m_bBroken = FALSE
  <1> DEFINE s == Acknowledged(ack)
             left == {n \in snd.m_pSndLossList : seqcmp(n, ack) >= 0}
  <1>1. snd \in SndRecord
    BY DEF SenderInv
  <1>2. CASE seqoff(snd.m_iSndLastDataAck, ack) <= 0
    <2>1. s = snd
      BY <1>2 DEF Acknowledged
    <2> QED
      BY <1>1, <2>1, SndFacts
  <1>3. CASE ~(seqoff(snd.m_iSndLastDataAck, ack) <= 0)
    <2>1. s = [snd EXCEPT !.m_iSndLastDataAck = ack, !.m_pSndLossList = left]
      BY <1>3 DEF Acknowledged
    <2>2. left \in SUBSET Numbers /\ left \subseteq snd.m_pSndLossList
      BY <1>1 DEF SndRecord
    <2> HIDE DEF s, left
    <2>3. /\ s \in SndRecord /\ s.m_iSndCurrSeqNo = snd.m_iSndCurrSeqNo
          /\ s.m_iSndLastAck = snd.m_iSndLastAck
          /\ s.m_iFlowWindowSize = snd.m_iFlowWindowSize
          /\ s.m_bBroken = FALSE
          /\ s.m_pSndLossList = left /\ s.m_iSndLastDataAck = ack
      BY <1>1, <2>1, <2>2 DEF SndRecord
    <2>4. SndNext(s) = SndNext(snd)
      BY <2>3 DEF SndNext
    <2>5. SenderInv(S, s, rcv)
      BY <2>2, <2>3, <2>4 DEF SenderInv, RoomTaken
    <2> QED
      BY <2>3, <2>5 DEF s
  <1> QED
    BY <1>2, <1>3

\* An acknowledgement of what the receiver has, with the room it may announce.
LEMMA AckOfSender ==
    ASSUME NEW S, ReceiverInv(S, rcv), SenderInv(S, snd, rcv),
           NEW ack \in Numbers, Covered(rcv, MsgNo(ack)), NEW window \in Int,
           LET most == First(rcv.m_pRcvBuffer) - 1 + capacity
           IN  MsgNo(ack) - 1 + window <= IF m_szSize >= most THEN m_szSize ELSE most,
           NEW s, s = [Acknowledged(ack) EXCEPT !.m_iFlowWindowSize = window,
                                                !.m_iSndLastAck = ack]
    PROVE  SenderInv(S, s, rcv) /\ SndNext(s) = SndNext(snd)
  <1> DEFINE a == Acknowledged(ack)
  <1>1. /\ a \in SndRecord /\ SenderInv(S, a, rcv)
        /\ a.m_iSndCurrSeqNo = snd.m_iSndCurrSeqNo
    BY AcknowledgedKeeps
  <1>2. s = [a EXCEPT !.m_iFlowWindowSize = window, !.m_iSndLastAck = ack]
    OBVIOUS
  <1> HIDE DEF a
  <1>3. /\ s \in SndRecord /\ s.m_iSndCurrSeqNo = a.m_iSndCurrSeqNo
        /\ s.m_iSndLastAck = ack /\ s.m_iFlowWindowSize = window
        /\ s.m_iSndLastDataAck = a.m_iSndLastDataAck
        /\ s.m_pSndLossList = a.m_pSndLossList
    BY <1>1, <1>2 DEF SndRecord
  <1>4. SndNext(s) = SndNext(a) /\ SndNext(s) = SndNext(snd)
    BY <1>1, <1>3 DEF SndNext
  <1>5. RoomTaken(s, rcv)
    BY <1>3 DEF RoomTaken
  <1> QED
    BY <1>1, <1>3, <1>4, <1>5 DEF SenderInv

LEMMA ProcessLiteAckKeeps ==
    ASSUME TransferInv, NEW m \in net, ProcessLiteAck(m),
           UNCHANGED <<sent, tooOld, rcv, delivered, losses>>
    PROVE  TransferInv'
  <1> DEFINE ack == m.seqno
             window == snd.m_iFlowWindowSize - seqoff(snd.m_iSndLastAck, ack)
             a == Acknowledged(ack)
  <1>1. /\ m.type = "LITEACK" /\ Answer(m, {})
        /\ snd' = IF seqcmp(ack, snd.m_iSndLastAck) < 0 THEN a
                  ELSE [a EXCEPT
                           !.m_iFlowWindowSize = @ - seqoff(snd.m_iSndLastAck, ack),
                           !.m_iSndLastAck = ack]
    BY DEF ProcessLiteAck
  <1>2. /\ ReceiverInv(sent, rcv) /\ SenderInv(sent, snd, rcv)
        /\ PacketInv(sent, tooOld, snd, rcv, m)
    BY DEF TransferInv
  <1>3. ack \in Numbers /\ Covered(rcv, MsgNo(ack))
    BY <1>1, <1>2 DEF PacketInv
  <1>4. /\ a \in SndRecord /\ SenderInv(sent, a, rcv)
        /\ a.m_iSndCurrSeqNo = snd.m_iSndCurrSeqNo
        /\ a.m_iFlowWindowSize = snd.m_iFlowWindowSize
    BY <1>2, <1>3, AcknowledgedKeeps
  <1>5. SndNext(snd) \in Int
    BY <1>2, SndFacts
  <1> HIDE DEF ack
  <1>6. SenderInv(sent, snd', rcv) /\ SndNext(snd') = SndNext(snd)
    <2>1. CASE seqcmp(ack, snd.m_iSndLastAck) < 0
      <3>1. snd' = a
        BY <1>1, <2>1
      <3> HIDE DEF a
      <3> QED
        BY <1>4, <3>1 DEF SndNext
    <2>2. CASE ~(seqcmp(ack, snd.m_iSndLastAck) < 0)
      <3>1. snd' = [a EXCEPT !.m_iFlowWindowSize = window, !.m_iSndLastAck = ack]
        <4> HIDE DEF a
        <4> QED
          BY <1>1, <1>4, <2>2 DEF SndRecord
      <3>2. /\ MsgNo(snd.m_iSndLastAck) \in Int /\ MsgNo(ack) \in Int
            /\ snd.m_iFlowWindowSize \in Int
            /\ seqoff(snd.m_iSndLastAck, ack) = MsgNo(ack) - MsgNo(snd.m_iSndLastAck)
        BY <1>2, <1>3, SndFacts, NumberOf, NumberOrder
      <3>3. window \in Int
            /\ MsgNo(ack) - 1 + window = MsgNo(snd.m_iSndLastAck) - 1 + snd.m_iFlowWindowSize
        BY <3>2
      <3> HIDE DEF window
      <3>4. LET most == First(rcv.m_pRcvBuffer) - 1 + capacity
            IN  MsgNo(ack) - 1 + window <= IF m_szSize >= most THEN m_szSize ELSE most
        BY <1>2, <3>3 DEF SenderInv, RoomTaken
      <3> QED
        BY <1>2, <1>3, <3>1, <3>3, <3>4, AckOfSender
    <2> QED
      BY <2>1, <2>2
  <1>7. SndNext(snd) <= SndNext(snd')
    BY <1>5, <1>6
  <1>8. net' \ net = {}
    BY <1>1 DEF Answer
  <1> QED
    BY <1>6, <1>7, <1>8, SenderPartsKept

LEMMA ProcessAckKeeps ==
    ASSUME TransferInv, NEW m \in net, ProcessAck(m),
           UNCHANGED <<sent, tooOld, rcv, delivered, losses>>
    PROVE  TransferInv'
  <1> DEFINE ack == m.seqno
             a == Acknowledged(ack)
  <1>1. /\ m.type = "ACK" /\ (Answer(m, {AckAck(ack)}) \/ Answer(m, {}))
        /\ snd' = IF AckIsWrong(ack) THEN [a EXCEPT !.m_bBroken = TRUE]
                  ELSE IF seqcmp(ack, snd.m_iSndLastAck) < 0 THEN a
                  ELSE [a EXCEPT !.m_iFlowWindowSize = m.left, !.m_iSndLastAck = ack]
    BY DEF ProcessAck
  <1>2. /\ ReceiverInv(sent, rcv) /\ SenderInv(sent, snd, rcv)
        /\ PacketInv(sent, tooOld, snd, rcv, m)
    BY DEF TransferInv
  <1>3. /\ ack \in Numbers /\ Covered(rcv, MsgNo(ack)) /\ m.left \in Int
        /\ MsgNo(ack) + m.left <= First(rcv.m_pRcvBuffer) + capacity
    BY <1>1, <1>2 DEF PacketInv
  <1>4. /\ SenderInv(sent, a, rcv) /\ a.m_iSndCurrSeqNo = snd.m_iSndCurrSeqNo
    BY <1>2, <1>3, AcknowledgedKeeps
  <1>5. /\ SndNext(snd) \in Int /\ RcvNext(rcv) \in Int /\ First(rcv.m_pRcvBuffer) \in Int
        /\ MsgNo(ack) \in Int /\ capacity \in Nat /\ m_szSize \in Nat
    BY <1>2, <1>3, SndFacts, RcvFacts, NumberOf, Sizes
  <1> HIDE DEF ack, a
  <1>6. ~AckIsWrong(ack)
    <2>1. incseq(snd.m_iSndCurrSeqNo) \in Numbers
          /\ MsgNo(incseq(snd.m_iSndCurrSeqNo)) = SndNext(snd)
      BY <1>2, SndFacts DEF SndNext
    <2>2. MsgNo(ack) <= SndNext(snd)
      <3>1. MsgNo(ack) \in 1..RcvNext(rcv)
        BY <1>3 DEF Covered
      <3>2. SndNext(snd) \in RcvNext(rcv)..(Len(sent) + 1)
        BY <1>2 DEF SenderInv
      <3> QED
        BY <1>5, <3>1, <3>2
    <2>3. ~(MsgNo(ack) > SndNext(snd))
      BY <1>5, <2>2
    <2> QED
      BY <1>3, <2>1, <2>3, NumberOrder DEF AckIsWrong
  <1>7. SenderInv(sent, snd', rcv) /\ SndNext(snd') = SndNext(snd)
    <2>1. CASE seqcmp(ack, snd.m_iSndLastAck) < 0
      <3>1. snd' = a
        BY <1>1, <1>6, <2>1
      <3> QED
        BY <1>4, <3>1 DEF SndNext
    <2>2. CASE ~(seqcmp(ack, snd.m_iSndLastAck) < 0)
      <3>1. snd' = [Acknowledged(ack) EXCEPT !.m_iFlowWindowSize = m.left,
                                             !.m_iSndLastAck = ack]
        BY <1>1, <1>6, <2>2 DEF a
      <3>2. LET most == First(rcv.m_pRcvBuffer) - 1 + capacity
            IN  MsgNo(ack) - 1 + m.left <= IF m_szSize >= most THEN m_szSize ELSE most
        BY <1>3, <1>5
      <3> QED
        BY <1>2, <1>3, <3>1, <3>2, AckOfSender
    <2> QED
      BY <2>1, <2>2
  <1>8. SndNext(snd) <= SndNext(snd')
    BY <1>5, <1>7
  <1>9. ASSUME NEW p \in net' \ net PROVE PacketInv(sent, tooOld, snd', rcv, p)
    <2>1. p = AckAck(ack)
      BY <1>1, <1>9 DEF Answer
    <2>2. p.type = "ACKACK" /\ p.seqno = ack
      BY <2>1 DEF AckAck
    <2>3. ack \in SeqNo
      BY <1>3, NumberOf
    <2> QED
      BY <2>2, <2>3 DEF PacketInv, Types
  <1> QED
    BY <1>7, <1>8, <1>9, SenderPartsKept

LEMMA ProcessLossReportKeeps ==
    ASSUME TransferInv, NEW m \in net, ProcessLossReport(m),
           UNCHANGED <<sent, tooOld, rcv, delivered, losses>>
    PROVE  TransferInv'
  <1> DEFINE ack == snd.m_iSndLastAck
             reported == UNION {Between(g.lo, g.hi) : g \in m.ranges}
             wrong == {s \in reported : seqcmp(s, snd.m_iSndCurrSeqNo) > 0}
             gone == {g \in m.ranges : seqcmp(g.lo, ack) < 0}
             Upto(g) == IF seqcmp(g.hi, ack) >= 0 THEN decseq(ack) ELSE g.hi
             again == {s \in reported : seqcmp(s, ack) >= 0}
  <1>1. /\ m.type = "LOSSREPORT"
        /\ IF wrong # {}
           THEN /\ snd' = [snd EXCEPT !.m_bBroken = TRUE]
                /\ Answer(m, {})
           ELSE /\ snd' = [snd EXCEPT !.m_pSndLossList = @ \cup again]
                /\ Answer(m, {DropReq(g.lo, Upto(g), 0) : g \in gone})
    BY DEF ProcessLossReport
  <1>2. /\ ReceiverInv(sent, rcv) /\ SenderInv(sent, snd, rcv)
        /\ PacketInv(sent, tooOld, snd, rcv, m)
    BY DEF TransferInv
  <1>3. \A g \in m.ranges : GoodRange(rcv, g)
    BY <1>1, <1>2 DEF PacketInv
  <1>4. /\ SndNext(snd) \in Int /\ RcvNext(rcv) \in Int /\ RcvNext(rcv) <= SndNext(snd)
        /\ SndNext(snd) <= MaxMsgs + 1 /\ MaxMsgs \in Nat
        /\ incseq(snd.m_iSndCurrSeqNo) \in Numbers
        /\ snd.m_iSndCurrSeqNo = decseq(incseq(snd.m_iSndCurrSeqNo))
        /\ ack \in Numbers /\ snd.m_pSndLossList \in SUBSET Numbers
        /\ Covered(rcv, MsgNo(ack)) /\ MsgNo(ack) \in Int
    <2>1. /\ SndNext(snd) \in Int /\ RcvNext(rcv) \in Int
          /\ SndNext(snd) <= MaxMsgs + 1 /\ MaxMsgs \in Nat
          /\ incseq(snd.m_iSndCurrSeqNo) \in Numbers
          /\ snd.m_iSndCurrSeqNo = decseq(incseq(snd.m_iSndCurrSeqNo))
          /\ ack \in Numbers /\ snd.m_pSndLossList \in SUBSET Numbers
      BY <1>2, SndFacts, RcvFacts, Sizes
    <2>2. Covered(rcv, MsgNo(ack)) /\ SndNext(snd) \in RcvNext(rcv)..(Len(sent) + 1)
      BY <1>2 DEF SenderInv
    <2> QED
      BY <2>1, <2>2, NumberOf
  <1> HIDE DEF ack
  <1>5. ASSUME NEW s \in reported PROVE s \in Numbers /\ MsgNo(s) < RcvNext(rcv)
    <2>1. PICK g \in m.ranges : s \in Between(g.lo, g.hi)
      OBVIOUS
    <2>2. /\ g.lo \in Numbers /\ g.hi \in Numbers /\ MsgNo(g.lo) <= MsgNo(g.hi)
          /\ MsgNo(g.hi) < RcvNext(rcv)
      BY <1>3 DEF GoodRange
    <2>3. MsgNo(g.lo) \in Int /\ MsgNo(g.hi) \in Int
      BY <2>2, NumberOf
    <2>4. MsgNo(g.lo) <= MsgNo(g.hi) + 1
      BY <2>2, <2>3
    <2>5. s \in Numbers /\ MsgNo(s) <= MsgNo(g.hi)
      BY <2>1, <2>2, <2>4, BetweenNumbers
    <2>6. MsgNo(s) \in Int
      BY <2>5, NumberOf
    <2> QED
      BY <1>4, <2>2, <2>3, <2>5, <2>6
  <1> HIDE DEF reported
  <1>6. wrong = {}
    <2> SUFFICES ASSUME NEW s \in reported, seqcmp(s, snd.m_iSndCurrSeqNo) > 0 PROVE FALSE
      OBVIOUS
    <2>1. s \in Numbers /\ MsgNo(s) < RcvNext(rcv) /\ MsgNo(s) \in Int
      BY <1>5, NumberOf
    <2>2. MsgNo(s) <= MaxMsgs
      BY <1>4, <2>1
    <2>3. seqcmp(s, decseq(incseq(snd.m_iSndCurrSeqNo))) > 0
             <=> MsgNo(s) >= MsgNo(incseq(snd.m_iSndCurrSeqNo))
      BY <1>4, <2>1, <2>2, NewestOrder
    <2>4. MsgNo(s) >= SndNext(snd)
      BY <1>4, <2>3 DEF SndNext
    <2> QED
      BY <1>4, <2>1, <2>4
  <1>7. /\ snd' = [snd EXCEPT !.m_pSndLossList = snd.m_pSndLossList \cup again]
        /\ Answer(m, {DropReq(g.lo, Upto(g), 0) : g \in gone})
    <2> HIDE DEF wrong, again, Upto, gone
    <2> QED
      BY <1>1, <1>6
  <1>8. again \in SUBSET Numbers /\ \A s \in again : MsgNo(s) < RcvNext(rcv)
    BY <1>5
  <1> HIDE DEF again
  <1>9. /\ snd' \in SndRecord /\ snd'.m_iSndCurrSeqNo = snd.m_iSndCurrSeqNo
        /\ snd'.m_iSndLastAck = snd.m_iSndLastAck
        /\ snd'.m_iSndLastDataAck = snd.m_iSndLastDataAck
        /\ snd'.m_iFlowWindowSize = snd.m_iFlowWindowSize
        /\ snd'.m_pSndLossList = snd.m_pSndLossList \cup again
    <2>1. snd \in SndRecord
      BY <1>2 DEF SenderInv
    <2>2. snd.m_pSndLossList \cup again \in SUBSET Numbers
      BY <1>4, <1>8
    <2> QED
      BY <1>7, <2>1, <2>2 DEF SndRecord
  <1>10. SndNext(snd') = SndNext(snd)
    BY <1>9 DEF SndNext
  <1>11. \A n \in snd'.m_pSndLossList : MsgNo(n) < RcvNext(rcv)
    BY <1>2, <1>8, <1>9 DEF SenderInv
  <1>12. SenderInv(sent, snd', rcv)
    BY <1>2, <1>9, <1>10, <1>11 DEF SenderInv, RoomTaken
  <1>13. ASSUME NEW p \in net' \ net PROVE PacketInv(sent, tooOld, snd', rcv, p)
    <2>1. PICK g \in gone : p = DropReq(g.lo, Upto(g), 0)
      BY <1>7, <1>13 DEF Answer
    <2> DEFINE up == Upto(g)
    <2>2. p.type = "DROPREQ" /\ p.lo = g.lo /\ p.hi = up /\ p.msgno = 0
      BY <2>1 DEF DropReq
    <2>3. /\ g.lo \in Numbers /\ g.hi \in Numbers /\ MsgNo(g.lo) <= MsgNo(g.hi)
          /\ MsgNo(g.hi) < RcvNext(rcv) /\ seqcmp(g.lo, ack) < 0
      BY <1>3 DEF GoodRange
    <2>4. MsgNo(g.lo) \in Int /\ MsgNo(g.hi) \in Int /\ 1 <= MsgNo(g.lo)
      BY <2>3, NumberOf
    <2>5. MsgNo(g.lo) < MsgNo(ack)
      BY <1>4, <2>3, NumberOrder
    <2>6. /\ up \in Numbers /\ MsgNo(up) \in Int /\ MsgNo(g.lo) <= MsgNo(up)
          /\ MsgNo(up) < RcvNext(rcv) /\ MsgNo(up) < MsgNo(ack)
      <3>1. CASE seqcmp(g.hi, ack) >= 0
        <4>1. up = decseq(ack) /\ MsgNo(g.hi) >= MsgNo(ack)
          BY <1>4, <2>3, <3>1, NumberOrder
        <4>2. decseq(ack) \in Numbers /\ MsgNo(decseq(ack)) = MsgNo(ack) - 1
          BY <1>4, <2>4, <2>5, NumberSteps
        <4> QED
          BY <1>4, <2>3, <2>4, <2>5, <4>1, <4>2
      <3>2. CASE ~(seqcmp(g.hi, ack) >= 0)
        <4>1. up = g.hi /\ ~(MsgNo(g.hi) >= MsgNo(ack))
          BY <1>4, <2>3, <3>2, NumberOrder
        <4> QED
          BY <1>4, <2>3, <2>4, <4>1
      <3> QED
        BY <3>1, <3>2
    <2> HIDE DEF up
    <2>7. GoodRange(rcv, p)
      BY <2>2, <2>3, <2>6 DEF GoodRange
    <2>8. ASSUME NEW i \in MsgNo(p.lo)..MsgNo(p.hi) PROVE Covered(rcv, i + 1)
      <3>1. i \in Int /\ 1 <= i + 1 /\ i + 1 <= MsgNo(ack) /\ i + 1 \in Int
        BY <1>4, <2>2, <2>4, <2>6
      <3> QED
        BY <1>2, <1>4, <3>1, CoveredDown
    <2> QED
      BY <2>2, <2>7, <2>8 DEF PacketInv, Types
  <1>14. SndNext(snd) <= SndNext(snd')
    BY <1>4, <1>10
  <1> QED
    BY <1>12, <1>13, <1>14, SenderPartsKept

\* A stream that has got longer.
LEMMA StreamGrows ==
    ASSUME NEW S \in Streams, NEW T \in Streams, ExtendedTo(S, T), Len(S) <= Len(T),
           NEW r, ReceiverInv(S, r), NEW s, SenderInv(S, s, r),
           NEW D, DeliveredInv(S, D, r)
    PROVE  /\ ReceiverInv(T, r) /\ SenderInv(T, s, r) /\ DeliveredInv(T, D, r)
           /\ GivenUpIn(T, D, r) = GivenUpIn(S, D, r)
  <1> DEFINE c == r.m_pRcvBuffer
  <1>1. /\ Len(S) \in Nat /\ Len(T) \in Nat /\ DOMAIN S = 1..Len(S) /\ DOMAIN T = 1..Len(T)
    BY DEF Streams
  <1>2. \A i \in DOMAIN S : i \in DOMAIN T /\ Pkt(T, i) = Pkt(S, i)
    BY DEF ExtendedTo, Pkt
  <1>3. Entries(S) \subseteq Entries(T)
    BY <1>2 DEF Entries
  <1>4. BufferType(S) \subseteq BufferType(T)
    BY <1>3 DEF BufferType
  <1>5. r \in RcvRecord(T, RcvNext(r))
    BY <1>4 DEF ReceiverInv, RcvRecord
  <1>6. Solo(T, c)
    <2>1. Solo(S, c)
      BY DEF ReceiverInv
    <2>2. InPlace(T, c)
      BY <1>2, <2>1 DEF Solo, InPlace
    <2> QED
      BY <1>4, <2>1, <2>2 DEF Solo
  <1>7. ReceiverInv(T, r)
    BY <1>5, <1>6 DEF ReceiverInv
  <1>8. SndNext(s) \in Int /\ RcvNext(r) \in Int /\ First(c) \in Int
        /\ First(c) <= RcvNext(r) /\ RcvNext(r) <= SndNext(s) /\ SndNext(s) <= Len(S) + 1
    <2>1. SndNext(s) \in Int /\ RcvNext(r) \in Int /\ First(c) \in Int /\ First(c) <= RcvNext(r)
      BY SndFacts, RcvFacts
    <2> QED
      BY <1>1, <2>1 DEF SenderInv
  <1>9. SndNext(s) \in RcvNext(r)..(Len(T) + 1)
    BY <1>1, <1>8
  <1>10. SenderInv(T, s, r)
    BY <1>9 DEF SenderInv
  <1>11. DeliveredInv(T, D, r)
    <2>1. D \in Seq(DOMAIN T)
      <3>1. D \in Seq(DOMAIN S) /\ DOMAIN S \subseteq DOMAIN T
        BY <1>2 DEF DeliveredInv
      <3> DEFINE A == DOMAIN S
                 B == DOMAIN T
      <3>2. D \in Seq(A) /\ A \subseteq B
        BY <3>1
      <3> HIDE DEF A, B
      <3>3. D \in Seq(B)
        BY <3>2
      <3> QED
        BY <3>3 DEF B
    <2> QED
      BY <2>1 DEF DeliveredInv
  <1>12. ASSUME NEW m \in DOMAIN T, m \notin DOMAIN S PROVE m \notin GivenUpIn(T, D, r)
    <2>1. m \in Int /\ ~(m < First(c)) /\ ~(m < RcvNext(r))
      BY <1>1, <1>8, <1>12
    <2> QED
      BY <2>1 DEF GivenUpIn
  <1>13. \A m \in DOMAIN S : m \in GivenUpIn(T, D, r) <=> m \in GivenUpIn(S, D, r)
    BY <1>2 DEF GivenUpIn
  <1>14. GivenUpIn(T, D, r) \subseteq DOMAIN T /\ GivenUpIn(S, D, r) \subseteq DOMAIN S
    BY DEF GivenUpIn
  <1>15. GivenUpIn(T, D, r) = GivenUpIn(S, D, r)
    BY <1>2, <1>12, <1>13, <1>14
  <1> QED
    BY <1>7, <1>10, <1>11, <1>15

LEMMA SendMsgKeeps ==
    ASSUME TransferInv, NEW inorder \in BOOLEAN, SendMsg(inorder)
    PROVE  TransferInv' /\ GivenUpIn(sent', delivered, rcv) = GivenUpIn(sent, delivered, rcv)
  <1>1. /\ Len(sent) < MaxMsgs /\ sent' = Append(sent, inorder)
        /\ UNCHANGED <<tooOld, snd, rcv, delivered, net, losses>>
    BY DEF SendMsg
  <1>2. /\ sent \in Streams /\ tooOld \subseteq DOMAIN sent
        /\ ReceiverInv(sent, rcv) /\ SenderInv(sent, snd, rcv)
        /\ DeliveredInv(sent, delivered, rcv)
    BY DEF TransferInv
  <1>3. /\ sent \in Seq(BOOLEAN) /\ Len(sent) \in Nat /\ MaxMsgs \in Nat
        /\ DOMAIN sent = 1..Len(sent)
    BY <1>2, Sizes DEF Streams
  <1>4. /\ sent' \in Seq(BOOLEAN) /\ Len(sent') = Len(sent) + 1
        /\ DOMAIN sent' = 1..(Len(sent) + 1)
        /\ \A i \in 1..Len(sent) : sent'[i] = sent[i]
    BY <1>1, <1>3
  <1>5. sent' \in Streams /\ ExtendedTo(sent, sent') /\ Len(sent) <= Len(sent')
    BY <1>1, <1>3, <1>4 DEF Streams, ExtendedTo
  <1>6. /\ ReceiverInv(sent', rcv) /\ SenderInv(sent', snd, rcv)
        /\ DeliveredInv(sent', delivered, rcv)
        /\ GivenUpIn(sent', delivered, rcv) = GivenUpIn(sent, delivered, rcv)
    BY <1>2, <1>5, StreamGrows
  <1>7. tooOld' \subseteq DOMAIN sent' /\ tooOld \subseteq tooOld' /\ net' \ net = {}
    BY <1>1, <1>2, <1>3, <1>4
  <1>8. Evolves(rcv, rcv') /\ SndNext(snd) <= SndNext(snd')
    <2>1. Evolves(rcv, rcv) /\ SndNext(snd) \in Int
      BY <1>2, EvolvesNot, SndFacts
    <2>2. rcv' = rcv /\ snd' = snd
      BY <1>1
    <2> QED
      BY <2>1, <2>2
  <1>9. /\ ReceiverInv(sent', rcv') /\ SenderInv(sent', snd', rcv')
        /\ DeliveredInv(sent', delivered', rcv')
    BY <1>1, <1>6
  <1> QED
    BY <1>5, <1>6, <1>7, <1>8, <1>9, PartsKept

LEMMA AgeKeeps ==
    ASSUME TransferInv, NEW m, Age(m)
    PROVE  TransferInv'
  <1>1. /\ m \in DOMAIN sent /\ tooOld' = tooOld \cup {m}
        /\ UNCHANGED <<sent, snd, rcv, delivered, net, losses>>
    BY DEF Age
  <1>2. /\ sent \in Streams /\ tooOld \subseteq DOMAIN sent
        /\ ReceiverInv(sent, rcv) /\ SenderInv(sent, snd, rcv)
        /\ DeliveredInv(sent, delivered, rcv)
    BY DEF TransferInv
  <1>3. Evolves(rcv, rcv) /\ ExtendedTo(sent, sent) /\ SndNext(snd) \in Int
    BY <1>2, EvolvesNot, SndFacts
  <1>4. sent' = sent /\ snd' = snd /\ rcv' = rcv /\ delivered' = delivered /\ net' \ net = {}
    BY <1>1
  <1>5. SndNext(snd) <= SndNext(snd')
    BY <1>3, <1>4
  <1>6. tooOld \subseteq tooOld' /\ tooOld' \subseteq DOMAIN sent'
    BY <1>1, <1>2, <1>4
  <1>7. /\ sent' \in Streams /\ ExtendedTo(sent, sent')
        /\ ReceiverInv(sent', rcv') /\ Evolves(rcv, rcv') /\ SenderInv(sent', snd', rcv')
        /\ DeliveredInv(sent', delivered', rcv')
        /\ \A p \in net' \ net : PacketInv(sent', tooOld', snd', rcv', p)
    BY <1>2, <1>3, <1>4
  <1> QED
    BY <1>5, <1>6, <1>7, PartsKept

LEMMA LoseKeeps ==
    ASSUME TransferInv, NEW m, Lose(m)
    PROVE  TransferInv'
  <1>1. Answer(m, {}) /\ UNCHANGED <<sent, tooOld, snd, rcv, delivered>>
    BY DEF Lose
  <1>2. ReceiverInv(sent, rcv) /\ SenderInv(sent, snd, rcv)
    BY DEF TransferInv
  <1>3. SndNext(snd) \in Int /\ snd' = snd /\ net' \ net = {}
    BY <1>1, <1>2, SndFacts DEF Answer
  <1>4. SndNext(snd) <= SndNext(snd') /\ SenderInv(sent, snd', rcv)
    BY <1>2, <1>3
  <1> QED
    BY <1>1, <1>3, <1>4, SenderPartsKept

LEMMA TransferUnchanged ==
    ASSUME TransferInv, UNCHANGED vars
    PROVE  TransferInv'
  <1>1. UNCHANGED <<sent, tooOld, snd, rcv, delivered, net>>
    BY DEF vars
  <1>2. ReceiverInv(sent, rcv) /\ SenderInv(sent, snd, rcv)
    BY DEF TransferInv
  <1>3. SndNext(snd) \in Int /\ snd' = snd /\ net' \ net = {}
    BY <1>1, <1>2, SndFacts
  <1>4. SndNext(snd) <= SndNext(snd') /\ SenderInv(sent, snd', rcv)
    BY <1>2, <1>3
  <1> QED
    BY <1>1, <1>3, <1>4, SenderPartsKept

\* A new connection.
LEMMA InitTransfer ==
    ASSUME Init
    PROVE  TransferInv
  <1> DEFINE c == NewBuffer(ISN, FALSE)
  <1>1. ISN \in Numbers /\ MsgNo(ISN) = 1 /\ ISN \in SeqNo
    <2>1. 1 \in Index /\ ISN \in SeqNo
      BY Sizes DEF Index
    <2>2. SeqNoOf(1) = IF ISN + 1 - 1 <= m_iMaxSeqNo THEN ISN + 1 - 1
                       ELSE ISN + 1 - 2 - m_iMaxSeqNo
      BY <2>1, NumberValue
    <2>3. SeqNoOf(1) = ISN
      BY <2>1, <2>2, Sizes DEF SeqNo
    <2> QED
      BY <2>1, <2>3, NumberValue
  <1>2. /\ capacity \in Nat /\ m_szSize \in Nat /\ m_szSize >= 2 /\ capacity = m_szSize - 1
        /\ iMaxReorderTolerance \in Nat
    BY Sizes
  <1>3. sent = <<>> /\ tooOld = {} /\ delivered = <<>> /\ net = {}
    BY DEF Init
  <1>4. <<>> \in Streams /\ DOMAIN <<>> = {} /\ Len(<<>>) = 0
    BY Sizes DEF Streams
  <1>5. 0 \in Positions /\ Empty \in Entries(<<>>)
    BY <1>2, EmptyEntries DEF Positions
  <1>6. /\ c \in BufferType(<<>>) /\ First(c) = 1 /\ c.m_iStartSeqNo = ISN
        /\ c.m_entries = [pos \in Positions |-> Empty]
        /\ c.m_iStartPos = 0 /\ c.m_iFirstNonreadPos = 0 /\ c.m_iFirstReadableOutOfOrder = -1
    BY <1>1, <1>2, <1>5 DEF NewBuffer, BufferType, First
  <1> HIDE DEF c
  <1>7. \A k \in 0..capacity : EntryOf(c, k) = Empty
    BY <1>6, Offsets DEF EntryOf
  <1>8. Empty.status = "Empty"
    BY DEF Empty
  <1>9. NonreadOff(c) = 0
    BY <1>6 DEF NonreadOff, offPos
  <1>10. Solo(<<>>, c)
    <2>1. InPlace(<<>>, c)
      BY <1>7, <1>8 DEF InPlace
    <2>2. HeadWaits(c)
      BY <1>2, <1>7, <1>8 DEF HeadWaits
    <2>3. InOrder(c)
      BY <1>9 DEF InOrder
    <2>4. Unordered(c)
      BY <1>6 DEF Unordered
    <2> QED
      BY <1>6, <2>1, <2>2, <2>3, <2>4 DEF Solo
  <1>11. decseq(ISN) \in {decseq(s) : s \in Numbers} /\ incseq(decseq(ISN)) = ISN
    BY <1>1, NumberSteps
  <1>12. rcv = [m_pRcvBuffer        |-> c,
                m_iRcvCurrSeqNo     |-> decseq(ISN),
                m_iRcvLastAck       |-> ISN,
                m_iRcvLastAckAck    |-> ISN,
                m_bBufferWasFull    |-> FALSE,
                m_pRcvLossList      |-> {},
                m_FreshLoss         |-> <<>>,
                m_iReorderTolerance |-> iMaxReorderTolerance]
    BY DEF Init, c
  <1>13. RcvNext(rcv) = 1
    BY <1>1, <1>11, <1>12 DEF RcvNext
  <1>14. rcv \in RcvRecord(<<>>, 1)
    <2>1. <<>> \in Seq(RangesUpTo(1))
      OBVIOUS
    <2>2. iMaxReorderTolerance \in 0..iMaxReorderTolerance
      BY <1>2
    <2> QED
      BY <1>1, <1>6, <1>11, <1>12, <2>1, <2>2 DEF RcvRecord
  <1>15. rcv.m_pRcvBuffer = c /\ rcv.m_iRcvLastAck = ISN /\ rcv.m_pRcvLossList = {}
    BY <1>12
  <1>16. NothingBeyond(rcv)
    BY <1>2, <1>6, <1>7, <1>8, <1>13, <1>15 DEF NothingBeyond
  <1>17. Covered(rcv, 1)
    BY <1>6, <1>13, <1>15 DEF Covered
  <1>18. Lost(rcv) = {}
    BY <1>6, <1>13, <1>15 DEF Lost
  <1>19. ReceiverInv(<<>>, rcv)
    BY <1>1, <1>10, <1>13, <1>14, <1>15, <1>16, <1>17, <1>18 DEF ReceiverInv
  <1>20. snd = [m_iSndCurrSeqNo     |-> decseq(ISN),
                m_iSndLastAck       |-> ISN,
                m_iSndLastDataAck   |-> ISN,
                m_iFlowWindowSize   |-> m_szSize,
                m_pSndLossList      |-> {},
                m_bBroken           |-> FALSE]
    BY DEF Init
  <1>21. snd \in SndRecord /\ SndNext(snd) = 1
    BY <1>1, <1>2, <1>11, <1>20 DEF SndRecord, SndNext
  <1>22. RoomTaken(snd, rcv)
    <2>1. snd.m_iSndLastAck = ISN /\ snd.m_iFlowWindowSize = m_szSize
      BY <1>20
    <2> QED
      BY <1>1, <1>2, <1>6, <1>15, <2>1 DEF RoomTaken
  <1>23. SenderInv(<<>>, snd, rcv)
    <2>1. /\ snd.m_iSndLastAck = ISN /\ snd.m_iSndLastDataAck = ISN
          /\ snd.m_pSndLossList = {}
      BY <1>20
    <2>2. SndNext(snd) \in RcvNext(rcv)..(Len(<<>>) + 1)
      BY <1>4, <1>13, <1>21
    <2> QED
      BY <1>1, <1>17, <1>21, <1>22, <2>1, <2>2 DEF SenderInv
  <1>24. DeliveredInv(<<>>, <<>>, rcv)
    <2>1. Range(<<>>) = {} /\ <<>> \in Seq(DOMAIN <<>>)
      BY DEF Range
    <2>2. First(c)..(RcvNext(rcv) - 1) = {}
      BY <1>6, <1>13
    <2> QED
      BY <1>15, <2>1, <2>2 DEF DeliveredInv
  <1> QED
    BY <1>3, <1>4, <1>19, <1>23, <1>24 DEF TransferInv

\* All steps together.
LEMMA NextTransfer ==
    ASSUME TransferInv, [Next]_vars
    PROVE  TransferInv'
  <1>1. ASSUME NEW inorder \in BOOLEAN, SendMsg(inorder)
        PROVE  TransferInv'
    BY <1>1, SendMsgKeeps
  <1>2. ASSUME NEW m \in MayAge, Age(m)
        PROVE  TransferInv'
    BY <1>2, AgeKeeps
  <1>3. CASE PackUniqueData
    BY <1>3, PackUniqueDataKeeps
  <1>4. CASE PackLostData
    BY <1>4, PackLostDataKeeps
  <1>5. CASE SendAck
    BY <1>5, SendAckKeeps
  <1>6. CASE SendLiteAck
    BY <1>6, SendLiteAckKeeps
  <1>7. CASE SendLossReport
    BY <1>7, SendLossReportKeeps
  <1>8. CASE ReceiveMessage
    BY <1>8, ReceiveMessageKeeps
  <1>9. ASSUME NEW m \in net, SenderReceives(m)
        PROVE  TransferInv'
    <2>1. UNCHANGED <<sent, tooOld, rcv, delivered, losses>>
      BY <1>9 DEF SenderReceives
    <2>2. CASE ProcessLiteAck(m)
      BY <2>1, <2>2, ProcessLiteAckKeeps
    <2>3. CASE ProcessAck(m)
      BY <2>1, <2>3, ProcessAckKeeps
    <2>4. CASE ProcessLossReport(m)
      BY <2>1, <2>4, ProcessLossReportKeeps
    <2> QED
      BY <1>9, <2>2, <2>3, <2>4 DEF SenderReceives
  <1>10. ASSUME NEW m \in net, ReceiverReceives(m)
         PROVE  TransferInv'
    <2>1. UNCHANGED <<sent, tooOld, snd, delivered, losses>>
      BY <1>10 DEF ReceiverReceives
    <2>2. CASE ProcessData(m)
      BY <2>1, <2>2, ProcessDataKeeps
    <2>3. CASE ProcessAckAck(m)
      BY <2>1, <2>3, ProcessAckAckKeeps
    <2>4. CASE ProcessDropReq(m)
      BY <2>1, <2>4, ProcessDropReqKeeps
    <2> QED
      BY <1>10, <2>2, <2>3, <2>4 DEF ReceiverReceives
  <1>11. ASSUME NEW m \in net, Lose(m)
         PROVE  TransferInv'
    BY <1>11, LoseKeeps
  <1>12. CASE UNCHANGED vars
    BY <1>12, TransferUnchanged
  <1> QED
    BY <1>1, <1>2, <1>3, <1>4, <1>5, <1>6, <1>7, <1>8, <1>9, <1>10, <1>11, <1>12
    DEF Next, Receive

\* TransferInv holds of a connection in every state that it comes to.
THEOREM TransferInvariance == Spec => []TransferInv
  <1>1. Init => TransferInv
    BY InitTransfer
  <1>2. TransferInv /\ [Next]_vars => TransferInv'
    BY NextTransfer
  <1> QED
    BY <1>1, <1>2, PTL DEF Spec

-----------------------------------------------------------------------------
(* What the invariant says *)

\* The entry of a sequence number is that of its message.
LEMMA EntryAt ==
    ASSUME NEW S \in Streams, NEW r, ReceiverInv(S, r), NEW i \in Index
    PROVE  /\ seqoff(r.m_pRcvBuffer.m_iStartSeqNo, SeqNoOf(i)) = i - First(r.m_pRcvBuffer)
           /\ r.m_pRcvBuffer.m_entries[At(r.m_pRcvBuffer,
                    seqoff(r.m_pRcvBuffer.m_iStartSeqNo, SeqNoOf(i)))]
                = EntryOf(r.m_pRcvBuffer, i - First(r.m_pRcvBuffer))
  <1>1. r.m_pRcvBuffer.m_iStartSeqNo \in Numbers
    BY RcvFacts
  <1>2. SeqNoOf(i) \in Numbers /\ MsgNo(SeqNoOf(i)) = i
    BY NumberValue
  <1> QED
    BY <1>1, <1>2, NumberOrder DEF First, EntryOf

LEMMA StreamIndex ==
    ASSUME NEW S \in Streams
    PROVE  DOMAIN S \subseteq Index /\ DOMAIN S = 1..Len(S) /\ Len(S) \in Nat
  BY Sizes DEF Streams, Index

\* The loss list in the terms of the sequence numbers.
LEMMA ListIsExact ==
    ASSUME TransferInv
    PROVE  rcv.m_pRcvLossList = {s \in Window : Entry(s).status = "Empty"}
  <1> DEFINE c == rcv.m_pRcvBuffer
             next == incseq(rcv.m_iRcvCurrSeqNo)
  <1>1. sent \in Streams /\ ReceiverInv(sent, rcv)
    BY DEF TransferInv
  <1>2. /\ c.m_iStartSeqNo \in Numbers /\ next \in Numbers
        /\ rcv.m_iRcvCurrSeqNo = decseq(next)
        /\ First(c) \in Int /\ RcvNext(rcv) \in Int /\ First(c) <= RcvNext(rcv)
        /\ rcv.m_pRcvLossList = Lost(rcv)
    BY <1>1, RcvFacts
  <1>3. Window = {u \in Numbers : First(c) <= MsgNo(u) /\ MsgNo(u) < RcvNext(rcv)}
    BY <1>2, BetweenNumbers DEF Window, First, RcvNext
  <1>4. ASSUME NEW u \in Numbers
        PROVE  Entry(u) = EntryOf(c, MsgNo(u) - First(c))
    <2>1. MsgNo(u) \in Index /\ SeqNoOf(MsgNo(u)) = u
      BY NumberOf
    <2> QED
      BY <1>1, <2>1, EntryAt DEF Entry
  <1>5. ASSUME NEW u \in Numbers
        PROVE  First(c) <= MsgNo(u) /\ MsgNo(u) < RcvNext(rcv)
                   <=> MsgNo(u) \in First(c)..(RcvNext(rcv) - 1)
    <2>1. MsgNo(u) \in Int
      BY NumberOf
    <2> QED
      BY <1>2, <2>1
  <1> QED
    BY <1>2, <1>3, <1>4, <1>5 DEF Lost, StatusOf

LEMMA TransferTypes ==
    ASSUME TransferInv
    PROVE  TypeOK
  <1>1. /\ sent \in Streams /\ tooOld \subseteq DOMAIN sent
        /\ ReceiverInv(sent, rcv) /\ SenderInv(sent, snd, rcv)
        /\ delivered \in Seq(DOMAIN sent)
        /\ \A m \in net : m.type \in Types
    BY DEF TransferInv, DeliveredInv, PacketInv
  <1>2. Numbers \subseteq SeqNo
    BY NumberOf
  <1>3. /\ snd.m_iSndCurrSeqNo \in SeqNo
        /\ snd.m_iSndLastAck \in Numbers /\ snd.m_iSndLastDataAck \in Numbers
        /\ snd.m_iFlowWindowSize \in Int /\ snd.m_pSndLossList \subseteq Numbers
    BY <1>1, SndFacts
  <1>4. /\ rcv.m_iRcvCurrSeqNo \in SeqNo /\ rcv.m_iRcvLastAck \in Numbers
        /\ rcv.m_iRcvLastAckAck \in SeqNo /\ rcv.m_pRcvLossList \subseteq Numbers
        /\ rcv.m_iReorderTolerance \in 0..iMaxReorderTolerance
    BY <1>1, RcvFacts
  <1> QED
    BY <1>1, <1>2, <1>3, <1>4 DEF TypeOK, Streams

\* The receiver's loss list holds the packets that the buffer lacks up to the
\* newest one, and no other.
THEOREM LossListIsExact == Spec => []LossListExact
  <1>1. TransferInv => LossListExact
    BY TransferTypes, ListIsExact DEF LossListExact
  <1> QED
    BY <1>1, TransferInvariance, PTL

\* No late report makes the sender take the receiver for an attacker.
THEOREM SenderNeverBroken == Spec => []NeverBroken
  <1>1. TransferInv => NeverBroken
    BY SndFacts DEF TransferInv, NeverBroken
  <1> QED
    BY <1>1, TransferInvariance, PTL

\* The sender's window reaches no further than the buffer, but for the one
\* packet that the handshake announces too much.
THEOREM WindowFitsBuffer == Spec => []RoomForAll
  <1>1. ASSUME TransferInv
        PROVE  RoomForAll
    <2> DEFINE most == First(rcv.m_pRcvBuffer) - 1 + capacity
               ack == snd.m_iSndLastAck
               start == rcv.m_pRcvBuffer.m_iStartSeqNo
    <2>1. ReceiverInv(sent, rcv) /\ SenderInv(sent, snd, rcv)
      BY <1>1 DEF TransferInv
    <2>2. ack \in Numbers /\ start \in Numbers /\ First(rcv.m_pRcvBuffer) \in Int
      BY <2>1, SndFacts, RcvFacts
    <2>3. ISN \in SeqNo /\ capacity \in Nat /\ m_szSize \in Nat
      BY Sizes
    <2>4. seqoff(ISN, ack) \in Int /\ seqoff(ISN, start) \in Int
      BY <2>2, <2>3, NumberOf, Sizes DEF seqoff, SeqNo, abs
    <2>5. seqoff(ISN, ack) = MsgNo(ack) - 1
          /\ seqoff(ISN, start) = First(rcv.m_pRcvBuffer) - 1
      BY <2>4 DEF MsgNo, First
    <2>6. MsgNo(ack) - 1 + snd.m_iFlowWindowSize
              <= IF m_szSize >= most THEN m_szSize ELSE most
      BY <2>1 DEF SenderInv, RoomTaken
    <2>7. Max({m_szSize, most}) = IF m_szSize >= most THEN m_szSize ELSE most
      BY <2>2, <2>3, MaxOfTwo
    <2> QED
      BY <2>5, <2>6, <2>7 DEF RoomForAll
  <1> QED
    BY <1>1, TransferInvariance, PTL

\* What the module calls given up, of any state of the receiver.
GivenUpOf(S, D, r) ==
    LET c == r.m_pRcvBuffer
    IN  {m \in DOMAIN S \ Range(D) :
            \/ seqoff(c.m_iStartSeqNo, SeqNoOf(m)) < 0
            \/ /\ seqoff(c.m_iStartSeqNo, SeqNoOf(m)) < m_szSize
               /\ c.m_entries[At(c, seqoff(c.m_iStartSeqNo, SeqNoOf(m)))].status = "Drop"}

\* In the terms of messages it is GivenUpIn.
LEMMA GivenUpValue ==
    ASSUME NEW S \in Streams, NEW D, NEW r, ReceiverInv(S, r)
    PROVE  GivenUpOf(S, D, r) = GivenUpIn(S, D, r)
  <1> DEFINE c == r.m_pRcvBuffer
  <1>1. ASSUME NEW m \in DOMAIN S
        PROVE  ( \/ seqoff(c.m_iStartSeqNo, SeqNoOf(m)) < 0
                 \/ /\ seqoff(c.m_iStartSeqNo, SeqNoOf(m)) < m_szSize
                    /\ c.m_entries[At(c, seqoff(c.m_iStartSeqNo, SeqNoOf(m)))].status = "Drop" )
               <=> ( \/ m < First(c)
                     \/ m < RcvNext(r) /\ StatusOf(c, m) = "Drop" )
    <2> DEFINE k == m - First(c)
    <2>1. m \in Index /\ m \in Int
      BY StreamIndex DEF Index
    <2>2. /\ seqoff(c.m_iStartSeqNo, SeqNoOf(m)) = k
          /\ c.m_entries[At(c, seqoff(c.m_iStartSeqNo, SeqNoOf(m)))] = EntryOf(c, k)
      BY <2>1, EntryAt
    <2>3. /\ First(c) \in Int /\ RcvNext(r) \in Int
          /\ RcvNext(r) <= First(c) + capacity /\ First(c) <= RcvNext(r)
      BY RcvFacts
    <2>4. capacity \in Nat /\ m_szSize \in Nat /\ capacity = m_szSize - 1
      BY Sizes
    <2>5. StatusOf(c, m) = EntryOf(c, k).status
      BY DEF StatusOf
    <2>6. k < 0 <=> m < First(c)
      BY <2>1, <2>3
    <2>7. m < RcvNext(r) => k < m_szSize
      BY <2>1, <2>3, <2>4
    <2>8. ~(m < First(c)) /\ k < m_szSize /\ EntryOf(c, k).status = "Drop" => m < RcvNext(r)
      <3>1. SUFFICES ASSUME ~(m < First(c)), k < m_szSize, ~(m < RcvNext(r))
                     PROVE  EntryOf(c, k).status = "Empty"
        OBVIOUS
      <3>2. k \in 0..capacity /\ First(c) + k >= RcvNext(r)
        BY <2>1, <2>3, <2>4, <3>1
      <3> QED
        BY <3>2 DEF ReceiverInv, NothingBeyond
    <2> HIDE DEF k
    <2> QED
      BY <2>2, <2>5, <2>6, <2>7, <2>8
  <1> QED
    BY <1>1 DEF GivenUpOf, GivenUpIn

\* Before and after a step.
LEMMA GivenUpNow == GivenUp = GivenUpOf(sent, delivered, rcv)
  BY DEF GivenUp, GivenUpOf, Entry

LEMMA GivenUpNext == GivenUp' = GivenUpOf(sent', delivered', rcv')
  BY DEF GivenUp, GivenUpOf, Entry

LEMMA GivenUpHere ==
    ASSUME TransferInv
    PROVE  GivenUp = GivenUpIn(sent, delivered, rcv)
  BY GivenUpNow, GivenUpValue DEF TransferInv

LEMMA GivenUpThere ==
    ASSUME TransferInv'
    PROVE  GivenUp' = GivenUpIn(sent', delivered', rcv')
  <1>1. sent' \in Streams /\ ReceiverInv(sent', rcv')
    BY DEF TransferInv
  <1> QED
    BY <1>1, GivenUpNext, GivenUpValue

\* What the sender frees the receiver has, or does not need any more.
THEOREM FreedInTime == Spec => []NothingFreedTooEarly
  <1>1. ASSUME TransferInv, NEW m \in DOMAIN sent,
               seqcmp(SeqNoOf(m), snd.m_iSndLastDataAck) < 0,
               ~(Entry(SeqNoOf(m)).status = "Avail")
        PROVE  m \in Range(delivered) \cup GivenUp
    <2> DEFINE c == rcv.m_pRcvBuffer
               k == m - First(c)
               ack == MsgNo(snd.m_iSndLastDataAck)
    <2>1. /\ sent \in Streams /\ ReceiverInv(sent, rcv) /\ SenderInv(sent, snd, rcv)
          /\ DeliveredInv(sent, delivered, rcv)
          /\ GivenUp = GivenUpIn(sent, delivered, rcv)
      BY <1>1, GivenUpHere DEF TransferInv
    <2>2. m \in Index /\ m \in Int
      BY <2>1, StreamIndex DEF Index
    <2>3. SeqNoOf(m) \in Numbers /\ MsgNo(SeqNoOf(m)) = m
          /\ snd.m_iSndLastDataAck \in Numbers /\ ack \in Int
      BY <2>1, <2>2, NumberValue, SndFacts, NumberOf
    <2>4. m < ack
      BY <1>1, <2>3, NumberOrder
    <2>5. Entry(SeqNoOf(m)) = EntryOf(c, k)
      BY <2>1, <2>2, EntryAt DEF Entry
    <2>6. Covered(rcv, ack)
      BY <2>1 DEF SenderInv
    <2>7. /\ First(c) \in Int /\ RcvNext(rcv) \in Int
          /\ RcvNext(rcv) <= First(c) + capacity /\ c \in BufferType(sent)
      BY <2>1, RcvFacts
    <2>8. m < RcvNext(rcv)
      BY <2>2, <2>3, <2>4, <2>6, <2>7 DEF Covered
    <2>9. CASE m < First(c)
      BY <2>1, <2>9 DEF GivenUpIn
    <2>10. CASE ~(m < First(c))
      <3>1. /\ m \in First(c)..(ack - 1) /\ m \in First(c)..(RcvNext(rcv) - 1)
            /\ k \in 0..capacity
        BY <2>2, <2>3, <2>4, <2>7, <2>8, <2>10, Sizes
      <3>2. StatusOf(c, m) # "Empty"
        BY <2>6, <3>1 DEF Covered
      <3>3. StatusOf(c, m) \in {"Drop", "Read"}
        BY <1>1, <2>1, <2>5, <2>7, <3>1, <3>2, SoloFacts DEF StatusOf
      <3>4. StatusOf(c, m) = "Read" => m \in Range(delivered)
        BY <2>1, <3>1 DEF DeliveredInv
      <3> QED
        BY <2>1, <2>8, <3>3, <3>4 DEF GivenUpIn
    <2> QED
      BY <2>9, <2>10
  <1>2. TransferInv => NothingFreedTooEarly
    BY <1>1 DEF NothingFreedTooEarly
  <1> QED
    BY <1>2, TransferInvariance, PTL

-----------------------------------------------------------------------------
(* The service *)

\* The abstract specification's Range is the same function.
LEMMA SameRange == \A D : Service!Range(D) = Range(D)
  BY DEF Range, Service!Range

\* A step that delivers and gives up nothing is none for the users.
LEMMA ServiceStutters ==
    ASSUME TransferInv, TransferInv', UNCHANGED <<sent, delivered, tooOld>>,
           GivenUpIn(sent, delivered, rcv') = GivenUpIn(sent, delivered, rcv)
    PROVE  UNCHANGED Service!vars
  <1>1. GivenUp' = GivenUp
    BY GivenUpHere, GivenUpThere
  <1> QED
    BY <1>1 DEF Service!vars

\* srt_sendmsg, and the end of a time to live.
LEMMA ServiceSends ==
    ASSUME TransferInv, NEW inorder \in BOOLEAN, SendMsg(inorder)
    PROVE  Service!Send(inorder)
  <1>1. /\ sent' = Append(sent, inorder)
        /\ UNCHANGED <<tooOld, rcv, delivered>>
    BY DEF SendMsg
  <1>2. GivenUp' = GivenUp
    BY <1>1, SendMsgKeeps, GivenUpHere, GivenUpThere
  <1> QED
    BY <1>1, <1>2 DEF Service!Send

LEMMA ServiceAges ==
    ASSUME TransferInv, NEW m, Age(m)
    PROVE  m \in DOMAIN sent /\ Service!Age(m)
  <1>1. /\ m \in DOMAIN sent /\ tooOld' = tooOld \cup {m}
        /\ UNCHANGED <<sent, rcv, delivered>>
    BY DEF Age
  <1>2. GivenUp' = GivenUp
    BY <1>1, AgeKeeps, GivenUpHere, GivenUpThere
  <1> QED
    BY <1>1, <1>2 DEF Service!Age

\* A message is delivered once, before it is given up, and in order if it
\* must be.
LEMMA ServiceDelivers ==
    ASSUME TransferInv, ReceiveMessage
    PROVE  \E m \in DOMAIN sent : Service!Deliver(m)
  <1>1. TransferInv' /\ UNCHANGED <<sent, tooOld>>
    BY ReceiveMessageKeeps DEF ReceiveMessage
  <1>2. GivenUp = GivenUpIn(sent, delivered, rcv)
    BY GivenUpHere
  <1>3. PICK m \in DOMAIN sent :
            /\ delivered' = Append(delivered, m)
            /\ m \notin Range(delivered) /\ m \notin GivenUp
            /\ sent[m] => \A i \in 1..(m - 1) : i \in Range(delivered) \cup GivenUp
            /\ GivenUpIn(sent, delivered', rcv') = GivenUp
    BY <1>2, ReceiveMessageKeeps
  <1>4. GivenUp' = GivenUp
    BY <1>1, <1>3, GivenUpThere
  <1>5. Service!Deliver(m)
    BY <1>1, <1>3, <1>4, SameRange DEF Service!Deliver
  <1> QED
    BY <1>5

\* What a drop request makes the receiver give up has outlived its time.
LEMMA ServiceGivesUp ==
    ASSUME TransferInv, NEW m \in net, ProcessDropReq(m),
           UNCHANGED <<sent, tooOld, snd, delivered, losses>>
    PROVE  \E ms \in SUBSET tooOld : Service!GiveUp(ms)
  <1> DEFINE ms == GivenUp' \ GivenUp
  <1>1. /\ GivenUp \subseteq GivenUp' /\ ms \subseteq tooOld
        /\ UNCHANGED <<sent, tooOld, delivered>>
    BY ProcessDropReqKeeps, GivenUpHere, GivenUpThere
  <1>2. ms \cap Range(delivered) = {}
    BY <1>1, ProcessDropReqKeeps, GivenUpThere DEF GivenUpIn
  <1>3. GivenUp' = GivenUp \cup ms
    BY <1>1
  <1> HIDE DEF ms
  <1>4. Service!GiveUp(ms)
    BY <1>1, <1>2, <1>3, SameRange DEF Service!GiveUp
  <1> QED
    BY <1>1, <1>4

\* Every step of the connection is one of the service, or none.
LEMMA ServiceStep ==
    ASSUME TransferInv, TransferInv', [Next]_vars
    PROVE  [Service!Next]_Service!vars
  <1>1. ASSUME NEW inorder \in BOOLEAN, SendMsg(inorder)
        PROVE  Service!Next
    BY <1>1, ServiceSends DEF Service!Next
  <1>2. ASSUME NEW m \in MayAge, Age(m)
        PROVE  Service!Next
    BY <1>2, ServiceAges DEF Service!Next
  <1>3. CASE PackUniqueData \/ PackLostData \/ SendLiteAck \/ SendLossReport
    <2>1. UNCHANGED <<sent, delivered, tooOld, rcv>>
      BY <1>3 DEF PackUniqueData, PackLostData, SendLiteAck, SendLossReport
    <2> QED
      BY <2>1, ServiceStutters
  <1>4. CASE SendAck
    <2>1. UNCHANGED <<sent, delivered, tooOld>>
      BY <1>4 DEF SendAck
    <2> QED
      BY <1>4, <2>1, SendAckKeeps, ServiceStutters
  <1>5. CASE ReceiveMessage
    BY <1>5, ServiceDelivers DEF Service!Next
  <1>6. ASSUME NEW m \in net, SenderReceives(m)
        PROVE  UNCHANGED Service!vars
    <2>1. UNCHANGED <<sent, delivered, tooOld, rcv>>
      BY <1>6 DEF SenderReceives
    <2> QED
      BY <2>1, ServiceStutters
  <1>7. ASSUME NEW m \in net, ReceiverReceives(m)
        PROVE  Service!Next \/ UNCHANGED Service!vars
    <2>1. UNCHANGED <<sent, tooOld, snd, delivered, losses>>
      BY <1>7 DEF ReceiverReceives
    <2>2. CASE ProcessData(m)
      BY <2>1, <2>2, ProcessDataKeeps, ServiceStutters
    <2>3. CASE ProcessAckAck(m)
      BY <2>1, <2>3, ProcessAckAckKeeps, ServiceStutters
    <2>4. CASE ProcessDropReq(m)
      BY <2>1, <2>4, ServiceGivesUp DEF Service!Next
    <2> QED
      BY <1>7, <2>2, <2>3, <2>4 DEF ReceiverReceives
  <1>8. ASSUME NEW m \in net, Lose(m)
        PROVE  UNCHANGED Service!vars
    <2>1. UNCHANGED <<sent, delivered, tooOld, rcv>>
      BY <1>8 DEF Lose
    <2> QED
      BY <2>1, ServiceStutters
  <1>9. CASE UNCHANGED vars
    <2>1. UNCHANGED <<sent, delivered, tooOld, rcv>>
      BY <1>9 DEF vars
    <2> QED
      BY <2>1, ServiceStutters
  <1> QED
    BY <1>1, <1>2, <1>3, <1>4, <1>5, <1>6, <1>7, <1>8, <1>9 DEF Next, Receive

\* A connection delivers each message at most once, none that overtakes what
\* it must not, and gives up only what is too old.
THEOREM TransferImplementsService == Spec => ImplementsService
  <1>1. Init => Service!Init
    <2>1. SUFFICES ASSUME Init PROVE Service!Init
      OBVIOUS
    <2>2. sent = <<>> /\ delivered = <<>> /\ tooOld = {}
      BY <2>1 DEF Init
    <2>3. GivenUp = {}
      BY <2>2 DEF GivenUp
    <2> QED
      BY <2>2, <2>3 DEF Service!Init
  <1>2. TransferInv /\ TransferInv' /\ [Next]_vars => [Service!Next]_Service!vars
    BY ServiceStep
  <1> QED
    BY <1>1, <1>2, TransferInvariance, PTL DEF Spec, ImplementsService, Service!Spec

=============================================================================
