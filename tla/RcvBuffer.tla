------------------------------ MODULE RcvBuffer ------------------------------
(***************************************************************************)
(* CRcvBuffer of libsrt (srtcore/buffer_rcv.h, buffer_rcv.cpp): the        *)
(* circular buffer between the receiving thread, which inserts packets in  *)
(* any order and drops them, and the reader, which takes whole messages.   *)
(* It is in message mode, as in live transmission.  Every method is an     *)
(* operator from buffer to buffer; RcvBufferCalls and SrtTransfer call     *)
(* them.                                                                   *)
(*                                                                         *)
(* A packet is a record with its sequence number, its message number, the  *)
(* two bits of its boundary and its order flag.  Payloads, time stamps and *)
(* the byte counters are left out.                                         *)
(***************************************************************************)
EXTENDS SeqNo, FiniteSets, FiniteSetsExt

CONSTANT m_szSize    \* how many entries the buffer has

ASSUME SizeAssumption == m_szSize \in 2..(m_iSeqNoTH - 1)

NoUnit == [seqno |-> SRT_SEQNO_NONE]

Empty == [status |-> "Empty", unit |-> NoUnit]
Drop  == [status |-> "Drop", unit |-> NoUnit]
Read  == [status |-> "Read", unit |-> NoUnit]
Avail(pkt) == [status |-> "Avail", unit |-> pkt]

Positions == 0..(m_szSize - 1)

\* What dropMessage does with a packet that is there (DropActionIfExists).
DROP_EXISTING == FALSE
KEEP_EXISTING == TRUE

\* One entry stays unused, to tell a full buffer from an empty one.
capacity == m_szSize - 1

NewBuffer(initSeqNo, tsbpd) ==
    [m_entries                  |-> [pos \in Positions |-> Empty],
     m_iStartSeqNo              |-> initSeqNo,
     m_iStartPos                |-> 0,
     m_iFirstNonreadPos         |-> 0,
     m_iMaxPosOff               |-> 0,
     m_numOutOfOrderPackets     |-> 0,
     m_iFirstReadableOutOfOrder |-> -1,
     tsbpd                      |-> tsbpd]

incPos(pos, inc) == (pos + inc) % m_szSize
offPos(pos1, pos2) == IF pos2 >= pos1 THEN pos2 - pos1 ELSE m_szSize + pos2 - pos1

At(b, off) == incPos(b.m_iStartPos, off)
HasUnit(b, pos) == b.m_entries[pos].unit # NoUnit
packetAt(b, pos) == b.m_entries[pos].unit

hasReadableInorderPkts(b) == b.m_iFirstNonreadPos # b.m_iStartPos

isInRange(b) ==
    offPos(b.m_iStartPos, b.m_iFirstNonreadPos) <= b.m_iMaxPosOff

-----------------------------------------------------------------------------
(***************************************************************************)
(* The position of the first packet that cannot be read in order.          *)
(***************************************************************************)

\* The offset of the last packet of the message whose first packet is at
\* offset off, or -1 when the message is not all there.
MessageEnd(b, off) ==
    LET ends == {last \in off..(b.m_iMaxPosOff - 1) :
                    /\ \A k \in off..last : HasUnit(b, At(b, k))
                    /\ packetAt(b, At(b, last)).last}
    IN  IF ends = {} THEN -1 ELSE Min(ends)

\* The offsets from..(to - 1) hold whole messages, one after another.
WholeMessages(b, from, to) ==
    /\ \A k \in from..(to - 1) : HasUnit(b, At(b, k))
    /\ \A k \in from..(to - 1) :
          k = from \/ packetAt(b, At(b, k - 1)).last => packetAt(b, At(b, k)).first
    /\ to > from => packetAt(b, At(b, to - 1)).last

\* From where it stands, the position moves over one whole message after
\* another; it stops at a packet that is missing or begins no message.
updateNonreadPos(b) ==
    LET from == offPos(b.m_iStartPos, b.m_iFirstNonreadPos)
        to   == Max({from} \cup {off \in from..b.m_iMaxPosOff : WholeMessages(b, from, off)})
    IN  IF b.m_iMaxPosOff = 0 THEN b
        ELSE [b EXCEPT !.m_iFirstNonreadPos = At(b, to)]

-----------------------------------------------------------------------------
(***************************************************************************)
(* Messages that may be read out of order: without TSBPD, those whose      *)
(* packets have the order flag zero.                                       *)
(***************************************************************************)

\* The packets at these offsets are all there and of this message.
SameMessage(b, offs, msgno) ==
    \A k \in offs : HasUnit(b, At(b, k)) /\ packetAt(b, At(b, k)).msgno = msgno

\* Does the message of the packet at off end to the right of it?
scanNotInOrderMessageRight(b, off, msgno) ==
    \E last \in (off + 1)..(b.m_iMaxPosOff - 1) :
        /\ SameMessage(b, (off + 1)..last, msgno)
        /\ packetAt(b, At(b, last)).last

\* The offsets to the left where the message of the packet at off begins.
scanNotInOrderMessageLeft(b, off, msgno) ==
    {first \in 0..(off - 1) :
        /\ SameMessage(b, first..(off - 1), msgno)
        /\ packetAt(b, At(b, first)).first}

\* A packet without order flag was inserted: if that completes its message,
\* and none was known to be readable out of order, this one is.
onInsertNotInOrderPacket(b, insertPos) ==
    LET off    == offPos(b.m_iStartPos, insertPos)
        pkt    == packetAt(b, insertPos)
        firsts == IF pkt.first THEN {off}
                  ELSE scanNotInOrderMessageLeft(b, off, pkt.msgno)
    IN  IF \/ b.m_iFirstReadableOutOfOrder >= 0
           \/ ~(pkt.last \/ scanNotInOrderMessageRight(b, off, pkt.msgno))
           \/ firsts = {}
        THEN b
        ELSE [b EXCEPT !.m_iFirstReadableOutOfOrder = At(b, Max(firsts))]

\* Mutant of checkFirstReadableOutOfOrder: only the first packet is looked at.
checkFirstPacketOnly(b) ==
    b.m_iFirstReadableOutOfOrder >= 0 /\ HasUnit(b, b.m_iFirstReadableOutOfOrder)

\* The message at m_iFirstReadableOutOfOrder still has all its packets.
checkFirstReadableOutOfOrder(b) ==
    LET off == offPos(b.m_iStartPos, b.m_iFirstReadableOutOfOrder)
    IN  /\ b.m_numOutOfOrderPackets > 0
        /\ b.m_iFirstReadableOutOfOrder >= 0
        /\ \E last \in off..(b.m_iMaxPosOff - 1) :
               /\ HasUnit(b, At(b, off))
               /\ SameMessage(b, off..last, packetAt(b, At(b, off)).msgno)
               /\ \A k \in off..last : ~packetAt(b, At(b, k)).inorder
               /\ packetAt(b, At(b, last)).last

\* The complete messages without order flag, as <<first, last>> offsets.
UnorderedMessages(b) ==
    {span \in (0..(b.m_iMaxPosOff - 1)) \X (0..(b.m_iMaxPosOff - 1)) :
        LET first == span[1]  last == span[2]
        IN  /\ first <= last
            /\ HasUnit(b, At(b, first))
            /\ packetAt(b, At(b, first)).first
            /\ SameMessage(b, first..last, packetAt(b, At(b, first)).msgno)
            /\ \A k \in first..last : ~packetAt(b, At(b, k)).inorder
            /\ packetAt(b, At(b, last)).last}

\* When nothing can be read in order and no message is known to be readable
\* out of order, the first complete one in the buffer is.
updateFirstReadableOutOfOrder(b) ==
    LET found == {span[1] : span \in UnorderedMessages(b)}
    IN  IF \/ hasReadableInorderPkts(b)
           \/ b.m_numOutOfOrderPackets <= 0
           \/ b.m_iFirstReadableOutOfOrder >= 0
           \/ found = {}
        THEN b
        ELSE [b EXCEPT !.m_iFirstReadableOutOfOrder = At(b, Min(found))]

-----------------------------------------------------------------------------
(***************************************************************************)
(* The methods that the connection calls.                                  *)
(***************************************************************************)

\* Entries at the start that were read out of order or dropped are passed.
releaseNextFillerEntries(b) ==
    LET n == Max({k \in 0..m_szSize : \A j \in 0..(k - 1) :
                     b.m_entries[At(b, j)].status \in {"Read", "Drop"}})
    IN  [b EXCEPT
            !.m_entries = [pos \in Positions |->
                IF offPos(b.m_iStartPos, pos) < n THEN Empty ELSE @[pos]],
            !.m_iStartSeqNo = incseqBy(@, n),
            !.m_iStartPos = At(b, n),
            !.m_iMaxPosOff = Max({0, @ - n})]

\* Mutant of InsertResult: only a packet that is there takes an entry.
InsertResultIfUnit(b, pkt) ==
    LET offset == seqoff(b.m_iStartSeqNo, pkt.seqno)
    IN  IF offset < 0 THEN -2
        ELSE IF offset >= capacity THEN -3
        ELSE IF HasUnit(b, At(b, offset)) THEN -1
        ELSE 0

\* insert's result: 0, -1 when the entry is taken, -2 when the packet is
\* before the buffer and -3 when it is behind its capacity.
InsertResult(b, pkt) ==
    LET offset == seqoff(b.m_iStartSeqNo, pkt.seqno)
    IN  IF offset < 0 THEN -2
        ELSE IF offset >= capacity THEN -3
        ELSE IF b.m_entries[At(b, offset)].status # "Empty" THEN -1
        ELSE 0

\* Mutant of Reach: one entry short.
ReachShort(b, offset) == [b EXCEPT !.m_iMaxPosOff = Max({@, offset})]

Reach(b, offset) == [b EXCEPT !.m_iMaxPosOff = Max({@, offset + 1})]

insert(b, pkt) ==
    LET offset == seqoff(b.m_iStartSeqNo, pkt.seqno)
        pos == At(b, offset)
        reached == Reach(b, offset)
        placed == [reached EXCEPT !.m_entries[pos] = Avail(pkt)]
        counted == [placed EXCEPT !.m_numOutOfOrderPackets = @ + 1]
    IN  CASE InsertResult(b, pkt) \in {-2, -3} -> b
          [] InsertResult(b, pkt) = -1 -> reached
          [] OTHER -> IF ~b.tsbpd /\ ~pkt.inorder
                      THEN updateNonreadPos(onInsertNotInOrderPacket(counted, pos))
                      ELSE updateNonreadPos(placed)

\* Mutant of UnorderedAt: packets of every flag are counted.
UnitsAt(b, poss) == {pos \in poss : HasUnit(b, pos) /\ ~b.tsbpd}

\* The positions of the packets that may be read out of order.
UnorderedAt(b, poss) ==
    {pos \in poss : HasUnit(b, pos) /\ ~b.tsbpd /\ ~packetAt(b, pos).inorder}

\* dropUnitInPos for each of these positions, which then hold this entry.
DropUnits(b, poss, entry) ==
    [b EXCEPT
        !.m_entries = [pos \in Positions |->
                           IF pos \in poss THEN entry ELSE @[pos]],
        !.m_numOutOfOrderPackets = @ - Cardinality(UnorderedAt(b, poss)),
        !.m_iFirstReadableOutOfOrder = IF @ \in UnorderedAt(b, poss) THEN -1 ELSE @]

\* Everything before seqno is given up, whether it came or not.
dropUpTo(b, seqno) ==
    LET len     == seqoff(b.m_iStartSeqNo, seqno)
        cleared == DropUnits(b, {At(b, k) : k \in 0..(len - 1)}, Empty)
        moved   == releaseNextFillerEntries(
                       [cleared EXCEPT !.m_iMaxPosOff = Max({0, @ - len}),
                                       !.m_iStartPos = At(b, len),
                                       !.m_iStartSeqNo = seqno])
        renewed == IF isInRange(moved) THEN moved
                   ELSE updateNonreadPos(
                            [moved EXCEPT !.m_iFirstNonreadPos = moved.m_iStartPos])
    IN  IF len <= 0 THEN b
        ELSE IF b.tsbpd THEN renewed
        ELSE updateFirstReadableOutOfOrder(renewed)

\* The sender gave up seqnolo..seqnohi, of message msgno when that is above
\* SRT_MSGNO_CONTROL (0).  Packets of the message that precede seqnolo in
\* the buffer are dropped with it.  With KEEP_EXISTING, a message of one
\* packet that is there stays.
dropMessage(b, seqnolo, seqnohi, msgno, keep) ==
    LET offset_a == seqoff(b.m_iStartSeqNo, seqnolo)
        offset_b == seqoff(b.m_iStartSeqNo, seqnohi)
        start_off == Max({0, offset_a})
        end_off == Min({m_szSize - 1, offset_b + 1})
        Solo(off) == /\ HasUnit(b, At(b, off))
                     /\ packetAt(b, At(b, off)).first
                     /\ packetAt(b, At(b, off)).last
        range == {off \in start_off..(end_off - 1) :
                     /\ b.m_entries[At(b, off)].status # "Drop"
                     /\ ~(keep /\ Solo(off))}
        \* no search backwards once the beginning of a message, or a message
        \* of one packet that stays, was met in the range
        met == \E off \in start_off..(end_off - 1) :
                   \/ keep /\ Solo(off)
                   \/ /\ off \in range
                      /\ HasUnit(b, At(b, off))
                      /\ packetAt(b, At(b, off)).first
                      /\ ~packetAt(b, At(b, off)).last
        dropped == DropUnits(b, {At(b, off) : off \in range}, Drop)
        \* backwards, until another message or the beginning of this one
        earlier == IF msgno <= 0 \/ met THEN {}
                   ELSE {off \in 0..start_off :
                            /\ HasUnit(dropped, At(b, off))
                            /\ \A k \in off..start_off :
                                  HasUnit(dropped, At(b, k)) =>
                                     LET pkt == packetAt(dropped, At(b, k))
                                     IN  /\ pkt.msgno = msgno
                                         /\ ~(keep /\ pkt.first /\ pkt.last)
                                         /\ k > off => ~pkt.first}
        all == DropUnits(dropped, {At(b, off) : off \in earlier}, Drop)
        \* getRcvDataSize() against the smallest offset that was dropped
        before == /\ range \cup earlier # {}
                  /\ Min(range \cup earlier)
                         <= offPos(b.m_iStartPos, b.m_iFirstNonreadPos)
        released == releaseNextFillerEntries(all)
        renewed == IF before
                   THEN updateNonreadPos(
                            [released EXCEPT !.m_iFirstNonreadPos = released.m_iStartPos])
                   ELSE released
        checked == IF checkFirstReadableOutOfOrder(renewed) THEN renewed
                   ELSE [renewed EXCEPT !.m_iFirstReadableOutOfOrder = -1]
    IN  IF offset_b < 0 THEN b
        ELSE IF b.tsbpd THEN renewed
        ELSE updateFirstReadableOutOfOrder(checked)

-----------------------------------------------------------------------------
(***************************************************************************)
(* Reading.                                                                *)
(***************************************************************************)

CanRead(b) == hasReadableInorderPkts(b) \/ b.m_iFirstReadableOutOfOrder >= 0

ReadPos(b) == IF hasReadableInorderPkts(b) THEN b.m_iStartPos
              ELSE b.m_iFirstReadableOutOfOrder

\* The offsets that readMessage copies: up to the end of a message, or to an
\* entry without a packet, the error it logs as a null packet.
ReadOffsets(b) ==
    LET first == offPos(b.m_iStartPos, ReadPos(b))
        stops == {k \in first..(m_szSize - 1) :
                     ~HasUnit(b, At(b, k)) \/ packetAt(b, At(b, k)).last}
        stop  == Min(stops)
    IN  IF HasUnit(b, At(b, stop)) THEN first..stop ELSE first..(stop - 1)

MessageRead(b) == {packetAt(b, At(b, k)) : k \in ReadOffsets(b)}

\* A message read in order moves the start of the buffer; one read out of
\* order leaves entries marked Read.  The call of updateNonreadPos is
\* commented out in the code.
readMessage(b) ==
    LET offs == ReadOffsets(b)
        poss == {At(b, k) : k \in offs}
        n    == Cardinality(offs)
        unordered == {pos \in poss : ~packetAt(b, pos).inorder}
        done == /\ ReadPos(b) = b.m_iFirstReadableOutOfOrder
                /\ \E pos \in poss : packetAt(b, pos).last
        counted == [b EXCEPT
            !.m_numOutOfOrderPackets = Max({0, @ - Cardinality(unordered)}),
            !.m_iFirstReadableOutOfOrder = IF done THEN -1 ELSE @,
            !.m_entries = [pos \in Positions |->
                IF pos \notin poss THEN @[pos]
                ELSE IF ReadPos(b) = b.m_iStartPos THEN Empty ELSE Read]]
        moved == IF ReadPos(b) = b.m_iStartPos
                 THEN [counted EXCEPT !.m_iStartPos = At(b, n),
                                      !.m_iMaxPosOff = @ - n,
                                      !.m_iStartSeqNo = incseqBy(@, n)]
                 ELSE counted
        released == releaseNextFillerEntries(moved)
        ranged == IF isInRange(released) THEN released
                  ELSE [released EXCEPT !.m_iFirstNonreadPos = released.m_iStartPos]
    IN  IF b.tsbpd THEN ranged ELSE updateFirstReadableOutOfOrder(ranged)

\* The packet that the reader or the TSBPD thread looks at next.
getFirstValidOffset(b) ==
    LET there == {off \in 0..(b.m_iMaxPosOff - 1) : HasUnit(b, At(b, off))}
    IN  IF there = {} THEN -1 ELSE Min(there)

isRcvDataReady(b) ==
    \/ hasReadableInorderPkts(b)
    \/ /\ ~b.tsbpd
       /\ b.m_numOutOfOrderPackets > 0
       /\ b.m_iFirstReadableOutOfOrder # -1

getFirstNonreadSeqNo(b) ==
    incseqBy(b.m_iStartSeqNo, offPos(b.m_iStartPos, b.m_iFirstNonreadPos))

\* Mutant of getAvailSize: the packet at iFirstUnackSeqNo is counted as room.
getAvailSizeWithNext(b, iFirstUnackSeqNo) ==
    IF seqcmp(b.m_iStartSeqNo, iFirstUnackSeqNo) >= 0 THEN capacity
    ELSE capacity - seqoff(b.m_iStartSeqNo, iFirstUnackSeqNo) + 1

\* The room from the first unacknowledged packet on (getAvailSize).
getAvailSize(b, iFirstUnackSeqNo) ==
    IF seqcmp(b.m_iStartSeqNo, iFirstUnackSeqNo) >= 0 THEN capacity
    ELSE capacity - seqlen(b.m_iStartSeqNo, iFirstUnackSeqNo) + 1

=============================================================================
