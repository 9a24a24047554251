--------------------------- MODULE RcvBufferProofs ---------------------------
(***************************************************************************)
(* What the receiver buffer guarantees for every size, every stream of     *)
(* messages and every space of sequence numbers: packets are where their   *)
(* numbers say, the counter of unordered packets is exact, what can be     *)
(* read is a whole message, and messages are read in turn.  First, what    *)
(* the arithmetic of SeqNo guarantees for every size of the sequence       *)
(* space, the one of the code included.                                    *)
(***************************************************************************)
EXTENDS RcvBufferCalls, FiniteSetTheorems, WellFoundedInduction, TLAPS

-----------------------------------------------------------------------------
(* Sequence numbers *)

\* Stepping by a distance stays in the sequence space (CSeqNo::incseq and
\* decseq, common.h:689-704).
LEMMA StepsStayInSpace ==
    ASSUME NEW seq \in SeqNo, NEW n \in 0..m_iMaxSeqNo
    PROVE  /\ incseqBy(seq, n) \in SeqNo
           /\ decseqBy(seq, n) \in SeqNo
  BY SeqNoAssumption DEF SeqNo, incseqBy, decseqBy

\* Forward and backward steps undo each other, across the wrap too.
LEMMA StepsInvert ==
    ASSUME NEW seq \in SeqNo, NEW n \in 0..m_iMaxSeqNo
    PROVE  /\ decseqBy(incseqBy(seq, n), n) = seq
           /\ incseqBy(decseqBy(seq, n), n) = seq
  BY SeqNoAssumption DEF SeqNo, incseqBy, decseqBy

\* seqoff measures what incseq and decseq walked, for every distance below
\* the threshold and wherever the walk starts: an offset into a buffer or a
\* loss list that is computed with seqoff is right across the wrap.
THEOREM OffsetMeasuresSteps ==
    ASSUME NEW seq \in SeqNo, NEW n \in 0..(m_iSeqNoTH - 1)
    PROVE  /\ seqoff(seq, incseqBy(seq, n)) = n
           /\ seqoff(seq, decseqBy(seq, n)) = -n
  BY SeqNoAssumption DEF SeqNo, seqoff, incseqBy, decseqBy, abs

\* Within the threshold seqcmp orders numbers as the walk does and seqlen
\* counts one more than the distance.
THEOREM ComparisonFollowsSteps ==
    ASSUME NEW seq \in SeqNo, NEW n \in 0..(m_iSeqNoTH - 1)
    PROVE  /\ seqlen(seq, incseqBy(seq, n)) = n + 1
           /\ (seqcmp(incseqBy(seq, n), seq) > 0) <=> (n > 0)
           /\ (seqcmp(seq, incseqBy(seq, n)) < 0) <=> (n > 0)
           /\ (seqcmp(seq, incseqBy(seq, n)) = 0) <=> (n = 0)
  BY SeqNoAssumption DEF SeqNo, seqlen, seqcmp, incseqBy, abs

\* The step that seqoff names leads where it should, in both directions:
\* the converse of OffsetMeasuresSteps.
THEOREM OffsetLeadsBack ==
    ASSUME NEW seq1 \in SeqNo, NEW seq2 \in SeqNo
    PROVE  /\ seqoff(seq1, seq2) >= 0 => incseqBy(seq1, seqoff(seq1, seq2)) = seq2
           /\ seqoff(seq1, seq2) < 0 => decseqBy(seq1, -seqoff(seq1, seq2)) = seq2
  BY SeqNoAssumption DEF SeqNo, seqoff, incseqBy, decseqBy, abs

\* Two walks make one.
LEMMA StepsAdd ==
    ASSUME NEW seq \in SeqNo, NEW n \in Nat, NEW k \in Nat, n + k <= m_iMaxSeqNo
    PROVE  incseqBy(incseqBy(seq, n), k) = incseqBy(seq, n + k)
  BY SeqNoAssumption DEF SeqNo, incseqBy

\* A sequence number stands for one packet of the stream.
LEMMA StepsDiffer ==
    ASSUME NEW seq \in SeqNo, NEW n \in 0..m_iMaxSeqNo, NEW k \in 0..m_iMaxSeqNo,
           incseqBy(seq, n) = incseqBy(seq, k)
    PROVE  n = k
  BY SeqNoAssumption DEF SeqNo, incseqBy

-----------------------------------------------------------------------------
(* Positions *)

\* A circular position is the start plus the offset, less the size if need be.
LEMMA IncPosValue ==
    ASSUME NEW p \in Positions, NEW n \in 0..m_szSize
    PROVE  /\ incPos(p, n) = IF p + n < m_szSize THEN p + n ELSE p + n - m_szSize
           /\ incPos(p, n) \in Positions
  <1>1. m_szSize \in Nat \ {0} /\ p + n \in 0..(2 * m_szSize)
    BY SizeAssumption, SeqNoAssumption DEF Positions
  <1>2. p + n < m_szSize => (p + n) % m_szSize = p + n
    BY <1>1 DEF Positions
  <1>3. p + n >= m_szSize => (p + n) % m_szSize = p + n - m_szSize
    BY <1>1 DEF Positions
  <1> QED
    BY <1>1, <1>2, <1>3 DEF incPos, Positions

LEMMA OffPosValue ==
    ASSUME NEW p \in Positions, NEW q \in Positions
    PROVE  offPos(p, q) \in 0..(m_szSize - 1) /\ incPos(p, offPos(p, q)) = q
  <1>1. m_szSize \in Nat /\ offPos(p, q) \in 0..(m_szSize - 1)
    BY SizeAssumption, SeqNoAssumption DEF offPos, Positions
  <1> DEFINE n == offPos(p, q)
  <1>2. n \in 0..m_szSize
    BY <1>1
  <1>3. incPos(p, n) = IF p + n < m_szSize THEN p + n ELSE p + n - m_szSize
    <2> HIDE DEF n
    <2> QED
      BY <1>2, IncPosValue
  <1> QED
    BY <1>1, <1>3 DEF offPos, Positions

LEMMA OffPosOfIncPos ==
    ASSUME NEW p \in Positions, NEW n \in 0..(m_szSize - 1)
    PROVE  offPos(p, incPos(p, n)) = n
  <1>1. m_szSize \in Nat /\ n \in 0..m_szSize
    BY SizeAssumption, SeqNoAssumption
  <1>2. incPos(p, n) = IF p + n < m_szSize THEN p + n ELSE p + n - m_szSize
    BY <1>1, IncPosValue
  <1> QED
    BY <1>1, <1>2 DEF offPos, Positions

\* Moving the start by n shifts offsets by n, around the end.
LEMMA IncPosAdd ==
    ASSUME NEW p \in Positions, NEW n \in 0..m_szSize, NEW k \in 0..(m_szSize - 1)
    PROVE  incPos(incPos(p, n), k) =
               incPos(p, IF n + k < m_szSize THEN n + k ELSE n + k - m_szSize)
  <1>1. m_szSize \in Nat \ {0} /\ incPos(p, n) \in Positions
    BY IncPosValue, SizeAssumption, SeqNoAssumption
  <1> DEFINE j == IF n + k < m_szSize THEN n + k ELSE n + k - m_szSize
  <1>2. j \in 0..m_szSize /\ k \in 0..m_szSize
    BY <1>1
  <1>3. incPos(p, j) = IF p + j < m_szSize THEN p + j ELSE p + j - m_szSize
    BY <1>2, IncPosValue
  <1>4. incPos(incPos(p, n), k) =
            IF incPos(p, n) + k < m_szSize THEN incPos(p, n) + k ELSE incPos(p, n) + k - m_szSize
    BY <1>1, <1>2, IncPosValue
  <1>5. incPos(p, n) = IF p + n < m_szSize THEN p + n ELSE p + n - m_szSize
    BY IncPosValue
  <1> QED
    BY <1>1, <1>3, <1>4, <1>5 DEF Positions

-----------------------------------------------------------------------------
(* Least and greatest elements *)

LEMMA LeastNat ==
    ASSUME NEW S \in SUBSET Nat, S # {}
    PROVE  Min(S) \in S /\ \A y \in S : Min(S) <= y
  <1>1. PICK n \in S : \A y \in S : <<y, n>> \notin OpToRel(<, Nat)
    BY NatLessThanWellFounded, WFMin
  <1>2. \A y \in S : ~(y < n)
    BY <1>1, Zenon DEF OpToRel
  <1>3. \A y \in S : n <= y
    BY <1>2
  <1> QED
    BY <1>3 DEF Min

LEMMA GreatestInt ==
    ASSUME NEW S \in SUBSET Int, S # {}, NEW u \in Int, \A y \in S : y <= u
    PROVE  Max(S) \in S /\ \A y \in S : y <= Max(S)
  <1> DEFINE T == {u - y : y \in S}
  <1>1. T \in SUBSET Nat /\ T # {}
    OBVIOUS
  <1>2. Min(T) \in T /\ \A y \in T : Min(T) <= y
    <2> HIDE DEF T
    <2> QED
      BY <1>1, LeastNat
  <1>3. PICK x \in S : Min(T) = u - x
    BY <1>2
  <1>4. \A y \in S : x >= y
    <2> SUFFICES ASSUME NEW y \in S PROVE x >= y
      OBVIOUS
    <2>1. Min(T) <= u - y
      BY <1>2
    <2>2. x \in Int /\ y \in Int
      OBVIOUS
    <2> HIDE DEF T
    <2> QED
      BY <1>3, <2>1, <2>2
  <1>5. \E z \in S : \A y \in S : z >= y
    BY <1>4
  <1>6. Max(S) \in S /\ \A y \in S : Max(S) >= y
    BY <1>5 DEF Max
  <1> QED
    BY <1>6

LEMMA MaxOfTwo ==
    ASSUME NEW i \in Int, NEW j \in Int
    PROVE  Max({i, j}) = IF i >= j THEN i ELSE j
  <1>1. {i, j} \in SUBSET Int /\ \E u \in Int : \A y \in {i, j} : y <= u
    <2>1. CASE i >= j
      BY <2>1
    <2>2. CASE i < j
      BY <2>2
    <2> QED
      BY <2>1, <2>2
  <1>2. Max({i, j}) \in {i, j} /\ \A y \in {i, j} : y <= Max({i, j})
    BY <1>1, GreatestInt
  <1> QED
    BY <1>2

LEMMA MinOfTwo ==
    ASSUME NEW i \in Nat, NEW j \in Nat
    PROVE  Min({i, j}) = IF i <= j THEN i ELSE j
  <1>1. Min({i, j}) \in {i, j} /\ \A y \in {i, j} : Min({i, j}) <= y
    BY LeastNat
  <1> QED
    BY <1>1

-----------------------------------------------------------------------------
(* Buffers *)

Entry == {Empty, Drop, Read} \cup {Avail(pkt) : pkt \in Stream}

BufferType ==
    [m_entries : [Positions -> Entry],
     m_iStartSeqNo : SeqNo,
     m_iStartPos : Positions,
     m_iFirstNonreadPos : Positions,
     m_iMaxPosOff : 0..capacity,
     m_numOutOfOrderPackets : Nat,
     m_iFirstReadableOutOfOrder : Positions \cup {-1},
     tsbpd : BOOLEAN]

\* The entry at an offset from the start.
EntryAt(c, off) == c.m_entries[At(c, off)]
UnitAt(c, off) == HasUnit(c, At(c, off))
PacketAt(c, off) == packetAt(c, At(c, off))

Window(c) ==
    \A off \in 0..(m_szSize - 1) :
        UnitAt(c, off) => /\ PacketAt(c, off).seqno = incseqBy(c.m_iStartSeqNo, off)
                          /\ off < c.m_iMaxPosOff

Counted(c) == c.m_numOutOfOrderPackets = Cardinality(UnorderedAt(c, Positions))

Good(c) == c \in BufferType /\ Window(c) /\ Counted(c)

LEMMA Sizes ==
    /\ m_szSize \in Nat /\ m_szSize >= 2 /\ m_szSize < m_iSeqNoTH /\ capacity = m_szSize - 1
    /\ m_iSeqNoTH \in Nat /\ m_iMaxSeqNo \in Nat /\ m_iMaxSeqNo = 2 * m_iSeqNoTH + 1
    /\ IsFiniteSet(Positions)
  BY SizeAssumption, SeqNoAssumption, FS_Interval DEF capacity, Positions

LEMMA PacketFacts ==
    ASSUME NEW pkt \in Stream
    PROVE  /\ pkt.seqno \in SeqNo /\ pkt.msgno \in Msgs /\ pkt # NoUnit
           /\ pkt.first \in BOOLEAN /\ pkt.last \in BOOLEAN
           /\ pkt.inorder = order[pkt.msgno]
           /\ \E i \in DOMAIN MessageOf : pkt = Packet(i)
  <1>1. PICK i \in DOMAIN MessageOf : pkt = Packet(i)
    BY DEF Stream
  <1>2. i \in 1..Len(MessageOf) /\ Len(MessageOf) \in Nat /\ i - 1 \in 0..m_iMaxSeqNo
        /\ ISN \in SeqNo
    BY StreamAssumption, Sizes
  <1>3. /\ pkt.seqno = incseqBy(ISN, i - 1) /\ pkt.msgno = MessageOf[i]
        /\ pkt.inorder = order[MessageOf[i]]
        /\ pkt.first \in BOOLEAN /\ pkt.last \in BOOLEAN
    BY <1>1 DEF Packet
  <1>4. pkt.seqno \in SeqNo /\ pkt.msgno \in Msgs
    BY <1>2, <1>3, StepsStayInSpace DEF Msgs
  <1>5. pkt # NoUnit
    <2>1. NoUnit.seqno = -1
      BY DEF NoUnit, SRT_SEQNO_NONE
    <2> QED
      BY <1>4, <2>1, Sizes DEF SeqNo
  <1> QED
    BY <1>1, <1>3, <1>4, <1>5

\* A unit exactly in the entries that are available.
LEMMA EntryFacts ==
    ASSUME NEW e \in Entry
    PROVE  /\ e.status \in {"Empty", "Drop", "Read", "Avail"}
           /\ e.unit # NoUnit <=> e.status = "Avail"
           /\ e.status = "Avail" => e.unit \in Stream
           /\ e.status = "Empty" => e = Empty
  <1>1. CASE e \in {Empty, Drop, Read}
    BY <1>1 DEF Empty, Drop, Read
  <1>2. ASSUME NEW pkt \in Stream, e = Avail(pkt) PROVE e.status = "Avail" /\ e.unit = pkt
    BY <1>2 DEF Avail
  <1> QED
    BY <1>1, <1>2, PacketFacts DEF Entry

LEMMA EmptyEntries ==
    /\ Empty \in Entry /\ Drop \in Entry /\ Read \in Entry
    /\ Empty.unit = NoUnit /\ Drop.unit = NoUnit /\ Read.unit = NoUnit
    /\ Empty.status = "Empty" /\ Drop.status = "Drop" /\ Read.status = "Read"
  BY DEF Entry, Empty, Drop, Read

LEMMA BufferFields ==
    ASSUME NEW c \in BufferType
    PROVE  /\ c.m_entries \in [Positions -> Entry] /\ c.m_iStartSeqNo \in SeqNo
           /\ c.m_iStartPos \in Positions /\ c.m_iFirstNonreadPos \in Positions
           /\ c.m_iMaxPosOff \in 0..capacity /\ c.m_numOutOfOrderPackets \in Nat
           /\ c.m_iFirstReadableOutOfOrder \in Positions \cup {-1} /\ c.tsbpd \in BOOLEAN
  BY DEF BufferType

\* Offsets 0..(m_szSize - 1) and positions are the same thing.
LEMMA Offsets ==
    ASSUME NEW c \in BufferType
    PROVE  /\ \A off \in 0..m_szSize : At(c, off) \in Positions
           /\ \A off \in 0..(m_szSize - 1) : offPos(c.m_iStartPos, At(c, off)) = off
           /\ \A pos \in Positions : /\ offPos(c.m_iStartPos, pos) \in 0..(m_szSize - 1)
                                     /\ At(c, offPos(c.m_iStartPos, pos)) = pos
           /\ At(c, 0) = c.m_iStartPos
  <1>1. c.m_iStartPos \in Positions
    BY BufferFields
  <1>2. m_szSize \in Nat /\ 0 \in 0..m_szSize
    BY Sizes
  <1>3. incPos(c.m_iStartPos, 0) = c.m_iStartPos
    BY <1>1, <1>2, IncPosValue DEF Positions
  <1> QED
    BY <1>1, <1>2, <1>3, IncPosValue, OffPosValue, OffPosOfIncPos DEF At

LEMMA UnitFacts ==
    ASSUME NEW c \in BufferType, NEW pos \in Positions
    PROVE  /\ HasUnit(c, pos) <=> c.m_entries[pos].status = "Avail"
           /\ HasUnit(c, pos) => packetAt(c, pos) \in Stream
           /\ c.m_entries[pos] \in Entry
           /\ UnorderedAt(c, Positions) \in SUBSET Positions
           /\ IsFiniteSet(UnorderedAt(c, Positions))
  <1>1. c.m_entries[pos] \in Entry
    BY BufferFields
  <1>2. UnorderedAt(c, Positions) \in SUBSET Positions
    BY DEF UnorderedAt
  <1>3. IsFiniteSet(UnorderedAt(c, Positions))
    BY <1>2, Sizes, FS_Subset
  <1> QED
    BY <1>1, <1>2, <1>3, EntryFacts DEF HasUnit, packetAt

\* One entry stays unused, so the counter stays in the capacity.
LEMMA CountInCapacity ==
    ASSUME NEW c, Good(c)
    PROVE  c.m_numOutOfOrderPackets \in 0..capacity
  <1> DEFINE p == At(c, m_szSize - 1)
  <1>1. c \in BufferType /\ p \in Positions /\ m_szSize - 1 \in 0..(m_szSize - 1)
    BY Sizes, Offsets DEF Good
  <1>2. p \notin UnorderedAt(c, Positions)
    <2>1. ~UnitAt(c, m_szSize - 1)
      BY <1>1, BufferFields, Sizes DEF Good, Window
    <2> QED
      BY <2>1 DEF UnorderedAt, UnitAt
  <1> HIDE DEF p
  <1>3. UnorderedAt(c, Positions) \subseteq Positions \ {p}
    BY <1>1, <1>2, UnitFacts
  <1>4. Cardinality(Positions) = m_szSize
    BY Sizes, FS_Interval DEF Positions
  <1>5. IsFiniteSet(Positions \ {p}) /\ Cardinality(Positions \ {p}) = m_szSize - 1
    BY <1>1, <1>4, Sizes, FS_RemoveElement
  <1>6. Cardinality(UnorderedAt(c, Positions)) <= m_szSize - 1
    BY <1>3, <1>5, FS_Subset
  <1> QED
    BY <1>1, <1>6, Sizes, BufferFields DEF Good, Counted

-----------------------------------------------------------------------------
(* The methods keep the buffer good *)

\* What dropUnitInPos does to these positions.
Drops(c, poss, entry, d) ==
    /\ d.m_entries = [pos \in Positions |-> IF pos \in poss THEN entry ELSE c.m_entries[pos]]
    /\ d.m_numOutOfOrderPackets =
           c.m_numOutOfOrderPackets - Cardinality(UnorderedAt(c, poss))
    /\ d.m_iFirstReadableOutOfOrder =
           (IF c.m_iFirstReadableOutOfOrder \in UnorderedAt(c, poss) THEN -1
            ELSE c.m_iFirstReadableOutOfOrder)
    /\ d.m_iStartSeqNo = c.m_iStartSeqNo /\ d.m_iStartPos = c.m_iStartPos
    /\ d.m_iFirstNonreadPos = c.m_iFirstNonreadPos /\ d.m_iMaxPosOff = c.m_iMaxPosOff
    /\ d.tsbpd = c.tsbpd

LEMMA DropUnitsGood ==
    ASSUME NEW c, Good(c), NEW poss \in SUBSET Positions, NEW entry \in {Empty, Drop, Read},
           NEW d, d = DropUnits(c, poss, entry)
    PROVE  Good(d) /\ Drops(c, poss, entry, d)
  <1> DEFINE all == UnorderedAt(c, Positions)
             gone == UnorderedAt(c, poss)
  <1>1. c \in BufferType /\ entry \in Entry /\ entry.unit = NoUnit
    BY EmptyEntries DEF Good
  <1> DEFINE e == [pos \in Positions |-> IF pos \in poss THEN entry ELSE c.m_entries[pos]]
             k == c.m_numOutOfOrderPackets - Cardinality(gone)
             f == IF c.m_iFirstReadableOutOfOrder \in gone THEN -1
                  ELSE c.m_iFirstReadableOutOfOrder
  <1>0. d = [c EXCEPT !.m_entries = e, !.m_numOutOfOrderPackets = k,
                      !.m_iFirstReadableOutOfOrder = f]
    BY DEF DropUnits
  <1> HIDE DEF e, k, f
  <1>2. /\ d.m_entries = e /\ d.m_numOutOfOrderPackets = k /\ d.m_iFirstReadableOutOfOrder = f
        /\ d.m_iStartSeqNo = c.m_iStartSeqNo /\ d.m_iStartPos = c.m_iStartPos
        /\ d.m_iFirstNonreadPos = c.m_iFirstNonreadPos /\ d.m_iMaxPosOff = c.m_iMaxPosOff
        /\ d.tsbpd = c.tsbpd
        /\ e \in [Positions -> Entry] /\ k \in Nat /\ f \in Positions \cup {-1}
               => d \in BufferType
    BY <1>0, <1>1 DEF BufferType
  <1>3. \A pos \in Positions : /\ pos \in poss => ~HasUnit(d, pos)
                               /\ pos \notin poss => d.m_entries[pos] = c.m_entries[pos]
    BY <1>1, <1>2 DEF HasUnit, e
  <1>4. UnorderedAt(d, Positions) = all \ gone /\ gone \subseteq all
    BY <1>2, <1>3 DEF UnorderedAt, HasUnit, packetAt
  <1>5. /\ IsFiniteSet(all) /\ IsFiniteSet(gone)
        /\ Cardinality(all) \in Nat /\ Cardinality(gone) \in Nat
        /\ Cardinality(gone) <= Cardinality(all)
        /\ Cardinality(all \ gone) = Cardinality(all) - Cardinality(gone)
    <2>1. IsFiniteSet(all)
      <3>1. 0 \in Positions
        BY Sizes DEF Positions
      <3> QED
        BY <1>1, <3>1, UnitFacts
    <2>2. IsFiniteSet(gone) /\ Cardinality(gone) <= Cardinality(all)
      BY <1>4, <2>1, FS_Subset
    <2>3. Cardinality(all \ gone) = Cardinality(all) - Cardinality(all \cap gone)
      BY <2>1, FS_Difference
    <2>4. all \cap gone = gone
      BY <1>4
    <2> QED
      BY <2>1, <2>2, <2>3, <2>4, FS_CardinalityType
  <1>6. Counted(d) /\ k \in Nat
    BY <1>2, <1>4, <1>5 DEF Counted, Good, k
  <1>7. d \in BufferType
    <2>1. e \in [Positions -> Entry]
      BY <1>1, BufferFields DEF e
    <2>2. f \in Positions \cup {-1}
      BY <1>1, BufferFields DEF f
    <2> QED
      BY <1>2, <1>6, <2>1, <2>2
  <1>8. Window(d)
    <2> SUFFICES ASSUME NEW off \in 0..(m_szSize - 1), UnitAt(d, off)
                 PROVE  /\ PacketAt(d, off).seqno = incseqBy(d.m_iStartSeqNo, off)
                        /\ off < d.m_iMaxPosOff
      BY DEF Window
    <2>1. At(d, off) = At(c, off) /\ At(c, off) \in Positions
      BY <1>1, <1>2, Offsets, Sizes DEF At
    <2>2. d.m_entries[At(c, off)] = c.m_entries[At(c, off)]
      BY <1>3, <2>1 DEF UnitAt
    <2>3. UnitAt(c, off) /\ PacketAt(d, off) = PacketAt(c, off)
      BY <2>1, <2>2 DEF UnitAt, PacketAt, HasUnit, packetAt
    <2> QED
      BY <1>2, <2>3 DEF Good, Window
  <1> QED
    BY <1>2, <1>6, <1>7, <1>8 DEF Good, Drops, e, k, f

\* The start of d is n entries further than that of c, which are emptied.
Moves(c, n, d) ==
    /\ d.m_entries = [pos \in Positions |->
                          IF offPos(c.m_iStartPos, pos) < n THEN Empty ELSE c.m_entries[pos]]
    /\ d.m_iStartSeqNo = incseqBy(c.m_iStartSeqNo, n)
    /\ d.m_iStartPos = At(c, n)
    /\ d.m_iMaxPosOff = (IF c.m_iMaxPosOff >= n THEN c.m_iMaxPosOff - n ELSE 0)
    /\ d.m_numOutOfOrderPackets = c.m_numOutOfOrderPackets
    /\ d.tsbpd = c.tsbpd

LEMMA MovesTypes ==
    ASSUME NEW c \in BufferType, NEW n \in 0..m_szSize, NEW d, Moves(c, n, d)
    PROVE  /\ d.m_entries \in [Positions -> Entry] /\ d.m_iStartSeqNo \in SeqNo
           /\ d.m_iStartPos \in Positions /\ d.m_iMaxPosOff \in 0..capacity
           /\ d.m_numOutOfOrderPackets \in Nat /\ d.tsbpd \in BOOLEAN
  <1>1. d.m_entries \in [Positions -> Entry]
    BY BufferFields, EmptyEntries DEF Moves
  <1>2. n \in 0..m_iMaxSeqNo
    BY Sizes
  <1>3. d.m_iStartSeqNo \in SeqNo
    BY <1>2, BufferFields, StepsStayInSpace DEF Moves
  <1>4. d.m_iStartPos \in Positions
    BY Offsets DEF Moves
  <1>5. d.m_iMaxPosOff \in 0..capacity
    BY BufferFields, Sizes DEF Moves
  <1> QED
    BY <1>1, <1>3, <1>4, <1>5, BufferFields DEF Moves

\* Offsets into d and offsets into c.
LEMMA MovesOffsets ==
    ASSUME NEW c \in BufferType, NEW n \in 0..m_szSize, NEW d, Moves(c, n, d),
           NEW off \in 0..(m_szSize - 1)
    PROVE  /\ n + off < m_szSize => /\ At(d, off) = At(c, n + off)
                                    /\ EntryAt(d, off) = EntryAt(c, n + off)
           /\ n + off >= m_szSize => EntryAt(d, off) = Empty
  <1>1. m_szSize \in Nat /\ c.m_iStartPos \in Positions
    BY Sizes, BufferFields
  <1> DEFINE k == IF n + off < m_szSize THEN n + off ELSE n + off - m_szSize
  <1>2. k \in 0..(m_szSize - 1) /\ k \in 0..m_szSize
    BY <1>1
  <1>3. At(d, off) = At(c, k)
    BY <1>1, IncPosAdd DEF At, Moves
  <1>4. At(c, k) \in Positions /\ offPos(c.m_iStartPos, At(c, k)) = k
    BY <1>2, Offsets
  <1> HIDE DEF k
  <1>5. EntryAt(d, off) = IF k < n THEN Empty ELSE EntryAt(c, k)
    BY <1>3, <1>4 DEF Moves, EntryAt
  <1> QED
    BY <1>1, <1>3, <1>5 DEF k

LEMMA MovesGood ==
    ASSUME NEW c, Good(c), NEW n \in 0..m_szSize, NEW d \in BufferType, Moves(c, n, d),
           \A off \in 0..(n - 1) : ~UnitAt(c, off)
    PROVE  Good(d)
  <1>1. c \in BufferType /\ m_szSize \in Nat
    BY Sizes DEF Good
  <1>2. \A pos \in Positions : offPos(c.m_iStartPos, pos) < n => ~HasUnit(c, pos)
    BY <1>1, Offsets DEF UnitAt
  <1>3. \A pos \in Positions : IF offPos(c.m_iStartPos, pos) < n THEN ~HasUnit(d, pos)
                               ELSE d.m_entries[pos] = c.m_entries[pos]
    BY EmptyEntries DEF Moves, HasUnit
  <1>4. UnorderedAt(d, Positions) = UnorderedAt(c, Positions)
    <2>1. \A pos \in Positions : /\ HasUnit(d, pos) <=> HasUnit(c, pos)
                                 /\ HasUnit(c, pos) => packetAt(d, pos) = packetAt(c, pos)
      BY <1>2, <1>3 DEF HasUnit, packetAt
    <2> QED
      BY <2>1 DEF UnorderedAt, Moves
  <1>5. Counted(d)
    BY <1>4 DEF Counted, Good, Moves
  <1>6. Window(d)
    <2> SUFFICES ASSUME NEW off \in 0..(m_szSize - 1), UnitAt(d, off)
                 PROVE  /\ PacketAt(d, off).seqno = incseqBy(d.m_iStartSeqNo, off)
                        /\ off < d.m_iMaxPosOff
      BY DEF Window
    <2>1. EntryAt(d, off).unit # NoUnit
      BY DEF UnitAt, HasUnit, EntryAt
    <2>2. n + off < m_szSize
      BY <1>1, <2>1, MovesOffsets, EmptyEntries
    <2>3. EntryAt(d, off) = EntryAt(c, n + off) /\ n + off \in 0..(m_szSize - 1)
      BY <1>1, <2>2, MovesOffsets
    <2>4. UnitAt(c, n + off) /\ PacketAt(d, off) = PacketAt(c, n + off)
      BY <2>1, <2>3 DEF UnitAt, PacketAt, HasUnit, packetAt, EntryAt
    <2>5. PacketAt(d, off).seqno = incseqBy(c.m_iStartSeqNo, n + off) /\ n + off < c.m_iMaxPosOff
      BY <2>3, <2>4 DEF Good, Window
    <2>6. incseqBy(incseqBy(c.m_iStartSeqNo, n), off) = incseqBy(c.m_iStartSeqNo, n + off)
      BY <1>1, <2>2, StepsAdd, Sizes, BufferFields
    <2>7. c.m_iMaxPosOff \in Nat
      BY <1>1, BufferFields, Sizes
    <2> QED
      BY <2>5, <2>6, <2>7 DEF Moves
  <1> QED
    BY <1>5, <1>6 DEF Good

-----------------------------------------------------------------------------
(* What can be read *)

NonreadOff(c) == offPos(c.m_iStartPos, c.m_iFirstNonreadPos)

\* Up to m_iFirstNonreadPos there are whole messages.
InOrder(c) == WholeMessages(c, 0, NonreadOff(c))

\* The packets at these offsets are there, without order flag, from the first
\* one of a message to the last one of a message.
Span(c, first, last) ==
    /\ first \in 0..last /\ last < c.m_iMaxPosOff
    /\ \A k \in first..last : UnitAt(c, k) /\ ~PacketAt(c, k).inorder
    /\ PacketAt(c, first).first
    /\ PacketAt(c, last).last

\* Such packets begin at m_iFirstReadableOutOfOrder, if that is set.
OutOfOrder(c) ==
    c.m_iFirstReadableOutOfOrder # -1 =>
        /\ ~c.tsbpd
        /\ \E last \in 0..(m_szSize - 1) :
               Span(c, offPos(c.m_iStartPos, c.m_iFirstReadableOutOfOrder), last)

\* The start never stays at an entry that has been read or dropped.
HeadFresh(c) == EntryAt(c, 0).status \notin {"Read", "Drop"}

BufferInv(c) == Good(c) /\ InOrder(c) /\ OutOfOrder(c) /\ HeadFresh(c)

\* A change of m_iFirstNonreadPos alone ...
LEMMA NonreadChange ==
    ASSUME NEW c, Good(c), NEW p \in Positions, NEW r,
           r = [c EXCEPT !.m_iFirstNonreadPos = p]
    PROVE  /\ Good(r) /\ r.m_iFirstNonreadPos = p
           /\ r.m_entries = c.m_entries /\ r.m_iStartSeqNo = c.m_iStartSeqNo
           /\ r.m_iStartPos = c.m_iStartPos /\ r.m_iMaxPosOff = c.m_iMaxPosOff
           /\ r.m_numOutOfOrderPackets = c.m_numOutOfOrderPackets /\ r.tsbpd = c.tsbpd
           /\ r.m_iFirstReadableOutOfOrder = c.m_iFirstReadableOutOfOrder
           /\ \A off : At(r, off) = At(c, off)
           /\ \A off : /\ EntryAt(r, off) = EntryAt(c, off)
                       /\ UnitAt(r, off) = UnitAt(c, off) /\ PacketAt(r, off) = PacketAt(c, off)
           /\ OutOfOrder(c) => OutOfOrder(r)
           /\ HeadFresh(c) => HeadFresh(r)
           /\ \A from, to : WholeMessages(c, from, to) = WholeMessages(r, from, to)
  <1>1. c \in BufferType
    BY DEF Good
  <1>2. /\ r \in BufferType /\ r.m_iFirstNonreadPos = p
        /\ r.m_entries = c.m_entries /\ r.m_iStartSeqNo = c.m_iStartSeqNo
        /\ r.m_iStartPos = c.m_iStartPos /\ r.m_iMaxPosOff = c.m_iMaxPosOff
        /\ r.m_numOutOfOrderPackets = c.m_numOutOfOrderPackets /\ r.tsbpd = c.tsbpd
        /\ r.m_iFirstReadableOutOfOrder = c.m_iFirstReadableOutOfOrder
    BY <1>1 DEF BufferType
  <1>3. \A off : At(r, off) = At(c, off)
    BY <1>2 DEF At
  <1>4. \A pos : HasUnit(r, pos) = HasUnit(c, pos) /\ packetAt(r, pos) = packetAt(c, pos)
    BY <1>2 DEF HasUnit, packetAt
  <1>5. \A off : /\ EntryAt(r, off) = EntryAt(c, off)
                 /\ UnitAt(r, off) = UnitAt(c, off) /\ PacketAt(r, off) = PacketAt(c, off)
    BY <1>2, <1>3, <1>4 DEF EntryAt, UnitAt, PacketAt
  <1>6. Good(r)
    <2>1. UnorderedAt(r, Positions) = UnorderedAt(c, Positions)
      BY <1>2, <1>4 DEF UnorderedAt
    <2> QED
      BY <1>2, <1>5, <2>1 DEF Good, Counted, Window
  <1>7. OutOfOrder(c) => OutOfOrder(r)
    <2>1. \A f, l : Span(c, f, l) => Span(r, f, l)
      BY <1>2, <1>5 DEF Span
    <2> QED
      BY <1>2, <2>1 DEF OutOfOrder
  <1>8. HeadFresh(c) => HeadFresh(r)
    BY <1>5 DEF HeadFresh
  <1>9. \A from, to : WholeMessages(c, from, to) = WholeMessages(r, from, to)
    BY <1>3, <1>4 DEF WholeMessages
  <1> QED
    BY <1>2, <1>3, <1>5, <1>6, <1>7, <1>8, <1>9

\* ... and of m_iFirstReadableOutOfOrder alone.
LEMMA UnorderedChange ==
    ASSUME NEW c, Good(c), NEW p \in Positions \cup {-1}, NEW r,
           r = [c EXCEPT !.m_iFirstReadableOutOfOrder = p]
    PROVE  /\ Good(r) /\ r.m_iFirstReadableOutOfOrder = p
           /\ r.m_entries = c.m_entries /\ r.m_iStartPos = c.m_iStartPos
           /\ r.m_iStartSeqNo = c.m_iStartSeqNo
           /\ r.m_iMaxPosOff = c.m_iMaxPosOff /\ r.tsbpd = c.tsbpd
           /\ r.m_iFirstNonreadPos = c.m_iFirstNonreadPos
           /\ \A f, l : Span(c, f, l) => Span(r, f, l)
           /\ InOrder(c) => InOrder(r)
           /\ HeadFresh(c) => HeadFresh(r)
  <1>1. c \in BufferType
    BY DEF Good
  <1>2. /\ r \in BufferType /\ r.m_iFirstReadableOutOfOrder = p
        /\ r.m_entries = c.m_entries /\ r.m_iStartSeqNo = c.m_iStartSeqNo
        /\ r.m_iStartPos = c.m_iStartPos /\ r.m_iMaxPosOff = c.m_iMaxPosOff
        /\ r.m_numOutOfOrderPackets = c.m_numOutOfOrderPackets /\ r.tsbpd = c.tsbpd
        /\ r.m_iFirstNonreadPos = c.m_iFirstNonreadPos
    BY <1>1 DEF BufferType
  <1>3. \A off : At(r, off) = At(c, off)
    BY <1>2 DEF At
  <1>4. \A pos : HasUnit(r, pos) = HasUnit(c, pos) /\ packetAt(r, pos) = packetAt(c, pos)
    BY <1>2 DEF HasUnit, packetAt
  <1>5. \A off : /\ EntryAt(r, off) = EntryAt(c, off)
                 /\ UnitAt(r, off) = UnitAt(c, off) /\ PacketAt(r, off) = PacketAt(c, off)
    BY <1>2, <1>3, <1>4 DEF EntryAt, UnitAt, PacketAt
  <1>6. Good(r)
    <2>1. UnorderedAt(r, Positions) = UnorderedAt(c, Positions)
      BY <1>2, <1>4 DEF UnorderedAt
    <2> QED
      BY <1>2, <1>5, <2>1 DEF Good, Counted, Window
  <1>7. \A f, l : Span(c, f, l) => Span(r, f, l)
    BY <1>2, <1>5 DEF Span
  <1>8. HeadFresh(c) => HeadFresh(r)
    BY <1>5 DEF HeadFresh
  <1>9. InOrder(c) => InOrder(r)
    BY <1>2, <1>3, <1>4 DEF InOrder, WholeMessages, NonreadOff
  <1> QED
    BY <1>2, <1>6, <1>7, <1>8, <1>9

\* updateNonreadPos adds whole messages to those that can be read.
LEMMA UpdateNonread ==
    ASSUME NEW c, Good(c), InOrder(c), HeadFresh(c)
    PROVE  /\ Good(updateNonreadPos(c)) /\ InOrder(updateNonreadPos(c))
           /\ HeadFresh(updateNonreadPos(c))
           /\ OutOfOrder(c) => OutOfOrder(updateNonreadPos(c))
           /\ updateNonreadPos(c).tsbpd = c.tsbpd
           /\ updateNonreadPos(c).m_entries = c.m_entries
           /\ updateNonreadPos(c).m_iFirstReadableOutOfOrder = c.m_iFirstReadableOutOfOrder
  <1> DEFINE from == NonreadOff(c)
             S == {from} \cup {off \in from..c.m_iMaxPosOff : WholeMessages(c, from, off)}
             to == Max(S)
             r == [c EXCEPT !.m_iFirstNonreadPos = At(c, to)]
  <1>1. /\ c \in BufferType /\ from \in 0..(m_szSize - 1) /\ m_szSize \in Nat
        /\ c.m_iMaxPosOff \in 0..(m_szSize - 1)
    BY BufferFields, Offsets, Sizes DEF Good, NonreadOff
  <1>2. CASE c.m_iMaxPosOff = 0
    BY <1>2 DEF updateNonreadPos
  <1>3. CASE c.m_iMaxPosOff # 0
    <2>1. to \in S /\ to \in 0..(m_szSize - 1)
      <3>1. S \in SUBSET Int /\ S # {} /\ \A y \in S : y <= m_szSize - 1
        <4> HIDE DEF from
        <4> QED
          BY <1>1
      <3>2. S \subseteq 0..(m_szSize - 1)
        <4> HIDE DEF from
        <4> QED
          BY <1>1
      <3>3. m_szSize - 1 \in Int
        BY <1>1
      <3> HIDE DEF S
      <3>4. Max(S) \in S
        BY <3>1, <3>3, GreatestInt
      <3> QED
        BY <3>2, <3>4
    <2>2. updateNonreadPos(c) = r
      BY <1>3 DEF updateNonreadPos, NonreadOff
    <2>3. At(c, to) \in Positions /\ offPos(c.m_iStartPos, At(c, to)) = to
      <3> HIDE DEF to
      <3> QED
        BY <1>1, <2>1, Offsets
    <2>4. WholeMessages(c, 0, to)
      <3>1. WholeMessages(c, 0, from)
        BY DEF InOrder
      <3>2. to = from \/ WholeMessages(c, from, to)
        BY <2>1
      <3> HIDE DEF from, to, S
      <3>3. to \in Nat /\ from \in Nat /\ (to # from => from <= to)
        BY <1>1, <2>1 DEF S
      <3>4. CASE to # from
        <4>1. \A k \in 0..(to - 1) : k \in 0..(from - 1) \/ k \in from..(to - 1)
          BY <3>3
        <4> QED
          BY <3>1, <3>2, <3>3, <3>4, <4>1 DEF WholeMessages
      <3> QED
        BY <3>1, <3>4
    <2> HIDE DEF to, r
    <2>5. /\ Good(r) /\ r.m_iFirstNonreadPos = At(c, to) /\ r.m_iStartPos = c.m_iStartPos
          /\ OutOfOrder(c) => OutOfOrder(r)
          /\ HeadFresh(r) /\ WholeMessages(r, 0, to)
          /\ r.tsbpd = c.tsbpd /\ r.m_entries = c.m_entries
          /\ r.m_iFirstReadableOutOfOrder = c.m_iFirstReadableOutOfOrder
      BY <2>3, <2>4, NonreadChange DEF r
    <2> QED
      BY <2>2, <2>3, <2>5 DEF InOrder, NonreadOff
  <1> QED
    BY <1>2, <1>3

\* updateFirstReadableOutOfOrder may find a message that can be read.
LEMMA UpdateUnordered ==
    ASSUME NEW c, BufferInv(c), ~c.tsbpd
    PROVE  /\ BufferInv(updateFirstReadableOutOfOrder(c))
           /\ updateFirstReadableOutOfOrder(c).tsbpd = c.tsbpd
           /\ updateFirstReadableOutOfOrder(c).m_entries = c.m_entries
           /\ updateFirstReadableOutOfOrder(c).m_iStartPos = c.m_iStartPos
           /\ updateFirstReadableOutOfOrder(c).m_iFirstNonreadPos = c.m_iFirstNonreadPos
  <1> DEFINE found == {span[1] : span \in UnorderedMessages(c)}
             f == Min(found)
             r == [c EXCEPT !.m_iFirstReadableOutOfOrder = At(c, f)]
  <1>1. c \in BufferType /\ Good(c) /\ m_szSize \in Nat /\ c.m_iMaxPosOff \in 0..(m_szSize - 1)
    BY BufferFields, Sizes DEF Good, BufferInv
  <1>2. \/ updateFirstReadableOutOfOrder(c) = c
        \/ updateFirstReadableOutOfOrder(c) = r /\ found # {}
    <2> DEFINE keep == \/ hasReadableInorderPkts(c)
                       \/ c.m_numOutOfOrderPackets <= 0
                       \/ c.m_iFirstReadableOutOfOrder >= 0
                       \/ found = {}
    <2>1. updateFirstReadableOutOfOrder(c) = IF keep THEN c ELSE r
      BY DEF updateFirstReadableOutOfOrder
    <2>2. ~keep => found # {}
      OBVIOUS
    <2> HIDE DEF keep, r, found
    <2> QED
      BY <2>1, <2>2
  <1>3. ASSUME found # {}
        PROVE  /\ BufferInv(r) /\ r.tsbpd = c.tsbpd /\ r.m_entries = c.m_entries
               /\ r.m_iStartPos = c.m_iStartPos /\ r.m_iFirstNonreadPos = c.m_iFirstNonreadPos
    <2>1. found \in SUBSET Nat
      BY <1>1 DEF UnorderedMessages
    <2>2. f \in found
      <3> HIDE DEF found
      <3> QED
        BY <1>3, <2>1, LeastNat
    <2>3. PICK l \in 0..(c.m_iMaxPosOff - 1) : <<f, l>> \in UnorderedMessages(c)
      BY <2>2 DEF UnorderedMessages
    <2>4. Span(c, f, l) /\ f \in 0..(m_szSize - 1) /\ l \in 0..(m_szSize - 1)
      <3> HIDE DEF f
      <3> QED
        BY <1>1, <2>3 DEF UnorderedMessages, Span, SameMessage, UnitAt, PacketAt
    <2>5. At(c, f) \in Positions /\ offPos(c.m_iStartPos, At(c, f)) = f
      <3> HIDE DEF f
      <3> QED
        BY <1>1, <2>4, Offsets
    <2> HIDE DEF f, r, found
    <2>6. /\ Good(r) /\ r.m_iFirstReadableOutOfOrder = At(c, f) /\ r.m_entries = c.m_entries
          /\ r.m_iStartPos = c.m_iStartPos /\ r.tsbpd = c.tsbpd /\ Span(r, f, l)
          /\ InOrder(r) /\ HeadFresh(r) /\ r.m_iFirstNonreadPos = c.m_iFirstNonreadPos
      BY <1>1, <2>4, <2>5, UnorderedChange DEF r, BufferInv
    <2> QED
      BY <2>4, <2>5, <2>6 DEF BufferInv, OutOfOrder
  <1> HIDE DEF r, found
  <1> QED
    BY <1>2, <1>3

-----------------------------------------------------------------------------
(* Moving the start *)

\* releaseNextFillerEntries passes fillers only, and all of them.
LEMMA Release ==
    ASSUME NEW c, Good(c), NEW r, r = releaseNextFillerEntries(c)
    PROVE  /\ Good(r) /\ HeadFresh(r)
           /\ r.m_iFirstNonreadPos = c.m_iFirstNonreadPos
           /\ r.m_iFirstReadableOutOfOrder = c.m_iFirstReadableOutOfOrder
           /\ \E n \in 0..m_szSize :
                 /\ Moves(c, n, r)
                 /\ \A j \in 0..(n - 1) : EntryAt(c, j).status \in {"Read", "Drop"}
  <1> DEFINE S == {k \in 0..m_szSize : \A j \in 0..(k - 1) :
                       c.m_entries[At(c, j)].status \in {"Read", "Drop"}}
             n == Max(S)
             e == [pos \in Positions |->
                      IF offPos(c.m_iStartPos, pos) < n THEN Empty ELSE c.m_entries[pos]]
             s == incseqBy(c.m_iStartSeqNo, n)
             p == At(c, n)
             m == Max({0, c.m_iMaxPosOff - n})
  <1>1. c \in BufferType /\ m_szSize \in Nat
    BY Sizes DEF Good
  <1>2. n \in S /\ \A y \in S : y <= n
    <2>1. S \in SUBSET Int /\ 0 \in S /\ \A y \in S : y <= m_szSize
      BY <1>1
    <2> HIDE DEF S
    <2> QED
      BY <1>1, <2>1, GreatestInt
  <1>3. n \in 0..m_szSize /\ \A j \in 0..(n - 1) : EntryAt(c, j).status \in {"Read", "Drop"}
    <2> HIDE DEF n
    <2> QED
      BY <1>2 DEF EntryAt
  <1>4. m = (IF c.m_iMaxPosOff >= n THEN c.m_iMaxPosOff - n ELSE 0)
    <2> HIDE DEF n
    <2>1. c.m_iMaxPosOff \in Int /\ n \in Int
      BY <1>1, <1>3, BufferFields, Sizes
    <2>2. c.m_iMaxPosOff - n \in Int
      BY <2>1
    <2> QED
      BY <2>1, <2>2, MaxOfTwo
  <1>5. r = [c EXCEPT !.m_entries = e, !.m_iStartSeqNo = s, !.m_iStartPos = p, !.m_iMaxPosOff = m]
    BY DEF releaseNextFillerEntries
  <1> HIDE DEF S
  <1> HIDE DEF n, e, s, p, m
  <1>6. /\ r.m_entries = e /\ r.m_iStartSeqNo = s /\ r.m_iStartPos = p /\ r.m_iMaxPosOff = m
        /\ r.m_iFirstNonreadPos = c.m_iFirstNonreadPos
        /\ r.m_iFirstReadableOutOfOrder = c.m_iFirstReadableOutOfOrder
        /\ r.m_numOutOfOrderPackets = c.m_numOutOfOrderPackets /\ r.tsbpd = c.tsbpd
        /\ e \in [Positions -> Entry] /\ s \in SeqNo /\ p \in Positions /\ m \in 0..capacity
              => r \in BufferType
    BY <1>1, <1>5 DEF BufferType
  <1>7. Moves(c, n, r)
    BY <1>4, <1>6 DEF Moves, e, s, p
  <1>8. r \in BufferType
    BY <1>1, <1>3, <1>6, <1>7, MovesTypes
  <1>9. Good(r)
    <2>1. \A off \in 0..(n - 1) : ~UnitAt(c, off)
      <3> SUFFICES ASSUME NEW off \in 0..(n - 1) PROVE ~UnitAt(c, off)
        OBVIOUS
      <3>1. EntryAt(c, off).status \in {"Read", "Drop"} /\ off \in 0..m_szSize
        BY <1>1, <1>3
      <3>2. At(c, off) \in Positions
        BY <1>1, <3>1, Offsets
      <3> QED
        BY <1>1, <3>1, <3>2, UnitFacts DEF UnitAt, EntryAt
    <2> QED
      BY <1>3, <1>7, <1>8, <2>1, MovesGood
  <1>10. HeadFresh(r)
    <2>1. CASE n = m_szSize
      <3>1. EntryAt(r, 0) = Empty
        BY <1>1, <1>3, <1>7, <2>1, MovesOffsets, Sizes
      <3> QED
        BY <3>1, EmptyEntries DEF HeadFresh
    <2>2. CASE n < m_szSize
      <3>1. EntryAt(r, 0) = EntryAt(c, n)
        <4>1. 0 \in 0..(m_szSize - 1) /\ n + 0 < m_szSize /\ n + 0 = n
          BY <1>1, <1>3, <2>2, Sizes
        <4> QED
          BY <1>1, <1>3, <1>7, <4>1, MovesOffsets
      <3>2. ASSUME EntryAt(c, n).status \in {"Read", "Drop"} PROVE FALSE
        <4>1. n + 1 \in S
          BY <1>1, <1>3, <2>2, <3>2 DEF S, EntryAt
        <4> QED
          BY <1>2, <1>3, <4>1
      <3> QED
        BY <3>1, <3>2 DEF HeadFresh
    <2> QED
      BY <1>1, <1>3, <2>1, <2>2
  <1> QED
    BY <1>3, <1>6, <1>7, <1>9, <1>10

\* What can be read in order stays so when the start moves over some of it, to
\* the end of a message.
LEMMA ShiftInOrder ==
    ASSUME NEW c \in BufferType, InOrder(c), NEW n \in 0..NonreadOff(c), NEW d,
           n = 0 \/ PacketAt(c, n - 1).last,
           NonreadOff(d) = NonreadOff(c) - n,
           \A k \in 0..(NonreadOff(c) - n - 1) : EntryAt(d, k) = EntryAt(c, n + k)
    PROVE  InOrder(d)
  <1> DEFINE nr == NonreadOff(c)
  <1>1. nr \in Nat /\ n \in 0..nr
    BY BufferFields, Offsets, Sizes DEF NonreadOff
  <1> HIDE DEF nr
  <1>2. WholeMessages(c, 0, nr) /\ NonreadOff(d) = nr - n
    BY DEF InOrder, nr
  <1>3. \A k \in 0..(nr - n - 1) : /\ UnitAt(d, k) = UnitAt(c, n + k)
                                   /\ PacketAt(d, k) = PacketAt(c, n + k)
    BY DEF nr, EntryAt, UnitAt, PacketAt, HasUnit, packetAt
  <1>4. /\ \A k \in 0..(nr - 1) : UnitAt(c, k)
        /\ \A k \in 0..(nr - 1) : k = 0 \/ PacketAt(c, k - 1).last => PacketAt(c, k).first
        /\ nr > 0 => PacketAt(c, nr - 1).last
    BY <1>1, <1>2 DEF WholeMessages, UnitAt, PacketAt
  <1>5. \A k \in 0..(nr - n - 1) : UnitAt(d, k)
    BY <1>1, <1>3, <1>4
  <1>6. \A k \in 0..(nr - n - 1) : k = 0 \/ PacketAt(d, k - 1).last => PacketAt(d, k).first
    <2> SUFFICES ASSUME NEW k \in 0..(nr - n - 1), k = 0 \/ PacketAt(d, k - 1).last
                 PROVE  PacketAt(d, k).first
      OBVIOUS
    <2>1. PacketAt(d, k) = PacketAt(c, n + k) /\ n + k \in 0..(nr - 1)
      BY <1>1, <1>3
    <2>2. CASE k = 0
      BY <1>1, <1>4, <2>1, <2>2
    <2>3. CASE k # 0
      <3>1. k - 1 \in 0..(nr - n - 1) /\ n + (k - 1) = n + k - 1
        BY <1>1, <2>3
      <3>2. PacketAt(d, k - 1) = PacketAt(c, n + k - 1)
        BY <1>3, <3>1
      <3> QED
        BY <1>4, <2>1, <2>3, <3>2
    <2> QED
      BY <2>2, <2>3
  <1>7. nr - n > 0 => PacketAt(d, nr - n - 1).last
    <2> SUFFICES ASSUME nr - n > 0 PROVE PacketAt(d, nr - n - 1).last
      OBVIOUS
    <2>1. nr - n - 1 \in 0..(nr - n - 1) /\ n + (nr - n - 1) = nr - 1
      BY <1>1
    <2>2. PacketAt(d, nr - n - 1) = PacketAt(c, nr - 1)
      BY <1>3, <2>1
    <2> QED
      BY <1>1, <1>4, <2>2
  <1> QED
    BY <1>1, <1>2, <1>5, <1>6, <1>7 DEF InOrder, WholeMessages, UnitAt, PacketAt

-----------------------------------------------------------------------------
(* Inserting *)

LEMMA MaxPosOffChange ==
    ASSUME NEW c, BufferInv(c), NEW m \in 0..capacity, c.m_iMaxPosOff <= m, NEW r,
           r = [c EXCEPT !.m_iMaxPosOff = m]
    PROVE  /\ BufferInv(r) /\ r.m_iMaxPosOff = m
           /\ r.m_entries = c.m_entries /\ r.m_iStartSeqNo = c.m_iStartSeqNo
           /\ r.m_iStartPos = c.m_iStartPos /\ r.tsbpd = c.tsbpd
           /\ r.m_numOutOfOrderPackets = c.m_numOutOfOrderPackets
  <1>1. c \in BufferType /\ m \in Nat /\ c.m_iMaxPosOff \in Nat
    BY Sizes, BufferFields DEF BufferInv, Good
  <1>2. /\ r \in BufferType /\ r.m_iMaxPosOff = m
        /\ r.m_entries = c.m_entries /\ r.m_iStartSeqNo = c.m_iStartSeqNo
        /\ r.m_iStartPos = c.m_iStartPos /\ r.m_iFirstNonreadPos = c.m_iFirstNonreadPos
        /\ r.m_numOutOfOrderPackets = c.m_numOutOfOrderPackets /\ r.tsbpd = c.tsbpd
        /\ r.m_iFirstReadableOutOfOrder = c.m_iFirstReadableOutOfOrder
    BY <1>1 DEF BufferType
  <1>3. \A off : At(r, off) = At(c, off)
    BY <1>2 DEF At
  <1>4. \A pos : HasUnit(r, pos) = HasUnit(c, pos) /\ packetAt(r, pos) = packetAt(c, pos)
    BY <1>2 DEF HasUnit, packetAt
  <1>5. \A off : /\ EntryAt(r, off) = EntryAt(c, off)
                 /\ UnitAt(r, off) = UnitAt(c, off) /\ PacketAt(r, off) = PacketAt(c, off)
    BY <1>2, <1>3, <1>4 DEF EntryAt, UnitAt, PacketAt
  <1>6. Good(r)
    <2>1. UnorderedAt(r, Positions) = UnorderedAt(c, Positions)
      BY <1>2, <1>4 DEF UnorderedAt
    <2> QED
      BY <1>1, <1>2, <1>5, <2>1 DEF BufferInv, Good, Counted, Window
  <1>7. OutOfOrder(r)
    <2>1. ASSUME NEW f, NEW l \in 0..(m_szSize - 1), Span(c, f, l) PROVE Span(r, f, l)
      BY <1>1, <1>2, <1>5, <2>1, Sizes DEF Span
    <2> QED
      BY <1>2, <2>1 DEF BufferInv, OutOfOrder
  <1>8. HeadFresh(r) /\ InOrder(r)
    BY <1>2, <1>3, <1>4, <1>5 DEF BufferInv, HeadFresh, InOrder, WholeMessages, NonreadOff
  <1> QED
    BY <1>2, <1>6, <1>7, <1>8 DEF BufferInv

\* d is c with a packet in the entry at an offset.
Puts(c, off, pkt, d) ==
    /\ d.m_entries = [pos \in Positions |->
                          IF pos = At(c, off) THEN Avail(pkt) ELSE c.m_entries[pos]]
    /\ d.m_numOutOfOrderPackets =
           c.m_numOutOfOrderPackets + (IF ~c.tsbpd /\ ~pkt.inorder THEN 1 ELSE 0)
    /\ d.m_iStartSeqNo = c.m_iStartSeqNo /\ d.m_iStartPos = c.m_iStartPos
    /\ d.m_iFirstNonreadPos = c.m_iFirstNonreadPos /\ d.m_iMaxPosOff = c.m_iMaxPosOff
    /\ d.m_iFirstReadableOutOfOrder = c.m_iFirstReadableOutOfOrder /\ d.tsbpd = c.tsbpd

\* A packet that finds its entry empty joins the others.
LEMMA PutsKeeps ==
    ASSUME NEW c, BufferInv(c), NEW pkt \in Stream, NEW off \in 0..(m_szSize - 1),
           off < c.m_iMaxPosOff, EntryAt(c, off) = Empty,
           pkt.seqno = incseqBy(c.m_iStartSeqNo, off),
           NEW d \in BufferType, Puts(c, off, pkt, d)
    PROVE  /\ BufferInv(d) /\ UnitAt(d, off) /\ PacketAt(d, off) = pkt
  <1> DEFINE p == At(c, off)
  <1>1. c \in BufferType /\ p \in Positions /\ m_szSize \in Nat
    BY Offsets, Sizes DEF BufferInv, Good
  <1>2. \A k : At(d, k) = At(c, k)
    BY DEF At, Puts
  <1>3. ~HasUnit(c, p) /\ HasUnit(d, p) /\ packetAt(d, p) = pkt
    BY <1>1, EmptyEntries, PacketFacts DEF Puts, HasUnit, packetAt, EntryAt, Avail
  <1>4. \A pos \in Positions :
            pos # p => /\ d.m_entries[pos] = c.m_entries[pos]
                       /\ HasUnit(d, pos) = HasUnit(c, pos)
                       /\ packetAt(d, pos) = packetAt(c, pos)
    BY <1>1 DEF Puts, HasUnit, packetAt
  <1>5. UnitAt(d, off) /\ PacketAt(d, off) = pkt
    BY <1>2, <1>3 DEF UnitAt, PacketAt
  <1> HIDE DEF p
  <1>6. \A k \in 0..(m_szSize - 1) :
            UnitAt(c, k) => UnitAt(d, k) /\ PacketAt(d, k) = PacketAt(c, k)
    <2> SUFFICES ASSUME NEW k \in 0..(m_szSize - 1), UnitAt(c, k)
                 PROVE  UnitAt(d, k) /\ PacketAt(d, k) = PacketAt(c, k)
      OBVIOUS
    <2>1. At(c, k) \in Positions /\ HasUnit(c, At(c, k))
      BY <1>1, Offsets, Sizes DEF UnitAt
    <2> QED
      BY <1>2, <1>3, <1>4, <2>1 DEF UnitAt, PacketAt
  <1>7. Window(d)
    <2> SUFFICES ASSUME NEW k \in 0..(m_szSize - 1), UnitAt(d, k)
                 PROVE  /\ PacketAt(d, k).seqno = incseqBy(d.m_iStartSeqNo, k)
                        /\ k < d.m_iMaxPosOff
      BY DEF Window
    <2>1. CASE k = off
      BY <1>5, <2>1 DEF Puts
    <2>2. CASE k # off
      <3>1. At(c, k) \in Positions /\ At(c, k) # p
        BY <1>1, <2>2, Offsets, Sizes DEF p
      <3>2. UnitAt(c, k) /\ PacketAt(d, k) = PacketAt(c, k)
        BY <1>2, <1>4, <3>1 DEF UnitAt, PacketAt
      <3> QED
        BY <3>2 DEF BufferInv, Good, Window, Puts
    <2> QED
      BY <2>1, <2>2
  <1>8. Counted(d)
    <2> DEFINE U == UnorderedAt(c, Positions)
    <2>1. CASE ~c.tsbpd /\ ~pkt.inorder
      <3>1. UnorderedAt(d, Positions) = U \cup {p} /\ p \notin U
        BY <1>1, <1>3, <1>4, <2>1 DEF UnorderedAt, Puts
      <3>2. IsFiniteSet(U)
        BY <1>1, UnitFacts
      <3>3. Cardinality(U \cup {p}) = Cardinality(U) + 1
        <4> HIDE DEF U
        <4> QED
          BY <3>1, <3>2, FS_AddElement
      <3> QED
        BY <2>1, <3>1, <3>3 DEF BufferInv, Good, Counted, Puts
    <2>2. CASE c.tsbpd \/ pkt.inorder
      <3>1. UnorderedAt(d, Positions) = U
        BY <1>1, <1>3, <1>4, <2>2 DEF UnorderedAt, Puts
      <3>2. c.m_numOutOfOrderPackets \in Nat
        BY <1>1, BufferFields
      <3> QED
        BY <2>2, <3>1, <3>2 DEF BufferInv, Good, Counted, Puts
    <2> QED
      BY <2>1, <2>2
  <1>9. InOrder(d)
    <2>1. NonreadOff(d) = NonreadOff(c) /\ NonreadOff(c) \in 0..(m_szSize - 1)
      BY <1>1, BufferFields, Offsets DEF NonreadOff, Puts
    <2>2. \A k \in 0..(NonreadOff(c) - 1) : UnitAt(c, k)
      BY DEF BufferInv, InOrder, WholeMessages, UnitAt
    <2>3. \A k \in 0..(NonreadOff(c) - 1) : EntryAt(d, k) = EntryAt(c, k)
      <3> SUFFICES ASSUME NEW k \in 0..(NonreadOff(c) - 1) PROVE EntryAt(d, k) = EntryAt(c, k)
        OBVIOUS
      <3>1. k \in 0..(m_szSize - 1)
        BY <1>1, <2>1
      <3>2. At(c, k) \in Positions /\ At(c, k) # p
        BY <1>1, <1>3, <2>2, <3>1, Offsets, Sizes DEF UnitAt
      <3> QED
        BY <1>2, <1>4, <3>2 DEF EntryAt
    <2>4. 0 \in 0..NonreadOff(c) /\ NonreadOff(d) = NonreadOff(c) - 0
      BY <1>1, <2>1
    <2>5. \A k \in 0..(NonreadOff(c) - 0 - 1) : EntryAt(d, k) = EntryAt(c, 0 + k)
      BY <1>1, <2>1, <2>3
    <2> QED
      BY <1>1, <2>4, <2>5, ShiftInOrder DEF BufferInv
  <1>10. OutOfOrder(d)
    <2>1. ASSUME NEW f, NEW l \in 0..(m_szSize - 1), Span(c, f, l) PROVE Span(d, f, l)
      <3>1. /\ f \in 0..l /\ l < c.m_iMaxPosOff
            /\ \A k \in f..l : k \in 0..(m_szSize - 1)
            /\ f \in f..l /\ l \in f..l
        BY <1>1, <2>1, Sizes DEF Span
      <3> QED
        BY <1>6, <2>1, <3>1 DEF Span, Puts
    <2> QED
      BY <2>1 DEF BufferInv, OutOfOrder, Puts
  <1>11. HeadFresh(d)
    <2>1. At(d, 0) = At(c, 0) /\ At(c, 0) \in Positions
      BY <1>1, <1>2, Offsets, Sizes
    <2>2. Avail(pkt).status = "Avail"
      BY DEF Avail
    <2> QED
      BY <2>1, <2>2 DEF BufferInv, HeadFresh, EntryAt, Puts
  <1> QED
    BY <1>5, <1>7, <1>8, <1>9, <1>10, <1>11 DEF BufferInv, Good

\* The order flag is one for a message.
LEMMA FlagOfMessage ==
    ASSUME NEW c \in BufferType, NEW k \in 0..m_szSize, UnitAt(c, k)
    PROVE  /\ PacketAt(c, k) \in Stream
           /\ PacketAt(c, k).inorder = order[PacketAt(c, k).msgno]
  BY Offsets, UnitFacts, PacketFacts DEF UnitAt, PacketAt

\* The message that onInsertNotInOrderPacket finds can be read.
LEMMA OnInsert ==
    ASSUME NEW c, BufferInv(c), ~c.tsbpd, NEW off \in 0..(c.m_iMaxPosOff - 1),
           UnitAt(c, off), ~PacketAt(c, off).inorder
    PROVE  /\ BufferInv(onInsertNotInOrderPacket(c, At(c, off)))
           /\ onInsertNotInOrderPacket(c, At(c, off)).tsbpd = c.tsbpd
  <1> DEFINE pkt == PacketAt(c, off)
             left == scanNotInOrderMessageLeft(c, off, pkt.msgno)
             firsts == IF pkt.first THEN {off} ELSE left
             f == Max(firsts)
             r == [c EXCEPT !.m_iFirstReadableOutOfOrder = At(c, f)]
             done == pkt.last \/ scanNotInOrderMessageRight(c, off, pkt.msgno)
  <1>1. /\ c \in BufferType /\ Good(c) /\ m_szSize \in Nat /\ c.m_iMaxPosOff \in 0..(m_szSize - 1)
        /\ off \in 0..(m_szSize - 1)
    BY BufferFields, Sizes DEF BufferInv, Good
  <1>2. \/ onInsertNotInOrderPacket(c, At(c, off)) = c
        \/ onInsertNotInOrderPacket(c, At(c, off)) = r /\ firsts # {} /\ done
    <2> DEFINE keep == c.m_iFirstReadableOutOfOrder >= 0 \/ ~done \/ firsts = {}
    <2>1. onInsertNotInOrderPacket(c, At(c, off)) = IF keep THEN c ELSE r
      <3>1. offPos(c.m_iStartPos, At(c, off)) = off
        BY <1>1, Offsets
      <3> QED
        BY <3>1 DEF onInsertNotInOrderPacket, PacketAt
    <2>2. ~keep => firsts # {} /\ done
      OBVIOUS
    <2> HIDE DEF keep, r, firsts, done
    <2> QED
      BY <2>1, <2>2
  <1>3. ASSUME firsts # {}, done PROVE BufferInv(r) /\ r.tsbpd = c.tsbpd
    <2>1. f \in firsts
      <3>1. firsts \in SUBSET Int /\ (\A y \in firsts : y <= off) /\ off \in Int
        BY <1>1 DEF scanNotInOrderMessageLeft
      <3> HIDE DEF firsts
      <3> QED
        BY <1>3, <3>1, GreatestInt
    <2> HIDE DEF f
    <2>2. /\ f \in 0..off /\ PacketAt(c, f).first
          /\ \A k \in f..off : UnitAt(c, k) /\ PacketAt(c, k).msgno = pkt.msgno
      <3>1. CASE pkt.first
        BY <1>1, <2>1, <3>1
      <3>2. CASE ~pkt.first
        <4>1. f \in left
          BY <2>1, <3>2
        <4>2. \A k \in f..off : k = off \/ k \in f..(off - 1)
          BY <1>1
        <4> QED
          BY <1>1, <4>1, <4>2 DEF scanNotInOrderMessageLeft, SameMessage, UnitAt, PacketAt
      <3> QED
        BY <3>1, <3>2
    <2>3. PICK l \in off..(c.m_iMaxPosOff - 1) :
              /\ PacketAt(c, l).last
              /\ \A k \in (off + 1)..l : UnitAt(c, k) /\ PacketAt(c, k).msgno = pkt.msgno
      <3>1. CASE pkt.last
        <4>1. off \in off..(c.m_iMaxPosOff - 1) /\ \A k \in (off + 1)..off : FALSE
          BY <1>1
        <4> QED
          BY <3>1, <4>1
      <3>2. CASE scanNotInOrderMessageRight(c, off, pkt.msgno)
        <4>1. PICK l \in (off + 1)..(c.m_iMaxPosOff - 1) :
                  SameMessage(c, (off + 1)..l, pkt.msgno) /\ packetAt(c, At(c, l)).last
          BY <3>2 DEF scanNotInOrderMessageRight
        <4>2. l \in off..(c.m_iMaxPosOff - 1)
          BY <1>1
        <4> QED
          BY <4>1, <4>2 DEF SameMessage, UnitAt, PacketAt
      <3> QED
        BY <1>3, <3>1, <3>2
    <2>4. Span(c, f, l)
      <3>1. \A k \in f..l : k \in 0..m_szSize /\ (k \in f..off \/ k \in (off + 1)..l)
        BY <1>1, <2>2, <2>3
      <3>2. \A k \in f..l : UnitAt(c, k) /\ PacketAt(c, k).msgno = pkt.msgno
        BY <2>2, <2>3, <3>1
      <3>3. \A k \in f..l : ~PacketAt(c, k).inorder
        BY <1>1, <3>1, <3>2, FlagOfMessage, Sizes
      <3>4. f \in 0..l /\ l < c.m_iMaxPosOff
        BY <1>1, <2>2, <2>3
      <3> QED
        BY <2>2, <2>3, <3>2, <3>3, <3>4 DEF Span
    <2>5. /\ f \in 0..(m_szSize - 1) /\ l \in 0..(m_szSize - 1)
          /\ At(c, f) \in Positions /\ offPos(c.m_iStartPos, At(c, f)) = f
      BY <1>1, <2>2, <2>3, Offsets
    <2> HIDE DEF r
    <2>6. /\ Good(r) /\ r.m_iFirstReadableOutOfOrder = At(c, f)
          /\ r.m_iStartPos = c.m_iStartPos /\ r.tsbpd = c.tsbpd /\ Span(r, f, l)
          /\ InOrder(r) /\ HeadFresh(r)
      BY <1>1, <2>4, <2>5, UnorderedChange DEF r, BufferInv
    <2> QED
      BY <2>5, <2>6 DEF BufferInv, OutOfOrder
  <1> HIDE DEF r, firsts, done
  <1> QED
    BY <1>2, <1>3

-----------------------------------------------------------------------------
(* What was taken out of the buffer, as long as the stream and a full buffer *)
(* behind it fit into the sequence numbers: no packet, not even an old one,  *)
(* has then the number of another place in the buffer                        *)

ShortStream == Len(MessageOf) + capacity <= m_iMaxSeqNo + 1

\* How many packets of the stream are behind the start
Base(c) == CHOOSE s \in 0..Len(MessageOf) : c.m_iStartSeqNo = incseqBy(ISN, s)

Filler(c, off) == EntryAt(c, off).status \in {"Read", "Drop"}

\* Packet x of the stream was read or given up.
Gone(c, x) ==
    \/ x <= Base(c)
    \/ x - 1 - Base(c) < m_szSize /\ Filler(c, x - 1 - Base(c))

\* The buffer is somewhere along the stream, and so is all that is in it.
Placed(c) ==
    /\ Base(c) \in 0..Len(MessageOf)
    /\ c.m_iStartSeqNo = incseqBy(ISN, Base(c))
    /\ \A k \in 0..(m_szSize - 1) :
           EntryAt(c, k).status # "Empty" => Base(c) + k < Len(MessageOf)

Remembers(c, d) ==
    ShortStream /\ Placed(c) =>
        /\ Placed(d) /\ Base(c) <= Base(d)
        /\ \A x \in DOMAIN MessageOf : Gone(c, x) => Gone(d, x)

LEMMA BaseValue ==
    ASSUME NEW c, NEW s \in 0..Len(MessageOf), c.m_iStartSeqNo = incseqBy(ISN, s)
    PROVE  Base(c) = s
  <1>1. Base(c) \in 0..Len(MessageOf) /\ c.m_iStartSeqNo = incseqBy(ISN, Base(c))
    BY DEF Base
  <1>2. \A n \in 0..Len(MessageOf) : n \in 0..m_iMaxSeqNo
    BY StreamAssumption, Sizes
  <1> QED
    BY <1>1, <1>2, StepsDiffer, StreamAssumption

\* The offset of a packet that is not behind the start
LEMMA OffsetInStream ==
    ASSUME ShortStream, NEW c, Placed(c), c.m_iStartSeqNo \in SeqNo,
           NEW i \in DOMAIN MessageOf, NEW o \in 0..(capacity - 1),
           o = seqoff(c.m_iStartSeqNo, Packet(i).seqno)
    PROVE  Base(c) + o = i - 1
  <1>1. /\ DOMAIN MessageOf = 1..Len(MessageOf) /\ Len(MessageOf) \in Nat /\ ISN \in SeqNo
        /\ m_iMaxSeqNo \in Nat /\ capacity \in Nat
        /\ Len(MessageOf) <= m_iMaxSeqNo /\ Len(MessageOf) + capacity <= m_iMaxSeqNo + 1
    BY StreamAssumption, Sizes DEF ShortStream
  <1>2. Packet(i).seqno = incseqBy(ISN, i - 1) /\ i - 1 \in 0..m_iMaxSeqNo
    BY <1>1 DEF Packet
  <1>3. Packet(i).seqno \in SeqNo
    BY <1>1, <1>2, StepsStayInSpace
  <1>4. incseqBy(c.m_iStartSeqNo, o) = incseqBy(ISN, i - 1)
    BY <1>2, <1>3, OffsetLeadsBack
  <1>5. /\ Base(c) \in Nat /\ o \in Nat /\ Base(c) + o \in 0..m_iMaxSeqNo
        /\ Base(c) + o <= m_iMaxSeqNo
    BY <1>1 DEF Placed
  <1>6. incseqBy(c.m_iStartSeqNo, o) = incseqBy(ISN, Base(c) + o)
    BY <1>1, <1>5, StepsAdd DEF Placed
  <1> QED
    BY <1>1, <1>2, <1>4, <1>5, <1>6, StepsDiffer

\* What a change has to look like, entry by entry
LEMMA Remembering ==
    ASSUME NEW c, NEW d, NEW n \in 0..m_szSize,
           d.m_iStartSeqNo = incseqBy(c.m_iStartSeqNo, n),
           ShortStream /\ Placed(c) => Base(c) + n <= Len(MessageOf),
           \A k \in 0..(m_szSize - 1) :
               \/ EntryAt(d, k).status = "Empty"
               \/ n + k < m_szSize /\ EntryAt(c, n + k).status # "Empty"
               \/ ShortStream /\ Placed(c) => Base(c) + n + k < Len(MessageOf),
           \A k \in 0..(m_szSize - 1) : n + k < m_szSize /\ Filler(c, n + k) => Filler(d, k)
    PROVE  /\ Remembers(c, d)
           /\ ShortStream /\ Placed(c) => Base(d) = Base(c) + n
  <1> SUFFICES ASSUME ShortStream, Placed(c)
               PROVE  /\ Placed(d) /\ Base(d) = Base(c) + n
                      /\ \A x \in DOMAIN MessageOf : Gone(c, x) => Gone(d, x)
    BY Sizes DEF Remembers, Placed
  <1>1. /\ Base(c) \in Nat /\ n \in Nat /\ Len(MessageOf) \in Nat /\ m_szSize \in Nat
        /\ Base(c) + n \in 0..Len(MessageOf) /\ ISN \in SeqNo
        /\ Base(c) + n <= m_iMaxSeqNo
    BY StreamAssumption, Sizes DEF Placed
  <1>2. d.m_iStartSeqNo = incseqBy(ISN, Base(c) + n)
    BY <1>1, StepsAdd DEF Placed
  <1>3. Base(d) = Base(c) + n
    BY <1>1, <1>2, BaseValue
  <1>4. ASSUME NEW k \in 0..(m_szSize - 1), EntryAt(d, k).status # "Empty"
        PROVE  Base(d) + k < Len(MessageOf)
    <2>1. CASE n + k < m_szSize /\ EntryAt(c, n + k).status # "Empty"
      <3>1. n + k \in 0..(m_szSize - 1)
        BY <1>1, <2>1
      <3>2. Base(c) + (n + k) < Len(MessageOf)
        BY <2>1, <3>1 DEF Placed
      <3> QED
        BY <1>1, <1>3, <3>2
    <2> QED
      BY <1>3, <1>4, <2>1
  <1>5. Placed(d)
    BY <1>1, <1>2, <1>3, <1>4 DEF Placed
  <1>6. ASSUME NEW x \in DOMAIN MessageOf, Gone(c, x) PROVE Gone(d, x)
    <2>1. x \in Nat
      BY StreamAssumption
    <2>2. CASE x <= Base(c) + n
      BY <1>3, <2>2 DEF Gone
    <2>3. CASE x > Base(c) + n
      <3> DEFINE k == x - 1 - Base(c) - n
      <3>1. n + k = x - 1 - Base(c) /\ ~(x <= Base(c))
        BY <1>1, <2>1, <2>3
      <3>2. n + k < m_szSize /\ Filler(c, n + k)
        BY <1>6, <3>1 DEF Gone
      <3>3. k \in 0..(m_szSize - 1) /\ x - 1 - Base(d) = k
        BY <1>1, <1>3, <2>1, <2>3, <3>2
      <3> HIDE DEF k
      <3>4. Filler(d, k) /\ k < m_szSize
        BY <1>1, <3>2, <3>3
      <3> QED
        BY <3>3, <3>4 DEF Gone
    <2> QED
      BY <1>1, <2>1, <2>2, <2>3
  <1> QED
    BY <1>3, <1>5, <1>6

LEMMA RemembersOn ==
    ASSUME NEW c, NEW d, NEW e, Remembers(c, d), Remembers(d, e)
    PROVE  Remembers(c, e)
  <1>1. Placed(c) /\ Placed(d) /\ Placed(e) => Base(c) \in Nat /\ Base(d) \in Nat /\ Base(e) \in Nat
    BY StreamAssumption DEF Placed
  <1> QED
    BY <1>1 DEF Remembers

\* The same packets at the same place
SameEntries(c, d) ==
    /\ d.m_entries = c.m_entries
    /\ d.m_iStartPos = c.m_iStartPos /\ d.m_iStartSeqNo = c.m_iStartSeqNo

LEMMA SameRemembers ==
    ASSUME NEW c, NEW d, SameEntries(c, d)
    PROVE  Remembers(c, d)
  <1>1. \A k : EntryAt(d, k) = EntryAt(c, k)
    BY DEF SameEntries, EntryAt, At
  <1>2. Base(d) = Base(c)
    BY DEF SameEntries, Base
  <1>3. Placed(c) => Placed(d)
    BY <1>1, <1>2 DEF SameEntries, Placed
  <1>4. \A x : Gone(c, x) => Gone(d, x)
    BY <1>1, <1>2 DEF Gone, Filler
  <1>5. Placed(c) => Base(c) <= Base(c)
    BY StreamAssumption DEF Placed
  <1> QED
    BY <1>2, <1>3, <1>4, <1>5 DEF Remembers

\* The searches change no entry.
LEMMA SearchesRemember ==
    ASSUME NEW c \in BufferType
    PROVE  /\ \A p, m :
                  /\ SameEntries(c, [c EXCEPT !.m_iFirstNonreadPos = p])
                  /\ SameEntries(c, [c EXCEPT !.m_iFirstReadableOutOfOrder = p])
                  /\ SameEntries(c, [c EXCEPT !.m_iMaxPosOff = m])
           /\ SameEntries(c, updateNonreadPos(c))
           /\ SameEntries(c, updateFirstReadableOutOfOrder(c))
           /\ \A pos : SameEntries(c, onInsertNotInOrderPacket(c, pos))
  <1>1. SameEntries(c, c)
    BY DEF SameEntries
  <1>2. \A p : /\ SameEntries(c, [c EXCEPT !.m_iFirstNonreadPos = p])
               /\ SameEntries(c, [c EXCEPT !.m_iFirstReadableOutOfOrder = p])
               /\ SameEntries(c, [c EXCEPT !.m_iMaxPosOff = p])
    BY DEF SameEntries, BufferType
  <1>3. \E p : updateNonreadPos(c) \in {c, [c EXCEPT !.m_iFirstNonreadPos = p]}
    BY DEF updateNonreadPos
  <1>4. \E p : updateFirstReadableOutOfOrder(c)
                   \in {c, [c EXCEPT !.m_iFirstReadableOutOfOrder = p]}
    BY DEF updateFirstReadableOutOfOrder
  <1>5. \A pos : \E p : onInsertNotInOrderPacket(c, pos)
                            \in {c, [c EXCEPT !.m_iFirstReadableOutOfOrder = p]}
    BY DEF onInsertNotInOrderPacket
  <1>6. ASSUME NEW d, NEW p, d \in {c, [c EXCEPT !.m_iFirstNonreadPos = p],
                                   [c EXCEPT !.m_iFirstReadableOutOfOrder = p]}
        PROVE  SameEntries(c, d)
    BY <1>1, <1>2, <1>6
  <1>7. SameEntries(c, updateNonreadPos(c)) /\ SameEntries(c, updateFirstReadableOutOfOrder(c))
    BY <1>3, <1>4, <1>6
  <1>8. \A pos : SameEntries(c, onInsertNotInOrderPacket(c, pos))
    BY <1>5, <1>6
  <1> QED
    BY <1>2, <1>7, <1>8

\* Moving the start over fillers
LEMMA ReleaseRemembers ==
    ASSUME NEW c, Good(c)
    PROVE  Remembers(c, releaseNextFillerEntries(c))
  <1> DEFINE r == releaseNextFillerEntries(c)
  <1>1. PICK n \in 0..m_szSize :
            /\ Moves(c, n, r)
            /\ \A j \in 0..(n - 1) : EntryAt(c, j).status \in {"Read", "Drop"}
    BY Release
  <1> HIDE DEF r
  <1>2. c \in BufferType /\ m_szSize \in Nat /\ m_szSize >= 2
    BY Sizes DEF Good
  <1>3. ASSUME Placed(c) PROVE Base(c) + n <= Len(MessageOf)
    <2>1. Base(c) \in Nat /\ Len(MessageOf) \in Nat /\ Base(c) <= Len(MessageOf)
      BY <1>3, StreamAssumption DEF Placed
    <2>2. CASE n = 0
      BY <2>1, <2>2
    <2>3. CASE n > 0
      <3> DEFINE k == n - 1
      <3>1. k \in 0..(m_szSize - 1) /\ k \in 0..(n - 1) /\ n = k + 1
        BY <1>2, <2>3
      <3> HIDE DEF k
      <3>2. Base(c) + k < Len(MessageOf)
        BY <1>1, <1>3, <3>1 DEF Placed
      <3> QED
        BY <1>2, <2>1, <3>1, <3>2
    <2> QED
      BY <1>2, <2>2, <2>3
  <1>4. \A k \in 0..(m_szSize - 1) :
            \/ n + k < m_szSize /\ EntryAt(r, k) = EntryAt(c, n + k)
            \/ n + k >= m_szSize /\ EntryAt(r, k).status = "Empty"
    BY <1>1, <1>2, MovesOffsets, EmptyEntries
  <1>5. Remembers(c, r)
    <2>1. \A k \in 0..(m_szSize - 1) :
              \/ EntryAt(r, k).status = "Empty"
              \/ n + k < m_szSize /\ EntryAt(c, n + k).status # "Empty"
      BY <1>4
    <2>2. \A k \in 0..(m_szSize - 1) : n + k < m_szSize /\ Filler(c, n + k) => Filler(r, k)
      BY <1>2, <1>4 DEF Filler
    <2>3. r.m_iStartSeqNo = incseqBy(c.m_iStartSeqNo, n)
      BY <1>1 DEF Moves
    <2> QED
      BY <1>3, <2>1, <2>2, <2>3, Remembering
  <1> QED
    BY <1>5 DEF r

\* Fillers are put where packets were, or are in the stream.
LEMMA FillRemembers ==
    ASSUME NEW c \in BufferType, NEW d, NEW offs \in SUBSET (0..(m_szSize - 1)),
           NEW entry \in {Drop, Read},
           d.m_entries = [pos \in Positions |->
                              IF pos \in {At(c, off) : off \in offs} THEN entry
                              ELSE c.m_entries[pos]],
           d.m_iStartPos = c.m_iStartPos, d.m_iStartSeqNo = c.m_iStartSeqNo,
           \A off \in offs :
               \/ EntryAt(c, off).status # "Empty"
               \/ ShortStream /\ Placed(c) => Base(c) + off < Len(MessageOf)
    PROVE  Remembers(c, d)
  <1>1. m_szSize \in Nat /\ c.m_iStartSeqNo \in SeqNo /\ 0 \in 0..m_szSize
    BY BufferFields, Sizes
  <1>2. d.m_iStartSeqNo = incseqBy(c.m_iStartSeqNo, 0)
    BY <1>1, SeqNoAssumption DEF incseqBy, SeqNo
  <1>3. \A k \in 0..(m_szSize - 1) :
            EntryAt(d, k) = IF k \in offs THEN entry ELSE EntryAt(c, k)
    <2> TAKE k \in 0..(m_szSize - 1)
    <2>1. At(d, k) = At(c, k) /\ At(c, k) \in Positions
      BY <1>1, Offsets DEF At
    <2>2. At(c, k) \in {At(c, off) : off \in offs} <=> k \in offs
      BY Offsets
    <2> QED
      BY <2>1, <2>2 DEF EntryAt
  <1>4. ShortStream /\ Placed(c) => Base(c) + 0 <= Len(MessageOf)
    BY StreamAssumption DEF Placed
  <1>5. \A k \in 0..(m_szSize - 1) :
            \/ EntryAt(d, k).status = "Empty"
            \/ 0 + k < m_szSize /\ EntryAt(c, 0 + k).status # "Empty"
            \/ ShortStream /\ Placed(c) => Base(c) + 0 + k < Len(MessageOf)
    <2> TAKE k \in 0..(m_szSize - 1)
    <2>1. CASE k \in offs
      <3>1. Placed(c) => Base(c) + 0 + k = Base(c) + k
        BY <1>1, StreamAssumption DEF Placed
      <3> QED
        BY <1>1, <2>1, <3>1
    <2>2. CASE k \notin offs
      BY <1>1, <1>3, <2>2
    <2> QED
      BY <2>1, <2>2
  <1>6. \A k \in 0..(m_szSize - 1) : 0 + k < m_szSize /\ Filler(c, 0 + k) => Filler(d, k)
    BY <1>1, <1>3, EmptyEntries DEF Filler
  <1> QED
    BY <1>1, <1>2, <1>4, <1>5, <1>6, Remembering

-----------------------------------------------------------------------------
(* The message at the start *)

\* What is left in d was in c.
Loses(c, d) ==
    \A pos \in Positions : HasUnit(d, pos) => d.m_entries[pos] = c.m_entries[pos]

LEMMA Losing ==
    /\ \A c, d, e : Loses(c, d) /\ Loses(d, e) => Loses(c, e)
    /\ \A c, n, d : Moves(c, n, d) => Loses(c, d)
  <1>1. \A c, d, e : Loses(c, d) /\ Loses(d, e) => Loses(c, e)
    BY DEF Loses, HasUnit
  <1>2. \A c, n, d : Moves(c, n, d) => Loses(c, d)
    BY EmptyEntries DEF Loses, HasUnit, Moves
  <1> QED
    BY <1>1, <1>2

\* HeadReadable, of any buffer
HeadFound(c) ==
    /\ HasUnit(c, c.m_iStartPos)
    /\ packetAt(c, c.m_iStartPos).first
    /\ MessageEnd(c, 0) # -1
    => hasReadableInorderPkts(c)

\* What every call but that of readMessage does to it
Finds(c, d) == HeadFound(c) \/ ~Loses(c, d) => HeadFound(d)

\* A message is all there up to the first packet that ends one.
LEMMA EndFacts ==
    ASSUME NEW c \in BufferType
    PROVE  /\ MessageEnd(c, 0) # -1 =>
                  /\ MessageEnd(c, 0) \in 0..(c.m_iMaxPosOff - 1)
                  /\ \A k \in 0..MessageEnd(c, 0) : UnitAt(c, k)
                  /\ PacketAt(c, MessageEnd(c, 0)).last
                  /\ \A k \in 0..(MessageEnd(c, 0) - 1) : ~PacketAt(c, k).last
           /\ \A last \in 0..(c.m_iMaxPosOff - 1) :
                  (\A k \in 0..last : UnitAt(c, k)) /\ PacketAt(c, last).last
                      => MessageEnd(c, 0) # -1
  <1> DEFINE ends == {last \in 0..(c.m_iMaxPosOff - 1) :
                         /\ \A k \in 0..last : HasUnit(c, At(c, k))
                         /\ packetAt(c, At(c, last)).last}
             e == MessageEnd(c, 0)
  <1>1. c.m_iMaxPosOff \in Nat
    BY BufferFields, Sizes
  <1>2. e = IF ends = {} THEN -1 ELSE Min(ends)
    BY DEF MessageEnd
  <1>3. ends # {} => e \in ends /\ \A y \in ends : e <= y
    <2>1. ends \in SUBSET Nat
      BY <1>1
    <2> HIDE DEF ends, e
    <2> QED
      BY <1>2, <2>1, LeastNat
  <1>4. ends # {} => e # -1
    <2> HIDE DEF e
    <2> QED
      BY <1>1, <1>3
  <1>5. \A last \in 0..(c.m_iMaxPosOff - 1) :
            (\A k \in 0..last : UnitAt(c, k)) /\ PacketAt(c, last).last => last \in ends
    BY DEF UnitAt, PacketAt
  <1>6. ASSUME e # -1
        PROVE  /\ e \in 0..(c.m_iMaxPosOff - 1)
               /\ \A k \in 0..e : UnitAt(c, k)
               /\ PacketAt(c, e).last
               /\ \A k \in 0..(e - 1) : ~PacketAt(c, k).last
    <2>1. e \in ends /\ \A y \in ends : e <= y
      <3> HIDE DEF ends, e
      <3> QED
        BY <1>2, <1>3, <1>6
    <2> HIDE DEF e
    <2>2. /\ e \in 0..(c.m_iMaxPosOff - 1)
          /\ \A k \in 0..e : UnitAt(c, k)
          /\ PacketAt(c, e).last
      BY <2>1 DEF UnitAt, PacketAt
    <2>3. ASSUME NEW k \in 0..(e - 1), PacketAt(c, k).last PROVE FALSE
      <3>1. k \in 0..(c.m_iMaxPosOff - 1) /\ k < e /\ \A j \in 0..k : UnitAt(c, j)
        BY <1>1, <2>2
      <3>2. e <= k
        BY <1>5, <2>1, <2>3, <3>1
      <3> QED
        BY <1>1, <2>2, <3>1, <3>2
    <2> QED
      BY <2>2, <2>3
  <1> HIDE DEF ends, e
  <1>7. \A last \in 0..(c.m_iMaxPosOff - 1) :
            (\A k \in 0..last : UnitAt(c, k)) /\ PacketAt(c, last).last => e # -1
    BY <1>4, <1>5
  <1> QED
    BY <1>6, <1>7 DEF e

\* updateNonreadPos finds the message at the start.
LEMMA UpdateFindsHead ==
    ASSUME NEW c, Good(c)
    PROVE  HeadFound(updateNonreadPos(c))
  <1> DEFINE from == NonreadOff(c)
             S == {from} \cup {off \in from..c.m_iMaxPosOff : WholeMessages(c, from, off)}
             to == Max(S)
             r == [c EXCEPT !.m_iFirstNonreadPos = At(c, to)]
             e == MessageEnd(c, 0)
  <1>1. /\ c \in BufferType /\ from \in 0..(m_szSize - 1) /\ m_szSize \in Nat
        /\ c.m_iMaxPosOff \in 0..(m_szSize - 1) /\ m_szSize >= 2
    BY BufferFields, Offsets, Sizes DEF Good, NonreadOff
  <1>2. CASE c.m_iMaxPosOff = 0
    <2>1. updateNonreadPos(c) = c
      BY <1>2 DEF updateNonreadPos
    <2>2. e = -1
      <3>1. e # -1 => e \in 0..(c.m_iMaxPosOff - 1)
        BY <1>1, EndFacts
      <3> HIDE DEF e
      <3> QED
        BY <1>2, <3>1
    <2> QED
      BY <2>1, <2>2 DEF HeadFound
  <1>3. CASE c.m_iMaxPosOff # 0
    <2>1. updateNonreadPos(c) = r
      BY <1>3 DEF updateNonreadPos, NonreadOff
    <2>2. to \in 0..(m_szSize - 1) /\ \A y \in S : y <= to
      <3>1. S \subseteq 0..(m_szSize - 1) /\ S # {}
        <4> HIDE DEF from
        <4> QED
          BY <1>1
      <3>2. S \in SUBSET Int /\ m_szSize - 1 \in Int /\ \A y \in S : y <= m_szSize - 1
        <4> HIDE DEF S
        <4> QED
          BY <1>1, <3>1
      <3> HIDE DEF S
      <3> QED
        BY <3>1, <3>2, GreatestInt
    <2> HIDE DEF to
    <2>3. At(c, to) \in Positions /\ offPos(c.m_iStartPos, At(c, to)) = to
      BY <1>1, <2>2, Offsets
    <2>4. /\ Good(r) /\ r.m_iFirstNonreadPos = At(c, to) /\ r.m_iStartPos = c.m_iStartPos
          /\ r.m_entries = c.m_entries /\ r.m_iMaxPosOff = c.m_iMaxPosOff
      BY <2>3, NonreadChange
    <2> HIDE DEF r
    <2>5. MessageEnd(r, 0) = e
      <3>1. \A off : At(r, off) = At(c, off)
        BY <2>4 DEF At
      <3>2. \A pos : HasUnit(r, pos) = HasUnit(c, pos) /\ packetAt(r, pos) = packetAt(c, pos)
        BY <2>4 DEF HasUnit, packetAt
      <3> QED
        BY <2>4, <3>1, <3>2 DEF MessageEnd
    <2>6. ASSUME HasUnit(c, c.m_iStartPos), packetAt(c, c.m_iStartPos).first, e # -1
          PROVE  to > 0
      <3>1. CASE from > 0
        <4>1. from <= to
          BY <2>2
        <4> HIDE DEF from
        <4> QED
          BY <1>1, <2>2, <3>1, <4>1
      <3>2. CASE from = 0
        <4>1. /\ e \in 0..(c.m_iMaxPosOff - 1)
              /\ \A k \in 0..e : UnitAt(c, k)
              /\ PacketAt(c, e).last
              /\ \A k \in 0..(e - 1) : ~PacketAt(c, k).last
          BY <1>1, <2>6, EndFacts
        <4>2. PacketAt(c, 0).first
          BY <1>1, <2>6, Offsets DEF PacketAt
        <4> HIDE DEF e
        <4>3. e + 1 \in 0..c.m_iMaxPosOff /\ e + 1 - 1 = e /\ e + 1 > 0 /\ e \in Nat
          BY <1>1, <4>1
        <4>4. \A k \in 0..e : k = 0 \/ PacketAt(c, k - 1).last => PacketAt(c, k).first
          <5> SUFFICES ASSUME NEW k \in 0..e, k # 0 PROVE ~PacketAt(c, k - 1).last
            BY <4>2
          <5>1. k - 1 \in 0..(e - 1)
            BY <4>3
          <5> QED
            BY <4>1, <5>1
        <4>5. WholeMessages(c, 0, e + 1)
          BY <4>1, <4>3, <4>4 DEF WholeMessages, UnitAt, PacketAt
        <4>6. e + 1 \in S
          BY <3>2, <4>3, <4>5
        <4> HIDE DEF S
        <4> QED
          BY <2>2, <4>3, <4>6
      <3> HIDE DEF from
      <3> QED
        BY <1>1, <3>1, <3>2
    <2>7. to > 0 => hasReadableInorderPkts(r)
      <3> SUFFICES ASSUME to > 0, At(c, to) = c.m_iStartPos PROVE FALSE
        BY <2>4 DEF hasReadableInorderPkts
      <3>1. offPos(c.m_iStartPos, c.m_iStartPos) = 0
        BY <1>1, BufferFields DEF offPos, Positions
      <3> QED
        BY <2>2, <2>3, <3>1
    <2>8. /\ HasUnit(r, r.m_iStartPos) = HasUnit(c, c.m_iStartPos)
          /\ packetAt(r, r.m_iStartPos) = packetAt(c, c.m_iStartPos)
      BY <2>4 DEF HasUnit, packetAt
    <2> HIDE DEF e
    <2> QED
      BY <2>1, <2>5, <2>6, <2>7, <2>8 DEF HeadFound
  <1> QED
    BY <1>2, <1>3

\* A buffer that loses packets, but moves neither the start nor the position
\* of the first packet that cannot be read, hides no message at the start.
LEMMA LosesNoHead ==
    ASSUME NEW c, Good(c), NEW d, Good(d), Loses(c, d),
           d.m_iStartPos = c.m_iStartPos, d.m_iFirstNonreadPos = c.m_iFirstNonreadPos
    PROVE  Finds(c, d)
  <1> SUFFICES ASSUME HeadFound(c), HasUnit(d, d.m_iStartPos),
                      packetAt(d, d.m_iStartPos).first, MessageEnd(d, 0) # -1
               PROVE  hasReadableInorderPkts(d)
    BY DEF Finds, HeadFound
  <1> DEFINE e == MessageEnd(d, 0)
  <1>1. /\ c \in BufferType /\ d \in BufferType /\ m_szSize \in Nat
        /\ c.m_iMaxPosOff \in 0..(m_szSize - 1) /\ d.m_iMaxPosOff \in 0..(m_szSize - 1)
    BY BufferFields, Sizes DEF Good
  <1>2. /\ e \in 0..(d.m_iMaxPosOff - 1) /\ PacketAt(d, e).last
        /\ \A k \in 0..e : UnitAt(d, k)
    BY <1>1, EndFacts
  <1> HIDE DEF e
  <1>3. \A k \in 0..e : UnitAt(c, k) /\ PacketAt(c, k) = PacketAt(d, k)
    <2> SUFFICES ASSUME NEW k \in 0..e PROVE UnitAt(c, k) /\ PacketAt(c, k) = PacketAt(d, k)
      OBVIOUS
    <2>1. k \in 0..m_szSize
      BY <1>1, <1>2
    <2>2. At(d, k) = At(c, k) /\ At(d, k) \in Positions
      BY <1>1, <2>1, Offsets DEF At
    <2> QED
      BY <1>2, <2>2 DEF Loses, UnitAt, PacketAt, HasUnit, packetAt
  <1>4. e \in 0..(c.m_iMaxPosOff - 1)
    <2>1. e \in 0..(m_szSize - 1) /\ UnitAt(c, e)
      BY <1>1, <1>2, <1>3
    <2> QED
      BY <1>1, <2>1 DEF Good, Window
  <1>5. MessageEnd(c, 0) # -1
    <2>1. e \in 0..e
      BY <1>2
    <2> QED
      BY <1>1, <1>2, <1>3, <1>4, <2>1, EndFacts
  <1>6. HasUnit(c, c.m_iStartPos) /\ packetAt(c, c.m_iStartPos).first
    <2>1. c.m_iStartPos \in Positions
      BY <1>1, BufferFields
    <2> QED
      BY <2>1 DEF Loses, HasUnit, packetAt
  <1> QED
    BY <1>5, <1>6 DEF HeadFound, hasReadableInorderPkts

-----------------------------------------------------------------------------
(* Inserting, and what that leaves in the buffer *)

\* A packet of the stream is put at its offset.
LEMMA PutRemembers ==
    ASSUME NEW c, Good(c), NEW pkt \in Stream, NEW d,
           NEW off \in 0..(capacity - 1), off = seqoff(c.m_iStartSeqNo, pkt.seqno),
           d.m_entries = [pos \in Positions |->
                              IF pos = At(c, off) THEN Avail(pkt) ELSE c.m_entries[pos]],
           d.m_iStartPos = c.m_iStartPos, d.m_iStartSeqNo = c.m_iStartSeqNo,
           EntryAt(c, off) = Empty
    PROVE  Remembers(c, d)
  <1>1. /\ c \in BufferType /\ m_szSize \in Nat /\ c.m_iStartSeqNo \in SeqNo
        /\ 0 \in 0..m_szSize /\ off \in 0..(m_szSize - 1)
    BY BufferFields, Sizes DEF Good
  <1>2. d.m_iStartSeqNo = incseqBy(c.m_iStartSeqNo, 0)
    BY <1>1, SeqNoAssumption DEF incseqBy, SeqNo
  <1>3. \A k \in 0..(m_szSize - 1) :
            EntryAt(d, k) = IF k = off THEN Avail(pkt) ELSE EntryAt(c, k)
    BY <1>1, Offsets DEF EntryAt, At
  <1>4. ShortStream /\ Placed(c) => /\ Base(c) + off < Len(MessageOf)
                                   /\ Base(c) + 0 <= Len(MessageOf)
    <2> SUFFICES ASSUME ShortStream, Placed(c)
                 PROVE  Base(c) + off < Len(MessageOf) /\ Base(c) + 0 <= Len(MessageOf)
      OBVIOUS
    <2>1. PICK i \in DOMAIN MessageOf : pkt = Packet(i)
      BY PacketFacts
    <2>2. Base(c) + off = i - 1
      BY <1>1, <2>1, OffsetInStream
    <2> QED
      BY <1>1, <2>2, StreamAssumption DEF Placed
  <1>5. \A k \in 0..(m_szSize - 1) :
            \/ EntryAt(d, k).status = "Empty"
            \/ 0 + k < m_szSize /\ EntryAt(c, 0 + k).status # "Empty"
            \/ ShortStream /\ Placed(c) => Base(c) + 0 + k < Len(MessageOf)
    <2> TAKE k \in 0..(m_szSize - 1)
    <2>1. CASE k = off
      BY <1>1, <1>4, <2>1 DEF Placed
    <2>2. CASE k # off
      BY <1>1, <1>3, <2>2
    <2> QED
      BY <2>1, <2>2
  <1>6. \A k \in 0..(m_szSize - 1) : 0 + k < m_szSize /\ Filler(c, 0 + k) => Filler(d, k)
    BY <1>1, <1>3, EmptyEntries DEF Filler
  <1> QED
    BY <1>1, <1>2, <1>4, <1>5, <1>6, Remembering

LEMMA InsertKeeps ==
    ASSUME NEW c, BufferInv(c), NEW pkt \in Stream
    PROVE  /\ BufferInv(insert(c, pkt)) /\ insert(c, pkt).tsbpd = c.tsbpd
           /\ Remembers(c, insert(c, pkt))
           /\ insert(c, pkt).m_iStartSeqNo = c.m_iStartSeqNo
           /\ Finds(c, insert(c, pkt))
           /\ InsertResult(c, pkt) = 0 => HeadFound(insert(c, pkt))
  <1> DEFINE off == seqoff(c.m_iStartSeqNo, pkt.seqno)
             pos == At(c, off)
             m == Max({c.m_iMaxPosOff, off + 1})
             reached == Reach(c, off)
             placed == [reached EXCEPT !.m_entries[pos] = Avail(pkt)]
             counted == [placed EXCEPT !.m_numOutOfOrderPackets = @ + 1]
  <1>1. c \in BufferType /\ Good(c) /\ m_szSize \in Nat
    BY Sizes DEF BufferInv, Good
  <1>2. off \in Int
    BY <1>1, BufferFields, PacketFacts, SeqNoAssumption DEF seqoff, SeqNo
  <1>3. insert(c, pkt) = CASE InsertResult(c, pkt) \in {-2, -3} -> c
                           [] InsertResult(c, pkt) = -1 -> reached
                           [] OTHER -> IF ~c.tsbpd /\ ~pkt.inorder
                                       THEN updateNonreadPos(onInsertNotInOrderPacket(counted, pos))
                                       ELSE updateNonreadPos(placed)
    BY DEF insert
  <1>4. CASE off < 0 \/ off >= capacity
    <2>1. InsertResult(c, pkt) \in {-2, -3}
      BY <1>4 DEF InsertResult
    <2>2. Remembers(c, c) /\ Finds(c, c)
      BY SameRemembers DEF SameEntries, Finds, Loses
    <2> HIDE DEF off, pos, reached, placed, counted
    <2> QED
      BY <1>3, <2>1, <2>2
  <1>5. CASE off >= 0 /\ off < capacity
    <2>1. /\ off \in 0..(m_szSize - 1) /\ off \in 0..(capacity - 1) /\ pos \in Positions
          /\ m \in 0..capacity /\ c.m_iMaxPosOff <= m /\ off < m
      <3>1. off \in 0..(m_szSize - 1) /\ off \in 0..(capacity - 1)
        BY <1>2, <1>5, Sizes
      <3>2. c.m_iMaxPosOff \in 0..capacity /\ capacity \in Nat
        BY <1>1, BufferFields, Sizes
      <3> HIDE DEF off
      <3>3. m = IF c.m_iMaxPosOff >= off + 1 THEN c.m_iMaxPosOff ELSE off + 1
        BY <3>1, <3>2, MaxOfTwo
      <3> QED
        BY <1>1, <3>1, <3>2, <3>3, Offsets, Sizes
    <2>2. reached = [c EXCEPT !.m_iMaxPosOff = m]
      BY DEF Reach
    <2> HIDE DEF m, reached, off
    <2>3. /\ BufferInv(reached) /\ reached.m_iMaxPosOff = m
          /\ reached.m_entries = c.m_entries /\ reached.m_iStartSeqNo = c.m_iStartSeqNo
          /\ reached.m_iStartPos = c.m_iStartPos /\ reached.tsbpd = c.tsbpd
          /\ reached.m_numOutOfOrderPackets = c.m_numOutOfOrderPackets
          /\ reached.m_iFirstNonreadPos = c.m_iFirstNonreadPos
      BY <2>1, <2>2, MaxPosOffChange
    <2>4. CASE c.m_entries[pos].status # "Empty"
      <3>1. InsertResult(c, pkt) = -1
        BY <1>1, <1>2, Sizes, <1>5, <2>4 DEF InsertResult, off
      <3>2. Remembers(c, reached)
        BY <2>3, SameRemembers DEF SameEntries
      <3>3. Finds(c, reached)
        BY <1>1, <2>3, LosesNoHead DEF BufferInv, Loses
      <3> HIDE DEF pos, placed, counted
      <3> QED
        BY <1>3, <2>3, <3>1, <3>2, <3>3
    <2>5. CASE c.m_entries[pos].status = "Empty"
      <3>1. InsertResult(c, pkt) = 0
        BY <1>1, <1>2, Sizes, <1>5, <2>5 DEF InsertResult, off
      <3>2. pkt.seqno = incseqBy(c.m_iStartSeqNo, off)
        BY <1>1, <1>5, OffsetLeadsBack, BufferFields, PacketFacts DEF off
      <3>3. EntryAt(c, off) = Empty
        BY <1>1, <2>1, <2>5, UnitFacts, EntryFacts DEF EntryAt
      <3>4. /\ reached \in BufferType /\ At(reached, off) = pos /\ EntryAt(reached, off) = Empty
            /\ pkt.seqno = incseqBy(reached.m_iStartSeqNo, off) /\ off < reached.m_iMaxPosOff
        <4>1. reached \in BufferType
          BY <2>3 DEF BufferInv, Good
        <4>2. At(reached, off) = pos
          BY <2>3 DEF At
        <4> QED
          BY <2>1, <2>3, <3>2, <3>3, <4>1, <4>2 DEF EntryAt
      <3>5. Avail(pkt) \in Entry
        BY DEF Entry
      <3>6. /\ placed \in BufferType
            /\ placed.m_entries = [reached.m_entries EXCEPT ![pos] = Avail(pkt)]
            /\ placed.m_numOutOfOrderPackets = reached.m_numOutOfOrderPackets
            /\ placed.m_iStartSeqNo = reached.m_iStartSeqNo
            /\ placed.m_iStartPos = reached.m_iStartPos
            /\ placed.m_iFirstNonreadPos = reached.m_iFirstNonreadPos
            /\ placed.m_iMaxPosOff = reached.m_iMaxPosOff
            /\ placed.m_iFirstReadableOutOfOrder = reached.m_iFirstReadableOutOfOrder
            /\ placed.tsbpd = reached.tsbpd
        <4> HIDE DEF pos
        <4> QED
          BY <2>1, <3>4, <3>5 DEF BufferType
      <3>7. placed.m_entries = [q \in Positions |->
                                    IF q = At(reached, off) THEN Avail(pkt)
                                    ELSE reached.m_entries[q]]
        <4> HIDE DEF pos, placed
        <4> QED
          BY <2>1, <3>4, <3>6, BufferFields
      <3>8. counted = [placed EXCEPT !.m_numOutOfOrderPackets = placed.m_numOutOfOrderPackets + 1]
        OBVIOUS
      <3>9. /\ counted \in BufferType
            /\ counted.m_numOutOfOrderPackets = placed.m_numOutOfOrderPackets + 1
            /\ counted.m_entries = placed.m_entries
            /\ counted.m_iStartSeqNo = placed.m_iStartSeqNo
            /\ counted.m_iStartPos = placed.m_iStartPos
            /\ counted.m_iFirstNonreadPos = placed.m_iFirstNonreadPos
            /\ counted.m_iMaxPosOff = placed.m_iMaxPosOff
            /\ counted.m_iFirstReadableOutOfOrder = placed.m_iFirstReadableOutOfOrder
            /\ counted.tsbpd = placed.tsbpd
        <4> HIDE DEF placed, counted
        <4>1. placed.m_numOutOfOrderPackets + 1 \in Nat
          BY <3>6, BufferFields
        <4> QED
          BY <3>6, <3>8, <4>1 DEF BufferType
      <3>10. /\ Remembers(c, placed) /\ Remembers(c, counted)
             /\ placed \in BufferType /\ counted \in BufferType
        <4> HIDE DEF placed, counted
        <4>1. At(reached, off) = At(c, off)
          BY <2>3 DEF At
        <4>2. Remembers(c, placed)
          BY <1>1, <2>1, <2>3, <3>3, <3>6, <3>7, <4>1, PutRemembers DEF off
        <4>3. SameEntries(placed, counted)
          BY <3>9 DEF SameEntries
        <4> QED
          BY <3>6, <3>9, <4>2, <4>3, SameRemembers, RemembersOn
      <3> HIDE DEF placed, counted
      <3>11. CASE ~c.tsbpd /\ ~pkt.inorder
        <4>1. Puts(reached, off, pkt, counted)
          BY <2>3, <3>6, <3>7, <3>9, <3>11 DEF Puts
        <4>2. BufferInv(counted) /\ UnitAt(counted, off) /\ PacketAt(counted, off) = pkt
          BY <2>1, <2>3, <3>4, <3>9, <4>1, PutsKeeps
        <4>3. /\ At(counted, off) = pos /\ ~counted.tsbpd /\ counted.tsbpd = c.tsbpd
              /\ off \in 0..(counted.m_iMaxPosOff - 1)
          <5>1. At(counted, off) = At(reached, off)
            BY <3>6, <3>9 DEF At
          <5> QED
            BY <2>1, <2>3, <3>4, <3>6, <3>9, <3>11, <5>1
        <4>4. /\ BufferInv(onInsertNotInOrderPacket(counted, At(counted, off)))
              /\ onInsertNotInOrderPacket(counted, At(counted, off)).tsbpd = counted.tsbpd
          BY <3>11, <4>2, <4>3, OnInsert
        <4>5. /\ BufferInv(updateNonreadPos(onInsertNotInOrderPacket(counted, pos)))
              /\ updateNonreadPos(onInsertNotInOrderPacket(counted, pos)).tsbpd = c.tsbpd
          BY <4>3, <4>4, UpdateNonread DEF BufferInv
        <4>6. /\ Remembers(c, updateNonreadPos(onInsertNotInOrderPacket(counted, pos)))
              /\ updateNonreadPos(onInsertNotInOrderPacket(counted, pos)).m_iStartSeqNo
                     = c.m_iStartSeqNo
          <5> DEFINE searched == onInsertNotInOrderPacket(counted, pos)
          <5>1. searched \in BufferType
            BY <4>3, <4>4 DEF BufferInv, Good
          <5>2. SameEntries(counted, searched)
            BY <3>10, SearchesRemember
          <5> HIDE DEF searched
          <5>3. SameEntries(searched, updateNonreadPos(searched))
            BY <5>1, SearchesRemember
          <5>4. Remembers(c, updateNonreadPos(searched))
            BY <3>10, <5>2, <5>3, SameRemembers, RemembersOn
          <5>5. updateNonreadPos(searched).m_iStartSeqNo = c.m_iStartSeqNo
            BY <2>3, <3>6, <3>9, <5>2, <5>3 DEF SameEntries
          <5> QED
            BY <5>4, <5>5 DEF searched
        <4>7. HeadFound(updateNonreadPos(onInsertNotInOrderPacket(counted, pos)))
          BY <4>3, <4>4, UpdateFindsHead DEF BufferInv
        <4> HIDE DEF pos
        <4> QED
          BY <1>3, <3>1, <3>11, <4>5, <4>6, <4>7 DEF Finds
      <3>12. CASE ~(~c.tsbpd /\ ~pkt.inorder)
        <4>1. reached.m_numOutOfOrderPackets \in Nat
          BY <3>4, BufferFields
        <4>2. Puts(reached, off, pkt, placed)
          BY <2>3, <3>6, <3>7, <3>12, <4>1 DEF Puts
        <4>3. BufferInv(placed)
          BY <2>1, <2>3, <3>4, <3>6, <4>2, PutsKeeps
        <4>4. BufferInv(updateNonreadPos(placed)) /\ updateNonreadPos(placed).tsbpd = c.tsbpd
          BY <2>3, <3>6, <4>3, UpdateNonread DEF BufferInv
        <4>5. /\ Remembers(c, updateNonreadPos(placed))
              /\ updateNonreadPos(placed).m_iStartSeqNo = c.m_iStartSeqNo
          <5>1. SameEntries(placed, updateNonreadPos(placed))
            BY <3>10, SearchesRemember
          <5> QED
            BY <2>3, <3>6, <3>10, <5>1, SameRemembers, RemembersOn DEF SameEntries
        <4>6. HeadFound(updateNonreadPos(placed))
          BY <4>3, UpdateFindsHead DEF BufferInv
        <4> HIDE DEF pos
        <4> QED
          BY <1>3, <3>1, <3>12, <4>4, <4>5, <4>6 DEF Finds
      <3> QED
        BY <3>11, <3>12
    <2> QED
      BY <2>4, <2>5
  <1> QED
    BY <1>2, <1>4, <1>5, Sizes

-----------------------------------------------------------------------------
(* Dropping *)

\* checkFirstReadableOutOfOrder is enough after any loss.
LEMMA Checked ==
    ASSUME NEW c, BufferInv(c), ~c.tsbpd,
           NEW r, Good(r), InOrder(r), HeadFresh(r), Loses(c, r), r.tsbpd = c.tsbpd,
           r.m_iFirstReadableOutOfOrder \in {c.m_iFirstReadableOutOfOrder, -1},
           NEW x, x = IF checkFirstReadableOutOfOrder(r) THEN r
                      ELSE [r EXCEPT !.m_iFirstReadableOutOfOrder = -1]
    PROVE  /\ BufferInv(x) /\ x.tsbpd = c.tsbpd /\ x.m_entries = r.m_entries
           /\ x.m_iStartPos = r.m_iStartPos /\ x.m_iFirstNonreadPos = r.m_iFirstNonreadPos
  <1>1. c \in BufferType /\ r \in BufferType /\ m_szSize \in Nat
        /\ r.m_iMaxPosOff \in 0..(m_szSize - 1)
    BY Sizes, BufferFields DEF BufferInv, Good
  <1>2. CASE ~checkFirstReadableOutOfOrder(r)
    <2> DEFINE y == [r EXCEPT !.m_iFirstReadableOutOfOrder = -1]
    <2>1. x = y
      BY <1>2
    <2> HIDE DEF y
    <2>2. Good(y) /\ InOrder(y) /\ HeadFresh(y) /\ y.m_iFirstReadableOutOfOrder = -1
          /\ y.tsbpd = r.tsbpd
      BY UnorderedChange DEF y
    <2> QED
      BY <2>1, <2>2 DEF BufferInv, OutOfOrder
  <1>3. CASE checkFirstReadableOutOfOrder(r)
    <2> DEFINE p == r.m_iFirstReadableOutOfOrder
               f == offPos(r.m_iStartPos, p)
    <2>1. x = r /\ p >= 0 /\ p \in Positions \cup {-1}
      BY <1>1, <1>3, BufferFields DEF checkFirstReadableOutOfOrder
    <2>2. p \in Positions /\ p # -1 /\ p = c.m_iFirstReadableOutOfOrder
      BY <1>1, <2>1 DEF Positions
    <2>3. f \in 0..(m_szSize - 1) /\ At(r, f) = p
      BY <1>1, <2>2, Offsets
    <2>4. packetAt(c, p).first
      <3> DEFINE g == offPos(c.m_iStartPos, p)
      <3>1. At(c, g) = p
        BY <1>1, <2>2, Offsets
      <3>2. PacketAt(c, g).first
        BY <2>2 DEF BufferInv, OutOfOrder, Span
      <3> QED
        BY <3>1, <3>2 DEF PacketAt
    <2> HIDE DEF f
    <2>5. PICK l \in f..(r.m_iMaxPosOff - 1) :
              /\ HasUnit(r, At(r, f))
              /\ SameMessage(r, f..l, packetAt(r, At(r, f)).msgno)
              /\ \A k \in f..l : ~packetAt(r, At(r, k)).inorder
              /\ packetAt(r, At(r, l)).last
      BY <1>3 DEF checkFirstReadableOutOfOrder, f
    <2>6. packetAt(r, p) = packetAt(c, p)
      BY <2>2, <2>3, <2>5 DEF Loses, packetAt
    <2>7. Span(r, f, l) /\ l \in 0..(m_szSize - 1)
      BY <1>1, <2>3, <2>4, <2>5, <2>6 DEF Span, SameMessage, UnitAt, PacketAt
    <2>8. OutOfOrder(r)
      BY <2>7 DEF OutOfOrder, f
    <2> QED
      BY <2>1, <2>8 DEF BufferInv
  <1> QED
    BY <1>2, <1>3

\* Dropping what is behind the packets that can be read in order, and passing
\* the fillers at the start, of which there are none then, leaves those alone.
LEMMA DroppedBehind ==
    ASSUME NEW c, BufferInv(c), NEW a, Good(a), NEW r,
           a.m_iStartPos = c.m_iStartPos, a.m_iFirstNonreadPos = c.m_iFirstNonreadPos,
           \A k \in 0..NonreadOff(c) : EntryAt(a, k) = EntryAt(c, k),
           r = releaseNextFillerEntries(a)
    PROVE  /\ InOrder(r)
           /\ r.m_iStartPos = c.m_iStartPos /\ r.m_iFirstNonreadPos = c.m_iFirstNonreadPos
  <1> DEFINE nr == NonreadOff(c)
  <1>1. c \in BufferType /\ a \in BufferType /\ m_szSize \in Nat /\ nr \in 0..(m_szSize - 1)
    BY Sizes, Offsets, BufferFields DEF BufferInv, Good, NonreadOff
  <1>2. PICK n \in 0..m_szSize :
            /\ Moves(a, n, r)
            /\ \A j \in 0..(n - 1) : EntryAt(a, j).status \in {"Read", "Drop"}
    BY Release
  <1>3. r.m_iFirstNonreadPos = a.m_iFirstNonreadPos
    BY Release
  <1> HIDE DEF nr
  <1>4. EntryAt(a, 0).status \notin {"Read", "Drop"}
    BY <1>1 DEF BufferInv, HeadFresh, nr
  <1>5. n = 0
    BY <1>2, <1>4
  <1>6. r.m_iStartPos = c.m_iStartPos
    BY <1>1, <1>2, <1>5, Offsets DEF Moves
  <1>7. NonreadOff(r) = nr
    BY <1>3, <1>6 DEF NonreadOff, nr
  <1>8. \A k \in 0..(nr - 0 - 1) : EntryAt(r, k) = EntryAt(c, 0 + k)
    <2> SUFFICES ASSUME NEW k \in 0..(nr - 0 - 1) PROVE EntryAt(r, k) = EntryAt(c, 0 + k)
      OBVIOUS
    <2>1. k \in 0..(m_szSize - 1) /\ k \in 0..nr /\ 0 + k = k /\ n + k = k /\ n + k < m_szSize
      BY <1>1, <1>5
    <2>2. EntryAt(r, k) = EntryAt(a, k)
      BY <1>1, <1>2, <2>1, MovesOffsets
    <2> QED
      BY <2>1, <2>2 DEF nr
  <1>9. 0 \in 0..nr /\ NonreadOff(r) = nr - 0
    BY <1>1, <1>7
  <1>10. InOrder(r)
    BY <1>1, <1>8, <1>9, ShiftInOrder DEF BufferInv, nr
  <1> QED
    BY <1>3, <1>6, <1>10

\* After the position of the first packet that cannot be read was reset to the
\* start, updateNonreadPos finds it anew.
LEMMA Renewed ==
    ASSUME NEW r, Good(r), HeadFresh(r), NEW u,
           u = updateNonreadPos([r EXCEPT !.m_iFirstNonreadPos = r.m_iStartPos])
    PROVE  /\ Good(u) /\ InOrder(u) /\ HeadFresh(u) /\ u.tsbpd = r.tsbpd
           /\ OutOfOrder(r) => OutOfOrder(u)
           /\ u.m_entries = r.m_entries
           /\ u.m_iFirstReadableOutOfOrder = r.m_iFirstReadableOutOfOrder
           /\ Remembers(r, u) /\ HeadFound(u)
  <1> DEFINE q == [r EXCEPT !.m_iFirstNonreadPos = r.m_iStartPos]
  <1>1. r \in BufferType /\ r.m_iStartPos \in Positions
    BY BufferFields DEF Good
  <1>2. u = updateNonreadPos(q)
    OBVIOUS
  <1> HIDE DEF q
  <1>3. /\ Good(q) /\ HeadFresh(q) /\ q.m_iFirstNonreadPos = r.m_iStartPos
        /\ q.m_iStartPos = r.m_iStartPos /\ q.tsbpd = r.tsbpd /\ q.m_entries = r.m_entries
        /\ q.m_iFirstReadableOutOfOrder = r.m_iFirstReadableOutOfOrder
        /\ OutOfOrder(r) => OutOfOrder(q)
    BY <1>1, NonreadChange DEF q
  <1>4. NonreadOff(q) = 0
    BY <1>1, <1>3 DEF NonreadOff, offPos, Positions
  <1>5. InOrder(q)
    <2>1. \A k \in 0..(0 - 1) : FALSE
      OBVIOUS
    <2> QED
      BY <1>4, <2>1 DEF InOrder, WholeMessages
  <1>6. Remembers(r, u)
    <2>1. SameEntries(r, q)
      BY <1>1, SearchesRemember DEF q
    <2>2. SameEntries(q, u)
      BY <1>2, <1>3, SearchesRemember DEF Good
    <2> QED
      BY <2>1, <2>2, SameRemembers, RemembersOn
  <1> QED
    BY <1>2, <1>3, <1>5, <1>6, UpdateNonread, UpdateFindsHead

\* A number of the stream that is not too far ahead, as the callers make sure
InStream(c, seqno) ==
    seqoff(c.m_iStartSeqNo, seqno) < capacity /\ \E pkt \in Stream : seqno = pkt.seqno

LEMMA DropMessageKeeps ==
    ASSUME NEW c, BufferInv(c), NEW seqnolo \in SeqNo, NEW seqnohi \in SeqNo,
           NEW msgno \in Int, NEW keep \in BOOLEAN,
           msgno <= 0 \/ seqoff(c.m_iStartSeqNo, seqnolo) < m_szSize
    PROVE  /\ BufferInv(dropMessage(c, seqnolo, seqnohi, msgno, keep))
           /\ dropMessage(c, seqnolo, seqnohi, msgno, keep).tsbpd = c.tsbpd
           /\ InStream(c, seqnohi) =>
                  Remembers(c, dropMessage(c, seqnolo, seqnohi, msgno, keep))
           /\ Loses(c, dropMessage(c, seqnolo, seqnohi, msgno, keep))
           /\ Finds(c, dropMessage(c, seqnolo, seqnohi, msgno, keep))
  <1> DEFINE offset_a == seqoff(c.m_iStartSeqNo, seqnolo)
             offset_b == seqoff(c.m_iStartSeqNo, seqnohi)
             start_off == Max({0, offset_a})
             end_off == Min({m_szSize - 1, offset_b + 1})
             Solo(off) == /\ HasUnit(c, At(c, off))
                          /\ packetAt(c, At(c, off)).first
                          /\ packetAt(c, At(c, off)).last
             range == {off \in start_off..(end_off - 1) :
                          /\ c.m_entries[At(c, off)].status # "Drop"
                          /\ ~(keep /\ Solo(off))}
             met == \E off \in start_off..(end_off - 1) :
                        \/ keep /\ Solo(off)
                        \/ /\ off \in range
                           /\ HasUnit(c, At(c, off))
                           /\ packetAt(c, At(c, off)).first
                           /\ ~packetAt(c, At(c, off)).last
             dropped == DropUnits(c, {At(c, off) : off \in range}, Drop)
             earlier == IF msgno <= 0 \/ met THEN {}
                        ELSE {off \in 0..start_off :
                                 /\ HasUnit(dropped, At(c, off))
                                 /\ \A k \in off..start_off :
                                       HasUnit(dropped, At(c, k)) =>
                                          LET pkt == packetAt(dropped, At(c, k))
                                          IN  /\ pkt.msgno = msgno
                                              /\ ~(keep /\ pkt.first /\ pkt.last)
                                              /\ k > off => ~pkt.first}
             all == DropUnits(dropped, {At(c, off) : off \in earlier}, Drop)
             before == /\ range \cup earlier # {}
                       /\ Min(range \cup earlier)
                              <= offPos(c.m_iStartPos, c.m_iFirstNonreadPos)
             released == releaseNextFillerEntries(all)
             reset == updateNonreadPos(
                          [released EXCEPT !.m_iFirstNonreadPos = released.m_iStartPos])
             renewed == IF before THEN reset ELSE released
             checked == IF checkFirstReadableOutOfOrder(renewed) THEN renewed
                        ELSE [renewed EXCEPT !.m_iFirstReadableOutOfOrder = -1]
  <1>1. c \in BufferType /\ Good(c) /\ m_szSize \in Nat /\ m_szSize >= 2
    BY Sizes DEF BufferInv, Good
  <1>2. dropMessage(c, seqnolo, seqnohi, msgno, keep) =
            IF offset_b < 0 THEN c
            ELSE IF c.tsbpd THEN renewed ELSE updateFirstReadableOutOfOrder(checked)
    BY DEF dropMessage
  <1>3. offset_a \in Int /\ offset_b \in Int
    BY <1>1, BufferFields, SeqNoAssumption DEF seqoff, SeqNo
  <1>4. CASE offset_b < 0
    <2>1. Remembers(c, c) /\ Loses(c, c) /\ Finds(c, c)
      BY SameRemembers DEF SameEntries, Finds, Loses
    <2> HIDE DEF offset_b, renewed, checked
    <2> QED
      BY <1>2, <1>4, <2>1
  <1>5. CASE offset_b >= 0
    <2>1. start_off = (IF 0 >= offset_a THEN 0 ELSE offset_a) /\ start_off \in Nat
      <3> HIDE DEF offset_a
      <3> QED
        BY <1>3, MaxOfTwo
    <2>2. end_off \in Nat /\ end_off <= m_szSize - 1 /\ end_off <= offset_b + 1
      <3> HIDE DEF offset_b
      <3>1. m_szSize - 1 \in Nat /\ offset_b + 1 \in Nat
        BY <1>1, <1>3, <1>5
      <3> QED
        BY <3>1, MinOfTwo
    <2>3. \A off \in range : off \in 0..(m_szSize - 1)
      <3> HIDE DEF start_off, end_off
      <3> QED
        BY <1>1, <2>1, <2>2
    <2>4. \A off \in range : off <= offset_b
      <3> HIDE DEF start_off, end_off, offset_b
      <3> QED
        BY <1>3, <2>1, <2>2
    <2>5. \A off \in earlier : HasUnit(dropped, At(c, off))
      <3> HIDE DEF start_off, met, dropped
      <3> QED
        OBVIOUS
    <2>6. \A off \in earlier : off \in 0..(m_szSize - 1)
      <3>1. earlier # {} => start_off < m_szSize
        <4> HIDE DEF start_off, offset_a, met, dropped
        <4> QED
          BY <1>1, <1>3, <2>1 DEF offset_a
      <3>2. \A off \in earlier : off \in 0..start_off
        <4> HIDE DEF start_off, met, dropped
        <4> QED
          OBVIOUS
      <3> HIDE DEF earlier, start_off
      <3> QED
        BY <1>1, <2>1, <3>1, <3>2
    <2> HIDE DEF range, earlier
    <2> DEFINE poss1 == {At(c, off) : off \in range}
               poss2 == {At(c, off) : off \in earlier}
    <2>7. poss1 \in SUBSET Positions /\ poss2 \in SUBSET Positions
      BY <1>1, <2>3, <2>6, Offsets, Sizes
    <2>8. dropped = DropUnits(c, poss1, Drop) /\ all = DropUnits(dropped, poss2, Drop)
      OBVIOUS
    <2> HIDE DEF poss1, poss2
    <2> HIDE DEF dropped
    <2>9. /\ Good(dropped) /\ Loses(c, dropped)
          /\ dropped.m_entries =
                 [pos \in Positions |-> IF pos \in poss1 THEN Drop ELSE c.m_entries[pos]]
          /\ dropped.m_iFirstReadableOutOfOrder \in {c.m_iFirstReadableOutOfOrder, -1}
          /\ dropped.m_iStartPos = c.m_iStartPos
          /\ dropped.m_iFirstNonreadPos = c.m_iFirstNonreadPos /\ dropped.tsbpd = c.tsbpd
          /\ dropped.m_iStartSeqNo = c.m_iStartSeqNo
      <3>1. Drop \in {Empty, Drop, Read} /\ dropped = DropUnits(c, poss1, Drop)
        BY <2>8
      <3>2. Good(dropped) /\ Drops(c, poss1, Drop, dropped)
        BY <1>1, <2>7, <3>1, DropUnitsGood
      <3>3. Loses(c, dropped)
        BY <3>2, EmptyEntries DEF Loses, HasUnit, Drops
      <3> QED
        BY <3>2, <3>3 DEF Drops
    <2> HIDE DEF all
    <2>10. /\ Good(all) /\ Loses(dropped, all)
          /\ all.m_entries =
                 [pos \in Positions |-> IF pos \in poss2 THEN Drop ELSE dropped.m_entries[pos]]
          /\ all.m_iFirstReadableOutOfOrder \in {dropped.m_iFirstReadableOutOfOrder, -1}
          /\ all.m_iStartPos = dropped.m_iStartPos
          /\ all.m_iFirstNonreadPos = dropped.m_iFirstNonreadPos /\ all.tsbpd = dropped.tsbpd
          /\ all.m_iStartSeqNo = dropped.m_iStartSeqNo
      <3>1. Drop \in {Empty, Drop, Read} /\ all = DropUnits(dropped, poss2, Drop)
        BY <2>8
      <3>2. Good(all) /\ Drops(dropped, poss2, Drop, all)
        BY <2>7, <2>9, <3>1, DropUnitsGood
      <3>3. Loses(dropped, all)
        BY <3>2, EmptyEntries DEF Loses, HasUnit, Drops
      <3> QED
        BY <3>2, <3>3 DEF Drops
    <2>11. released = releaseNextFillerEntries(all)
      OBVIOUS
    <2> HIDE DEF released
    <2>12. /\ Good(released) /\ HeadFresh(released) /\ Loses(all, released)
           /\ released.m_iFirstReadableOutOfOrder = all.m_iFirstReadableOutOfOrder
           /\ released.tsbpd = all.tsbpd
      <3>1. PICK n \in 0..m_szSize : Moves(all, n, released)
        BY <2>10, <2>11, Release
      <3>2. Loses(all, released)
        BY <3>1, Losing
      <3> QED
        BY <2>10, <2>11, <3>1, <3>2, Release DEF Moves
    <2>13. ASSUME InStream(c, seqnohi)
           PROVE  Remembers(c, released)
      <3>1. ShortStream /\ Placed(c) => \A off \in range : Base(c) + off < Len(MessageOf)
        <4> SUFFICES ASSUME ShortStream, Placed(c), NEW off \in range
                     PROVE  Base(c) + off < Len(MessageOf)
          OBVIOUS
        <4>1. PICK i \in DOMAIN MessageOf : seqnohi = Packet(i).seqno
          BY <2>13, PacketFacts DEF InStream
        <4>2. Base(c) + offset_b = i - 1
          <5>1. offset_b \in 0..(capacity - 1)
            <6>1. offset_b < capacity /\ capacity \in Nat
              BY <2>13, Sizes DEF InStream
            <6> HIDE DEF offset_b
            <6> QED
              BY <1>3, <1>5, <6>1
          <5> QED
            BY <1>1, <4>1, <5>1, BufferFields, OffsetInStream
        <4>3. off \in Nat /\ off <= offset_b /\ Base(c) \in Nat /\ i <= Len(MessageOf)
              /\ Len(MessageOf) \in Nat /\ i \in Nat
          BY <1>1, <2>3, <2>4, StreamAssumption DEF Placed
        <4> HIDE DEF offset_b
        <4> QED
          BY <1>3, <4>2, <4>3
      <3>2. Remembers(c, dropped)
        <4>1. range \in SUBSET (0..(m_szSize - 1))
          BY <2>3
        <4>2. \A off \in range :
                  \/ EntryAt(c, off).status # "Empty"
                  \/ ShortStream /\ Placed(c) => Base(c) + off < Len(MessageOf)
          BY <3>1
        <4>3. Drop \in {Drop, Read} /\ poss1 = {At(c, off) : off \in range}
          BY DEF poss1
        <4>4. dropped.m_entries = [pos \in Positions |->
                                       IF pos \in {At(c, off) : off \in range} THEN Drop
                                       ELSE c.m_entries[pos]]
          BY <2>9, <4>3
        <4>5. /\ dropped.m_iStartPos = c.m_iStartPos
              /\ dropped.m_iStartSeqNo = c.m_iStartSeqNo /\ c \in BufferType
          BY <1>1, <2>9
        <4> QED
          BY <4>1, <4>2, <4>3, <4>4, <4>5, FillRemembers
      <3>3. Remembers(dropped, all)
        <4>1. earlier \in SUBSET (0..(m_szSize - 1)) /\ dropped \in BufferType
          BY <2>6, <2>9 DEF Good
        <4>2. \A off : At(dropped, off) = At(c, off)
          BY <2>9 DEF At
        <4>3. \A off \in earlier :
                  \/ EntryAt(dropped, off).status # "Empty"
                  \/ ShortStream /\ Placed(dropped) => Base(dropped) + off < Len(MessageOf)
          <5> TAKE off \in earlier
          <5>1. HasUnit(dropped, At(dropped, off)) /\ At(dropped, off) \in Positions
            BY <1>1, <2>6, <2>5, <4>2, Offsets
          <5> QED
            BY <4>1, <5>1, UnitFacts DEF EntryAt
        <4>4. {At(dropped, off) : off \in earlier} = poss2
          BY <4>2 DEF poss2
        <4>5. all.m_entries = [pos \in Positions |->
                                   IF pos \in {At(dropped, off) : off \in earlier} THEN Drop
                                   ELSE dropped.m_entries[pos]]
          BY <2>10, <4>4
        <4>6. /\ all.m_iStartPos = dropped.m_iStartPos
              /\ all.m_iStartSeqNo = dropped.m_iStartSeqNo /\ Drop \in {Drop, Read}
          BY <2>10
        <4> QED
          BY <4>1, <4>3, <4>5, <4>6, FillRemembers
      <3>4. Remembers(all, released)
        BY <2>10, <2>11, ReleaseRemembers
      <3> QED
        BY <3>2, <3>3, <3>4, RemembersOn
    <2>14. /\ Good(reset) /\ InOrder(reset) /\ HeadFresh(reset) /\ reset.tsbpd = released.tsbpd
           /\ reset.m_entries = released.m_entries
           /\ reset.m_iFirstReadableOutOfOrder = released.m_iFirstReadableOutOfOrder
           /\ Remembers(released, reset) /\ HeadFound(reset)
      BY <2>12, Renewed
    <2> HIDE DEF reset
    <2>15. ASSUME ~before
           PROVE  /\ InOrder(released)
                  /\ released.m_iStartPos = c.m_iStartPos
                  /\ released.m_iFirstNonreadPos = c.m_iFirstNonreadPos
      <3> DEFINE T == range \cup earlier
                 nr == NonreadOff(c)
      <3>1. T \in SUBSET Nat /\ nr \in 0..(m_szSize - 1)
        BY <1>1, <2>3, <2>6, BufferFields, Offsets DEF NonreadOff
      <3>2. \A k \in 0..nr : k \notin T
        <4> SUFFICES ASSUME NEW k \in 0..nr, k \in T PROVE FALSE
          OBVIOUS
        <4>1. ~(Min(T) <= nr)
          BY <2>15 DEF NonreadOff
        <4> HIDE DEF T, nr
        <4>2. Min(T) \in T /\ Min(T) <= k
          BY <3>1, LeastNat
        <4>3. Min(T) \in Nat
          BY <3>1, <4>2
        <4>4. nr \in Nat /\ k \in Nat /\ k <= nr
          BY <1>1, <3>1
        <4> QED
          BY <4>1, <4>2, <4>3, <4>4
      <3>3. \A k \in 0..nr : EntryAt(all, k) = EntryAt(c, k)
        <4> SUFFICES ASSUME NEW k \in 0..nr PROVE EntryAt(all, k) = EntryAt(c, k)
          OBVIOUS
        <4>1. k \in 0..(m_szSize - 1) /\ At(c, k) \in Positions
          <5> HIDE DEF nr
          <5> QED
            BY <1>1, <3>1, Offsets
        <4>2. offPos(c.m_iStartPos, At(c, k)) = k
          BY <1>1, <4>1, Offsets
        <4>3. At(c, k) \notin poss1 /\ At(c, k) \notin poss2
          BY <1>1, <2>3, <2>6, <3>2, <4>2, Offsets DEF poss1, poss2
        <4>4. At(all, k) = At(c, k)
          BY <2>9, <2>10 DEF At
        <4> QED
          BY <2>9, <2>10, <4>1, <4>3, <4>4 DEF EntryAt
      <3> QED
        BY <2>9, <2>10, <2>11, <3>3, DroppedBehind
    <2> HIDE DEF before
    <2>16. /\ Good(renewed) /\ InOrder(renewed) /\ HeadFresh(renewed) /\ renewed.tsbpd = c.tsbpd
           /\ Loses(c, renewed)
           /\ renewed.m_iFirstReadableOutOfOrder \in {c.m_iFirstReadableOutOfOrder, -1}
           /\ InStream(c, seqnohi) => Remembers(c, renewed)
           /\ Finds(c, renewed)
      <3>1. Loses(c, released)
        BY <2>9, <2>10, <2>12, Losing
      <3>2. Loses(c, reset)
        BY <2>14, <3>1 DEF Loses, HasUnit
      <3>3. CASE before
        BY <2>9, <2>10, <2>12, <2>14, <2>13, <3>2, <3>3, RemembersOn DEF Finds
      <3>4. CASE ~before
        <4>1. Finds(c, released)
          BY <1>1, <2>12, <2>15, <3>1, <3>4, LosesNoHead
        <4> QED
          BY <2>9, <2>10, <2>12, <2>15, <2>13, <3>1, <3>4, <4>1
      <3> QED
        BY <3>3, <3>4
    <2> HIDE DEF renewed
    <2>17. CASE c.tsbpd
      <3>1. c.m_iFirstReadableOutOfOrder = -1
        BY <2>17 DEF BufferInv, OutOfOrder
      <3>2. BufferInv(renewed)
        BY <2>16, <3>1 DEF BufferInv, OutOfOrder
      <3>3. ~(offset_b < 0)
        BY <1>3, <1>5
      <3> HIDE DEF checked, offset_b
      <3> QED
        BY <1>2, <1>3, <1>5, <2>16, <2>17, <3>2, <3>3
    <2>18. CASE ~c.tsbpd
      <3>1. /\ BufferInv(checked) /\ checked.tsbpd = c.tsbpd
            /\ checked.m_entries = renewed.m_entries
            /\ checked.m_iStartPos = renewed.m_iStartPos
            /\ checked.m_iFirstNonreadPos = renewed.m_iFirstNonreadPos
        BY <2>16, <2>18, Checked
      <3>3. Remembers(renewed, checked)
        <4>1. SameEntries(renewed, [renewed EXCEPT !.m_iFirstReadableOutOfOrder = -1])
          BY <2>16, SearchesRemember DEF Good
        <4>2. SameEntries(renewed, renewed)
          BY DEF SameEntries
        <4>3. checked \in {renewed, [renewed EXCEPT !.m_iFirstReadableOutOfOrder = -1]}
          OBVIOUS
        <4> HIDE DEF checked
        <4> QED
          BY <4>1, <4>2, <4>3, SameRemembers
      <3>4. Remembers(renewed, updateFirstReadableOutOfOrder(checked))
        <4> HIDE DEF checked
        <4>1. SameEntries(checked, updateFirstReadableOutOfOrder(checked))
          BY <3>1, SearchesRemember DEF BufferInv, Good
        <4> QED
          BY <3>3, <4>1, SameRemembers, RemembersOn
      <3> HIDE DEF checked
      <3>2. /\ BufferInv(updateFirstReadableOutOfOrder(checked))
            /\ updateFirstReadableOutOfOrder(checked).tsbpd = c.tsbpd
            /\ updateFirstReadableOutOfOrder(checked).m_entries = renewed.m_entries
            /\ updateFirstReadableOutOfOrder(checked).m_iStartPos = renewed.m_iStartPos
            /\ updateFirstReadableOutOfOrder(checked).m_iFirstNonreadPos
                   = renewed.m_iFirstNonreadPos
        BY <2>18, <3>1, UpdateUnordered
      <3>5. /\ Loses(c, updateFirstReadableOutOfOrder(checked))
            /\ Finds(renewed, updateFirstReadableOutOfOrder(checked))
        <4>1. /\ Loses(c, updateFirstReadableOutOfOrder(checked))
              /\ Loses(renewed, updateFirstReadableOutOfOrder(checked))
          BY <2>16, <3>2 DEF Loses, HasUnit
        <4> QED
          BY <2>16, <3>2, <4>1, LosesNoHead DEF BufferInv
      <3>6. Finds(c, updateFirstReadableOutOfOrder(checked))
        BY <2>16, <3>5 DEF Finds
      <3> QED
        BY <1>2, <1>3, <1>5, <2>16, <2>18, <3>2, <3>4, <3>5, <3>6, RemembersOn
    <2> QED
      BY <2>17, <2>18
  <1> QED
    BY <1>3, <1>4, <1>5

-----------------------------------------------------------------------------
(* The stream *)

\* Side by side in the buffer, side by side in the stream.
LEMMA Adjacent ==
    ASSUME NEW c, Good(c), NEW k \in 0..(m_szSize - 2), UnitAt(c, k), UnitAt(c, k + 1),
           NEW i \in DOMAIN MessageOf, PacketAt(c, k) = Packet(i)
    PROVE  i + 1 \in DOMAIN MessageOf /\ PacketAt(c, k + 1) = Packet(i + 1)
  <1>1. /\ c \in BufferType /\ c.m_iStartSeqNo \in SeqNo /\ m_szSize \in Nat
        /\ k \in 0..m_szSize /\ k + 1 \in 0..m_szSize
        /\ k \in 0..(m_szSize - 1) /\ k + 1 \in 0..(m_szSize - 1)
        /\ k \in 0..m_iMaxSeqNo /\ k + 1 <= m_iMaxSeqNo
    BY Sizes, BufferFields DEF Good
  <1>2. PacketAt(c, k + 1) \in Stream
    BY <1>1, FlagOfMessage
  <1>3. PICK j \in DOMAIN MessageOf : PacketAt(c, k + 1) = Packet(j)
    BY <1>2 DEF Stream
  <1>4. /\ ISN \in SeqNo /\ Len(MessageOf) \in Nat /\ Len(MessageOf) <= m_iMaxSeqNo
        /\ DOMAIN MessageOf = 1..Len(MessageOf)
    BY StreamAssumption
  <1>5. incseqBy(ISN, i - 1) = incseqBy(c.m_iStartSeqNo, k)
    BY <1>1 DEF Good, Window, Packet
  <1>6. incseqBy(ISN, j - 1) = incseqBy(c.m_iStartSeqNo, k + 1)
    BY <1>1, <1>3 DEF Good, Window, Packet
  <1>7. incseqBy(c.m_iStartSeqNo, k + 1) = incseqBy(incseqBy(c.m_iStartSeqNo, k), 1)
    BY <1>1, StepsAdd
  <1>8. incseqBy(incseqBy(ISN, i - 1), 1) = incseqBy(ISN, i)
    <2>1. i - 1 \in Nat /\ i - 1 + 1 = i /\ i - 1 + 1 <= m_iMaxSeqNo
      BY <1>4, Sizes
    <2> QED
      BY <1>4, <2>1, StepsAdd
  <1>9. j - 1 = i
    <2>1. j - 1 \in 0..m_iMaxSeqNo /\ i \in 0..m_iMaxSeqNo
      BY <1>4, Sizes
    <2> QED
      BY <1>4, <1>5, <1>6, <1>7, <1>8, <2>1, StepsDiffer
  <1>10. j = i + 1
    BY <1>4, <1>9
  <1> QED
    BY <1>3, <1>10

\* So a message begins exactly behind the end of another.
LEMMA Boundary ==
    ASSUME NEW c, Good(c), NEW k \in 0..(m_szSize - 2), UnitAt(c, k), UnitAt(c, k + 1)
    PROVE  PacketAt(c, k).last = PacketAt(c, k + 1).first
  <1>1. c \in BufferType /\ k \in 0..m_szSize
    BY Sizes DEF Good
  <1>2. PICK i \in DOMAIN MessageOf : PacketAt(c, k) = Packet(i)
    BY <1>1, FlagOfMessage, PacketFacts
  <1>3. i + 1 \in DOMAIN MessageOf /\ PacketAt(c, k + 1) = Packet(i + 1)
    BY <1>2, Adjacent
  <1>4. i \in 1..Len(MessageOf) /\ i + 1 \in 1..Len(MessageOf) /\ Len(MessageOf) \in Nat
    BY <1>3, StreamAssumption
  <1>5. i # Len(MessageOf) /\ i + 1 # 1 /\ i + 1 - 1 = i
    BY <1>4
  <1>6. PacketAt(c, k).last = (MessageOf[i + 1] # MessageOf[i])
    BY <1>2, <1>5 DEF Packet
  <1>7. PacketAt(c, k + 1).first = (MessageOf[i] # MessageOf[i + 1])
    <2> DEFINE j == i + 1
    <2>1. j # 1 /\ j - 1 = i
      BY <1>4
    <2>2. PacketAt(c, k + 1) = Packet(j)
      BY <1>3
    <2>3. Packet(j).first = (j = 1 \/ MessageOf[j - 1] # MessageOf[j])
      BY DEF Packet
    <2> HIDE DEF j
    <2>4. Packet(j).first = (MessageOf[i] # MessageOf[j])
      BY <2>1, <2>3
    <2> QED
      BY <2>2, <2>4 DEF j
  <1> QED
    BY <1>6, <1>7

PacketsAt(c, offs) == {PacketAt(c, k) : k \in offs}

\* Packets side by side from the first of a message to the next last are the
\* packets of that message.
LEMMA WholeMessage ==
    ASSUME NEW c, Good(c), NEW f \in 0..(m_szSize - 1), NEW l \in f..(m_szSize - 1),
           \A k \in f..l : UnitAt(c, k),
           PacketAt(c, f).first, PacketAt(c, l).last,
           \A k \in f..(l - 1) : ~PacketAt(c, k).last
    PROVE  \E m \in Msgs : PacketsAt(c, f..l) = MsgPackets(m)
  <1>1. c \in BufferType /\ f \in 0..m_szSize /\ f \in f..l /\ l \in f..l /\ m_szSize \in Nat
    BY Sizes DEF Good
  <1>2. PICK i \in DOMAIN MessageOf : PacketAt(c, f) = Packet(i)
    BY <1>1, FlagOfMessage, PacketFacts
  <1> DEFINE m == MessageOf[i]
             Astray == {k \in f..l : ~ /\ i + (k - f) \in DOMAIN MessageOf
                                       /\ PacketAt(c, k) = Packet(i + (k - f))
                                       /\ MessageOf[i + (k - f)] = m}
  <1>3. /\ DOMAIN MessageOf = 1..Len(MessageOf) /\ Len(MessageOf) \in Nat
        /\ i \in 1..Len(MessageOf)
        /\ \A x \in DOMAIN MessageOf : MessageOf[x] \in Nat
        /\ \A x, y \in DOMAIN MessageOf : x < y => MessageOf[x] <= MessageOf[y]
    BY StreamAssumption
  <1>4. Astray = {}
    <2> SUFFICES ASSUME Astray # {} PROVE FALSE
      OBVIOUS
    <2> DEFINE k == Min(Astray)
    <2>1. k \in Astray /\ \A y \in Astray : k <= y
      <3>1. Astray \in SUBSET Nat
        BY <1>1
      <3> HIDE DEF Astray
      <3> QED
        BY <3>1, LeastNat
    <2> HIDE DEF k
    <2>2. k \in f..l
      BY <2>1
    <2>3. k # f
      <3>1. i + (f - f) = i
        BY <1>1, <1>3
      <3> QED
        BY <1>2, <2>1, <3>1
    <2> DEFINE j == k - 1
               x == i + (j - f)
    <2>4. /\ j \in f..l /\ j \in f..(l - 1) /\ j \in 0..(m_szSize - 2) /\ j + 1 = k
          /\ i + (k - f) = x + 1 /\ j < k /\ j \in Int
      BY <1>1, <1>3, <2>2, <2>3
    <2>5. j \notin Astray
      <3> HIDE DEF Astray
      <3> QED
        BY <1>1, <2>1, <2>2, <2>4
    <2>6. x \in DOMAIN MessageOf /\ PacketAt(c, j) = Packet(x) /\ MessageOf[x] = m
      BY <2>4, <2>5
    <2> HIDE DEF j, x
    <2>7. x + 1 \in DOMAIN MessageOf /\ PacketAt(c, k) = Packet(x + 1)
      BY <2>2, <2>4, <2>6, Adjacent
    <2>8. ~Packet(x).last
      BY <2>4, <2>6
    <2>9. MessageOf[x + 1] = MessageOf[x]
      <3>1. ~(x = Len(MessageOf) \/ MessageOf[x + 1] # MessageOf[x])
        BY <2>8 DEF Packet
      <3> QED
        BY <3>1
    <2> QED
      BY <2>1, <2>4, <2>6, <2>7, <2>9
  <1>5. \A k \in f..l : /\ i + (k - f) \in DOMAIN MessageOf
                        /\ PacketAt(c, k) = Packet(i + (k - f))
                        /\ MessageOf[i + (k - f)] = m
    BY <1>4
  <1>6. m \in Msgs
    BY DEF Msgs
  <1> HIDE DEF Astray
  <1>7. {PacketAt(c, k) : k \in f..l} \subseteq MsgPackets(m)
    BY <1>5 DEF MsgPackets
  <1>8. ASSUME NEW x \in DOMAIN MessageOf, MessageOf[x] = m
        PROVE  Packet(x) \in {PacketAt(c, k) : k \in f..l}
    <2> DEFINE e == i + (l - f)
    <2>1. e \in DOMAIN MessageOf /\ PacketAt(c, l) = Packet(e) /\ MessageOf[e] = m
      BY <1>1, <1>5
    <2> HIDE DEF e
    <2>2. x >= i
      <3> SUFFICES ASSUME x < i PROVE FALSE
        BY <1>3
      <3>1. i # 1 /\ i - 1 \in DOMAIN MessageOf
        BY <1>3
      <3>2. MessageOf[i - 1] # MessageOf[i]
        <4>1. Packet(i).first = (i = 1 \/ MessageOf[i - 1] # MessageOf[i])
          BY DEF Packet
        <4> QED
          BY <1>2, <3>1, <4>1
      <3>3. MessageOf[i - 1] <= m
        BY <1>3, <3>1
      <3>4. m <= MessageOf[i - 1]
        BY <1>3, <1>8, <3>1
      <3> QED
        BY <1>3, <3>1, <3>2, <3>3, <3>4
    <2>3. x <= e
      <3> SUFFICES ASSUME x > e PROVE FALSE
        BY <1>3, <2>1
      <3>1. e # Len(MessageOf) /\ e + 1 \in DOMAIN MessageOf
        BY <1>3, <2>1
      <3>2. MessageOf[e + 1] # MessageOf[e]
        <4>1. Packet(e).last = (e = Len(MessageOf) \/ MessageOf[e + 1] # MessageOf[e])
          BY DEF Packet
        <4> QED
          BY <2>1, <3>1, <4>1
      <3>3. m <= MessageOf[e + 1]
        BY <1>3, <2>1, <3>1
      <3>4. MessageOf[e + 1] <= m
        BY <1>3, <1>8, <2>1, <3>1
      <3> QED
        BY <1>3, <2>1, <3>1, <3>2, <3>3, <3>4
    <2>4. PICK k \in f..l : i + (k - f) = x
      <3> DEFINE w == f + (x - i)
      <3>1. w \in f..l /\ i + (w - f) = x
        BY <1>1, <1>3, <2>1, <2>2, <2>3 DEF e
      <3> HIDE DEF w
      <3> QED
        BY <3>1
    <2> QED
      BY <1>5, <2>4
  <1>9. MsgPackets(m) \subseteq {PacketAt(c, k) : k \in f..l}
    BY <1>8 DEF MsgPackets
  <1> QED
    BY <1>6, <1>7, <1>9 DEF PacketsAt

-----------------------------------------------------------------------------
(* Reading, and dropping what is too late *)

\* An offset after the start has moved.
LEMMA OffAfterMove ==
    ASSUME NEW p \in Positions, NEW q \in Positions, NEW n \in 0..m_szSize
    PROVE  offPos(incPos(p, n), q) =
               IF n <= offPos(p, q) THEN offPos(p, q) - n ELSE offPos(p, q) - n + m_szSize
  <1>1. incPos(p, n) = IF p + n < m_szSize THEN p + n ELSE p + n - m_szSize
    BY IncPosValue
  <1> QED
    BY <1>1, Sizes DEF offPos, Positions

\* The message that can be read out of order stays readable when the start
\* moves over entries without a packet.
LEMMA MovesOutOfOrder ==
    ASSUME NEW c \in BufferType, OutOfOrder(c), NEW n \in 0..m_szSize, NEW d, Moves(c, n, d),
           \A k \in 0..(n - 1) : ~UnitAt(c, k),
           d.m_iFirstReadableOutOfOrder = c.m_iFirstReadableOutOfOrder
    PROVE  OutOfOrder(d)
  <1> SUFFICES ASSUME d.m_iFirstReadableOutOfOrder # -1
               PROVE  /\ ~d.tsbpd
                      /\ \E last \in 0..(m_szSize - 1) :
                             Span(d, offPos(d.m_iStartPos, d.m_iFirstReadableOutOfOrder), last)
    BY DEF OutOfOrder
  <1> DEFINE p == c.m_iFirstReadableOutOfOrder
             f == offPos(c.m_iStartPos, p)
  <1>1. /\ p \in Positions /\ m_szSize \in Nat /\ c.m_iStartPos \in Positions
        /\ c.m_iMaxPosOff \in 0..(m_szSize - 1)
    BY BufferFields, Sizes
  <1>2. f \in 0..(m_szSize - 1)
    BY <1>1, OffPosValue
  <1>3. ~c.tsbpd
    BY DEF OutOfOrder
  <1>4. PICK l \in 0..(m_szSize - 1) : Span(c, f, l)
    BY DEF OutOfOrder
  <1>5. offPos(d.m_iStartPos, p) = IF n <= f THEN f - n ELSE f - n + m_szSize
    BY <1>1, OffAfterMove DEF Moves, At
  <1> HIDE DEF p, f
  <1>6. f \in f..l /\ l \in f..l /\ f <= l /\ l < c.m_iMaxPosOff /\ UnitAt(c, f)
    BY <1>1, <1>2, <1>4 DEF Span
  <1>7. n <= f
    BY <1>1, <1>2, <1>6
  <1>8. \A k \in (f - n)..(l - n) : /\ n + k \in f..l
                                    /\ UnitAt(d, k) = UnitAt(c, n + k)
                                    /\ PacketAt(d, k) = PacketAt(c, n + k)
    <2> SUFFICES ASSUME NEW k \in (f - n)..(l - n)
                 PROVE  /\ n + k \in f..l
                        /\ UnitAt(d, k) = UnitAt(c, n + k)
                        /\ PacketAt(d, k) = PacketAt(c, n + k)
      OBVIOUS
    <2>1. k \in 0..(m_szSize - 1) /\ n + k < m_szSize /\ n + k \in f..l
      BY <1>1, <1>2, <1>6, <1>7
    <2>2. EntryAt(d, k) = EntryAt(c, n + k)
      BY <2>1, MovesOffsets
    <2> QED
      BY <2>1, <2>2 DEF EntryAt, UnitAt, PacketAt, HasUnit, packetAt
  <1>9. Span(d, f - n, l - n)
    <2>1. f - n \in 0..(l - n) /\ l - n < d.m_iMaxPosOff
      BY <1>1, <1>2, <1>6, <1>7 DEF Moves
    <2>2. \A k \in (f - n)..(l - n) : UnitAt(d, k) /\ ~PacketAt(d, k).inorder
      BY <1>4, <1>8 DEF Span
    <2>3. PacketAt(d, f - n).first /\ PacketAt(d, l - n).last
      <3>1. f - n \in (f - n)..(l - n) /\ l - n \in (f - n)..(l - n)
            /\ n + (f - n) = f /\ n + (l - n) = l
        BY <1>1, <1>2, <1>6, <1>7
      <3> QED
        BY <1>4, <1>8, <3>1 DEF Span
    <2> QED
      BY <2>1, <2>2, <2>3 DEF Span
  <1>10. l - n \in 0..(m_szSize - 1)
    BY <1>1, <1>2, <1>6, <1>7
  <1>11. d.m_iFirstReadableOutOfOrder = p
    BY DEF p
  <1> QED
    BY <1>3, <1>5, <1>7, <1>9, <1>10, <1>11 DEF Moves

\* Up to the first packet there, nothing is left when it is given up.
LEMMA DropUpToKeeps ==
    ASSUME NEW c, BufferInv(c), c.tsbpd, NEW off \in 1..(m_szSize - 1), UnitAt(c, off),
           \A k \in 0..(off - 1) : ~UnitAt(c, k),
           NEW seqno, seqno = PacketAt(c, off).seqno
    PROVE  /\ BufferInv(dropUpTo(c, seqno)) /\ dropUpTo(c, seqno).tsbpd
           /\ Remembers(c, dropUpTo(c, seqno)) /\ HeadFound(dropUpTo(c, seqno))
  <1> DEFINE len == seqoff(c.m_iStartSeqNo, seqno)
             poss == {At(c, k) : k \in 0..(len - 1)}
             cleared == DropUnits(c, poss, Empty)
             m == Max({0, cleared.m_iMaxPosOff - len})
             d == [cleared EXCEPT !.m_iMaxPosOff = Max({0, @ - len}),
                                  !.m_iStartPos = At(c, len),
                                  !.m_iStartSeqNo = seqno]
             moved == releaseNextFillerEntries(d)
             reset == updateNonreadPos([moved EXCEPT !.m_iFirstNonreadPos = moved.m_iStartPos])
             renewed == IF isInRange(moved) THEN moved ELSE reset
  <1>1. /\ c \in BufferType /\ Good(c) /\ m_szSize \in Nat /\ c.m_iMaxPosOff \in 0..(m_szSize - 1)
        /\ off \in 0..(m_szSize - 1) /\ off \in 0..m_szSize /\ c.m_iStartPos \in Positions
    BY Sizes, BufferFields DEF BufferInv, Good
  <1>2. seqno = incseqBy(c.m_iStartSeqNo, off) /\ off < c.m_iMaxPosOff
    BY <1>1 DEF Good, Window
  <1>3. len = off
    <2>1. off \in 0..(m_iSeqNoTH - 1)
      BY <1>1, Sizes
    <2> QED
      BY <1>1, <1>2, <2>1, OffsetMeasuresSteps, BufferFields
  <1>4. dropUpTo(c, seqno) = renewed
    <2>1. dropUpTo(c, seqno) = IF len <= 0 THEN c ELSE IF c.tsbpd THEN renewed
                               ELSE updateFirstReadableOutOfOrder(renewed)
      BY DEF dropUpTo
    <2>2. ~(len <= 0)
      BY <1>1, <1>3
    <2> HIDE DEF len, renewed
    <2> QED
      BY <2>1, <2>2
  <1> HIDE DEF len
  <1>5. poss \in SUBSET Positions
    BY <1>1, <1>3, Offsets, Sizes
  <1>6. \A pos \in Positions : pos \in poss <=> offPos(c.m_iStartPos, pos) < off
    <2> SUFFICES ASSUME NEW pos \in Positions
                 PROVE  pos \in poss <=> offPos(c.m_iStartPos, pos) < off
      OBVIOUS
    <2>1. /\ offPos(c.m_iStartPos, pos) \in 0..(m_szSize - 1)
          /\ At(c, offPos(c.m_iStartPos, pos)) = pos
      BY <1>1, Offsets
    <2>2. offPos(c.m_iStartPos, pos) < off => pos \in poss
      BY <1>1, <1>3, <2>1
    <2>3. pos \in poss => offPos(c.m_iStartPos, pos) < off
      BY <1>1, <1>3, Offsets
    <2> QED
      BY <2>2, <2>3
  <1> HIDE DEF poss
  <1> HIDE DEF cleared
  <1>7. /\ Good(cleared)
        /\ cleared.m_entries =
               [pos \in Positions |-> IF pos \in poss THEN Empty ELSE c.m_entries[pos]]
        /\ cleared.m_iFirstReadableOutOfOrder \in {c.m_iFirstReadableOutOfOrder, -1}
        /\ cleared.m_iStartSeqNo = c.m_iStartSeqNo /\ cleared.m_iStartPos = c.m_iStartPos
        /\ cleared.m_iFirstNonreadPos = c.m_iFirstNonreadPos
        /\ cleared.m_iMaxPosOff = c.m_iMaxPosOff /\ cleared.tsbpd = c.tsbpd
    <2>1. Empty \in {Empty, Drop, Read} /\ cleared = DropUnits(c, poss, Empty)
      BY DEF cleared
    <2>2. Good(cleared) /\ Drops(c, poss, Empty, cleared)
      BY <1>1, <1>5, <2>1, DropUnitsGood
    <2> QED
      BY <2>2 DEF Drops
  <1>8. cleared \in BufferType
    BY <1>7 DEF Good
  <1>9. m = c.m_iMaxPosOff - off /\ m \in 0..capacity
    <2>1. cleared.m_iMaxPosOff - len = c.m_iMaxPosOff - off /\ c.m_iMaxPosOff - off \in Nat
      BY <1>1, <1>2, <1>3, <1>7
    <2>2. m = IF 0 >= c.m_iMaxPosOff - off THEN 0 ELSE c.m_iMaxPosOff - off
      BY <2>1, MaxOfTwo
    <2> QED
      BY <1>1, <2>1, <2>2, Sizes
  <1>10. d = [cleared EXCEPT !.m_iMaxPosOff = m, !.m_iStartPos = At(c, off),
                             !.m_iStartSeqNo = seqno]
    BY <1>3
  <1> HIDE DEF d, m
  <1>11. seqno \in SeqNo /\ At(c, off) \in Positions
    <2>1. off \in 0..m_iMaxSeqNo
      BY <1>1, Sizes
    <2> QED
      BY <1>1, <1>2, <2>1, StepsStayInSpace, BufferFields, Offsets
  <1>12. /\ d \in BufferType /\ d.m_entries = cleared.m_entries /\ d.m_iStartSeqNo = seqno
         /\ d.m_iStartPos = At(c, off) /\ d.m_iMaxPosOff = m
         /\ d.m_iFirstNonreadPos = cleared.m_iFirstNonreadPos
         /\ d.m_numOutOfOrderPackets = cleared.m_numOutOfOrderPackets
         /\ d.m_iFirstReadableOutOfOrder = cleared.m_iFirstReadableOutOfOrder
         /\ d.tsbpd = cleared.tsbpd
    BY <1>8, <1>9, <1>10, <1>11 DEF BufferType
  <1>13. Moves(cleared, off, d)
    <2>1. At(cleared, off) = At(c, off)
      BY <1>7 DEF At
    <2>2. cleared.m_entries = [pos \in Positions |->
              IF offPos(cleared.m_iStartPos, pos) < off THEN Empty ELSE cleared.m_entries[pos]]
      BY <1>6, <1>7
    <2>3. d.m_iMaxPosOff = IF cleared.m_iMaxPosOff >= off THEN cleared.m_iMaxPosOff - off ELSE 0
      BY <1>1, <1>2, <1>7, <1>9, <1>12
    <2> QED
      BY <1>2, <1>7, <1>12, <2>1, <2>2, <2>3 DEF Moves
  <1>14. Good(d)
    <2>1. \A k \in 0..(off - 1) : ~UnitAt(cleared, k)
      <3> SUFFICES ASSUME NEW k \in 0..(off - 1) PROVE ~UnitAt(cleared, k)
        OBVIOUS
      <3>1. k \in 0..(m_szSize - 1) /\ k < off
        BY <1>1
      <3>2. At(cleared, k) = At(c, k) /\ At(c, k) \in Positions /\ At(c, k) \in poss
        BY <1>1, <1>6, <1>7, <3>1, Offsets DEF At
      <3> QED
        BY <1>7, <3>2, EmptyEntries DEF UnitAt, HasUnit
    <2> QED
      BY <1>1, <1>7, <1>12, <1>13, <2>1, MovesGood
  <1>15. NonreadOff(c) = 0
    <2>1. NonreadOff(c) \in 0..(m_szSize - 1)
      BY <1>1, Offsets, BufferFields DEF NonreadOff
    <2>2. ~UnitAt(c, 0)
      BY <1>1
    <2>3. NonreadOff(c) > 0 => UnitAt(c, 0)
      BY <1>1, <2>1 DEF BufferInv, InOrder, WholeMessages, UnitAt
    <2> QED
      BY <2>1, <2>2, <2>3
  <1>16. moved = releaseNextFillerEntries(d)
    OBVIOUS
  <1> HIDE DEF moved
  <1>17. PICK n \in 0..m_szSize :
             /\ Moves(d, n, moved)
             /\ \A j \in 0..(n - 1) : EntryAt(d, j).status \in {"Read", "Drop"}
    BY <1>14, <1>16, Release
  <1>18. /\ Good(moved) /\ HeadFresh(moved)
         /\ moved.m_iFirstNonreadPos = d.m_iFirstNonreadPos
         /\ moved.m_iFirstReadableOutOfOrder = d.m_iFirstReadableOutOfOrder
    BY <1>14, <1>16, Release
  <1>19. n = 0
    <2>1. EntryAt(d, 0).status = "Avail"
      <3>1. At(d, 0) = At(c, off)
        BY <1>12, Offsets
      <3>2. At(c, off) \notin poss
        BY <1>1, <1>6, <1>11, Offsets
      <3>3. EntryAt(d, 0) = EntryAt(c, off)
        BY <1>7, <1>11, <1>12, <3>1, <3>2 DEF EntryAt
      <3> QED
        BY <1>1, <1>11, <3>3, UnitFacts DEF EntryAt, UnitAt
    <2> QED
      BY <1>17, <2>1
  <1>20. ~isInRange(moved)
    <2>1. moved.m_iStartPos = At(c, off)
      BY <1>12, <1>17, <1>19, Offsets DEF Moves
    <2>2. moved.m_iMaxPosOff = m
      BY <1>1, <1>2, <1>9, <1>12, <1>17, <1>19 DEF Moves
    <2>3. offPos(moved.m_iStartPos, moved.m_iFirstNonreadPos) = m_szSize - off
      <3>1. moved.m_iFirstNonreadPos = c.m_iFirstNonreadPos
            /\ c.m_iFirstNonreadPos \in Positions
        BY <1>1, <1>7, <1>12, <1>18, BufferFields
      <3> QED
        BY <1>1, <1>15, <2>1, <3>1, OffAfterMove DEF NonreadOff, At
    <2> QED
      BY <1>1, <1>2, <1>9, <2>2, <2>3 DEF isInRange
  <1>21. /\ Good(reset) /\ InOrder(reset) /\ HeadFresh(reset) /\ reset.tsbpd = moved.tsbpd
         /\ reset.m_iFirstReadableOutOfOrder = moved.m_iFirstReadableOutOfOrder
         /\ Remembers(moved, reset) /\ HeadFound(reset)
    BY <1>18, Renewed
  <1> HIDE DEF reset
  <1>22. reset.tsbpd /\ reset.m_iFirstReadableOutOfOrder = -1
    <2>1. c.m_iFirstReadableOutOfOrder = -1
      BY DEF BufferInv, OutOfOrder
    <2>2. moved.tsbpd = d.tsbpd
      BY <1>17 DEF Moves
    <2> QED
      BY <1>7, <1>12, <1>18, <1>21, <2>1, <2>2
  <1>23. Remembers(c, d)
    <2>1. \A k \in 0..(m_szSize - 1) :
              \/ off + k < m_szSize /\ EntryAt(d, k) = EntryAt(c, off + k)
              \/ off + k >= m_szSize /\ EntryAt(d, k).status = "Empty"
      <3> TAKE k \in 0..(m_szSize - 1)
      <3>1. CASE off + k < m_szSize
        <4> DEFINE e == off + k
        <4>1. e \in 0..(m_szSize - 1) /\ e >= off
          BY <1>1, <3>1
        <4>2. EntryAt(d, k) = EntryAt(cleared, e)
          BY <1>1, <1>8, <1>13, <3>1, MovesOffsets
        <4> HIDE DEF e
        <4>3. /\ At(c, e) \in Positions /\ At(c, e) \notin poss
              /\ At(cleared, e) = At(c, e)
          BY <1>1, <1>6, <1>7, <4>1, Offsets DEF At
        <4>4. EntryAt(d, k) = EntryAt(c, e)
          BY <1>7, <4>2, <4>3 DEF EntryAt
        <4> QED
          BY <3>1, <4>4 DEF e
      <3>2. CASE off + k >= m_szSize
        BY <1>1, <1>8, <1>13, <3>2, MovesOffsets, EmptyEntries
      <3> QED
        BY <1>1, <3>1, <3>2
    <2>2. Placed(c) => Base(c) + off <= Len(MessageOf)
      <3>1. EntryAt(c, off).status = "Avail"
        BY <1>1, <1>11, UnitFacts DEF EntryAt, UnitAt
      <3>2. Placed(c) => Base(c) + off < Len(MessageOf)
        BY <1>1, <3>1 DEF Placed
      <3> QED
        BY <1>1, <3>2, StreamAssumption DEF Placed
    <2>3. \A k \in 0..(m_szSize - 1) :
              \/ EntryAt(d, k).status = "Empty"
              \/ off + k < m_szSize /\ EntryAt(c, off + k).status # "Empty"
      BY <2>1
    <2>4. \A k \in 0..(m_szSize - 1) : off + k < m_szSize /\ Filler(c, off + k) => Filler(d, k)
      BY <1>1, <2>1 DEF Filler
    <2>5. d.m_iStartSeqNo = incseqBy(c.m_iStartSeqNo, off)
      BY <1>2, <1>12
    <2> QED
      BY <1>1, <2>2, <2>3, <2>4, <2>5, Remembering
  <1>24. Remembers(c, reset)
    BY <1>14, <1>16, <1>21, <1>23, ReleaseRemembers, RemembersOn
  <1> QED
    BY <1>4, <1>20, <1>21, <1>22, <1>24 DEF BufferInv, OutOfOrder

\* readMessage copies packets from the first of a message to the next last,
\* and meets no entry without a packet.
LEMMA ReadFacts ==
    ASSUME NEW c, BufferInv(c), CanRead(c)
    PROVE  \E stop \in 0..(c.m_iMaxPosOff - 1) :
              LET first == offPos(c.m_iStartPos, ReadPos(c))
              IN  /\ first \in 0..stop /\ ReadPos(c) \in Positions
                  /\ ReadOffsets(c) = first..stop
                  /\ \A k \in first..stop : UnitAt(c, k)
                  /\ PacketAt(c, first).first /\ PacketAt(c, stop).last
                  /\ \A k \in first..(stop - 1) : ~PacketAt(c, k).last
                  /\ hasReadableInorderPkts(c) => first = 0 /\ stop < NonreadOff(c)
                  /\ ~hasReadableInorderPkts(c) =>
                         ~c.tsbpd /\ \A k \in first..stop : ~PacketAt(c, k).inorder
  <1> DEFINE first == offPos(c.m_iStartPos, ReadPos(c))
             nr == NonreadOff(c)
             stops == {k \in first..(m_szSize - 1) :
                          ~HasUnit(c, At(c, k)) \/ packetAt(c, At(c, k)).last}
             stop == Min(stops)
  <1>1. /\ c \in BufferType /\ m_szSize \in Nat /\ c.m_iMaxPosOff \in 0..(m_szSize - 1)
        /\ c.m_iStartPos \in Positions /\ c.m_iFirstNonreadPos \in Positions
    BY Sizes, BufferFields DEF BufferInv, Good
  <1>2. nr \in 0..(m_szSize - 1) /\ (hasReadableInorderPkts(c) => nr > 0)
    <2>1. nr \in 0..(m_szSize - 1) /\ At(c, nr) = c.m_iFirstNonreadPos
      BY <1>1, Offsets DEF NonreadOff
    <2>2. At(c, 0) = c.m_iStartPos
      BY <1>1, Offsets
    <2> QED
      BY <1>1, <2>1, <2>2 DEF hasReadableInorderPkts
  <1>3. ReadPos(c) \in Positions
    <2>1. c.m_iFirstReadableOutOfOrder \in Positions \cup {-1}
      BY <1>1, BufferFields
    <2>2. ~hasReadableInorderPkts(c) => c.m_iFirstReadableOutOfOrder >= 0
      BY DEF CanRead
    <2> QED
      BY <1>1, <2>1, <2>2 DEF ReadPos, Positions
  <1>4. first \in 0..(m_szSize - 1)
    BY <1>1, <1>3, OffPosValue
  <1>5. \E l \in first..(c.m_iMaxPosOff - 1) :
           /\ \A k \in first..l : UnitAt(c, k)
           /\ PacketAt(c, first).first /\ PacketAt(c, l).last
           /\ hasReadableInorderPkts(c) => first = 0 /\ l = nr - 1
           /\ ~hasReadableInorderPkts(c) =>
                  ~c.tsbpd /\ \A k \in first..l : ~PacketAt(c, k).inorder
    <2>1. CASE hasReadableInorderPkts(c)
      <3>1. first = 0
        BY <1>1, <2>1 DEF ReadPos, offPos, Positions
      <3>2. /\ \A k \in 0..(nr - 1) : UnitAt(c, k)
            /\ PacketAt(c, 0).first /\ PacketAt(c, nr - 1).last
        <4>1. WholeMessages(c, 0, nr) /\ 0 \in 0..(nr - 1) /\ nr > 0
          BY <1>2, <2>1 DEF BufferInv, InOrder
        <4> HIDE DEF nr
        <4> QED
          BY <4>1 DEF WholeMessages, UnitAt, PacketAt
      <3>3. nr - 1 < c.m_iMaxPosOff
        <4>1. nr - 1 \in 0..(m_szSize - 1) /\ nr - 1 \in 0..(nr - 1)
          BY <1>1, <1>2, <2>1
        <4> HIDE DEF nr
        <4> QED
          BY <3>2, <4>1 DEF BufferInv, Good, Window
      <3>4. nr - 1 \in 0..(c.m_iMaxPosOff - 1)
        BY <1>1, <1>2, <2>1, <3>3
      <3> HIDE DEF nr, first
      <3> QED
        BY <2>1, <3>1, <3>2, <3>4
    <2>2. CASE ~hasReadableInorderPkts(c)
      <3>1. /\ c.m_iFirstReadableOutOfOrder # -1
            /\ first = offPos(c.m_iStartPos, c.m_iFirstReadableOutOfOrder)
        BY <1>1, <1>3, <2>2 DEF ReadPos, Positions
      <3> HIDE DEF first
      <3>2. ~c.tsbpd /\ \E l \in 0..(m_szSize - 1) : Span(c, first, l)
        BY <3>1 DEF BufferInv, OutOfOrder
      <3>3. PICK l \in 0..(m_szSize - 1) : Span(c, first, l)
        BY <3>2
      <3>4. l \in first..(c.m_iMaxPosOff - 1)
        BY <1>1, <1>4, <3>3 DEF Span
      <3> QED
        BY <2>2, <3>2, <3>3, <3>4 DEF Span
    <2> QED
      BY <2>1, <2>2
  <1> HIDE DEF first
  <1>6. PICK l \in first..(c.m_iMaxPosOff - 1) :
            /\ \A k \in first..l : UnitAt(c, k)
            /\ PacketAt(c, first).first /\ PacketAt(c, l).last
            /\ hasReadableInorderPkts(c) => first = 0 /\ l = nr - 1
            /\ ~hasReadableInorderPkts(c) =>
                   ~c.tsbpd /\ \A k \in first..l : ~PacketAt(c, k).inorder
    BY <1>5
  <1>7. l \in stops /\ stops \in SUBSET Nat
    BY <1>1, <1>4, <1>6 DEF PacketAt
  <1>8. stop \in stops /\ \A y \in stops : stop <= y
    <2> HIDE DEF stops
    <2> QED
      BY <1>7, LeastNat
  <1> HIDE DEF stop
  <1>9. stop <= l /\ stop \in first..l /\ stop \in first..(m_szSize - 1) /\ stop \in Nat
    BY <1>4, <1>6, <1>7, <1>8
  <1>10. UnitAt(c, stop) /\ PacketAt(c, stop).last
    BY <1>6, <1>8, <1>9 DEF UnitAt, PacketAt
  <1>11. \A k \in first..(stop - 1) : ~PacketAt(c, k).last
    <2> SUFFICES ASSUME NEW k \in first..(stop - 1), PacketAt(c, k).last PROVE FALSE
      OBVIOUS
    <2>1. k \in first..(m_szSize - 1) /\ k < stop
      BY <1>1, <1>4, <1>9
    <2>2. k \in stops
      BY <2>1 DEF PacketAt
    <2> QED
      BY <1>4, <1>8, <1>9, <2>1, <2>2
  <1>12. ReadOffsets(c) = first..stop
    <2>1. ReadOffsets(c) = IF HasUnit(c, At(c, stop)) THEN first..stop ELSE first..(stop - 1)
      BY DEF ReadOffsets, first, stop
    <2> QED
      BY <1>10, <2>1 DEF UnitAt
  <1>13. stop \in 0..(c.m_iMaxPosOff - 1) /\ first \in 0..stop
    BY <1>1, <1>4, <1>6, <1>9
  <1>14. \A k \in first..stop : UnitAt(c, k)
    BY <1>4, <1>6, <1>9
  <1>15. /\ hasReadableInorderPkts(c) => first = 0 /\ stop < NonreadOff(c)
         /\ ~hasReadableInorderPkts(c) =>
                ~c.tsbpd /\ \A k \in first..stop : ~PacketAt(c, k).inorder
    BY <1>2, <1>4, <1>6, <1>9
  <1>16. first = offPos(c.m_iStartPos, ReadPos(c))
    BY DEF first
  <1> HIDE DEF stops, nr
  <1> QED
    BY <1>3, <1>6, <1>10, <1>11, <1>12, <1>13, <1>14, <1>15, <1>16

\* Whatever moved, the position of the first packet that cannot be read is
\* right when it is still in the range.
LEMMA NonreadInRange ==
    ASSUME NEW p \in Positions, NEW q \in Positions, NEW n \in 0..(m_szSize - 1), NEW k \in 0..m_szSize,
           NEW max \in n..(m_szSize - 1), n >= offPos(p, q), n > 0,
           offPos(incPos(incPos(p, n), k), q) <= (IF max - n >= k THEN max - n - k ELSE 0)
    PROVE  offPos(incPos(incPos(p, n), k), q) = 0
  <1>1. incPos(p, n) \in Positions /\ m_szSize \in Nat /\ n \in 0..m_szSize
        /\ offPos(p, q) \in 0..(m_szSize - 1)
    BY IncPosValue, OffPosValue, Sizes
  <1>2. offPos(incPos(p, n), q) = IF n <= offPos(p, q) THEN offPos(p, q) - n
                                  ELSE offPos(p, q) - n + m_szSize
    BY <1>1, OffAfterMove
  <1>3. offPos(incPos(incPos(p, n), k), q) =
            IF k <= offPos(incPos(p, n), q) THEN offPos(incPos(p, n), q) - k
            ELSE offPos(incPos(p, n), q) - k + m_szSize
    BY <1>1, OffAfterMove
  <1> DEFINE x == offPos(p, q)
             y == offPos(incPos(p, n), q)
             z == offPos(incPos(incPos(p, n), k), q)
  <1>4. /\ x \in 0..(m_szSize - 1) /\ n >= x
        /\ y = (IF n <= x THEN x - n ELSE x - n + m_szSize)
        /\ z = (IF k <= y THEN y - k ELSE y - k + m_szSize)
        /\ z <= (IF max - n >= k THEN max - n - k ELSE 0)
    BY <1>1, <1>2, <1>3
  <1> HIDE DEF x, y, z
  <1>5. z = 0
    BY <1>1, <1>4
  <1> QED
    BY <1>5 DEF z

\* Two buffers that differ in what can be read only.
LEMMA SameGood ==
    ASSUME NEW c, Good(c), NEW d \in BufferType,
           d.m_entries = c.m_entries, d.m_iStartSeqNo = c.m_iStartSeqNo,
           d.m_iStartPos = c.m_iStartPos, d.m_iMaxPosOff = c.m_iMaxPosOff,
           d.m_numOutOfOrderPackets = c.m_numOutOfOrderPackets, d.tsbpd = c.tsbpd
    PROVE  Good(d)
  <1>1. \A off : At(d, off) = At(c, off)
    BY DEF At
  <1>2. \A pos : HasUnit(d, pos) = HasUnit(c, pos) /\ packetAt(d, pos) = packetAt(c, pos)
    BY DEF HasUnit, packetAt
  <1>3. \A off : UnitAt(d, off) = UnitAt(c, off) /\ PacketAt(d, off) = PacketAt(c, off)
    BY <1>1, <1>2 DEF UnitAt, PacketAt
  <1>4. UnorderedAt(d, Positions) = UnorderedAt(c, Positions)
    BY <1>2 DEF UnorderedAt
  <1> QED
    BY <1>3, <1>4 DEF Good, Counted, Window

\* The counter that readMessage corrects is that of dropUnitInPos.
LEMMA ReadCount ==
    ASSUME NEW c, Good(c), NEW poss \in SUBSET Positions, \A pos \in poss : HasUnit(c, pos),
           NEW x, Good(x), NEW entry, Drops(c, poss, entry, x)
    PROVE  Max({0, c.m_numOutOfOrderPackets
                       - Cardinality({pos \in poss : ~packetAt(c, pos).inorder})})
               = x.m_numOutOfOrderPackets
  <1> DEFINE U == {pos \in poss : ~packetAt(c, pos).inorder}
             num == c.m_numOutOfOrderPackets
  <1>1. num \in Nat /\ x.m_numOutOfOrderPackets \in Nat
    BY BufferFields DEF Good
  <1>2. x.m_numOutOfOrderPackets = num - Cardinality(UnorderedAt(c, poss))
    BY DEF Drops
  <1>3. CASE ~c.tsbpd
    <2>1. UnorderedAt(c, poss) = U
      BY <1>3 DEF UnorderedAt
    <2> HIDE DEF U, num
    <2>2. num - Cardinality(U) \in Nat
      BY <1>1, <1>2, <2>1
    <2>3. Max({0, num - Cardinality(U)}) = num - Cardinality(U)
      BY <2>2, MaxOfTwo
    <2> QED
      BY <1>2, <2>1, <2>3 DEF U, num
  <1>4. CASE c.tsbpd
    <2>1. UnorderedAt(c, poss) = {} /\ UnorderedAt(c, Positions) = {}
      BY <1>4 DEF UnorderedAt
    <2>2. num = 0 /\ x.m_numOutOfOrderPackets = 0
      <3>1. num = Cardinality(UnorderedAt(c, Positions))
        BY DEF Good, Counted
      <3>2. Cardinality({}) = 0
        BY FS_EmptySet
      <3> HIDE DEF num
      <3> QED
        BY <1>2, <2>1, <3>1, <3>2
    <2>3. Cardinality(U) \in Nat
      <3>1. U \in SUBSET Positions
        OBVIOUS
      <3> HIDE DEF U
      <3> QED
        BY <3>1, Sizes, FS_Subset, FS_CardinalityType
    <2> HIDE DEF U, num
    <2>4. num - Cardinality(U) \in Int /\ 0 >= num - Cardinality(U)
      BY <2>2, <2>3
    <2>5. Max({0, num - Cardinality(U)}) = 0
      BY <2>4, MaxOfTwo
    <2> QED
      BY <2>2, <2>5 DEF U, num
  <1> QED
    BY <1>3, <1>4

LEMMA ReadMessageKeeps ==
    ASSUME NEW c, BufferInv(c), CanRead(c)
    PROVE  /\ BufferInv(readMessage(c)) /\ readMessage(c).tsbpd = c.tsbpd
           /\ Remembers(c, readMessage(c))
           /\ ShortStream /\ Placed(c) =>
                  \A k \in ReadOffsets(c) :
                      /\ Gone(readMessage(c), Base(c) + 1 + k)
                      /\ hasReadableInorderPkts(c) => Base(c) + k < Base(readMessage(c))
  <1> DEFINE first == offPos(c.m_iStartPos, ReadPos(c))
             start == c.m_iStartPos
             offs == ReadOffsets(c)
             poss == {At(c, k) : k \in offs}
             n == Cardinality(offs)
             unordered == {pos \in poss : ~packetAt(c, pos).inorder}
             done == /\ ReadPos(c) = c.m_iFirstReadableOutOfOrder
                     /\ \E pos \in poss : packetAt(c, pos).last
             num == Max({0, c.m_numOutOfOrderPackets - Cardinality(unordered)})
             f == IF done THEN -1 ELSE c.m_iFirstReadableOutOfOrder
             e == [pos \in Positions |->
                      IF pos \notin poss THEN c.m_entries[pos]
                      ELSE IF ReadPos(c) = start THEN Empty ELSE Read]
             counted == [c EXCEPT
                 !.m_numOutOfOrderPackets = Max({0, @ - Cardinality(unordered)}),
                 !.m_iFirstReadableOutOfOrder = IF done THEN -1 ELSE @,
                 !.m_entries = [pos \in Positions |->
                     IF pos \notin poss THEN @[pos]
                     ELSE IF ReadPos(c) = c.m_iStartPos THEN Empty ELSE Read]]
             moved == IF ReadPos(c) = c.m_iStartPos
                      THEN [counted EXCEPT !.m_iStartPos = At(c, n),
                                           !.m_iMaxPosOff = @ - n,
                                           !.m_iStartSeqNo = incseqBy(@, n)]
                      ELSE counted
             released == releaseNextFillerEntries(moved)
             reset == [released EXCEPT !.m_iFirstNonreadPos = released.m_iStartPos]
             ranged == IF isInRange(released) THEN released ELSE reset
  <1>1. /\ c \in BufferType /\ Good(c) /\ m_szSize \in Nat /\ m_szSize >= 2
        /\ c.m_iMaxPosOff \in 0..(m_szSize - 1)
        /\ start \in Positions /\ c.m_iFirstNonreadPos \in Positions
    BY Sizes, BufferFields DEF BufferInv, Good
  <1>2. readMessage(c) = IF c.tsbpd THEN ranged ELSE updateFirstReadableOutOfOrder(ranged)
    BY DEF readMessage
  <1>3. PICK stop \in 0..(c.m_iMaxPosOff - 1) :
            /\ first \in 0..stop /\ ReadPos(c) \in Positions
            /\ offs = first..stop
            /\ \A k \in first..stop : UnitAt(c, k)
            /\ PacketAt(c, first).first /\ PacketAt(c, stop).last
            /\ \A k \in first..(stop - 1) : ~PacketAt(c, k).last
            /\ hasReadableInorderPkts(c) => first = 0 /\ stop < NonreadOff(c)
            /\ ~hasReadableInorderPkts(c) => ~c.tsbpd
    BY ReadFacts
  <1>4. ReadPos(c) = start <=> first = 0
    <2>1. At(c, first) = ReadPos(c) /\ At(c, 0) = start /\ offPos(start, start) = 0
      BY <1>1, <1>3, Offsets DEF offPos, Positions
    <2> QED
      BY <2>1
  <1> HIDE DEF first, offs
  <1>5. n = stop - first + 1 /\ first \in Nat /\ stop \in Nat /\ first <= stop
        /\ stop < m_szSize - 1 /\ n \in 1..(m_szSize - 1)
    <2>1. first \in Int /\ stop \in Int /\ first <= stop /\ first >= 0 /\ stop < m_szSize - 1
      BY <1>1, <1>3
    <2>2. Cardinality(first..stop) = stop - first + 1
      BY <2>1, FS_Interval
    <2> QED
      BY <1>1, <1>3, <2>1, <2>2
  <1> HIDE DEF n
  <1>6. \A pos \in Positions :
            pos \in poss <=> offPos(start, pos) \in first..stop
    <2> SUFFICES ASSUME NEW pos \in Positions
                 PROVE  pos \in poss <=> offPos(start, pos) \in first..stop
      OBVIOUS
    <2>1. /\ offPos(start, pos) \in 0..(m_szSize - 1)
          /\ At(c, offPos(start, pos)) = pos
      BY <1>1, Offsets
    <2>2. offPos(start, pos) \in first..stop => pos \in poss
      BY <1>3, <2>1
    <2>3. \A k \in first..stop : k \in 0..(m_szSize - 1)
      BY <1>1, <1>5
    <2>4. pos \in poss => offPos(start, pos) \in first..stop
      BY <1>1, <1>3, <2>3, Offsets
    <2> QED
      BY <2>2, <2>4
  <1>7. poss \in SUBSET Positions /\ \A pos \in poss : HasUnit(c, pos)
    <2>1. \A k \in first..stop : k \in 0..m_szSize
      BY <1>1, <1>5
    <2> QED
      BY <1>1, <1>3, <2>1, Offsets DEF UnitAt
  <1>8. \E pos \in poss : packetAt(c, pos).last
    <2>1. stop \in first..stop
      BY <1>5
    <2> QED
      BY <1>3, <2>1 DEF PacketAt
  <1>9. done <=> ReadPos(c) = c.m_iFirstReadableOutOfOrder
    BY <1>8
  <1> HIDE DEF poss, done
  \* counted is what dropUnitInPos would leave, except for the message that can be
  \* read out of order.
  <1> DEFINE entry == IF ReadPos(c) = start THEN Empty ELSE Read
             x == DropUnits(c, poss, entry)
  <1>10. Good(x) /\ Drops(c, poss, entry, x)
    <2>1. entry \in {Empty, Drop, Read} /\ x = DropUnits(c, poss, entry)
      OBVIOUS
    <2> HIDE DEF entry, x
    <2> QED
      BY <1>1, <1>7, <2>1, DropUnitsGood
  <1> HIDE DEF x
  <1>11. num = x.m_numOutOfOrderPackets
    <2> HIDE DEF entry
    <2> QED
      BY <1>1, <1>7, <1>10, ReadCount
  <1>12. e = x.m_entries
    BY <1>10 DEF Drops
  <1>13. f \in Positions \cup {-1}
    BY <1>1, BufferFields
  <1>14. counted = [c EXCEPT !.m_numOutOfOrderPackets = num, !.m_iFirstReadableOutOfOrder = f,
                             !.m_entries = e]
    OBVIOUS
  <1>15. num \in Nat /\ e \in [Positions -> Entry] /\ x.m_iStartSeqNo = c.m_iStartSeqNo
         /\ x.m_iStartPos = start /\ x.m_iMaxPosOff = c.m_iMaxPosOff /\ x.tsbpd = c.tsbpd
    <2>1. x \in BufferType
      BY <1>10 DEF Good
    <2> HIDE DEF num, e
    <2> QED
      BY <1>10, <1>11, <1>12, <2>1, BufferFields DEF Drops
  <1> HIDE DEF num, f, unordered, e, counted
  <1>16. /\ counted \in BufferType
         /\ counted.m_numOutOfOrderPackets = num /\ counted.m_iFirstReadableOutOfOrder = f
         /\ counted.m_entries = e
         /\ counted.m_iStartSeqNo = c.m_iStartSeqNo /\ counted.m_iStartPos = start
         /\ counted.m_iFirstNonreadPos = c.m_iFirstNonreadPos
         /\ counted.m_iMaxPosOff = c.m_iMaxPosOff /\ counted.tsbpd = c.tsbpd
    BY <1>1, <1>13, <1>14, <1>15 DEF BufferType
  <1>17. Good(counted)
    BY <1>10, <1>11, <1>12, <1>15, <1>16, SameGood
  <1>18. \A k \in 0..(m_szSize - 1) :
            /\ k \in first..stop => EntryAt(counted, k) = entry
            /\ k \notin first..stop => EntryAt(counted, k) = EntryAt(c, k)
    <2> SUFFICES ASSUME NEW k \in 0..(m_szSize - 1)
                 PROVE  /\ k \in first..stop => EntryAt(counted, k) = entry
                        /\ k \notin first..stop => EntryAt(counted, k) = EntryAt(c, k)
      OBVIOUS
    <2>1. At(counted, k) = At(c, k) /\ At(c, k) \in Positions /\ offPos(start, At(c, k)) = k
      BY <1>1, <1>16, Offsets DEF At
    <2>2. e = [pos \in Positions |-> IF pos \in poss THEN entry ELSE c.m_entries[pos]]
      BY <1>10, <1>12 DEF Drops
    <2> HIDE DEF entry
    <2> QED
      BY <1>6, <1>16, <2>1, <2>2 DEF EntryAt
  <1>19. OutOfOrder(counted)
    <2> SUFFICES ASSUME f # -1
                 PROVE  /\ ~counted.tsbpd
                        /\ \E l \in 0..(m_szSize - 1) :
                               Span(counted, offPos(counted.m_iStartPos, f), l)
      BY <1>16 DEF OutOfOrder
    <2> DEFINE g == offPos(start, f)
    <2>1. f = c.m_iFirstReadableOutOfOrder /\ f \in Positions /\ ReadPos(c) # f
      BY <1>9, <1>13 DEF f
    <2>2. ReadPos(c) = start /\ first = 0
      BY <1>4, <2>1 DEF ReadPos
    <2>3. ~c.tsbpd /\ \E l \in 0..(m_szSize - 1) : Span(c, g, l)
      BY <2>1 DEF BufferInv, OutOfOrder
    <2>4. PICK l \in 0..(m_szSize - 1) : Span(c, g, l)
      BY <2>3
    <2>5. g \in 0..(m_szSize - 1) /\ g # 0
      <3>1. g \in 0..(m_szSize - 1) /\ At(c, g) = f /\ At(c, 0) = start
        BY <1>1, <2>1, Offsets
      <3> QED
        BY <2>1, <2>2, <3>1
    <2> HIDE DEF g
    <2>6. g > stop
      <3> SUFFICES ASSUME g <= stop PROVE FALSE
        BY <1>5, <2>5
      <3> DEFINE j == g - 1
      <3>1. /\ j \in 0..(m_szSize - 2) /\ j \in first..(stop - 1) /\ j \in first..stop
            /\ g \in first..stop /\ j + 1 = g
        BY <1>1, <1>5, <2>2, <2>5
      <3> HIDE DEF j
      <3>2. UnitAt(c, j) /\ UnitAt(c, j + 1) /\ ~PacketAt(c, j).last
        BY <1>3, <3>1
      <3>3. PacketAt(c, j + 1).first
        BY <2>4, <3>1 DEF Span
      <3> QED
        BY <1>1, <3>1, <3>2, <3>3, Boundary
    <2>7. \A k \in g..l : UnitAt(counted, k) = UnitAt(c, k) /\ PacketAt(counted, k) = PacketAt(c, k)
      <3> SUFFICES ASSUME NEW k \in g..l
                   PROVE  UnitAt(counted, k) = UnitAt(c, k) /\ PacketAt(counted, k) = PacketAt(c, k)
        OBVIOUS
      <3>1. k \in 0..(m_szSize - 1) /\ k \notin first..stop
        BY <1>1, <1>5, <2>5, <2>6
      <3>2. EntryAt(counted, k) = EntryAt(c, k)
        BY <1>18, <3>1
      <3> QED
        BY <3>2 DEF EntryAt, UnitAt, PacketAt, HasUnit, packetAt
    <2>8. Span(counted, g, l)
      <3>1. g \in g..l /\ l \in g..l
        BY <2>4, <2>5 DEF Span
      <3> QED
        BY <1>16, <2>4, <2>7, <3>1 DEF Span
    <2> QED
      BY <1>16, <2>3, <2>8 DEF g
  <1> DEFINE nm == IF first = 0 THEN n ELSE 0
  <1>20. nm \in 0..(m_szSize - 1) /\ nm \in 0..m_szSize /\ nm <= c.m_iMaxPosOff
         /\ (first = 0 => nm = stop + 1)
    BY <1>1, <1>3, <1>5
  <1>21. /\ moved \in BufferType /\ Moves(counted, nm, moved)
         /\ moved.m_iFirstNonreadPos = c.m_iFirstNonreadPos
         /\ moved.m_iFirstReadableOutOfOrder = f
    <2>1. e = [pos \in Positions |->
                  IF offPos(start, pos) < nm THEN Empty ELSE counted.m_entries[pos]]
      <3> SUFFICES ASSUME NEW pos \in Positions, offPos(start, pos) < nm PROVE e[pos] = Empty
        BY <1>15, <1>16
      <3>1. first = 0 /\ offPos(start, pos) \in 0..(m_szSize - 1) /\ offPos(start, pos) \in first..stop
        BY <1>1, <1>5, <1>20, OffPosValue
      <3>2. entry = Empty /\ pos \in poss
        BY <1>4, <1>6, <3>1
      <3> QED
        BY <1>10, <1>12, <3>2 DEF Drops
    <2>2. CASE first = 0
      <3>1. moved = [counted EXCEPT !.m_iStartPos = At(c, nm),
                                    !.m_iMaxPosOff = counted.m_iMaxPosOff - nm,
                                    !.m_iStartSeqNo = incseqBy(counted.m_iStartSeqNo, nm)]
        BY <1>4, <2>2
      <3>2. /\ At(c, nm) \in Positions /\ counted.m_iMaxPosOff - nm \in 0..capacity
            /\ incseqBy(counted.m_iStartSeqNo, nm) \in SeqNo /\ At(c, nm) = At(counted, nm)
            /\ counted.m_iMaxPosOff >= nm
        <4>1. nm \in 0..m_iMaxSeqNo /\ c.m_iStartSeqNo \in SeqNo
          BY <1>1, <1>20, Sizes, BufferFields
        <4>2. incseqBy(counted.m_iStartSeqNo, nm) \in SeqNo
          BY <1>16, <4>1, StepsStayInSpace
        <4>3. At(c, nm) \in Positions /\ At(c, nm) = At(counted, nm)
          BY <1>1, <1>16, <1>20, Offsets DEF At
        <4> HIDE DEF nm
        <4> QED
          BY <1>1, <1>16, <1>20, <4>2, <4>3, Sizes
      <3> HIDE DEF nm, moved
      <3>3. /\ moved \in BufferType /\ moved.m_iStartPos = At(counted, nm)
            /\ moved.m_iMaxPosOff = counted.m_iMaxPosOff - nm
            /\ moved.m_iStartSeqNo = incseqBy(counted.m_iStartSeqNo, nm)
            /\ moved.m_entries = counted.m_entries /\ moved.tsbpd = counted.tsbpd
            /\ moved.m_numOutOfOrderPackets = counted.m_numOutOfOrderPackets
            /\ moved.m_iFirstNonreadPos = counted.m_iFirstNonreadPos
            /\ moved.m_iFirstReadableOutOfOrder = counted.m_iFirstReadableOutOfOrder
        BY <1>16, <3>1, <3>2 DEF BufferType
      <3>4. Moves(counted, nm, moved)
        BY <1>16, <2>1, <3>2, <3>3 DEF Moves
      <3> QED
        BY <1>16, <3>3, <3>4
    <2>3. CASE first # 0
      <3>1. moved = counted /\ nm = 0
        BY <1>4, <2>3
      <3> HIDE DEF nm, moved
      <3>2. At(counted, 0) = counted.m_iStartPos /\ counted.m_iStartSeqNo \in SeqNo
            /\ counted.m_iMaxPosOff \in 0..(m_szSize - 1)
        BY <1>1, <1>16, Offsets, BufferFields
      <3>3. incseqBy(counted.m_iStartSeqNo, 0) = counted.m_iStartSeqNo
        BY <3>2, SeqNoAssumption DEF incseqBy, SeqNo
      <3>4. counted.m_iMaxPosOff = (IF counted.m_iMaxPosOff >= nm THEN counted.m_iMaxPosOff - nm ELSE 0)
        BY <1>1, <3>1, <3>2
      <3>5. Moves(counted, nm, moved)
        BY <1>16, <2>1, <3>1, <3>2, <3>3, <3>4 DEF Moves
      <3> QED
        BY <1>16, <3>1, <3>5
    <2> QED
      BY <2>2, <2>3
  <1> HIDE DEF moved
  <1>22. \A k \in 0..(nm - 1) : ~UnitAt(counted, k)
    <2> SUFFICES ASSUME NEW k \in 0..(nm - 1) PROVE ~UnitAt(counted, k)
      OBVIOUS
    <2>1. first = 0 /\ k \in 0..(m_szSize - 1) /\ k \in first..stop
      BY <1>1, <1>5, <1>20
    <2>2. EntryAt(counted, k) = Empty
      BY <1>4, <1>18, <2>1
    <2> QED
      BY <2>2, EmptyEntries DEF EntryAt, UnitAt, HasUnit
  <1>23. Placed(c) => \A k \in first..stop : Base(c) + k < Len(MessageOf)
    <2> SUFFICES ASSUME Placed(c), NEW k \in first..stop
                 PROVE  Base(c) + k < Len(MessageOf)
      OBVIOUS
    <2>1. k \in 0..(m_szSize - 1) /\ k \in 0..m_szSize /\ UnitAt(c, k)
      BY <1>1, <1>3, <1>5
    <2>2. EntryAt(c, k).status = "Avail"
      BY <1>1, <2>1, Offsets, UnitFacts DEF EntryAt, UnitAt
    <2> QED
      BY <2>1, <2>2 DEF Placed
  <1>24. /\ Remembers(c, moved)
         /\ ShortStream /\ Placed(c) => Base(moved) = Base(c) + nm
         /\ first # 0 => \A k \in first..stop : Filler(moved, k)
    <2>1. \A k \in 0..(m_szSize - 1) :
              \/ nm + k >= m_szSize /\ EntryAt(moved, k).status = "Empty"
              \/ /\ nm + k < m_szSize /\ nm + k \notin first..stop
                 /\ EntryAt(moved, k) = EntryAt(c, nm + k)
              \/ /\ nm + k < m_szSize /\ nm + k \in first..stop
                 /\ first # 0 /\ EntryAt(moved, k) = Read
      <3> TAKE k \in 0..(m_szSize - 1)
      <3> DEFINE j == nm + k
      <3>1. j \in Nat
        BY <1>1, <1>20
      <3>2. CASE j >= m_szSize
        BY <1>16, <1>20, <1>21, <3>2, MovesOffsets, EmptyEntries
      <3>3. CASE j < m_szSize
        <4>1. EntryAt(moved, k) = EntryAt(counted, j)
          BY <1>16, <1>20, <1>21, <3>3, MovesOffsets
        <4>2. j \in 0..(m_szSize - 1)
          BY <1>1, <3>1, <3>3
        <4>3. first = 0 => j \notin first..stop
          BY <1>1, <1>5, <1>20
        <4> HIDE DEF nm
        <4>4. CASE j \notin first..stop
          <5> HIDE DEF j
          <5>1. EntryAt(moved, k) = EntryAt(c, j)
            BY <1>18, <4>1, <4>2, <4>4
          <5> QED
            BY <3>3, <4>4, <5>1 DEF j
        <4>5. CASE j \in first..stop
          <5> HIDE DEF j
          <5>1. EntryAt(moved, k) = Read /\ first # 0
            BY <1>4, <1>18, <4>1, <4>2, <4>3, <4>5
          <5> QED
            BY <3>3, <4>5, <5>1 DEF j
        <4> QED
          BY <4>4, <4>5
      <3> HIDE DEF nm
      <3> QED
        BY <1>1, <3>1, <3>2, <3>3
    <2>2. first # 0 => \A k \in first..stop : Filler(moved, k)
      <3> SUFFICES ASSUME first # 0, NEW k \in first..stop PROVE Filler(moved, k)
        OBVIOUS
      <3>1. nm + k = k /\ k \in 0..(m_szSize - 1) /\ k < m_szSize
        BY <1>1, <1>5
      <3> HIDE DEF nm
      <3>2. EntryAt(moved, k) = Read
        BY <1>1, <2>1, <3>1
      <3> QED
        BY <3>2, EmptyEntries DEF Filler
    <2>3. moved.m_iStartSeqNo = incseqBy(c.m_iStartSeqNo, nm)
      BY <1>16, <1>21 DEF Moves
    <2>4. Placed(c) => Base(c) + nm <= Len(MessageOf)
      <3>1. Placed(c) => Base(c) \in Nat /\ Len(MessageOf) \in Nat /\ Base(c) <= Len(MessageOf)
        BY StreamAssumption DEF Placed
      <3>2. Placed(c) => Base(c) + stop < Len(MessageOf)
        BY <1>5, <1>23
      <3> QED
        BY <1>5, <1>20, <3>1, <3>2
    <2> HIDE DEF nm
    <2>5. \A k \in 0..(m_szSize - 1) :
              \/ EntryAt(moved, k).status = "Empty"
              \/ nm + k < m_szSize /\ EntryAt(c, nm + k).status # "Empty"
              \/ ShortStream /\ Placed(c) => Base(c) + nm + k < Len(MessageOf)
      <3> TAKE k \in 0..(m_szSize - 1)
      <3>1. ASSUME nm + k \in first..stop PROVE Placed(c) => Base(c) + nm + k < Len(MessageOf)
        <4>1. Placed(c) => Base(c) + (nm + k) < Len(MessageOf)
          BY <1>23, <3>1
        <4>2. Placed(c) => Base(c) \in Nat
          BY StreamAssumption DEF Placed
        <4> QED
          BY <1>1, <1>20, <4>1, <4>2
      <3> QED
        BY <2>1, <3>1
    <2>6. \A k \in 0..(m_szSize - 1) : nm + k < m_szSize /\ Filler(c, nm + k) => Filler(moved, k)
      BY <1>1, <1>20, <2>1, EmptyEntries DEF Filler
    <2> QED
      BY <1>20, <2>2, <2>3, <2>4, <2>5, <2>6, Remembering
  <1>25. ASSUME ShortStream, Placed(c), NEW k \in first..stop
         PROVE  /\ Gone(moved, Base(c) + 1 + k)
                /\ Base(c) + 1 + k \in DOMAIN MessageOf
                /\ hasReadableInorderPkts(c) => Base(c) + k < Base(moved)
    <2>1. /\ Base(c) \in Nat /\ k \in Nat /\ Base(c) + k < Len(MessageOf)
          /\ Len(MessageOf) \in Nat /\ DOMAIN MessageOf = 1..Len(MessageOf)
          /\ Base(moved) = Base(c) + nm /\ k \in 0..(m_szSize - 1)
      BY <1>1, <1>5, <1>23, <1>24, <1>25, StreamAssumption DEF Placed
    <2>2. CASE first = 0
      <3>1. k < nm /\ nm \in Nat
        BY <1>5, <1>20, <2>2
      <3> HIDE DEF nm
      <3>2. Base(c) + 1 + k <= Base(moved) /\ Base(c) + k < Base(moved)
        BY <2>1, <3>1
      <3> QED
        BY <2>1, <3>2 DEF Gone
    <2>3. CASE first # 0
      <3>1. nm = 0 /\ ~hasReadableInorderPkts(c)
        BY <1>3, <2>3
      <3> HIDE DEF nm
      <3>2. Base(c) + 1 + k - 1 - Base(moved) = k
        BY <2>1, <3>1
      <3>3. Filler(moved, k)
        BY <1>24, <2>3
      <3> QED
        BY <1>1, <2>1, <3>1, <3>2, <3>3 DEF Gone
    <2> QED
      BY <2>2, <2>3
  <1> HIDE DEF nm
  <1>26. Good(moved) /\ OutOfOrder(moved)
    <2>1. Good(moved)
      BY <1>17, <1>20, <1>21, <1>22, MovesGood
    <2>2. moved.m_iFirstReadableOutOfOrder = counted.m_iFirstReadableOutOfOrder
      BY <1>16, <1>21
    <2> QED
      BY <1>16, <1>19, <1>20, <1>21, <1>22, <2>1, <2>2, MovesOutOfOrder
  <1>27. released = releaseNextFillerEntries(moved)
    OBVIOUS
  <1> HIDE DEF released
  <1>28. PICK n2 \in 0..m_szSize :
             /\ Moves(moved, n2, released)
             /\ \A j \in 0..(n2 - 1) : EntryAt(moved, j).status \in {"Read", "Drop"}
    BY <1>26, <1>27, Release
  <1>29. /\ Good(released) /\ HeadFresh(released) /\ OutOfOrder(released)
         /\ released.tsbpd = c.tsbpd
         /\ released.m_iFirstNonreadPos = c.m_iFirstNonreadPos
    <2>1. /\ Good(released) /\ HeadFresh(released)
          /\ released.m_iFirstNonreadPos = moved.m_iFirstNonreadPos
          /\ released.m_iFirstReadableOutOfOrder = moved.m_iFirstReadableOutOfOrder
      BY <1>26, <1>27, Release
    <2>2. \A k \in 0..(n2 - 1) : ~UnitAt(moved, k)
      <3> SUFFICES ASSUME NEW k \in 0..(n2 - 1) PROVE ~UnitAt(moved, k)
        OBVIOUS
      <3>1. EntryAt(moved, k).status \in {"Read", "Drop"} /\ k \in 0..m_szSize
        BY <1>1, <1>28
      <3>2. At(moved, k) \in Positions
        BY <1>21, <3>1, Offsets
      <3> QED
        BY <1>21, <3>1, <3>2, UnitFacts DEF UnitAt, EntryAt
    <2>3. OutOfOrder(released)
      BY <1>21, <1>26, <1>28, <2>1, <2>2, MovesOutOfOrder
    <2> QED
      BY <1>16, <1>21, <1>28, <2>1, <2>3 DEF Moves
  <1>30. \A d : NonreadOff(d) = 0 => InOrder(d)
    <2>1. \A k \in 0..(0 - 1) : FALSE
      OBVIOUS
    <2> QED
      BY <2>1 DEF InOrder, WholeMessages
  <1>31. /\ released.m_iStartPos = incPos(incPos(start, nm), n2)
         /\ released.m_iMaxPosOff = (IF c.m_iMaxPosOff - nm >= n2 THEN c.m_iMaxPosOff - nm - n2
                                     ELSE 0)
         /\ moved.m_iStartPos = incPos(start, nm)
    <2>1. moved.m_iStartPos = incPos(start, nm) /\ moved.m_iMaxPosOff = c.m_iMaxPosOff - nm
      BY <1>1, <1>16, <1>20, <1>21 DEF Moves, At
    <2> QED
      BY <1>28, <2>1 DEF Moves, At
  <1>32. ASSUME isInRange(released) PROVE InOrder(released)
    <2> DEFINE nr == NonreadOff(c)
    <2>1. nr \in 0..(m_szSize - 1) /\ nr = offPos(start, c.m_iFirstNonreadPos)
      BY <1>1, Offsets DEF NonreadOff
    <2>2. 0 \in 0..(m_szSize - 1) /\ 0 + nm \in 0..(m_szSize - 1)
      BY <1>1, <1>20
    <2>3. CASE first # 0
      <3>1. nm = 0 /\ ~hasReadableInorderPkts(c)
        BY <1>3, <2>3 DEF nm
      <3>2. nr = 0
        BY <1>1, <2>1, <3>1 DEF hasReadableInorderPkts, offPos, Positions
      <3>3. EntryAt(moved, 0) = EntryAt(c, 0)
        <4>1. EntryAt(moved, 0) = EntryAt(counted, 0)
          <5>1. nm + 0 < m_szSize /\ nm + 0 = 0
            BY <1>1, <3>1
          <5> QED
            BY <1>16, <1>20, <1>21, <2>2, <5>1, MovesOffsets
        <4>2. 0 \notin first..stop
          BY <1>5, <2>3
        <4> QED
          BY <1>18, <2>2, <4>1, <4>2
      <3>4. n2 = 0
        BY <1>28, <3>3 DEF BufferInv, HeadFresh
      <3>5. released.m_iStartPos = start
        <4>1. incPos(start, 0) = start
          BY <1>1, Offsets DEF At
        <4> QED
          BY <1>31, <3>1, <3>4, <4>1
      <3> QED
        BY <1>29, <1>30, <2>1, <3>2, <3>5 DEF NonreadOff
    <2>4. CASE first = 0 /\ nm < nr
      <3>1. /\ \A k \in 0..(nr - 1) : UnitAt(c, k)
            /\ \A k \in 0..(nr - nm - 1) : nm + k \in 0..(nr - 1) /\ nm + k \in 0..(m_szSize - 1)
                                           /\ nm + k \notin first..stop /\ k \in 0..(m_szSize - 1)
                                           /\ nm + k < m_szSize
            /\ 0 \in 0..(nr - nm - 1) /\ nm + 0 = nm /\ nm \in 0..m_szSize
        <4>1. \A k \in 0..(nr - 1) : UnitAt(c, k)
          BY DEF BufferInv, InOrder, WholeMessages, UnitAt
        <4> HIDE DEF nr
        <4> QED
          BY <1>1, <1>5, <1>20, <2>1, <2>4, <4>1
      <3> HIDE DEF nr
      <3>2. \A k \in 0..(nr - nm - 1) : EntryAt(moved, k) = EntryAt(c, nm + k)
        <4> SUFFICES ASSUME NEW k \in 0..(nr - nm - 1)
                     PROVE  EntryAt(moved, k) = EntryAt(c, nm + k)
          OBVIOUS
        <4>1. EntryAt(moved, k) = EntryAt(counted, nm + k)
          BY <1>16, <1>20, <1>21, <3>1, MovesOffsets
        <4> QED
          BY <1>18, <3>1, <4>1
      <3>3. EntryAt(moved, 0).status = "Avail"
        <4>1. EntryAt(moved, 0) = EntryAt(c, nm) /\ UnitAt(c, nm) /\ At(c, nm) \in Positions
          BY <1>1, <3>1, <3>2, Offsets
        <4> QED
          BY <1>1, <4>1, UnitFacts DEF UnitAt, EntryAt
      <3>4. n2 = 0
        BY <1>28, <3>3
      <3>5. \A k \in 0..(nr - nm - 1) : EntryAt(released, k) = EntryAt(c, nm + k)
        <4> SUFFICES ASSUME NEW k \in 0..(nr - nm - 1)
                     PROVE  EntryAt(released, k) = EntryAt(c, nm + k)
          OBVIOUS
        <4>1. n2 + k = k /\ n2 + k < m_szSize /\ k \in 0..(m_szSize - 1)
          BY <1>1, <3>1, <3>4
        <4>2. EntryAt(released, k) = EntryAt(moved, k)
          BY <1>21, <1>28, <4>1, MovesOffsets
        <4> QED
          BY <3>2, <4>2
      <3>6. NonreadOff(released) = nr - nm
        <4>1. incPos(incPos(start, nm), 0) = incPos(start, nm)
          BY <1>21, <1>31, Offsets DEF At
        <4>2. released.m_iStartPos = incPos(start, nm)
          BY <1>31, <3>4, <4>1
        <4>3. nm <= nr /\ nm \in 0..m_szSize
          BY <1>1, <1>20, <2>1, <2>4
        <4> QED
          BY <1>1, <1>29, <2>1, <4>2, <4>3, OffAfterMove DEF NonreadOff
      <3>7. PacketAt(c, nm - 1).last /\ nm \in 0..nr
        <4>1. nm - 1 = stop /\ nm \in 0..nr
          BY <1>5, <1>20, <2>1, <2>4
        <4> QED
          BY <1>3, <4>1
      <3> QED
        BY <1>1, <3>5, <3>6, <3>7, ShiftInOrder DEF BufferInv, nr
    <2>5. CASE first = 0 /\ nr <= nm
      <3>1. /\ nm > 0 /\ nm >= offPos(start, c.m_iFirstNonreadPos)
            /\ c.m_iMaxPosOff \in nm..(m_szSize - 1)
        BY <1>1, <1>5, <1>20, <2>1, <2>5
      <3>2. NonreadOff(released) = offPos(incPos(incPos(start, nm), n2), c.m_iFirstNonreadPos)
        BY <1>29, <1>31 DEF NonreadOff
      <3>3. offPos(incPos(incPos(start, nm), n2), c.m_iFirstNonreadPos)
                <= (IF c.m_iMaxPosOff - nm >= n2 THEN c.m_iMaxPosOff - nm - n2 ELSE 0)
        BY <1>31, <1>32, <3>2 DEF isInRange, NonreadOff
      <3>4. offPos(incPos(incPos(start, nm), n2), c.m_iFirstNonreadPos) = 0
        BY <1>1, <1>20, <3>1, <3>3, NonreadInRange
      <3> QED
        BY <1>30, <3>2, <3>4
    <2> HIDE DEF nr
    <2> QED
      BY <1>1, <1>20, <2>1, <2>3, <2>4, <2>5
  <1>33. Remembers(moved, released) /\ SameEntries(released, reset)
    BY <1>26, <1>27, <1>29, ReleaseRemembers, SearchesRemember DEF Good
  <1>34. /\ Good(reset) /\ InOrder(reset) /\ OutOfOrder(reset) /\ HeadFresh(reset)
         /\ reset.tsbpd = c.tsbpd
    <2>1. released.m_iStartPos \in Positions
      BY <1>29, BufferFields DEF Good
    <2> HIDE DEF reset
    <2>2. /\ Good(reset) /\ reset.m_iFirstNonreadPos = released.m_iStartPos
          /\ reset.m_iStartPos = released.m_iStartPos /\ reset.tsbpd = released.tsbpd
          /\ OutOfOrder(reset) /\ HeadFresh(reset)
      BY <1>29, <2>1, NonreadChange DEF reset
    <2>3. NonreadOff(reset) = 0
      BY <2>1, <2>2 DEF NonreadOff, offPos, Positions
    <2> QED
      BY <1>29, <1>30, <2>2, <2>3
  <1> HIDE DEF reset
  <1>35. Remembers(moved, ranged)
    <2>1. Remembers(moved, reset)
      BY <1>33, SameRemembers, RemembersOn
    <2> QED
      BY <1>33, <2>1
  <1>36. BufferInv(ranged) /\ ranged.tsbpd = c.tsbpd
    <2>1. CASE isInRange(released)
      BY <1>29, <1>32, <2>1 DEF BufferInv
    <2>2. CASE ~isInRange(released)
      BY <1>34, <2>2 DEF BufferInv
    <2> QED
      BY <2>1, <2>2
  <1> HIDE DEF ranged
  <1>37. Remembers(moved, readMessage(c))
    <2>1. ranged \in BufferType
      BY <1>36 DEF BufferInv, Good
    <2>2. Remembers(moved, updateFirstReadableOutOfOrder(ranged))
      BY <1>35, <2>1, SearchesRemember, SameRemembers, RemembersOn
    <2> QED
      BY <1>2, <1>35, <2>2
  <1>38. /\ Remembers(c, readMessage(c))
         /\ ShortStream /\ Placed(c) =>
                \A k \in ReadOffsets(c) :
                    /\ Gone(readMessage(c), Base(c) + 1 + k)
                    /\ hasReadableInorderPkts(c) => Base(c) + k < Base(readMessage(c))
    <2>1. Remembers(c, readMessage(c))
      BY <1>24, <1>37, RemembersOn
    <2>2. ASSUME ShortStream, Placed(c), NEW k \in ReadOffsets(c)
          PROVE  /\ Gone(readMessage(c), Base(c) + 1 + k)
                 /\ hasReadableInorderPkts(c) => Base(c) + k < Base(readMessage(c))
      <3>1. k \in first..stop
        BY <1>3, <2>2 DEF offs
      <3>2. Placed(moved) /\ Placed(readMessage(c)) /\ Base(moved) <= Base(readMessage(c))
        BY <1>24, <1>37, <2>2 DEF Remembers
      <3>3. Base(c) + k \in Int /\ Base(moved) \in Int /\ Base(readMessage(c)) \in Int
        BY <1>5, <2>2, <3>1, <3>2, StreamAssumption DEF Placed
      <3>4. Gone(readMessage(c), Base(c) + 1 + k)
        BY <1>25, <1>37, <2>2, <3>1, <3>2 DEF Remembers
      <3>5. hasReadableInorderPkts(c) => Base(c) + k < Base(moved)
        BY <1>25, <2>2, <3>1
      <3> QED
        BY <3>2, <3>3, <3>4, <3>5
    <2> QED
      BY <2>1, <2>2
  <1>39. CASE c.tsbpd
    BY <1>2, <1>36, <1>39, <1>38
  <1>40. CASE ~c.tsbpd
    <2>1. /\ BufferInv(updateFirstReadableOutOfOrder(ranged))
          /\ updateFirstReadableOutOfOrder(ranged).tsbpd = ranged.tsbpd
      BY <1>36, <1>40, UpdateUnordered
    <2> QED
      BY <1>2, <1>36, <1>40, <1>38, <2>1
  <1> QED
    BY <1>39, <1>40

-----------------------------------------------------------------------------
(* The calls of the connection *)

RcvInv ==
    /\ BufferInv(b)
    /\ TLPktDrop \in BOOLEAN
    /\ order \in [Msgs -> BOOLEAN]
    /\ delivered \in Seq(SUBSET Msgs)

LEMMA InitInv == Init => RcvInv
  <1> SUFFICES ASSUME Init PROVE RcvInv
    OBVIOUS
  <1>1. PICK tsbpd \in BOOLEAN : b = NewBuffer(ISN, tsbpd) /\ TLPktDrop \in BOOLEAN
    BY DEF Init
  <1>2. /\ 0 \in Positions /\ 0 \in 0..capacity /\ ISN \in SeqNo /\ m_szSize \in Nat
    BY Sizes, StreamAssumption DEF Positions
  <1>3. /\ b.m_entries = [pos \in Positions |-> Empty] /\ b.m_iStartPos = 0
        /\ b.m_iFirstNonreadPos = 0 /\ b.m_numOutOfOrderPackets = 0
        /\ b.m_iFirstReadableOutOfOrder = -1
    BY <1>1 DEF NewBuffer
  <1>4. b \in BufferType
    <2>1. [pos \in Positions |-> Empty] \in [Positions -> Entry]
      BY EmptyEntries
    <2> QED
      BY <1>1, <1>2, <2>1 DEF NewBuffer, BufferType
  <1>5. \A pos \in Positions : ~HasUnit(b, pos)
    BY <1>3, EmptyEntries DEF HasUnit
  <1>6. Counted(b)
    <2>1. UnorderedAt(b, Positions) = {}
      BY <1>5 DEF UnorderedAt
    <2> QED
      BY <1>3, <2>1, FS_EmptySet DEF Counted
  <1>7. Window(b)
    <2>1. \A off \in 0..(m_szSize - 1) : ~UnitAt(b, off)
      BY <1>2, <1>4, <1>5, Offsets DEF UnitAt
    <2> QED
      BY <2>1 DEF Window
  <1>8. InOrder(b)
    <2>1. NonreadOff(b) = 0
      BY <1>3 DEF NonreadOff, offPos
    <2>2. \A k \in 0..(0 - 1) : FALSE
      OBVIOUS
    <2> QED
      BY <2>1, <2>2 DEF InOrder, WholeMessages
  <1>9. OutOfOrder(b) /\ HeadFresh(b)
    <2>1. At(b, 0) \in Positions
      BY <1>2, <1>4, Offsets
    <2> QED
      BY <1>3, <2>1, EmptyEntries DEF OutOfOrder, HeadFresh, EntryAt
  <1>10. delivered \in Seq(SUBSET Msgs)
    BY DEF Init
  <1> QED
    BY <1>1, <1>4, <1>6, <1>7, <1>8, <1>9, <1>10 DEF Init, RcvInv, BufferInv, Good

\* The invariant is about one stream: its order flags never change.
LEMMA SameStream ==
    ASSUME order' = order, BufferInv(b')
    PROVE  BufferInv(b)'
  <1>1. Stream' = Stream
    BY DEF Stream, Packet
  <1>2. Entry' = Entry
    BY <1>1 DEF Entry
  <1>3. Good(b)'
    BY <1>2 DEF BufferInv, Good, BufferType, Window, Counted, UnitAt, PacketAt
  <1>4. InOrder(b)' /\ OutOfOrder(b)' /\ HeadFresh(b)'
    BY DEF BufferInv, InOrder, OutOfOrder, HeadFresh, Span, UnitAt, PacketAt, EntryAt, NonreadOff
  <1> QED
    BY <1>3, <1>4 DEF BufferInv

\* A message that ends within reach begins within reach, or before the buffer.
LEMMA MessageReach ==
    ASSUME NEW start \in SeqNo, NEW i \in DOMAIN MessageOf, NEW j \in DOMAIN MessageOf,
           MessageOf[i] = MessageOf[j], Packet(j).last,
           seqoff(start, Packet(j).seqno) \in 0..(capacity - 1)
    PROVE  seqoff(start, Packet(i).seqno) < m_szSize
  <1> DEFINE d == j - i
             lo == Packet(i).seqno
             hi == Packet(j).seqno
             o == seqoff(start, hi)
  <1>1. /\ DOMAIN MessageOf = 1..Len(MessageOf) /\ Len(MessageOf) \in Nat
        /\ \A x \in DOMAIN MessageOf : MessageOf[x] \in Nat
        /\ \A x, y \in DOMAIN MessageOf : x < y => MessageOf[x] <= MessageOf[y]
        /\ Len(MessageOf) <= m_iMaxSeqNo /\ ISN \in SeqNo /\ d < m_iSeqNoTH
    BY StreamAssumption
  <1>2. i <= j
    <2> SUFFICES ASSUME j < i PROVE FALSE
      BY <1>1
    <2> DEFINE k == j + 1
    <2>1. j # Len(MessageOf) /\ k \in DOMAIN MessageOf /\ j < k /\ (k < i \/ k = i)
      BY <1>1
    <2>2. MessageOf[k] # MessageOf[j]
      <3>1. Packet(j).last = (j = Len(MessageOf) \/ MessageOf[k] # MessageOf[j])
        BY DEF Packet
      <3> QED
        BY <2>1, <3>1
    <2> HIDE DEF k
    <2>3. MessageOf[j] <= MessageOf[k] /\ MessageOf[k] <= MessageOf[i]
      BY <1>1, <2>1
    <2> QED
      BY <1>1, <2>1, <2>2, <2>3
  <1>3. d \in 0..(m_iSeqNoTH - 1) /\ d \in 0..m_iMaxSeqNo
    BY <1>1, <1>2, Sizes
  <1>4. lo \in SeqNo /\ hi \in SeqNo /\ lo = incseqBy(ISN, i - 1) /\ hi = incseqBy(ISN, j - 1)
    <2>1. i - 1 \in 0..m_iMaxSeqNo /\ j - 1 \in 0..m_iMaxSeqNo
      BY <1>1, Sizes
    <2>2. lo = incseqBy(ISN, i - 1) /\ hi = incseqBy(ISN, j - 1)
      BY DEF Packet
    <2> QED
      BY <1>1, <2>1, <2>2, StepsStayInSpace
  <1>5. incseqBy(lo, d) = hi
    <2>1. i - 1 \in Nat /\ d \in Nat /\ i - 1 + d = j - 1 /\ i - 1 + d <= m_iMaxSeqNo
      BY <1>1, <1>3, Sizes
    <2> HIDE DEF d
    <2> QED
      BY <1>1, <1>4, <2>1, StepsAdd
  <1> HIDE DEF d, lo, hi
  <1>6. incseqBy(start, o) = hi /\ o \in 0..(m_szSize - 2)
    BY <1>4, OffsetLeadsBack, Sizes DEF hi
  <1> HIDE DEF o
  <1>7. lo = decseqBy(hi, d)
    BY <1>3, <1>4, <1>5, StepsInvert
  <1>8. CASE d <= o
    <2> DEFINE x == o - d
    <2>1. x \in Nat /\ x \in 0..(m_iSeqNoTH - 1) /\ x \in 0..m_iMaxSeqNo /\ x + d = o
          /\ x + d <= m_iMaxSeqNo /\ x < m_szSize /\ d \in Nat
      BY <1>3, <1>6, <1>8, Sizes
    <2> HIDE DEF x
    <2>2. incseqBy(incseqBy(start, x), d) = hi /\ incseqBy(start, x) \in SeqNo
      BY <1>6, <2>1, StepsAdd, StepsStayInSpace
    <2>3. lo = incseqBy(start, x)
      BY <1>3, <1>7, <2>2, StepsInvert
    <2>4. seqoff(start, lo) = x
      BY <2>1, <2>3, OffsetMeasuresSteps
    <2> QED
      BY <2>1, <2>4 DEF lo
  <1>9. CASE o < d
    <2> DEFINE x == d - o
               y == decseqBy(start, x)
    <2>1. x \in Nat /\ x \in 0..(m_iSeqNoTH - 1) /\ x \in 0..m_iMaxSeqNo /\ x + o = d
          /\ x + o <= m_iMaxSeqNo /\ x > 0 /\ o \in Nat
      BY <1>3, <1>6, <1>9, Sizes
    <2> HIDE DEF x
    <2>2. y \in SeqNo /\ incseqBy(y, x) = start
      BY <2>1, StepsInvert, StepsStayInSpace
    <2>3. seqoff(start, y) = -x
      BY <2>1, OffsetMeasuresSteps
    <2> HIDE DEF y
    <2>4. incseqBy(y, d) = hi
      BY <1>6, <2>1, <2>2, StepsAdd
    <2>5. lo = y
      BY <1>3, <1>7, <2>2, <2>4, StepsInvert
    <2> QED
      BY <2>1, <2>3, <2>5, Sizes DEF lo
  <1> QED
    BY <1>3, <1>6, <1>8, <1>9

\* What can be read is one message, and it is read whole.
LEMMA WholeRead == RcvInv => ReadsWholeMessage
  <1> SUFFICES ASSUME RcvInv, CanRead(b)
               PROVE  \E m \in Msgs : MessageRead(b) = MsgPackets(m)
    BY DEF ReadsWholeMessage
  <1>1. BufferInv(b) /\ Good(b) /\ m_szSize \in Nat /\ b.m_iMaxPosOff \in 0..(m_szSize - 1)
    BY BufferFields, Sizes DEF RcvInv, BufferInv, Good
  <1> DEFINE first == offPos(b.m_iStartPos, ReadPos(b))
  <1>2. PICK stop \in 0..(b.m_iMaxPosOff - 1) :
            /\ first \in 0..stop
            /\ ReadOffsets(b) = first..stop
            /\ \A k \in first..stop : UnitAt(b, k)
            /\ PacketAt(b, first).first /\ PacketAt(b, stop).last
            /\ \A k \in first..(stop - 1) : ~PacketAt(b, k).last
    BY <1>1, ReadFacts
  <1> HIDE DEF first
  <1>3. first \in 0..(m_szSize - 1) /\ stop \in first..(m_szSize - 1)
    BY <1>1, <1>2
  <1>4. \E m \in Msgs : PacketsAt(b, first..stop) = MsgPackets(m)
    BY <1>1, <1>2, <1>3, WholeMessage
  <1>5. MessageRead(b) = PacketsAt(b, first..stop)
    BY <1>2 DEF MessageRead, PacketsAt, PacketAt
  <1> QED
    BY <1>4, <1>5

\* It is the message of this number.
LEMMA NumberRead ==
    ASSUME NEW m \in Msgs
    PROVE  {pkt.msgno : pkt \in MsgPackets(m)} = {m}
  <1>1. \A i : Packet(i).msgno = MessageOf[i]
    BY DEF Packet
  <1>2. PICK i \in DOMAIN MessageOf : MessageOf[i] = m
    BY DEF Msgs
  <1>3. Packet(i) \in MsgPackets(m)
    BY <1>2 DEF MsgPackets
  <1>4. \A pkt \in MsgPackets(m) : pkt.msgno = m
    BY <1>1 DEF MsgPackets
  <1> QED
    BY <1>3, <1>4

\* The reader is only let at a message.
LEMMA ReadyToRead ==
    ASSUME RcvInv, isRcvDataReady(b)
    PROVE  CanRead(b)
  <1>1. b.m_iFirstReadableOutOfOrder \in Positions \cup {-1} /\ m_szSize \in Nat
    BY BufferFields, Sizes DEF RcvInv, BufferInv, Good
  <1> QED
    BY <1>1 DEF isRcvDataReady, CanRead, Positions

\* What every call keeps.
Keeps(c, d) == BufferInv(d) /\ Remembers(c, d) /\ d.tsbpd = c.tsbpd

LEMMA StepKeeps ==
    ASSUME RcvInv, Next
    PROVE  /\ Keeps(b, b') /\ order' = order /\ TLPktDrop' = TLPktDrop
           /\ ReadMessage \/ Finds(b, b')
  <1>1. BufferInv(b) /\ b \in BufferType /\ m_szSize \in Nat
    BY Sizes DEF RcvInv, BufferInv, Good
  <1>2. Keeps(b, b) /\ Finds(b, b)
    BY <1>1, SameRemembers DEF Keeps, SameEntries, Finds, Loses
  <1>3. ASSUME NEW pkt \in Stream, Insert(pkt) PROVE Keeps(b, b') /\ Finds(b, b')
    BY <1>1, <1>3, InsertKeeps DEF Insert, Keeps
  <1>4. ASSUME NEW pkt \in Stream, InsertUndecrypted(pkt) PROVE Keeps(b, b') /\ Finds(b, b')
    <2>1. /\ Keeps(b, insert(b, pkt)) /\ BufferInv(insert(b, pkt)) /\ pkt.seqno \in SeqNo
          /\ HeadFound(insert(b, pkt))
      BY <1>1, <1>4, InsertKeeps, PacketFacts DEF Keeps, InsertUndecrypted
    <2>2. SRT_SEQNO_NONE \in Int /\ SRT_SEQNO_NONE <= 0 /\ DROP_EXISTING \in BOOLEAN
      BY DEF SRT_SEQNO_NONE, DROP_EXISTING
    <2>3. InStream(insert(b, pkt), pkt.seqno)
      <3>1. seqoff(b.m_iStartSeqNo, pkt.seqno) < capacity
        <4>1. seqoff(b.m_iStartSeqNo, pkt.seqno) \in Int /\ capacity \in Nat
          BY <1>1, <2>1, BufferFields, Sizes, SeqNoAssumption DEF seqoff, SeqNo
        <4>2. InsertResult(b, pkt) = 0
          BY <1>4 DEF InsertUndecrypted
        <4> QED
          BY <4>1, <4>2 DEF InsertResult
      <3>2. insert(b, pkt).m_iStartSeqNo = b.m_iStartSeqNo
        BY <1>1, InsertKeeps
      <3> QED
        BY <3>1, <3>2 DEF InStream
    <2>4. /\ Keeps(insert(b, pkt), dropMessage(insert(b, pkt), pkt.seqno, pkt.seqno,
                                               SRT_SEQNO_NONE, DROP_EXISTING))
          /\ Finds(insert(b, pkt), dropMessage(insert(b, pkt), pkt.seqno, pkt.seqno,
                                               SRT_SEQNO_NONE, DROP_EXISTING))
      BY <2>1, <2>2, <2>3, DropMessageKeeps DEF Keeps
    <2> QED
      BY <1>4, <2>1, <2>4, RemembersOn DEF InsertUndecrypted, Keeps, Finds
  <1>5. ASSUME ReadMessage PROVE Keeps(b, b')
    BY <1>1, <1>5, ReadyToRead, ReadMessageKeeps DEF ReadMessage, Keeps
  <1>6. ASSUME DropTooLate PROVE Keeps(b, b') /\ Finds(b, b')
    <2> DEFINE there == {off \in 0..(b.m_iMaxPosOff - 1) : HasUnit(b, At(b, off))}
               off == getFirstValidOffset(b)
    <2>1. off > 0 /\ b.tsbpd /\ b' = dropUpTo(b, PacketAt(b, off).seqno)
      BY <1>6 DEF DropTooLate, PacketAt
    <2>2. there # {}
      <3>1. off = IF there = {} THEN -1 ELSE Min(there)
        BY DEF getFirstValidOffset
      <3> HIDE DEF there, off
      <3> QED
        BY <2>1, <3>1
    <2>3. off \in there /\ \A y \in there : off <= y
      <3>1. there \in SUBSET Nat /\ off = Min(there)
        BY <2>2 DEF getFirstValidOffset
      <3> HIDE DEF there, off
      <3> QED
        BY <2>2, <3>1, LeastNat
    <2> HIDE DEF off
    <2>4. b.m_iMaxPosOff \in 0..(m_szSize - 1)
      BY <1>1, BufferFields, Sizes
    <2>5. off \in 1..(m_szSize - 1) /\ UnitAt(b, off)
      BY <1>1, <2>1, <2>3, <2>4 DEF UnitAt
    <2>6. \A k \in 0..(off - 1) : ~UnitAt(b, k)
      <3> SUFFICES ASSUME NEW k \in 0..(off - 1), UnitAt(b, k) PROVE FALSE
        OBVIOUS
      <3>1. k \in 0..(b.m_iMaxPosOff - 1) /\ k < off
        BY <1>1, <2>3, <2>4, <2>5
      <3>2. k \in there
        BY <3>1 DEF UnitAt
      <3> HIDE DEF there
      <3> QED
        BY <1>1, <2>3, <2>5, <3>1, <3>2
    <2> QED
      BY <1>1, <2>1, <2>5, <2>6, DropUpToKeeps DEF Keeps, Finds
  <1>7. ASSUME NEW m \in Msgs, DropMessage(m) PROVE Keeps(b, b') /\ Finds(b, b')
    <2>1. PICK i \in DOMAIN MessageOf, j \in DOMAIN MessageOf :
              /\ MessageOf[i] = m /\ MessageOf[j] = m /\ Packet(j).last
              /\ InReach(Packet(j).seqno)
              /\ b' = dropMessage(b, Packet(i).seqno, Packet(j).seqno, m, KEEP_EXISTING)
      BY <1>7 DEF DropMessage, MsgPackets
    <2> DEFINE lo == Packet(i).seqno
               hi == Packet(j).seqno
    <2>2. Packet(i) \in Stream /\ Packet(j) \in Stream
      BY DEF Stream
    <2>3. lo \in SeqNo /\ hi \in SeqNo /\ m \in Int /\ KEEP_EXISTING \in BOOLEAN
          /\ b.m_iStartSeqNo \in SeqNo
      <3>1. m \in Int
        BY <2>1, StreamAssumption
      <3> QED
        BY <1>1, <2>2, <3>1, PacketFacts, BufferFields DEF KEEP_EXISTING
    <2> DEFINE o == seqoff(b.m_iStartSeqNo, hi)
    <2>4. o \in Int /\ o < capacity
      <3>1. o \in Int
        BY <2>3, SeqNoAssumption DEF seqoff, SeqNo
      <3> QED
        BY <2>1, <3>1 DEF InReach
    <2>5. CASE o < 0
      <3>1. dropMessage(b, lo, hi, m, KEEP_EXISTING) = b
        BY <2>5 DEF dropMessage
      <3> QED
        BY <1>2, <2>1, <3>1
    <2>6. CASE o >= 0
      <3>1. o \in 0..(capacity - 1)
        BY <2>4, <2>6, Sizes
      <3>2. seqoff(b.m_iStartSeqNo, lo) < m_szSize
        BY <2>1, <2>3, <3>1, MessageReach
      <3> HIDE DEF lo, hi
      <3>3. InStream(b, hi)
        BY <2>2, <2>4 DEF InStream, hi
      <3>4. /\ Keeps(b, dropMessage(b, lo, hi, m, KEEP_EXISTING))
            /\ Finds(b, dropMessage(b, lo, hi, m, KEEP_EXISTING))
        BY <1>1, <2>3, <3>2, <3>3, DropMessageKeeps DEF Keeps
      <3> QED
        BY <2>1, <3>4 DEF lo, hi
    <2> QED
      BY <2>4, <2>5, <2>6
  <1>8. ASSUME DropRange PROVE Keeps(b, b') /\ Finds(b, b')
    <2>1. PICK lo \in Stream, hi \in Stream :
              /\ InReach(hi.seqno)
              /\ b' = dropMessage(b, lo.seqno, hi.seqno, 0, KEEP_EXISTING)
      BY <1>8 DEF DropRange
    <2>2. /\ lo.seqno \in SeqNo /\ hi.seqno \in SeqNo /\ KEEP_EXISTING \in BOOLEAN
          /\ 0 \in Int /\ 0 <= 0 /\ InStream(b, hi.seqno)
      BY <2>1, PacketFacts DEF KEEP_EXISTING, InReach, InStream
    <2>3. /\ Keeps(b, dropMessage(b, lo.seqno, hi.seqno, 0, KEEP_EXISTING))
          /\ Finds(b, dropMessage(b, lo.seqno, hi.seqno, 0, KEEP_EXISTING))
      BY <1>1, <2>2, DropMessageKeeps DEF Keeps
    <2> QED
      BY <2>1, <2>3
  <1>9. order' = order /\ TLPktDrop' = TLPktDrop
    BY DEF Next, Insert, InsertUndecrypted, ReadMessage, DropTooLate, DropMessage, DropRange
  <1> QED
    BY <1>3, <1>4, <1>5, <1>6, <1>7, <1>8, <1>9 DEF Next

LEMMA NextInv == RcvInv /\ [Next]_vars => RcvInv'
  <1> SUFFICES ASSUME RcvInv, [Next]_vars PROVE RcvInv'
    OBVIOUS
  <1>1. /\ BufferInv(b) /\ TLPktDrop \in BOOLEAN /\ order \in [Msgs -> BOOLEAN]
        /\ delivered \in Seq(SUBSET Msgs)
    BY DEF RcvInv
  <1>2. BufferInv(b') /\ order' = order /\ TLPktDrop' = TLPktDrop
    BY <1>1, StepKeeps DEF Keeps, vars
  <1>3. delivered' \in Seq(SUBSET Msgs)
    <2>1. CASE ReadMessage
      <3>1. PICK m \in Msgs : MessageRead(b) = MsgPackets(m)
        BY <2>1, ReadyToRead, WholeRead DEF ReadMessage, ReadsWholeMessage
      <3>2. {pkt.msgno : pkt \in MessageRead(b)} \in SUBSET Msgs
        BY <3>1, NumberRead
      <3> QED
        BY <1>1, <2>1, <3>2 DEF ReadMessage
    <2>2. CASE ~ReadMessage
      BY <1>1, <2>2 DEF Next, vars, Insert, InsertUndecrypted, DropTooLate, DropMessage, DropRange
    <2> QED
      BY <2>1, <2>2
  <1> QED
    BY <1>1, <1>2, <1>3, SameStream DEF RcvInv, Msgs

\* The invariant from which the others follow, in every reachable state.
THEOREM RcvInvariance == Spec => []RcvInv
  BY InitInv, NextInv, PTL DEF Spec

\* Every packet is at the position of its sequence number (insert, dropUpTo,
\* dropMessage, readMessage and releaseNextFillerEntries move m_iStartPos and
\* m_iStartSeqNo together), in every buffer and for every stream.
THEOREM PacketsInPlace == Spec => []WindowIntact
  <1>1. RcvInv => WindowIntact
    <2> SUFFICES ASSUME RcvInv PROVE WindowIntact
      OBVIOUS
    <2>1. Good(b) /\ b \in BufferType
      BY DEF RcvInv, BufferInv, Good
    <2>2. b.m_numOutOfOrderPackets \in 0..capacity
      BY <2>1, CountInCapacity
    <2>3. \A pos \in Positions : b.m_entries[pos] \in {Empty, Drop, Read}
                                     \cup {Avail(pkt) : pkt \in Stream}
      BY <2>1, BufferFields DEF Entry
    <2>4. TypeOK
      BY <2>1, <2>2, <2>3, BufferFields DEF TypeOK, RcvInv
    <2> QED
      BY <2>1, <2>4 DEF WindowIntact, Good, Window, UnitAt, PacketAt
  <1> QED
    BY <1>1, RcvInvariance, PTL

\* m_numOutOfOrderPackets is the number of packets that may be read out of order
\* (onInsertNotInOrderPacket, dropUnitInPos, readMessage).
THEOREM CounterExact == Spec => []OutOfOrderCount
  <1>1. RcvInv => OutOfOrderCount
    <2> SUFFICES ASSUME RcvInv PROVE OutOfOrderCount
      OBVIOUS
    <2>1. {pos \in Positions : ~b.tsbpd /\ HasUnit(b, pos) /\ ~packetAt(b, pos).inorder}
              = UnorderedAt(b, Positions)
      BY DEF UnorderedAt
    <2> QED
      BY <2>1 DEF RcvInv, BufferInv, Good, Counted, OutOfOrderCount
  <1> QED
    BY <1>1, RcvInvariance, PTL

\* readMessage returns the packets of one message, all of them and nothing else,
\* in order or out of it, and never asserts on a null packet.
THEOREM MessagesReadWhole == Spec => []ReadsWholeMessage
  BY WholeRead, RcvInvariance, PTL

\* insert and dropMessage leave no whole message at the start of the buffer behind
\* m_iFirstNonreadPos, and the next packet that gets in repairs what readMessage
\* left there, where its call of updateNonreadPos is commented out.
THEOREM HeadsAreFound == Spec => NoHeadLeftBehind
  <1>1. RcvInv /\ [Next]_vars =>
            [delivered' = delivered
                 /\ (HeadReadable \/ Cardinality(Units') > Cardinality(Units))
             => HeadReadable']_vars
    <2> SUFFICES ASSUME RcvInv, Next, delivered' = delivered,
                        HeadReadable \/ Cardinality(Units') > Cardinality(Units)
                 PROVE  HeadReadable'
      BY DEF vars
    <2>1. ~ReadMessage
      <3> SUFFICES ASSUME ReadMessage PROVE FALSE
        OBVIOUS
      <3>1. delivered \in Seq(SUBSET Msgs)
        BY DEF RcvInv
      <3>2. Len(delivered') = Len(delivered) + 1 /\ Len(delivered) \in Nat
        <4> DEFINE read == {pkt.msgno : pkt \in MessageRead(b)}
        <4>1. delivered' = Append(delivered, read)
          BY DEF ReadMessage
        <4> HIDE DEF read
        <4> QED
          BY <3>1, <4>1
      <3> QED
        BY <3>2
    <2>2. Finds(b, b')
      BY <2>1, StepKeeps
    <2>3. Loses(b, b') => Cardinality(Units') <= Cardinality(Units)
      <3> SUFFICES ASSUME Loses(b, b') PROVE Cardinality(Units') <= Cardinality(Units)
        OBVIOUS
      <3>1. Units' \subseteq Units
        BY DEF Units, Loses, HasUnit
      <3>2. Units \subseteq Positions /\ IsFiniteSet(Positions)
        BY Sizes DEF Units
      <3>3. IsFiniteSet(Units)
        BY <3>2, FS_Subset
      <3> QED
        BY <3>1, <3>3, FS_Subset
    <2>4. Cardinality(Units') > Cardinality(Units) => ~Loses(b, b')
      <3>1. Cardinality(Units) \in Nat /\ Cardinality(Units') \in Nat
        <4>1. Units \subseteq Positions /\ Units' \subseteq Positions /\ IsFiniteSet(Positions)
          BY Sizes DEF Units
        <4>2. IsFiniteSet(Units) /\ IsFiniteSet(Units')
          BY <4>1, FS_Subset
        <4> QED
          BY <4>2, FS_CardinalityType
      <3> QED
        BY <2>3, <3>1
    <2>5. HeadFound(b) = HeadReadable /\ HeadFound(b') = HeadReadable'
      BY DEF HeadFound, HeadReadable
    <2> QED
      BY <2>2, <2>4, <2>5 DEF Finds
  <1> QED
    BY <1>1, RcvInvariance, PTL DEF Spec, NoHeadLeftBehind

-----------------------------------------------------------------------------
(* Messages are read in turn *)

\* Where a packet that is there belongs in the stream
LEMMA PlaceOfPacket ==
    ASSUME ShortStream, NEW c, Good(c), Placed(c), NEW k \in 0..(m_szSize - 1), UnitAt(c, k)
    PROVE  Base(c) + 1 + k \in DOMAIN MessageOf /\ PacketAt(c, k) = Packet(Base(c) + 1 + k)
  <1> DEFINE s == Base(c) + k
  <1>1. /\ DOMAIN MessageOf = 1..Len(MessageOf) /\ Len(MessageOf) \in Nat /\ ISN \in SeqNo
        /\ Len(MessageOf) <= m_iMaxSeqNo /\ m_iMaxSeqNo \in Nat
        /\ m_szSize \in Nat /\ c \in BufferType
    BY StreamAssumption, Sizes DEF Good
  <1>2. EntryAt(c, k).status = "Avail"
    <2>1. At(c, k) \in Positions
      BY <1>1, Offsets
    <2> QED
      BY <1>1, <2>1, UnitFacts DEF EntryAt, UnitAt
  <1>3. Base(c) \in Nat /\ k \in Nat /\ s < Len(MessageOf)
    BY <1>1, <1>2 DEF Placed
  <1>4. PICK i \in DOMAIN MessageOf : PacketAt(c, k) = Packet(i)
    BY <1>1, FlagOfMessage, PacketFacts
  <1>5. Packet(i).seqno = incseqBy(ISN, i - 1)
    BY DEF Packet
  <1>6. PacketAt(c, k).seqno = incseqBy(c.m_iStartSeqNo, k)
    BY DEF Good, Window
  <1>7. incseqBy(c.m_iStartSeqNo, k) = incseqBy(ISN, s)
    BY <1>1, <1>3, StepsAdd DEF Placed
  <1>8. i - 1 \in 0..m_iMaxSeqNo /\ s \in 0..m_iMaxSeqNo
    BY <1>1, <1>3
  <1>9. s = i - 1
    <2> HIDE DEF s
    <2> QED
      BY <1>1, <1>4, <1>5, <1>6, <1>7, <1>8, StepsDiffer
  <1>10. Base(c) + 1 + k = i
    BY <1>1, <1>3, <1>9
  <1> QED
    BY <1>4, <1>10

\* No two packets of the stream are the same.
LEMMA PacketsDiffer ==
    ASSUME NEW i \in DOMAIN MessageOf, NEW j \in DOMAIN MessageOf, Packet(i) = Packet(j)
    PROVE  i = j
  <1>1. i \in Int /\ j \in Int /\ i - 1 \in 0..m_iMaxSeqNo /\ j - 1 \in 0..m_iMaxSeqNo /\ ISN \in SeqNo
    <2>1. DOMAIN MessageOf = 1..Len(MessageOf) /\ Len(MessageOf) \in Nat
          /\ Len(MessageOf) <= m_iMaxSeqNo /\ m_iMaxSeqNo \in Nat /\ ISN \in SeqNo
      BY StreamAssumption, Sizes
    <2> QED
      BY <2>1
  <1>2. incseqBy(ISN, i - 1) = incseqBy(ISN, j - 1)
    BY DEF Packet
  <1> QED
    BY <1>1, <1>2, StepsDiffer

\* All of message m is gone, and when it has an order flag, or the buffer TSBPD,
\* so is all that comes before it.
Passed(c, m) ==
    \A x \in DOMAIN MessageOf :
        /\ MessageOf[x] = m => Gone(c, x)
        /\ (order[m] \/ c.tsbpd) /\ MessageOf[x] <= m => x <= Base(c)

TurnInv ==
    /\ Placed(b)
    /\ ReadInTurn
    /\ \A i \in DOMAIN delivered : \A m \in delivered[i] : Passed(b, m)

LEMMA PassedOn ==
    ASSUME ShortStream, NEW c, NEW d, Placed(c), Remembers(c, d), d.tsbpd = c.tsbpd,
           NEW m, Passed(c, m)
    PROVE  Passed(d, m)
  <1>1. Placed(d) /\ Base(c) <= Base(d) /\ \A x \in DOMAIN MessageOf : Gone(c, x) => Gone(d, x)
    BY DEF Remembers
  <1>2. Base(c) \in Nat /\ Base(d) \in Nat /\ \A x \in DOMAIN MessageOf : x \in Nat
    BY <1>1, StreamAssumption DEF Placed
  <1>3. \A x \in DOMAIN MessageOf : x <= Base(c) => x <= Base(d)
    BY <1>1, <1>2
  <1> QED
    BY <1>1, <1>3 DEF Passed

LEMMA TurnInit == Init => TurnInv
  <1> SUFFICES ASSUME Init PROVE TurnInv
    OBVIOUS
  <1>1. b.m_entries = [pos \in Positions |-> Empty] /\ b.m_iStartSeqNo = ISN /\ delivered = <<>>
    BY DEF Init, NewBuffer
  <1>2. b \in BufferType /\ 0 \in 0..Len(MessageOf) /\ ISN = incseqBy(ISN, 0)
    <2>1. b \in BufferType
      BY InitInv DEF RcvInv, BufferInv, Good
    <2>2. ISN \in SeqNo /\ Len(MessageOf) \in Nat
      BY StreamAssumption
    <2> QED
      BY <2>1, <2>2, SeqNoAssumption DEF incseqBy, SeqNo
  <1>3. Base(b) = 0
    BY <1>1, <1>2, BaseValue
  <1>4. \A k \in 0..(m_szSize - 1) : EntryAt(b, k).status = "Empty"
    <2>1. \A k \in 0..(m_szSize - 1) : At(b, k) \in Positions
      BY <1>2, Offsets, Sizes
    <2> QED
      BY <1>1, <2>1, EmptyEntries DEF EntryAt
  <1>5. Placed(b)
    BY <1>1, <1>2, <1>3, <1>4 DEF Placed
  <1> QED
    BY <1>1, <1>5 DEF TurnInv, ReadInTurn

\* A read returns a message that was not passed, and passes it.
LEMMA ReadInItsTurn ==
    ASSUME ShortStream, RcvInv, TurnInv, ReadMessage
    PROVE  \E n \in Msgs :
              /\ delivered' = Append(delivered, {n})
              /\ Passed(b', n)
              /\ \A m \in Msgs : Passed(b, m) => m # n /\ (order[m] \/ b.tsbpd => m < n)
  <1>1. /\ BufferInv(b) /\ Good(b) /\ Placed(b) /\ b \in BufferType /\ m_szSize \in Nat
        /\ b.m_iMaxPosOff \in 0..(m_szSize - 1) /\ b' = readMessage(b) /\ CanRead(b)
    BY BufferFields, Sizes, ReadyToRead DEF RcvInv, BufferInv, Good, TurnInv, ReadMessage
  <1>2. /\ DOMAIN MessageOf = 1..Len(MessageOf) /\ Len(MessageOf) \in Nat
        /\ \A x \in DOMAIN MessageOf : MessageOf[x] \in Nat
        /\ \A x, y \in DOMAIN MessageOf : x < y => MessageOf[x] <= MessageOf[y]
        /\ Base(b) \in Nat
    BY <1>1, StreamAssumption DEF Placed
  <1>3. PICK n \in Msgs : MessageRead(b) = MsgPackets(n)
    BY <1>1, WholeRead DEF ReadsWholeMessage
  <1>4. delivered' = Append(delivered, {n})
    BY <1>3, NumberRead DEF ReadMessage
  <1>5. \A k \in ReadOffsets(b) : k \in 0..(m_szSize - 1) /\ UnitAt(b, k)
    <2>1. PICK stop \in 0..(b.m_iMaxPosOff - 1) :
              LET first == offPos(b.m_iStartPos, ReadPos(b))
              IN  /\ first \in 0..stop
                  /\ ReadOffsets(b) = first..stop
                  /\ \A k \in first..stop : UnitAt(b, k)
      BY <1>1, ReadFacts
    <2> QED
      BY <1>1, <2>1
  <1>6. ~hasReadableInorderPkts(b) =>
            ~b.tsbpd /\ \A k \in ReadOffsets(b) : ~PacketAt(b, k).inorder
    BY <1>1, ReadFacts
  \* The packets of the message are those that are read.
  <1>7. ASSUME NEW x \in DOMAIN MessageOf, MessageOf[x] = n
        PROVE  \E k \in ReadOffsets(b) : x = Base(b) + 1 + k /\ PacketAt(b, k) = Packet(x)
    <2>1. Packet(x) \in MessageRead(b)
      BY <1>3, <1>7 DEF MsgPackets
    <2>2. PICK k \in ReadOffsets(b) : Packet(x) = PacketAt(b, k)
      BY <2>1 DEF MessageRead, PacketAt
    <2>3. Base(b) + 1 + k \in DOMAIN MessageOf /\ PacketAt(b, k) = Packet(Base(b) + 1 + k)
      BY <1>1, <1>5, PlaceOfPacket
    <2>4. x = Base(b) + 1 + k
      BY <2>2, <2>3, PacketsDiffer
    <2> QED
      BY <2>2, <2>4
  <1>8. PICK y \in DOMAIN MessageOf : MessageOf[y] = n
    BY DEF Msgs
  \* None of them was gone; all of them are now.
  <1>9. ASSUME NEW x \in DOMAIN MessageOf, MessageOf[x] = n
        PROVE  ~Gone(b, x) /\ ~(x <= Base(b)) /\ Gone(b', x)
    <2>1. PICK k \in ReadOffsets(b) : x = Base(b) + 1 + k
      BY <1>7, <1>9
    <2>2. k \in Nat /\ x - 1 - Base(b) = k /\ ~(x <= Base(b))
      BY <1>1, <1>2, <1>5, <2>1
    <2>3. EntryAt(b, k).status = "Avail"
      <3>1. At(b, k) \in Positions /\ UnitAt(b, k)
        BY <1>1, <1>5, <2>1, Offsets
      <3> QED
        BY <1>1, <3>1, UnitFacts DEF EntryAt, UnitAt
    <2>4. ~Gone(b, x)
      BY <2>2, <2>3 DEF Gone, Filler
    <2>5. Gone(b', x)
      BY <1>1, <2>1, ReadMessageKeeps
    <2> QED
      BY <2>2, <2>4, <2>5
  <1>10. b'.tsbpd = b.tsbpd /\ Base(b') \in Nat
    <2>1. b'.tsbpd = b.tsbpd /\ Placed(b')
      BY <1>1, ReadMessageKeeps DEF Remembers
    <2> QED
      BY <1>2, <2>1 DEF Placed
  <1>11. ASSUME order[n] \/ b.tsbpd, NEW x \in DOMAIN MessageOf, MessageOf[x] = n
         PROVE  x <= Base(b')
    <2>1. PICK k \in ReadOffsets(b) : x = Base(b) + 1 + k /\ PacketAt(b, k) = Packet(x)
      BY <1>7, <1>11
    <2>2. Packet(x).inorder = order[n]
      BY <1>11 DEF Packet
    <2>3. hasReadableInorderPkts(b)
      BY <1>6, <1>11, <2>1, <2>2
    <2>4. Base(b) + k < Base(b')
      BY <1>1, <2>1, <2>3, ReadMessageKeeps
    <2> QED
      BY <1>2, <1>5, <1>10, <2>1, <2>4
  <1>12. Passed(b', n)
    <2> SUFFICES ASSUME NEW x \in DOMAIN MessageOf, order[n] \/ b.tsbpd, MessageOf[x] <= n
                 PROVE  x <= Base(b')
      BY <1>9, <1>10 DEF Passed
    <2>1. CASE MessageOf[x] = n
      BY <1>11, <2>1
    <2>2. CASE MessageOf[x] # n
      <3>1. x < y
        <4>1. ~(MessageOf[y] <= MessageOf[x])
          BY <1>2, <1>8, <2>2
        <4> QED
          BY <1>2, <1>8, <2>2, <4>1
      <3>2. y <= Base(b')
        BY <1>8, <1>11
      <3> QED
        BY <1>2, <1>8, <1>10, <3>1, <3>2
    <2> QED
      BY <2>1, <2>2
  <1>13. ASSUME NEW m \in Msgs, Passed(b, m)
         PROVE  m # n /\ (order[m] \/ b.tsbpd => m < n)
    <2>1. m \in Nat /\ n \in Nat
      BY <1>2, <1>8 DEF Msgs
    <2>2. m # n
      BY <1>8, <1>9, <1>13 DEF Passed
    <2>3. (order[m] \/ b.tsbpd) => ~(n <= m)
      BY <1>8, <1>9, <1>13 DEF Passed
    <2> QED
      BY <2>1, <2>2, <2>3
  <1> QED
    BY <1>4, <1>12, <1>13

LEMMA TurnNext == ShortStream /\ RcvInv /\ TurnInv /\ [Next]_vars => TurnInv'
  <1> SUFFICES ASSUME ShortStream, RcvInv, TurnInv, [Next]_vars PROVE TurnInv'
    OBVIOUS
  <1>1. /\ Remembers(b, b') /\ b'.tsbpd = b.tsbpd /\ order' = order
    <2>1. CASE Next
      BY <2>1, StepKeeps DEF Keeps
    <2>2. CASE UNCHANGED vars
      BY <2>2, SameRemembers DEF vars, SameEntries
    <2> QED
      BY <2>1, <2>2
  <1>2. Placed(b')
    BY <1>1 DEF TurnInv, Remembers
  <1>3. \A m : Passed(b, m) => Passed(b', m)
    BY <1>1, PassedOn DEF TurnInv
  <1>4. /\ ReadInTurn /\ \A i \in DOMAIN delivered : \A m \in delivered[i] : Passed(b, m)
        /\ delivered \in Seq(SUBSET Msgs)
    BY DEF TurnInv, RcvInv
  \* Said of the next state without a prime on the operators
  <1>5. SUFFICES /\ \A i, j \in DOMAIN delivered' : i < j =>
                        \A m \in delivered'[i], n \in delivered'[j] :
                            m # n /\ (order[m] \/ b.tsbpd => m < n)
                 /\ \A i \in DOMAIN delivered' : \A m \in delivered'[i] : Passed(b', m)
    <2>1. Placed(b)'
      BY <1>2
    <2>2. \A m : Passed(b, m)' <=> Passed(b', m)
      BY <1>1 DEF Passed
    <2> QED
      BY <1>1, <1>5, <2>1, <2>2 DEF TurnInv, ReadInTurn
  <1>6. CASE delivered' = delivered
    BY <1>3, <1>4, <1>6 DEF ReadInTurn
  <1>7. CASE ReadMessage
    <2>1. PICK n \in Msgs :
              /\ delivered' = Append(delivered, {n})
              /\ Passed(b', n)
              /\ \A m \in Msgs : Passed(b, m) => m # n /\ (order[m] \/ b.tsbpd => m < n)
      BY <1>7, ReadInItsTurn
    <2> DEFINE len == Len(delivered)
    <2>2. /\ len \in Nat /\ DOMAIN delivered = 1..len /\ DOMAIN delivered' = 1..(len + 1)
          /\ \A i \in 1..len : delivered'[i] = delivered[i] /\ delivered[i] \in SUBSET Msgs
          /\ delivered'[len + 1] = {n}
      BY <1>4, <2>1
    <2> HIDE DEF len
    <2>3. \A i \in 1..(len + 1) : i \in 1..len \/ i = len + 1
      BY <2>2
    <2>4. ASSUME NEW i \in DOMAIN delivered', NEW m \in delivered'[i] PROVE Passed(b', m)
      <3>1. CASE i \in 1..len
        BY <1>3, <1>4, <2>2, <2>4, <3>1
      <3>2. CASE i = len + 1
        BY <2>1, <2>2, <2>4, <3>2
      <3> QED
        BY <2>2, <2>3, <3>1, <3>2
    <2>5. ASSUME NEW i \in DOMAIN delivered', NEW j \in DOMAIN delivered', i < j,
                 NEW m \in delivered'[i], NEW r \in delivered'[j]
          PROVE  m # r /\ (order[m] \/ b.tsbpd => m < r)
      <3>1. i \in 1..len
        BY <2>2, <2>5
      <3>2. m \in delivered[i] /\ m \in Msgs /\ Passed(b, m)
        BY <1>4, <2>2, <2>5, <3>1
      <3>3. CASE j \in 1..len
        BY <1>4, <2>2, <2>5, <3>1, <3>2, <3>3 DEF ReadInTurn
      <3>4. CASE j = len + 1
        BY <2>1, <2>2, <2>5, <3>2, <3>4
      <3> QED
        BY <2>2, <2>3, <3>3, <3>4
    <2> QED
      BY <2>4, <2>5
  <1>8. delivered' = delivered \/ ReadMessage
    BY DEF Next, vars, Insert, InsertUndecrypted, DropTooLate, DropMessage, DropRange
  <1> QED
    BY <1>6, <1>7, <1>8

\* No message is read twice, and after one with order flag, or with TSBPD, no
\* earlier one, whatever comes again, late or dropped (insert refuses what is
\* before m_iStartSeqNo and what would go where an entry is marked Read or Drop).
\* The stream and a full buffer fit into the sequence numbers: a packet that is
\* older than that would count as one to come.
THEOREM ReadsInTurn == ShortStream => (Spec => []ReadInTurn)
  <1> SUFFICES ASSUME ShortStream PROVE Spec => []ReadInTurn
    OBVIOUS
  <1>1. Init => TurnInv
    BY TurnInit
  <1>2. RcvInv /\ TurnInv /\ [Next]_vars => TurnInv'
    BY TurnNext
  <1>3. TurnInv => ReadInTurn
    BY DEF TurnInv
  <1> QED
    BY <1>1, <1>2, <1>3, RcvInvariance, PTL DEF Spec

=============================================================================
