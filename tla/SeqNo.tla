-------------------------------- MODULE SeqNo --------------------------------
(***************************************************************************)
(* The circular sequence numbers of libsrt: class CSeqNo of                *)
(* srtcore/common.h.  A packet carries a number of 0..m_iMaxSeqNo that     *)
(* returns to 0 after m_iMaxSeqNo; two numbers are compared as if they     *)
(* were less than m_iSeqNoTH apart.  The code has m_iMaxSeqNo = 0x7FFFFFFF *)
(* and m_iSeqNoTH = 0x3FFFFFFF; both are constants here, so that a run can *)
(* cross the wrap in a few packets.                                        *)
(***************************************************************************)
EXTENDS Integers

CONSTANTS m_iMaxSeqNo,   \* the largest sequence number
          m_iSeqNoTH     \* numbers this far apart are on two sides of the wrap

\* The two constants of the code stand in this relation: 0x7FFFFFFF is
\* 2 * 0x3FFFFFFF + 1.
ASSUME SeqNoAssumption ==
    /\ m_iSeqNoTH \in Nat \ {0}
    /\ m_iMaxSeqNo = 2 * m_iSeqNoTH + 1

SeqNo == 0..m_iMaxSeqNo

SRT_SEQNO_NONE == -1

abs(n) == IF n < 0 THEN -n ELSE n

\* Negative, zero or positive as seq1 is before, at or after seq2.
seqcmp(seq1, seq2) ==
    IF abs(seq1 - seq2) < m_iSeqNoTH THEN seq1 - seq2 ELSE seq2 - seq1

\* How many numbers there are from seq1 to seq2, both included.
seqlen(seq1, seq2) ==
    IF seq1 <= seq2 THEN seq2 - seq1 + 1 ELSE seq2 - seq1 + m_iMaxSeqNo + 2

\* The signed distance from seq1 to seq2.
seqoff(seq1, seq2) ==
    IF abs(seq1 - seq2) < m_iSeqNoTH THEN seq2 - seq1
    ELSE IF seq1 < seq2 THEN seq2 - seq1 - m_iMaxSeqNo - 1
    ELSE seq2 - seq1 + m_iMaxSeqNo + 1

incseq(seq) == IF seq = m_iMaxSeqNo THEN 0 ELSE seq + 1

decseq(seq) == IF seq = 0 THEN m_iMaxSeqNo ELSE seq - 1

\* Mutant of incseqBy: the wrap forgotten.
incseqByPlain(seq, inc) == seq + inc

\* incseq(seq, inc), the overload with a distance.
incseqBy(seq, inc) ==
    IF m_iMaxSeqNo - seq >= inc THEN seq + inc ELSE seq - m_iMaxSeqNo + inc - 1

\* decseq(seq, dec), the overload with a distance.
decseqBy(seq, dec) ==
    IF seq < dec THEN m_iMaxSeqNo - (dec - seq) + 1 ELSE seq - dec

maxseq(seq1, seq2) == IF seqcmp(seq1, seq2) < 0 THEN seq2 ELSE seq1

=============================================================================
