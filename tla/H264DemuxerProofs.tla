--------------------------- MODULE H264DemuxerProofs ---------------------------
(***************************************************************************)
(* The demuxer reports exactly the NALUs of the reference definition, back *)
(* to back, keeps the rest, and a loss damages one NALU: for every stream, *)
(* every way to cut it into chunks, every buffer limit.                    *)
(***************************************************************************)
EXTENDS H264Demuxer, SequenceTheorems, TLAPS

\* buffer_ holds the bytes of the stream that come after base.
BufferIsRest ==
  /\ base <= Len(stream) /\ Len(buffer) = Len(stream) - base
  /\ \A k \in 1 .. Len(buffer) : buffer[k] = stream[base + k]

\* The NALU being cut begins with the start code at prevScStart.
AtStartCode ==
  /\ pc # "pairs" => prevScStart = 0
  /\ pc = "pairs" => /\ prevScLen = StartCodeLen(buffer, prevScStart)
                     /\ prevScStart \in StartCodes(buffer, 0)
  /\ pc # "pairs" /\ emitted # <<>> => 0 \in StartCodes(buffer, 0)

\* The NALUs reported end where the one being cut begins, and do not overlap.
ReportedUpToHere ==
  /\ emitted # <<>> => emitted[Len(emitted)].last = base + prevScStart
  /\ \A k \in 1 .. Len(emitted) : emitted[k].last <= base + prevScStart
  /\ \A k \in 1 .. Len(emitted) - 1 : emitted[k+1].first = emitted[k].last + 1
  /\ \A j, k \in 1 .. Len(emitted) : j < k => emitted[j].last < emitted[k].first

IInv == TypeOK /\ BufferIsRest /\ AtStartCode /\ ReportedUpToHere

-----------------------------------------------------------------------------
(* Start codes *)

\* A start code stays one when bytes are added at the end or when bytes are
\* removed in front of it.
LEMMA StartCodeKept ==
  ASSUME NEW p \in Seq(Bytes), NEW q \in Seq(Bytes), NEW s \in Nat,
         Len(q) >= Len(p) - s,
         \A k \in 1 .. Len(p) - s : q[k] = p[s + k],
         NEW i \in StartCodes(p, 0), i >= s
  PROVE  i - s \in StartCodes(q, 0)
<1>1. /\ i \in Int /\ i <= Len(p) - 3 /\ Len(p) \in Nat /\ Len(q) \in Nat
  BY DEF StartCodes
<1>2. ASSUME NEW j \in 1 .. 4, i + j <= Len(p)
      PROVE  q[i - s + j] = p[i + j]
  <2>1. i - s + j \in 1 .. Len(p) - s
    BY <1>1, <1>2
  <2>2. q[i - s + j] = p[s + (i - s + j)]
    BY <2>1
  <2>3. s + (i - s + j) = i + j
    BY <1>1
  <2> QED BY <2>2, <2>3
<1>3. /\ q[i - s + 1] = p[i + 1] /\ q[i - s + 2] = p[i + 2] /\ q[i - s + 3] = p[i + 3]
      /\ i + 3 < Len(p) => q[i - s + 4] = p[i + 4]
  BY <1>1, <1>2
<1>4. StartCodeLen(p, i) # 0
  BY DEF StartCodes
<1>5. StartCodeLen(q, i - s) # 0
  BY <1>1, <1>3, <1>4 DEF StartCodeLen
<1> QED BY <1>1, <1>5 DEF StartCodes

LEMMA StartCodeLenRange ==
  ASSUME NEW p, NEW i
  PROVE  StartCodeLen(p, i) \in {0, 3, 4}
BY DEF StartCodeLen

-----------------------------------------------------------------------------
(* One lemma per action *)

LEMMA InitIsGood == Init => IInv
<1> SUFFICES ASSUME Init PROVE IInv
  OBVIOUS
<1>1. TypeOK
  BY DEF Init, TypeOK
<1>2. BufferIsRest /\ AtStartCode /\ ReportedUpToHere
  BY DEF Init, BufferIsRest, AtStartCode, ReportedUpToHere
<1> QED BY <1>1, <1>2 DEF IInv

LEMMA FeedPreserves ==
  ASSUME IInv, NEW chunk \in Chunks, Feed(chunk)
  PROVE  IInv'
<1>1. chunk \in Seq(Bytes) /\ buffer \in Seq(Bytes) /\ stream \in Seq(Bytes)
        /\ base \in Nat /\ prevScStart \in Nat
  BY ChunksAreNotEmpty DEF IInv, TypeOK
<1>2. /\ buffer' \in Seq(Bytes) /\ stream' \in Seq(Bytes)
      /\ Len(buffer') = Len(buffer) + Len(chunk)
      /\ Len(stream') = Len(stream) + Len(chunk)
      /\ Len(buffer) \in Nat /\ Len(stream) \in Nat /\ Len(chunk) \in Nat
  BY <1>1 DEF Feed
<1>3. \A k \in 1 .. Len(buffer') :
        buffer'[k] = IF k <= Len(buffer) THEN buffer[k] ELSE chunk[k - Len(buffer)]
  BY <1>1 DEF Feed
<1>4. \A k \in 1 .. Len(stream') :
        stream'[k] = IF k <= Len(stream) THEN stream[k] ELSE chunk[k - Len(stream)]
  BY <1>1 DEF Feed
<1>5. TypeOK'
  BY <1>2 DEF IInv, TypeOK, Feed
<1>6. BufferIsRest'
  <2>1. base' = base /\ base <= Len(stream) /\ Len(buffer) = Len(stream) - base
        /\ \A k \in 1 .. Len(buffer) : buffer[k] = stream[base + k]
    BY DEF IInv, BufferIsRest, Feed
  <2>2. ASSUME NEW k \in 1 .. Len(buffer') PROVE buffer'[k] = stream'[base + k]
    <3>1. base + k \in 1 .. Len(stream')
      BY <1>1, <1>2, <2>1
    <3>2. k - Len(buffer) = base + k - Len(stream)
            /\ (k <= Len(buffer) <=> base + k <= Len(stream))
      BY <1>1, <1>2, <2>1
    <3>3. buffer'[k] = IF k <= Len(buffer) THEN buffer[k] ELSE chunk[k - Len(buffer)]
      BY <1>3
    <3>4. stream'[base + k] =
            IF base + k <= Len(stream) THEN stream[base + k] ELSE chunk[base + k - Len(stream)]
      BY <1>1, <1>2, <1>4, <3>1
    <3>5. k <= Len(buffer) => buffer[k] = stream[base + k]
      BY <1>2, <2>1
    <3> QED BY <3>2, <3>3, <3>4, <3>5
  <2> QED BY <1>1, <1>2, <2>1, <2>2 DEF BufferIsRest
<1>7. AtStartCode'
  <2>1. pc = "idle" /\ pc' = "scan" /\ emitted' = emitted /\ prevScStart' = prevScStart
    BY DEF Feed
  <2>2. 0 \in StartCodes(buffer, 0) => 0 - 0 \in StartCodes(buffer', 0)
    <3>1. ASSUME NEW k \in 1 .. Len(buffer) - 0 PROVE buffer'[k] = buffer[0 + k]
      <4>1. k \in 1 .. Len(buffer') /\ k <= Len(buffer) /\ 0 + k = k
        BY <1>2
      <4> QED BY <1>3, <4>1
    <3>2. Len(buffer') >= Len(buffer) - 0 /\ 0 >= 0
      BY <1>2
    <3>3. 0 \in Nat
      OBVIOUS
    <3> QED BY <1>1, <1>2, <3>1, <3>2, <3>3, StartCodeKept
  <2> QED BY <2>1, <2>2 DEF AtStartCode, IInv
<1>8. ReportedUpToHere'
  BY DEF IInv, ReportedUpToHere, Feed
<1> QED BY <1>5, <1>6, <1>7, <1>8 DEF IInv

LEMMA ScanNonePreserves ==
  ASSUME IInv, ScanNone
  PROVE  IInv'
<1>1. CASE Len(buffer) > BufferLimit
  <2>1. emitted = <<>> /\ prevScStart = 0
    BY DEF IInv, AtStartCode, ScanNone
  <2>2. /\ buffer' = <<>> /\ base' = Len(stream) /\ dropped' = Len(stream)
        /\ stream' = stream /\ emitted' = emitted /\ prevScStart' = prevScStart
        /\ prevScLen' = prevScLen /\ gaps' = gaps /\ pc' = "idle"
    BY <1>1, LimitIsNat DEF ScanNone, IInv, TypeOK
  <2>3. TypeOK'
    BY <2>2 DEF IInv, TypeOK
  <2>4. BufferIsRest'
    BY <2>2 DEF BufferIsRest, IInv, TypeOK
  <2>5. AtStartCode' /\ ReportedUpToHere'
    BY <2>1, <2>2 DEF AtStartCode, ReportedUpToHere
  <2> QED BY <2>3, <2>4, <2>5 DEF IInv
<1>2. CASE ~(Len(buffer) > BufferLimit)
  <2>1. UNCHANGED <<buffer, prevScStart, prevScLen, stream, base, dropped, emitted, gaps>>
          /\ pc' = "idle" /\ pc = "scan"
    BY <1>2 DEF ScanNone
  <2> QED BY <2>1 DEF IInv, TypeOK, BufferIsRest, AtStartCode, ReportedUpToHere, StartCodes,
                      StartCodeLen
<1> QED BY <1>1, <1>2

LEMMA ScanFirstPreserves ==
  ASSUME IInv, ScanFirst
  PROVE  IInv'
<1>1. PICK i \in StartCodes(buffer, 0) :
        /\ IsNextStartCode(buffer, 0, i)
        /\ prevScStart' = i
        /\ prevScLen' = StartCodeLen(buffer, i)
  BY DEF ScanFirst
<1>2. pc = "scan" /\ pc' = "pairs"
        /\ UNCHANGED <<buffer, stream, base, dropped, emitted, gaps>>
  BY DEF ScanFirst
<1>3. i \in Nat
  BY DEF StartCodes
<1>4. TypeOK'
  BY <1>1, <1>2, <1>3, StartCodeLenRange DEF IInv, TypeOK
<1>5. BufferIsRest'
  BY <1>2 DEF IInv, BufferIsRest
<1>6. AtStartCode'
  <2>1. StartCodes(buffer', 0) = StartCodes(buffer, 0)
          /\ StartCodeLen(buffer', i) = StartCodeLen(buffer, i)
    BY <1>2
  <2> QED BY <1>1, <1>2, <2>1 DEF AtStartCode
<1>7. ReportedUpToHere'
  <2>1. CASE emitted = <<>>
    BY <1>2, <2>1 DEF ReportedUpToHere
  <2>2. CASE emitted # <<>>
    <3>1. 0 \in StartCodes(buffer, 0) /\ prevScStart = 0
      BY <1>2, <2>2 DEF IInv, AtStartCode
    <3>2. i <= 0
      BY <1>1, <3>1 DEF IsNextStartCode
    <3>3. prevScStart' = prevScStart
      BY <1>1, <1>3, <3>1, <3>2
    <3> QED BY <1>2, <3>3 DEF IInv, ReportedUpToHere
  <2> QED BY <2>1, <2>2
<1> QED BY <1>4, <1>5, <1>6, <1>7 DEF IInv

LEMMA ScanNextPreserves ==
  ASSUME IInv, ScanNext
  PROVE  IInv'
<1>1. PICK i \in StartCodes(buffer, cursor) :
        /\ emitted' = Append(emitted, NaluUpTo(i))
        /\ prevScStart' = i
        /\ prevScLen' = StartCodeLen(buffer, i)
  BY DEF ScanNext
<1>2. pc = "pairs" /\ UNCHANGED <<buffer, pc, stream, base, dropped, gaps>>
  BY DEF ScanNext
<1>3. /\ prevScStart \in Nat /\ prevScLen \in {3, 4} /\ base \in Nat
      /\ buffer \in Seq(Bytes) /\ Len(buffer) \in Nat
  <2>1. prevScStart \in Nat /\ base \in Nat /\ buffer \in Seq(Bytes)
    BY DEF IInv, TypeOK
  <2>2. prevScLen # 0
    BY <1>2 DEF IInv, AtStartCode, StartCodes
  <2>3. prevScLen \in {0, 3, 4}
    BY DEF IInv, TypeOK
  <2> QED BY <2>1, <2>2, <2>3
<1>4. /\ i \in Nat /\ i >= prevScStart + prevScLen /\ i <= Len(buffer) - 3
      /\ i \in StartCodes(buffer, 0)
  BY <1>3 DEF StartCodes, cursor
<1> DEFINE n == NaluUpTo(i)
<1>5. n.first = base + prevScStart + 1 /\ n.last = base + i
  BY DEF NaluUpTo
<1>6. n \in [first : Nat, last : Nat, type : 0 .. 31]
  <2>1. prevScStart + prevScLen + 1 \in 1 .. Len(buffer)
    BY <1>3, <1>4
  <2>2. buffer[prevScStart + prevScLen + 1] \in 0 .. 255
    <3>1. buffer[prevScStart + prevScLen + 1] \in Bytes
      BY <1>3, <2>1
    <3> QED BY <3>1, BytesAreBytes
  <2>3. buffer[prevScStart + prevScLen + 1] % 32 \in 0 .. 31
    BY <2>2
  <2>4. base + prevScStart + 1 \in Nat /\ base + i \in Nat
    BY <1>3, <1>4
  <2> QED BY <2>3, <2>4 DEF NaluUpTo
<1> HIDE DEF n
<1>7. emitted \in Seq([first : Nat, last : Nat, type : 0 .. 31])
  BY DEF IInv, TypeOK
<1>8. emitted' = Append(emitted, n)
  BY <1>1 DEF n
<1>9. /\ emitted' \in Seq([first : Nat, last : Nat, type : 0 .. 31])
      /\ Len(emitted') = Len(emitted) + 1 /\ Len(emitted) \in Nat
      /\ \A k \in 1 .. Len(emitted) : emitted'[k] = emitted[k]
      /\ emitted'[Len(emitted) + 1] = n
  BY <1>6, <1>7, <1>8, AppendProperties
<1>10. TypeOK'
  BY <1>1, <1>2, <1>4, <1>9, StartCodeLenRange DEF IInv, TypeOK
<1>11. BufferIsRest'
  BY <1>2 DEF IInv, BufferIsRest
<1>12. AtStartCode'
  <2>1. StartCodes(buffer', 0) = StartCodes(buffer, 0)
          /\ StartCodeLen(buffer', i) = StartCodeLen(buffer, i)
    BY <1>2
  <2> QED BY <1>1, <1>2, <1>4, <2>1 DEF AtStartCode
<1>13. ReportedUpToHere'
  <2>1. \A k \in 1 .. Len(emitted) :
          /\ emitted[k].last \in Nat /\ emitted[k].first \in Nat
          /\ emitted[k].last <= base + prevScStart
    <3>1. ASSUME NEW k \in 1 .. Len(emitted)
          PROVE  emitted[k].last \in Nat /\ emitted[k].first \in Nat
      <4>1. emitted[k] \in [first : Nat, last : Nat, type : 0 .. 31]
        BY <1>7, ElementOfSeq
      <4> QED BY <4>1
    <3> QED BY <3>1 DEF IInv, ReportedUpToHere
  <2>2. emitted'[Len(emitted')].last = base' + prevScStart'
    BY <1>1, <1>2, <1>5, <1>9
  <2>3. \A k \in 1 .. Len(emitted') : emitted'[k].last <= base' + prevScStart'
    <3> TAKE k \in 1 .. Len(emitted')
    <3>1. base' + prevScStart' = base + i
      BY <1>1, <1>2
    <3>2. CASE k = Len(emitted) + 1
      BY <1>3, <1>4, <1>5, <1>9, <3>1, <3>2
    <3>3. CASE k # Len(emitted) + 1
      <4>1. k \in 1 .. Len(emitted) /\ emitted'[k] = emitted[k]
        BY <1>9, <3>3
      <4>2. emitted[k].last \in Nat /\ emitted[k].last <= base + prevScStart
        BY <2>1, <4>1
      <4> QED BY <1>3, <1>4, <3>1, <4>1, <4>2
    <3> QED BY <3>2, <3>3
  <2>4. ASSUME NEW k \in 1 .. Len(emitted') - 1
        PROVE  emitted'[k+1].first = emitted'[k].last + 1
    <3>1. CASE k = Len(emitted)
      <4>1. emitted # <<>> /\ k \in 1 .. Len(emitted)
        BY <1>7, <1>9, <3>1
      <4>2. emitted[k].last = base + prevScStart
        BY <3>1, <4>1 DEF IInv, ReportedUpToHere
      <4> QED BY <1>5, <1>9, <3>1, <4>1, <4>2
    <3>2. CASE k # Len(emitted)
      <4>1. k \in 1 .. Len(emitted) - 1 /\ k \in 1 .. Len(emitted)
              /\ k + 1 \in 1 .. Len(emitted)
        BY <1>9, <3>2
      <4>2. emitted[k+1].first = emitted[k].last + 1
        BY <4>1 DEF IInv, ReportedUpToHere
      <4> QED BY <1>9, <4>1, <4>2
    <3> QED BY <3>1, <3>2
  <2>5. ASSUME NEW j \in 1 .. Len(emitted'), NEW k \in 1 .. Len(emitted'), j < k
        PROVE  emitted'[j].last < emitted'[k].first
    <3>1. j \in 1 .. Len(emitted) /\ emitted'[j] = emitted[j]
      BY <1>9, <2>5
    <3>2. CASE k = Len(emitted) + 1
      BY <1>3, <1>5, <1>9, <2>1, <3>1, <3>2
    <3>3. CASE k # Len(emitted) + 1
      <4>1. k \in 1 .. Len(emitted) /\ emitted'[k] = emitted[k]
        BY <1>9, <3>3
      <4>2. emitted[j].last < emitted[k].first
        BY <2>5, <3>1, <4>1 DEF IInv, ReportedUpToHere
      <4> QED BY <3>1, <4>1, <4>2
    <3> QED BY <3>2, <3>3
  <2> QED BY <2>2, <2>3, <2>4, <2>5 DEF ReportedUpToHere
<1> QED BY <1>10, <1>11, <1>12, <1>13 DEF IInv

LEMMA ScanEndPreserves ==
  ASSUME IInv, ScanEnd
  PROVE  IInv'
<1>1. /\ pc = "pairs" /\ pc' = "idle" /\ prevScStart' = 0 /\ prevScLen' = 0
      /\ buffer' = SubSeq(buffer, prevScStart + 1, Len(buffer))
      /\ base' = base + prevScStart
      /\ UNCHANGED <<stream, dropped, emitted, gaps>>
  BY DEF ScanEnd
<1>2. /\ prevScStart \in Nat /\ base \in Nat /\ buffer \in Seq(Bytes)
      /\ Len(buffer) \in Nat /\ stream \in Seq(Bytes) /\ Len(stream) \in Nat
  BY DEF IInv, TypeOK
<1>3. prevScStart \in StartCodes(buffer, 0) /\ prevScStart + 3 <= Len(buffer)
  BY <1>1, <1>2 DEF IInv, AtStartCode, StartCodes
<1>4. /\ buffer' \in Seq(Bytes)
      /\ Len(buffer') = Len(buffer) - prevScStart
      /\ \A k \in 1 .. Len(buffer) - prevScStart : buffer'[k] = buffer[prevScStart + k]
  <2>1. \A k \in prevScStart + 1 .. Len(buffer) : buffer[k] \in Bytes
    <3> TAKE k \in prevScStart + 1 .. Len(buffer)
    <3>1. k \in 1 .. Len(buffer)
      BY <1>2
    <3> QED BY <1>2, <3>1
  <2>2. /\ SubSeq(buffer, prevScStart + 1, Len(buffer)) \in Seq(Bytes)
        /\ Len(SubSeq(buffer, prevScStart + 1, Len(buffer))) =
             IF prevScStart + 1 <= Len(buffer)
             THEN Len(buffer) - (prevScStart + 1) + 1 ELSE 0
        /\ \A k \in 1 .. Len(buffer) - (prevScStart + 1) + 1 :
             SubSeq(buffer, prevScStart + 1, Len(buffer))[k]
               = buffer[(prevScStart + 1) + k - 1]
    <3>1. prevScStart + 1 \in Int /\ Len(buffer) \in Int
      BY <1>2
    <3> QED BY <2>1, <3>1, SubSeqProperties
  <2>3. ASSUME NEW k \in 1 .. Len(buffer) - prevScStart
        PROVE  buffer'[k] = buffer[prevScStart + k]
    <3>1. k \in 1 .. Len(buffer) - (prevScStart + 1) + 1
            /\ (prevScStart + 1) + k - 1 = prevScStart + k
      BY <1>2
    <3> QED BY <1>1, <2>2, <3>1
  <2>4. Len(buffer') = Len(buffer) - prevScStart
    BY <1>1, <1>2, <1>3, <2>2
  <2> QED BY <1>1, <2>2, <2>3, <2>4
<1>5. TypeOK'
  BY <1>1, <1>2, <1>4 DEF IInv, TypeOK
<1>6. BufferIsRest'
  <2>1. base <= Len(stream) /\ Len(buffer) = Len(stream) - base
          /\ \A k \in 1 .. Len(buffer) : buffer[k] = stream[base + k]
    BY DEF IInv, BufferIsRest
  <2>2. base' <= Len(stream') /\ Len(buffer') = Len(stream') - base'
    BY <1>1, <1>2, <1>3, <1>4, <2>1
  <2>3. ASSUME NEW k \in 1 .. Len(buffer') PROVE buffer'[k] = stream'[base' + k]
    <3>1. k \in 1 .. Len(buffer) - prevScStart /\ prevScStart + k \in 1 .. Len(buffer)
            /\ base + (prevScStart + k) = base' + k
      BY <1>1, <1>2, <1>4
    <3>2. buffer[prevScStart + k] = stream[base + (prevScStart + k)]
      BY <2>1, <3>1
    <3>3. buffer'[k] = buffer[prevScStart + k]
      BY <1>4, <3>1
    <3> QED BY <1>1, <3>1, <3>2, <3>3
  <2> QED BY <2>2, <2>3 DEF BufferIsRest
<1>7. AtStartCode'
  <2>1. prevScStart - prevScStart \in StartCodes(buffer', 0)
    <3>1. Len(buffer') >= Len(buffer) - prevScStart /\ prevScStart >= prevScStart
      BY <1>2, <1>4
    <3> QED BY <1>2, <1>3, <1>4, <3>1, StartCodeKept
  <2>2. prevScStart - prevScStart = 0
    BY <1>2
  <2> QED BY <1>1, <2>1, <2>2 DEF AtStartCode
<1>8. ReportedUpToHere'
  <2>1. base' + prevScStart' = base + prevScStart
    BY <1>1, <1>2
  <2> QED BY <1>1, <2>1 DEF IInv, ReportedUpToHere
<1> QED BY <1>5, <1>6, <1>7, <1>8 DEF IInv

LEMMA LosePreserves ==
  ASSUME IInv, Lose
  PROVE  IInv'
<1>1. UNCHANGED <<buffer, pc, prevScStart, prevScLen, stream, base, dropped, emitted>>
        /\ gaps' = gaps \cup {Len(stream)}
  BY DEF Lose
<1>2. gaps' \subseteq Nat
  <2>1. gaps \subseteq Nat /\ stream \in Seq(Bytes)
    BY DEF IInv, TypeOK
  <2>2. Len(stream) \in Nat
    BY <2>1
  <2> QED BY <1>1, <2>1, <2>2
<1>3. TypeOK'
  BY <1>1, <1>2 DEF IInv, TypeOK
<1> QED BY <1>1, <1>3 DEF IInv, BufferIsRest, AtStartCode, ReportedUpToHere, StartCodes,
                          StartCodeLen

LEMMA ResetPreserves ==
  ASSUME IInv, Reset
  PROVE  IInv'
<1>1. /\ buffer' = <<>> /\ stream' = <<>> /\ emitted' = <<>> /\ gaps' = {}
      /\ base' = 0 /\ dropped' = 0 /\ pc = "idle"
      /\ UNCHANGED <<pc, prevScStart, prevScLen>>
  BY DEF Reset
<1>2. TypeOK'
  BY <1>1 DEF IInv, TypeOK
<1>3. BufferIsRest'
  BY <1>1 DEF BufferIsRest
<1>4. AtStartCode' /\ ReportedUpToHere'
  BY <1>1 DEF IInv, AtStartCode, ReportedUpToHere
<1> QED BY <1>2, <1>3, <1>4 DEF IInv

LEMMA StutterPreserves ==
  ASSUME IInv, UNCHANGED vars
  PROVE  IInv'
BY DEF vars, IInv, TypeOK, BufferIsRest, AtStartCode, ReportedUpToHere, StartCodes,
       StartCodeLen

\* The inductive invariant of the demuxer: buffer_ is the part of the stream not
\* yet consumed, and what was reported ends where the NALU being cut begins
\* (LiveVideoEngine.h:163-245).
THEOREM DemuxerInvariance == Spec => []IInv
<1>1. Init => IInv
  BY InitIsGood
<1>2. IInv /\ [Next]_vars => IInv'
  <2> SUFFICES ASSUME IInv, [Next]_vars PROVE IInv'
    OBVIOUS
  <2>1. CASE \E chunk \in Chunks : Feed(chunk)
    BY <2>1, FeedPreserves
  <2>2. CASE Scan
    BY <2>2, ScanNonePreserves, ScanFirstPreserves, ScanNextPreserves, ScanEndPreserves
       DEF Scan
  <2>3. CASE Lose
    BY <2>3, LosePreserves
  <2>4. CASE Reset
    BY <2>4, ResetPreserves
  <2>5. CASE UNCHANGED vars
    BY <2>5, StutterPreserves
  <2> QED BY <2>1, <2>2, <2>3, <2>4, <2>5 DEF Next
<1> QED BY <1>1, <1>2, PTL DEF Spec

-----------------------------------------------------------------------------
(* What it implies *)

LEMMA RestIsSubSeq ==
  ASSUME IInv
  PROVE  buffer = SubSeq(stream, base + 1, Len(stream))
<1>1. /\ base \in Nat /\ buffer \in Seq(Bytes) /\ stream \in Seq(Bytes)
      /\ Len(buffer) \in Nat /\ Len(stream) \in Nat
  BY DEF IInv, TypeOK
<1>2. base <= Len(stream) /\ Len(buffer) = Len(stream) - base
        /\ \A k \in 1 .. Len(buffer) : buffer[k] = stream[base + k]
  BY DEF IInv, BufferIsRest
<1> DEFINE rest == SubSeq(stream, base + 1, Len(stream))
<1>3. /\ rest \in Seq(Bytes)
      /\ Len(rest) = IF base + 1 <= Len(stream) THEN Len(stream) - (base + 1) + 1 ELSE 0
      /\ \A k \in 1 .. Len(stream) - (base + 1) + 1 : rest[k] = stream[(base + 1) + k - 1]
  <2>1. \A k \in base + 1 .. Len(stream) : stream[k] \in Bytes
    <3> TAKE k \in base + 1 .. Len(stream)
    <3>1. k \in 1 .. Len(stream)
      BY <1>1
    <3> QED BY <1>1, <3>1
  <2>2. base + 1 \in Int /\ Len(stream) \in Int
    BY <1>1
  <2> QED BY <2>1, <2>2, SubSeqProperties
<1> HIDE DEF rest
<1>4. Len(buffer) = Len(rest)
  BY <1>1, <1>2, <1>3
<1>5. ASSUME NEW k \in 1 .. Len(buffer) PROVE buffer[k] = rest[k]
  <2>1. k \in 1 .. Len(stream) - (base + 1) + 1 /\ (base + 1) + k - 1 = base + k
    BY <1>1, <1>2
  <2> QED BY <1>2, <1>3, <2>1
<1>6. buffer = rest
  BY <1>1, <1>3, <1>4, <1>5, SeqEqual
<1> QED BY <1>6 DEF rest

\* The NALUs handed to handleNalu follow one another without a gap or an overlap,
\* and the unfinished one waits whole in buffer_.
THEOREM NalusTileTheStream == Spec => []Tiles
<1>1. IInv => Tiles
  <2> SUFFICES ASSUME IInv PROVE Tiles
    OBVIOUS
  <2>1. \A k \in 1 .. Len(emitted) - 1 : emitted[k+1].first = emitted[k].last + 1
    BY DEF IInv, ReportedUpToHere
  <2>2. (pc = "idle" /\ emitted # <<>>) => emitted[Len(emitted)].last = base
    <3> HAVE pc = "idle" /\ emitted # <<>>
    <3>1. emitted[Len(emitted)].last = base + prevScStart /\ prevScStart = 0
      BY DEF IInv, ReportedUpToHere, AtStartCode
    <3>2. base \in Nat
      BY DEF IInv, TypeOK
    <3> QED BY <3>1, <3>2
  <2> QED BY <2>1, <2>2, RestIsSubSeq DEF Tiles, IInv
<1> QED BY <1>1, DemuxerInvariance, PTL

\* Bytes missing at one place of the stream end up inside one NALU at most.
THEOREM LossDamagesOneNalu == Spec => []DamageIsLocal
<1>1. IInv => DamageIsLocal
  <2> SUFFICES ASSUME IInv, NEW g \in gaps, NEW j \in DOMAIN emitted,
                      NEW k \in DOMAIN emitted,
                      Spans(emitted[j], g), Spans(emitted[k], g), j # k
               PROVE  FALSE
    BY DEF DamageIsLocal
  <2>1. emitted \in Seq([first : Nat, last : Nat, type : 0 .. 31]) /\ g \in Nat
    BY DEF IInv, TypeOK
  <2>2. j \in 1 .. Len(emitted) /\ k \in 1 .. Len(emitted) /\ Len(emitted) \in Nat
    BY <2>1
  <2>3. /\ emitted[j].first \in Nat /\ emitted[j].last \in Nat
        /\ emitted[k].first \in Nat /\ emitted[k].last \in Nat
    <3>1. emitted[j] \in [first : Nat, last : Nat, type : 0 .. 31]
            /\ emitted[k] \in [first : Nat, last : Nat, type : 0 .. 31]
      BY <2>1, <2>2, ElementOfSeq
    <3> QED BY <3>1
  <2>4. /\ j < k => emitted[j].last < emitted[k].first
        /\ k < j => emitted[k].last < emitted[j].first
    BY <2>2 DEF IInv, ReportedUpToHere
  <2>5. j < k \/ k < j
    BY <2>2
  <2> QED BY <2>1, <2>3, <2>4, <2>5 DEF Spans
<1> QED BY <1>1, DemuxerInvariance, PTL

-----------------------------------------------------------------------------
(* The NALUs reported are those of the reference definition *)

\* The position of stream at which the start code of the NALU being cut ends.
Here == base + (IF pc = "pairs" THEN prevScStart + prevScLen ELSE StartCodeLen(buffer, 0))

NaluOf(d, e) ==
  [first |-> CodeStart(d), last |-> CodeStart(e) - 1, type |-> stream[d + 1] % 32]

\* The start code found by the scan is one of the reference definition, with the
\* same first byte; when feed() has returned there is none behind it.
OnBoundary ==
  /\ dropped <= base
  /\ (pc # "pairs" /\ dropped < base) => 0 \in StartCodes(buffer, 0)
  /\ (pc = "pairs" \/ 0 \in StartCodes(buffer, 0)) =>
       Here \in Ends /\ CodeStart(Here) = base + prevScStart + 1
  /\ pc = "idle" => StartCodes(buffer, StartCodeLen(buffer, 0)) = {}

OnlyReferenceNalus ==
  \A k \in 1 .. Len(emitted) : \E d, e \in Ends :
    Consecutive(d, e) /\ e <= Here /\ emitted[k] = NaluOf(d, e)

EveryReferenceNalu ==
  \A d, e \in Ends : Consecutive(d, e) /\ e <= Here =>
    \E k \in 1 .. Len(emitted) : emitted[k] = NaluOf(d, e)

SplitInv == IInv /\ OnBoundary /\ OnlyReferenceNalus /\ EveryReferenceNalu

\* The same place of two buffers that hold the same bytes from there on.
LEMMA StartCodeLenShift ==
  ASSUME NEW p \in Seq(Bytes), NEW q \in Seq(Bytes), NEW s \in Nat, NEW i \in Nat,
         Len(q) >= Len(p) - s,
         \A k \in 1 .. Len(p) - s : q[k] = p[s + k],
         StartCodeLen(p, s + i) # 0
  PROVE  StartCodeLen(q, i) = StartCodeLen(p, s + i)
<1>1. Len(p) \in Nat /\ Len(q) \in Nat
  OBVIOUS
<1>2. ASSUME NEW j \in 1 .. 4, s + i + j <= Len(p)
      PROVE  q[i + j] = p[s + i + j]
  <2>1. i + j \in 1 .. Len(p) - s
    BY <1>1, <1>2
  <2>2. q[i + j] = p[s + (i + j)]
    BY <2>1
  <2>3. s + (i + j) = s + i + j
    BY <1>1
  <2> QED BY <2>2, <2>3
<1>3. s + i + 2 < Len(p)
  BY <1>1 DEF StartCodeLen
<1>4. /\ q[i + 1] = p[s + i + 1] /\ q[i + 2] = p[s + i + 2] /\ q[i + 3] = p[s + i + 3]
      /\ s + i + 3 < Len(p) => q[i + 4] = p[s + i + 4]
  BY <1>1, <1>2, <1>3
<1> QED BY <1>1, <1>3, <1>4 DEF StartCodeLen

LEMMA BufferTypes ==
  ASSUME IInv
  PROVE  /\ buffer \in Seq(Bytes) /\ stream \in Seq(Bytes)
         /\ Len(buffer) \in Nat /\ Len(stream) \in Nat
         /\ base \in Nat /\ dropped \in Nat /\ prevScStart \in Nat
         /\ base <= Len(stream) /\ Len(buffer) = Len(stream) - base
<1>1. /\ buffer \in Seq(Bytes) /\ stream \in Seq(Bytes)
      /\ base \in Nat /\ dropped \in Nat /\ prevScStart \in Nat
  BY DEF IInv, TypeOK
<1> QED BY <1>1 DEF IInv, BufferIsRest

LEMMA Offsets ==
  ASSUME IInv
  PROVE  /\ Len(buffer) \in Nat /\ Len(stream) \in Nat
         /\ base \in Nat /\ dropped \in Nat /\ prevScStart \in Nat
         /\ base <= Len(stream) /\ Len(buffer) = Len(stream) - base
BY BufferTypes

\* A start code that the scan sees is one of the reference definition; the first
\* bytes agree if no further 00 precedes that could belong to it.
LEMMA CodeIsEnd ==
  ASSUME IInv, dropped <= base, NEW i \in StartCodes(buffer, 0),
         (StartCodeLen(buffer, i) = 3 /\ base + i > dropped) => stream[base + i] # 0
  PROVE  /\ base + i + StartCodeLen(buffer, i) \in Ends
         /\ CodeStart(base + i + StartCodeLen(buffer, i)) = base + i + 1
<1>1. i \in Nat /\ StartCodeLen(buffer, i) # 0 /\ i <= Len(buffer) - 3
  BY Offsets DEF StartCodes
<1>2. ASSUME NEW j \in 1 .. 4, i + j <= Len(buffer)
      PROVE  buffer[i + j] = stream[base + i + j]
  <2>1. i + j \in 1 .. Len(buffer)
    BY <1>1, <1>2, Offsets
  <2>2. buffer[i + j] = stream[base + (i + j)]
    BY <2>1 DEF IInv, BufferIsRest
  <2>3. base + (i + j) = base + i + j
    BY <1>1, Offsets
  <2> QED BY <2>2, <2>3
<1>5. /\ buffer[i + 1] = stream[base + i + 1] /\ buffer[i + 2] = stream[base + i + 2]
      /\ buffer[i + 3] = stream[base + i + 3]
      /\ i + 4 <= Len(buffer) => buffer[i + 4] = stream[base + i + 4]
  <2>1. i + 1 <= Len(buffer) /\ i + 2 <= Len(buffer) /\ i + 3 <= Len(buffer)
    BY <1>1, Offsets
  <2> QED BY <1>2, <2>1
<1>3. CASE StartCodeLen(buffer, i) = 3
  <2>1. buffer[i+1] = 0 /\ buffer[i+2] = 0 /\ buffer[i+3] = 1 /\ i + 3 <= Len(buffer)
    BY <1>1, <1>3, Offsets DEF StartCodeLen
  <2>2. stream[base + i + 1] = 0 /\ stream[base + i + 2] = 0 /\ stream[base + i + 3] = 1
    BY <1>5, <2>1
  <2> DEFINE e == base + i + 3
  <2>3. /\ e \in dropped + 3 .. Len(stream)
        /\ e - 1 = base + i + 2 /\ e - 2 = base + i + 1 /\ e - 3 = base + i
    BY <1>1, <2>1, Offsets
  <2>4. e \in Ends
    BY <2>2, <2>3 DEF Ends
  <2>5. CodeStart(e) = base + i + 1
    BY <1>3, <2>3 DEF CodeStart
  <2> QED BY <1>3, <2>4, <2>5
<1>4. CASE StartCodeLen(buffer, i) = 4
  <2>1. /\ buffer[i+1] = 0 /\ buffer[i+2] = 0 /\ buffer[i+3] = 0 /\ buffer[i+4] = 1
        /\ i + 4 <= Len(buffer)
    BY <1>1, <1>4, Offsets DEF StartCodeLen
  <2>2. /\ stream[base + i + 1] = 0 /\ stream[base + i + 2] = 0
        /\ stream[base + i + 3] = 0 /\ stream[base + i + 4] = 1
    BY <1>5, <2>1
  <2> DEFINE e == base + i + 4
  <2>3. /\ e \in dropped + 3 .. Len(stream) /\ e - 3 > dropped
        /\ e - 1 = base + i + 3 /\ e - 2 = base + i + 2 /\ e - 3 = base + i + 1
    <3>1. i \in Nat /\ i + 4 <= Len(buffer)
      BY <1>1, <2>1
    <3>2. base + i + 4 <= Len(stream) /\ base + i + 4 >= dropped + 3
            /\ base + i + 4 \in Int /\ base + i + 1 > dropped
      BY <3>1, Offsets
    <3>3. base \in Int /\ dropped \in Int /\ Len(stream) \in Int /\ i \in Int
      BY <1>1, Offsets
    <3> QED BY <3>2, <3>3
  <2>4. e \in Ends
    BY <2>2, <2>3 DEF Ends
  <2>5. CodeStart(e) = base + i + 1
    BY <2>2, <2>3 DEF CodeStart
  <2> QED BY <1>4, <2>4, <2>5
<1> QED BY <1>1, <1>3, <1>4, StartCodeLenRange

\* A start code of the reference definition that lies in the buffer from some
\* offset on is seen by the scan.
LEMMA EndIsCode ==
  ASSUME IInv, NEW from \in Nat, NEW e \in Ends, base + from + 3 <= e
  PROVE  /\ e - 3 - base \in StartCodes(buffer, from)
         /\ StartCodeLen(buffer, e - 3 - base) = 3
<1>1. /\ e \in Int /\ e <= Len(stream)
      /\ stream[e] = 1 /\ stream[e-1] = 0 /\ stream[e-2] = 0
  BY Offsets DEF Ends
<1> DEFINE i == e - 3 - base
<1>0. e \in Int /\ e <= Len(stream)
  BY <1>1
<1>2. i \in Nat /\ i >= from /\ i <= Len(buffer) - 3 /\ base + i = e - 3
  <2>1. base + from + 3 <= e
    OBVIOUS
  <2>2. base \in Int /\ from \in Int /\ from >= 0 /\ Len(buffer) = Len(stream) - base
          /\ Len(stream) \in Int
    BY Offsets
  <2> QED BY <1>0, <2>1, <2>2
<1>3. ASSUME NEW j \in 1 .. 3 PROVE buffer[i + j] = stream[e - 3 + j]
  <2> HIDE DEF i
  <2>1. i + j \in 1 .. Len(buffer)
    BY <1>2, Offsets
  <2>2. base + (i + j) = e - 3 + j
    <3>1. base \in Int /\ i \in Int /\ j \in Int /\ base + i = e - 3
      BY <1>2, Offsets
    <3>2. base + (i + j) = (base + i) + j
      BY <3>1
    <3> QED BY <3>1, <3>2
  <2>3. buffer[i + j] = stream[base + (i + j)]
    BY <2>1 DEF IInv, BufferIsRest
  <2> QED BY <2>2, <2>3
<1> HIDE DEF i
<1>4. buffer[i + 1] = 0 /\ buffer[i + 2] = 0 /\ buffer[i + 3] = 1
  <2>1. e - 3 + 1 = e - 2 /\ e - 3 + 2 = e - 1 /\ e - 3 + 3 = e
    BY <1>1
  <2>2. /\ buffer[i + 1] = stream[e - 3 + 1] /\ buffer[i + 2] = stream[e - 3 + 2]
        /\ buffer[i + 3] = stream[e - 3 + 3]
    BY <1>3
  <2> QED BY <1>1, <2>1, <2>2
<1>5. StartCodeLen(buffer, i) = 3
  BY <1>2, <1>4, Offsets DEF StartCodeLen
<1>6. i \in StartCodes(buffer, from)
  BY <1>2, <1>5, Offsets DEF StartCodes
<1> QED BY <1>5, <1>6 DEF i

\* What one search of the scan finds is the next start code of the reference
\* definition, if the search begins where no 00 can be missed.
LEMMA SearchFindsNext ==
  ASSUME IInv, dropped <= base, NEW from \in Nat, NEW i, IsNextStartCode(buffer, from, i),
         base + from > dropped => stream[base + from] # 0
  PROVE  /\ i \in StartCodes(buffer, 0) /\ i \in Nat /\ i >= from
         /\ base + i + StartCodeLen(buffer, i) \in Ends
         /\ CodeStart(base + i + StartCodeLen(buffer, i)) = base + i + 1
         /\ \A f \in Ends : base + from + 3 <= f => base + i + StartCodeLen(buffer, i) <= f
<1>1. i \in Nat /\ i >= from /\ i \in StartCodes(buffer, 0) /\ i \in StartCodes(buffer, from)
  BY Offsets DEF IsNextStartCode, StartCodes
<1>2. StartCodeLen(buffer, i) \in {3, 4} /\ i <= Len(buffer) - 3
  BY <1>1, Offsets, StartCodeLenRange DEF StartCodes
<1>3. (StartCodeLen(buffer, i) = 3 /\ base + i > dropped) => stream[base + i] # 0
  <2> SUFFICES ASSUME StartCodeLen(buffer, i) = 3, base + i > dropped, stream[base + i] = 0
               PROVE  FALSE
    OBVIOUS
  <2>1. i # from
    OBVIOUS
  <2>2. i - 1 \in Nat /\ i - 1 >= from /\ i \in 1 .. Len(buffer)
    BY <1>1, <1>2, <2>1, Offsets
  <2>3. buffer[i] = 0
    BY <2>2 DEF IInv, BufferIsRest
  <2>4. buffer[i+1] = 0 /\ buffer[i+2] = 0 /\ buffer[i+3] = 1
    BY <1>1 DEF StartCodeLen
  <2>5. StartCodeLen(buffer, i - 1) # 0
    <3>1. (i - 1) + 1 = i /\ (i - 1) + 2 = i + 1 /\ (i - 1) + 3 = i + 2
            /\ (i - 1) + 4 = i + 3 /\ (i - 1) + 3 < Len(buffer)
      BY <1>1, <1>2, Offsets
    <3> QED BY <2>3, <2>4, <3>1 DEF StartCodeLen
  <2>6. i - 1 \in StartCodes(buffer, from)
    BY <1>1, <1>2, <2>2, <2>5, Offsets DEF StartCodes
  <2> QED BY <1>1, <2>6 DEF IsNextStartCode
<1>4. /\ base + i + StartCodeLen(buffer, i) \in Ends
      /\ CodeStart(base + i + StartCodeLen(buffer, i)) = base + i + 1
  BY <1>1, <1>3, CodeIsEnd
<1>5. ASSUME NEW f \in Ends, base + from + 3 <= f
      PROVE  base + i + StartCodeLen(buffer, i) <= f
  <2>1. f - 3 - base \in StartCodes(buffer, from) /\ StartCodeLen(buffer, f - 3 - base) = 3
    BY <1>5, EndIsCode
  <2>2. i <= f - 3 - base /\ f \in Int
    BY <2>1, Offsets DEF IsNextStartCode, Ends
  <2>3. CASE StartCodeLen(buffer, i) = 3
    BY <1>1, <2>2, <2>3, Offsets
  <2>4. CASE StartCodeLen(buffer, i) = 4
    <3>1. i # f - 3 - base
      BY <2>1, <2>4
    <3> QED BY <1>1, <2>2, <2>4, <3>1, Offsets
  <2> QED BY <1>2, <2>3, <2>4
<1> QED BY <1>1, <1>4, <1>5

LEMMA StartCodeLenEqual ==
  ASSUME NEW p \in Seq(Bytes), NEW q \in Seq(Bytes), NEW s \in Nat, NEW i \in Nat,
         Len(q) = Len(p) - s,
         \A k \in 1 .. Len(p) - s : q[k] = p[s + k]
  PROVE  StartCodeLen(q, i) = StartCodeLen(p, s + i)
<1>1. Len(p) \in Nat /\ Len(q) \in Nat
  OBVIOUS
<1>2. ASSUME NEW j \in 1 .. 4, s + i + j <= Len(p)
      PROVE  q[i + j] = p[s + i + j]
  <2>1. i + j \in 1 .. Len(p) - s
    BY <1>1, <1>2
  <2>2. q[i + j] = p[s + (i + j)]
    BY <2>1
  <2>3. s + (i + j) = s + i + j
    BY <1>1
  <2> QED BY <2>2, <2>3
<1>3. CASE s + i + 2 < Len(p)
  <2>1. /\ q[i + 1] = p[s + i + 1] /\ q[i + 2] = p[s + i + 2] /\ q[i + 3] = p[s + i + 3]
        /\ s + i + 3 < Len(p) => q[i + 4] = p[s + i + 4]
    BY <1>1, <1>2, <1>3
  <2> QED BY <1>1, <1>3, <2>1 DEF StartCodeLen
<1>4. CASE ~(s + i + 2 < Len(p))
  BY <1>1, <1>4 DEF StartCodeLen
<1> QED BY <1>3, <1>4

\* Two start codes do not overlap.
LEMMA EndsApart ==
  ASSUME IInv, NEW d \in Ends, NEW e \in Ends, d < e
  PROVE  d + 3 <= e
<1>1. d \in Int /\ e \in Int
  BY Offsets DEF Ends
<1>2. stream[d] = 1 /\ stream[e - 1] = 0 /\ stream[e - 2] = 0
  BY DEF Ends
<1>3. d # e - 1 /\ d # e - 2
  BY <1>2
<1> QED BY <1>1, <1>3

LEMMA EndsInStream ==
  ASSUME IInv
  PROVE  \A e \in Ends : e \in Int /\ dropped + 3 <= e /\ e <= Len(stream)
BY Offsets DEF Ends

LEMMA CodeAtFront ==
  IInv => (0 \in StartCodes(buffer, 0) <=> StartCodeLen(buffer, 0) # 0)
<1> SUFFICES ASSUME IInv
             PROVE  0 \in StartCodes(buffer, 0) <=> StartCodeLen(buffer, 0) # 0
  OBVIOUS
<1>1. Len(buffer) \in Nat
  BY Offsets
<1> QED BY <1>1 DEF StartCodes, StartCodeLen

\* Before anything was consumed, there is no NALU to report.
LEMMA NothingBeforeFirst ==
  IInv /\ base = dropped /\ pc # "pairs" => ~ \E d, e \in Ends : d < e /\ e <= Here
<1> SUFFICES ASSUME IInv, base = dropped, pc # "pairs",
                    NEW d \in Ends, NEW e \in Ends, d < e, e <= Here
             PROVE  FALSE
  OBVIOUS
<1>1. d + 3 <= e /\ d \in Int /\ e \in Int /\ dropped + 3 <= d
  BY EndsApart, EndsInStream
<1>2. Here = base + StartCodeLen(buffer, 0)
  BY DEF Here
<1>3. e <= base + 4
  BY <1>1, <1>2, Offsets, StartCodeLenRange
<1> QED BY <1>1, <1>3, Offsets

LEMMA FirstCodeIsEnd ==
  IInv /\ base = dropped /\ pc # "pairs" /\ 0 \in StartCodes(buffer, 0) =>
    Here \in Ends /\ CodeStart(Here) = base + prevScStart + 1
<1> SUFFICES ASSUME IInv, base = dropped, pc # "pairs", 0 \in StartCodes(buffer, 0)
             PROVE  Here \in Ends /\ CodeStart(Here) = base + prevScStart + 1
  OBVIOUS
<1>1. prevScStart = 0
  BY DEF IInv, AtStartCode
<1>2. dropped <= base /\ ~(base + 0 > dropped)
  BY Offsets
<1>3. base + 0 + StartCodeLen(buffer, 0) = Here /\ base + 0 + 1 = base + prevScStart + 1
  BY <1>1, Offsets, StartCodeLenRange DEF Here
<1>4. /\ base + 0 + StartCodeLen(buffer, 0) \in Ends
      /\ CodeStart(base + 0 + StartCodeLen(buffer, 0)) = base + 0 + 1
  BY <1>2, CodeIsEnd
<1> QED BY <1>3, <1>4

LEMMA SameReference ==
  ASSUME OnlyReferenceNalus, EveryReferenceNalu,
         UNCHANGED <<stream, dropped, emitted>>, Here' = Here
  PROVE  OnlyReferenceNalus' /\ EveryReferenceNalu'
<1>1. Ends' = Ends
  BY DEF Ends
<1>2. \A d, e : Consecutive(d, e)' <=> Consecutive(d, e)
  BY <1>1 DEF Consecutive
<1>3. \A d : CodeStart(d)' = CodeStart(d)
  BY DEF CodeStart
<1>4. \A d, e : NaluOf(d, e)' = NaluOf(d, e)
  BY <1>3 DEF NaluOf
<1>5. OnlyReferenceNalus'
  BY <1>1, <1>2, <1>4 DEF OnlyReferenceNalus
<1>6. EveryReferenceNalu'
  BY <1>1, <1>2, <1>4 DEF EveryReferenceNalu
<1> QED BY <1>5, <1>6

\* While nothing was reported and no start code but that of the NALU being cut
\* was passed.
LEMMA NothingReported ==
  ASSUME emitted' = <<>>, ~ (\E d, e \in Ends : d < e /\ e <= Here)'
  PROVE  OnlyReferenceNalus' /\ EveryReferenceNalu'
BY DEF OnlyReferenceNalus, EveryReferenceNalu, Consecutive

-----------------------------------------------------------------------------

LEMMA InitSplits == Init => SplitInv
<1> SUFFICES ASSUME Init PROVE SplitInv
  OBVIOUS
<1>1. IInv /\ base = dropped /\ pc = "idle" /\ emitted = <<>> /\ buffer = <<>>
  BY InitIsGood DEF Init
<1>2. ~ \E d, e \in Ends : d < e /\ e <= Here
  BY <1>1, NothingBeforeFirst
<1>3. OnlyReferenceNalus /\ EveryReferenceNalu
  BY <1>1, <1>2 DEF OnlyReferenceNalus, EveryReferenceNalu, Consecutive
<1>4. StartCodeLen(buffer, 0) = 0 /\ StartCodes(buffer, 0) = {}
  BY <1>1 DEF StartCodes, StartCodeLen
<1>5. OnBoundary
  BY <1>1, <1>4, Offsets DEF OnBoundary
<1> QED BY <1>1, <1>3, <1>5 DEF SplitInv

\* More bytes do not change how the bytes received before divide.
LEMMA FeedKeepsReference ==
  ASSUME IInv, NEW chunk \in Chunks, Feed(chunk)
  PROVE  /\ Len(stream) <= Len(stream') /\ Len(stream') \in Nat
         /\ \A e \in Int : e <= Len(stream) => (e \in Ends' <=> e \in Ends)
         /\ \A e \in Ends : CodeStart(e)' = CodeStart(e)
         /\ \A e \in Int : dropped + 1 <= e /\ e <= Len(stream) => stream'[e] = stream[e]
<1>1. chunk \in Seq(Bytes) /\ stream \in Seq(Bytes) /\ dropped \in Nat
  BY ChunksAreNotEmpty, BufferTypes
<1>2. /\ stream' \in Seq(Bytes) /\ Len(stream') = Len(stream) + Len(chunk)
      /\ Len(stream) \in Nat /\ Len(chunk) \in Nat /\ dropped' = dropped
  BY <1>1 DEF Feed
<1>3. \A k \in 1 .. Len(stream') :
        stream'[k] = IF k <= Len(stream) THEN stream[k] ELSE chunk[k - Len(stream)]
  BY <1>1 DEF Feed
<1>4. ASSUME NEW e \in Int, dropped + 1 <= e, e <= Len(stream)
      PROVE  stream'[e] = stream[e]
  <2>1. e \in 1 .. Len(stream')
    BY <1>1, <1>2, <1>4
  <2> QED BY <1>3, <1>4, <2>1
<1>5. ASSUME NEW e \in Int, e <= Len(stream)
      PROVE  e \in Ends' <=> e \in Ends
  <2>1. CASE dropped + 3 <= e
    <3>1. stream'[e] = stream[e] /\ stream'[e - 1] = stream[e - 1]
            /\ stream'[e - 2] = stream[e - 2]
      <4>1. /\ e - 1 \in Int /\ dropped + 1 <= e - 1 /\ e - 1 <= Len(stream)
            /\ e - 2 \in Int /\ dropped + 1 <= e - 2 /\ e - 2 <= Len(stream)
            /\ dropped + 1 <= e
        BY <1>1, <1>2, <1>5, <2>1
      <4> QED BY <1>4, <1>5, <4>1
    <3>2. e \in dropped + 3 .. Len(stream) /\ e \in dropped' + 3 .. Len(stream')
      BY <1>1, <1>2, <1>5, <2>1
    <3> QED BY <3>1, <3>2 DEF Ends
  <2>2. CASE ~(dropped + 3 <= e)
    <3>1. e \notin dropped + 3 .. Len(stream) /\ e \notin dropped' + 3 .. Len(stream')
      BY <1>1, <1>2, <2>2
    <3> QED BY <3>1 DEF Ends
  <2> QED BY <2>1, <2>2
<1>6. ASSUME NEW e \in Ends
      PROVE  CodeStart(e)' = CodeStart(e)
  <2>1. e \in Int /\ e <= Len(stream)
    BY EndsInStream
  <2>2. e - 3 > dropped => stream'[e - 3] = stream[e - 3]
    BY <1>1, <1>2, <1>4, <2>1
  <2> QED BY <1>2, <2>2 DEF CodeStart
<1> QED BY <1>2, <1>4, <1>5, <1>6

LEMMA FeedSplits ==
  ASSUME SplitInv, NEW chunk \in Chunks, Feed(chunk)
  PROVE  SplitInv'
<1>1. IInv /\ IInv' /\ OnBoundary /\ OnlyReferenceNalus /\ EveryReferenceNalu
  BY FeedPreserves DEF SplitInv
<1>2. pc = "idle" /\ pc' = "scan" /\ UNCHANGED <<prevScStart, base, dropped, emitted>>
  BY DEF Feed
<1>3. CASE 0 \in StartCodes(buffer, 0)
  <2>1. StartCodeLen(buffer', 0) = StartCodeLen(buffer, 0)
    <3>1. chunk \in Seq(Bytes) /\ buffer \in Seq(Bytes) /\ buffer' \in Seq(Bytes)
      BY <1>1, ChunksAreNotEmpty, BufferTypes DEF Feed
    <3>2. Len(buffer') >= Len(buffer) - 0
      BY <3>1 DEF Feed
    <3>3. ASSUME NEW k \in 1 .. Len(buffer) - 0 PROVE buffer'[k] = buffer[0 + k]
      <4>1. k \in 1 .. Len(buffer) /\ 0 + k = k
        BY <3>1
      <4>2. (buffer \o chunk)[k] = buffer[k]
        BY <3>1, <4>1
      <4> QED BY <4>1, <4>2 DEF Feed
    <3>4. StartCodeLen(buffer, 0 + 0) # 0
      BY <1>3 DEF StartCodes
    <3>5. 0 \in Nat /\ 0 + 0 = 0
      OBVIOUS
    <3> QED BY <3>1, <3>2, <3>3, <3>4, <3>5, StartCodeLenShift
  <2>2. Here' = Here /\ Here \in Ends /\ CodeStart(Here) = base + prevScStart + 1
    <3>1. Here' = Here
      BY <1>2, <2>1 DEF Here
    <3> QED BY <1>1, <1>3, <3>1 DEF OnBoundary
  <2>3. Here \in Int /\ Here <= Len(stream)
    BY <1>1, <2>2, EndsInStream
  <2>4. /\ \A e \in Int : e <= Len(stream) => (e \in Ends' <=> e \in Ends)
        /\ \A e \in Ends : CodeStart(e)' = CodeStart(e)
        /\ \A e \in Ends' : e \in Int
    BY <1>1, FeedKeepsReference, Offsets DEF Ends
  <2>5. OnBoundary'
    <3>1. (0 \in StartCodes(buffer, 0))'
      <4>1. (IInv => (0 \in StartCodes(buffer, 0) <=> StartCodeLen(buffer, 0) # 0))'
        BY CodeAtFront, PTL
      <4>2. StartCodeLen(buffer', 0) # 0
        BY <1>3, <2>1 DEF StartCodes
      <4> QED BY <1>1, <4>1, <4>2
    <3>2. Here \in Ends' /\ CodeStart(Here)' = base + prevScStart + 1
      <4>1. Here \in Ends'
        BY <2>2, <2>3, <2>4
      <4>2. \A e \in Ends : CodeStart(e)' = CodeStart(e)
        BY <2>4
      <4> QED BY <1>2, <2>2, <4>1, <4>2 DEF CodeStart
    <3>3. dropped' <= base'
      BY <1>1, <1>2 DEF OnBoundary
    <3> QED BY <1>2, <2>2, <3>1, <3>2, <3>3 DEF OnBoundary
  <2>6. ASSUME NEW d \in Int, NEW e \in Int, e <= Here
        PROVE  (d \in Ends /\ e \in Ends /\ Consecutive(d, e))
                 <=> (d \in Ends' /\ e \in Ends' /\ Consecutive(d, e)')
    <3>1. e <= Len(stream) /\ Len(stream) \in Int
      BY <2>3, <2>6, Offsets, <1>1
    <3>2. \A f \in Ends : f \in Ends'
      BY <1>1, <2>4, EndsInStream
    <3>3. ASSUME d < e, d \in Ends, \A f \in Ends : f <= d \/ e <= f, NEW f \in Ends'
          PROVE  f <= d \/ e <= f
      BY <2>4, <3>1, <3>3
    <3>4. d < e => (d \in Ends <=> d \in Ends')
      BY <2>4, <3>1
    <3> QED BY <2>4, <3>1, <3>2, <3>3, <3>4 DEF Consecutive
  <2>7. ASSUME NEW d \in Ends, NEW e \in Ends, d < e
        PROVE  NaluOf(d, e)' = NaluOf(d, e)
    <3>1. d + 1 \in Int /\ dropped + 1 <= d + 1 /\ d + 1 <= Len(stream)
      BY <1>1, <2>7, EndsInStream, Offsets
    <3>2. stream'[d + 1] = stream[d + 1]
      BY <1>1, <3>1, FeedKeepsReference
    <3> QED BY <2>4, <3>2 DEF NaluOf
  <2>8. OnlyReferenceNalus'
    <3> SUFFICES ASSUME NEW k \in 1 .. Len(emitted)
                 PROVE  \E d, e \in Ends' :
                          Consecutive(d, e)' /\ e <= Here /\ emitted[k] = NaluOf(d, e)'
      BY <1>2, <2>2 DEF OnlyReferenceNalus
    <3>1. PICK d \in Ends, e \in Ends :
            Consecutive(d, e) /\ e <= Here /\ emitted[k] = NaluOf(d, e)
      BY <1>1 DEF OnlyReferenceNalus
    <3>2. d \in Int /\ e \in Int /\ d < e
      BY <1>1, <3>1, EndsInStream DEF Consecutive
    <3>3. d \in Ends' /\ e \in Ends' /\ Consecutive(d, e)'
      BY <2>6, <3>1, <3>2
    <3>4. NaluOf(d, e)' = NaluOf(d, e)
      BY <2>7, <3>2
    <3> QED BY <3>1, <3>3, <3>4
  <2>9. EveryReferenceNalu'
    <3> SUFFICES ASSUME NEW d \in Ends', NEW e \in Ends', Consecutive(d, e)', e <= Here
                 PROVE  \E k \in 1 .. Len(emitted) : emitted[k] = NaluOf(d, e)'
      BY <1>2, <2>2 DEF EveryReferenceNalu
    <3>1. d \in Int /\ e \in Int
      BY <2>4
    <3>2. d \in Ends /\ e \in Ends /\ Consecutive(d, e)
      BY <2>6, <3>1
    <3>3. PICK k \in 1 .. Len(emitted) : emitted[k] = NaluOf(d, e)
      BY <1>1, <3>2 DEF EveryReferenceNalu
    <3>4. NaluOf(d, e)' = NaluOf(d, e)
      BY <2>7, <3>2 DEF Consecutive
    <3> QED BY <3>3, <3>4
  <2> QED BY <1>1, <2>5, <2>8, <2>9 DEF SplitInv
<1>4. CASE 0 \notin StartCodes(buffer, 0)
  <2>1. base = dropped /\ emitted = <<>>
    BY <1>1, <1>2, <1>4, Offsets DEF OnBoundary, IInv, AtStartCode
  <2>2. base' = dropped' /\ pc' # "pairs" /\ emitted' = <<>>
    BY <1>2, <2>1
  <2>3. ~ (\E d, e \in Ends : d < e /\ e <= Here)'
    <3>1. (IInv /\ base = dropped /\ pc # "pairs"
             => ~ \E d, e \in Ends : d < e /\ e <= Here)'
      BY NothingBeforeFirst, PTL
    <3> QED BY <1>1, <2>2, <3>1
  <2>4. OnlyReferenceNalus' /\ EveryReferenceNalu'
    BY <2>2, <2>3, NothingReported
  <2>5. OnBoundary'
    <3>1. (IInv /\ base = dropped /\ pc # "pairs" /\ 0 \in StartCodes(buffer, 0) =>
            Here \in Ends /\ CodeStart(Here) = base + prevScStart + 1)'
      BY FirstCodeIsEnd, PTL
    <3>2. dropped' <= base' /\ ~(dropped' < base') /\ pc' # "idle"
      BY <1>1, <1>2, <2>2, Offsets
    <3> QED BY <1>1, <2>2, <3>1, <3>2 DEF OnBoundary
  <2> QED BY <1>1, <2>4, <2>5 DEF SplitInv
<1> QED BY <1>3, <1>4

LEMMA ScanNoneSplits ==
  ASSUME SplitInv, ScanNone
  PROVE  SplitInv'
<1>1. IInv /\ IInv' /\ OnBoundary /\ OnlyReferenceNalus /\ EveryReferenceNalu
  BY ScanNonePreserves DEF SplitInv
<1>2. pc = "scan" /\ pc' = "idle" /\ StartCodes(buffer, 0) = {} /\ stream' = stream
        /\ UNCHANGED <<prevScStart, emitted>>
  BY DEF ScanNone
<1>3. emitted = <<>> /\ base = dropped /\ StartCodeLen(buffer, 0) = 0
  BY <1>1, <1>2, CodeAtFront, Offsets DEF OnBoundary, IInv, AtStartCode
<1>4. base' = dropped' /\ StartCodes(buffer', 0) = {} /\ StartCodeLen(buffer', 0) = 0
  <2>1. CASE buffer' = <<>> /\ base' = Len(stream) /\ dropped' = Len(stream)
    BY <2>1 DEF StartCodes, StartCodeLen
  <2>2. CASE UNCHANGED <<buffer, base, dropped>>
    BY <1>2, <1>3, <2>2 DEF StartCodes, StartCodeLen
  <2> QED BY <2>1, <2>2 DEF ScanNone
<1>5. ~ (\E d, e \in Ends : d < e /\ e <= Here)'
  <2>1. (IInv /\ base = dropped /\ pc # "pairs"
           => ~ \E d, e \in Ends : d < e /\ e <= Here)'
    BY NothingBeforeFirst, PTL
  <2> QED BY <1>1, <1>2, <1>4, <2>1
<1>6. OnlyReferenceNalus' /\ EveryReferenceNalu'
  BY <1>2, <1>3, <1>5, NothingReported
<1>7. OnBoundary'
  <2>1. base' \in Nat
    BY <1>1 DEF IInv, TypeOK
  <2> QED BY <1>2, <1>4, <2>1 DEF OnBoundary
<1> QED BY <1>1, <1>6, <1>7 DEF SplitInv

LEMMA ScanFirstSplits ==
  ASSUME SplitInv, ScanFirst
  PROVE  SplitInv'
<1>1. IInv /\ IInv' /\ OnBoundary /\ OnlyReferenceNalus /\ EveryReferenceNalu
  BY ScanFirstPreserves DEF SplitInv
<1>2. PICK i \in StartCodes(buffer, 0) :
        /\ IsNextStartCode(buffer, 0, i)
        /\ prevScStart' = i
        /\ prevScLen' = StartCodeLen(buffer, i)
  BY DEF ScanFirst
<1>3. pc = "scan" /\ pc' = "pairs"
        /\ UNCHANGED <<buffer, stream, base, dropped, emitted, gaps>>
  BY DEF ScanFirst
<1>4. Ends' = Ends /\ \A e : CodeStart(e)' = CodeStart(e)
  BY <1>3 DEF Ends, CodeStart
<1>5. i \in Nat /\ StartCodeLen(buffer, i) \in {0, 3, 4} /\ prevScStart = 0
  BY <1>1, <1>3, StartCodeLenRange DEF StartCodes, IInv, AtStartCode
<1>6. Here' = base + i + StartCodeLen(buffer, i)
  BY <1>2, <1>3, <1>5, <1>1, Offsets DEF Here
<1>7. CASE 0 \in StartCodes(buffer, 0)
  <2>1. i = 0
    BY <1>2, <1>5, <1>7 DEF IsNextStartCode
  <2>2. Here' = Here
    BY <1>1, <1>3, <1>5, <1>6, <2>1, Offsets DEF Here
  <2>3. OnlyReferenceNalus' /\ EveryReferenceNalu'
    BY <1>1, <1>3, <2>2, SameReference
  <2>4. OnBoundary'
    <3>1. Here' \in Ends' /\ CodeStart(Here)' = base' + prevScStart' + 1
      <4>1. Here \in Ends /\ CodeStart(Here) = base + prevScStart + 1
        BY <1>1, <1>7 DEF OnBoundary
      <4>2. prevScStart' = prevScStart
        BY <1>2, <1>5, <2>1
      <4> QED BY <1>3, <1>4, <2>2, <4>1, <4>2 DEF CodeStart
    <3> QED BY <1>1, <1>3, <3>1 DEF OnBoundary
  <2> QED BY <1>1, <2>3, <2>4 DEF SplitInv
<1>8. CASE 0 \notin StartCodes(buffer, 0)
  <2>1. base = dropped /\ emitted = <<>>
    BY <1>1, <1>3, <1>8, Offsets DEF OnBoundary, IInv, AtStartCode
  <2>2. /\ Here' \in Ends /\ CodeStart(base + i + StartCodeLen(buffer, i)) = base + i + 1
        /\ \A f \in Ends : base + 0 + 3 <= f => Here' <= f
    <3>1. 0 \in Nat /\ dropped <= base /\ ~(base + 0 > dropped)
      BY <1>1, <2>1, Offsets
    <3> QED BY <1>1, <1>2, <1>6, <3>1, SearchFindsNext
  <2>3. ~ (\E d, e \in Ends : d < e /\ e <= Here)'
    <3> SUFFICES ASSUME NEW d \in Ends, NEW e \in Ends, d < e, e <= Here' PROVE FALSE
      BY <1>4
    <3>1. d \in Int /\ e \in Int /\ dropped + 3 <= d /\ Here' \in Int
      BY <1>1, <2>2, EndsInStream
    <3>2. Here' <= d
      BY <1>1, <2>1, <2>2, <3>1, Offsets
    <3> QED BY <3>1, <3>2
  <2>4. OnlyReferenceNalus' /\ EveryReferenceNalu'
    BY <1>3, <2>1, <2>3, NothingReported
  <2>5. OnBoundary'
    <3>1. Here' \in Ends' /\ CodeStart(Here)' = base' + prevScStart' + 1
      BY <1>2, <1>3, <1>4, <1>6, <2>2 DEF CodeStart
    <3> QED BY <1>1, <1>3, <3>1 DEF OnBoundary
  <2> QED BY <1>1, <2>4, <2>5 DEF SplitInv
<1> QED BY <1>7, <1>8

LEMMA ScanNextSplits ==
  ASSUME SplitInv, ScanNext
  PROVE  SplitInv'
<1>1. IInv /\ IInv' /\ OnBoundary /\ OnlyReferenceNalus /\ EveryReferenceNalu
  BY ScanNextPreserves DEF SplitInv
<1>2. PICK i \in StartCodes(buffer, cursor) :
        /\ IsNextStartCode(buffer, cursor, i)
        /\ emitted' = Append(emitted, NaluUpTo(i))
        /\ prevScStart' = i
        /\ prevScLen' = StartCodeLen(buffer, i)
  BY DEF ScanNext
<1>3. pc = "pairs" /\ UNCHANGED <<buffer, pc, stream, base, dropped, gaps>>
  BY DEF ScanNext
<1>4. Ends' = Ends /\ (\A e : CodeStart(e)' = CodeStart(e))
        /\ (\A d, e : Consecutive(d, e)' <=> Consecutive(d, e))
        /\ (\A d, e : NaluOf(d, e)' = NaluOf(d, e))
  <2>1. Ends' = Ends /\ \A e : CodeStart(e)' = CodeStart(e)
    BY <1>3 DEF Ends, CodeStart
  <2>2. \A d, e : Consecutive(d, e)' <=> Consecutive(d, e)
    BY <2>1 DEF Consecutive
  <2>3. \A d, e : NaluOf(d, e)' = NaluOf(d, e)
    BY <1>3, <2>1 DEF NaluOf
  <2> QED BY <2>1, <2>2, <2>3
<1>5. /\ Here = base + prevScStart + prevScLen /\ cursor \in Nat /\ Here = base + cursor
      /\ Here \in Ends /\ CodeStart(Here) = base + prevScStart + 1
  <2>1. prevScLen \in {0, 3, 4}
    BY <1>1 DEF IInv, TypeOK
  <2>2. Here = base + prevScStart + prevScLen /\ cursor \in Nat /\ Here = base + cursor
    BY <1>1, <1>3, <2>1, Offsets DEF Here, cursor
  <2> QED BY <1>1, <1>3, <2>2 DEF OnBoundary
<1> DEFINE next == base + i + StartCodeLen(buffer, i)
<1>6. /\ i \in StartCodes(buffer, 0) /\ i \in Nat /\ i >= cursor
      /\ next \in Ends /\ CodeStart(next) = base + i + 1
      /\ \A f \in Ends : base + cursor + 3 <= f => next <= f
  <2>1. stream[base + cursor] # 0
    BY <1>5 DEF Ends
  <2>2. dropped <= base
    BY <1>1 DEF OnBoundary
  <2> QED BY <1>1, <1>2, <1>5, <2>1, <2>2, SearchFindsNext
<1>7. Here' = next
  <2>1. StartCodeLen(buffer, i) \in {0, 3, 4}
    BY StartCodeLenRange
  <2> QED BY <1>1, <1>2, <1>3, <1>6, <2>1, Offsets DEF Here
<1> HIDE DEF next
<1>8. Here \in Int /\ next \in Int /\ Here < next
  <2>1. Here \in Int /\ next \in Int /\ i >= cursor /\ i \in Int /\ cursor \in Int
          /\ base \in Int
    BY <1>1, <1>5, <1>6, EndsInStream, Offsets
  <2>2. next = base + i + StartCodeLen(buffer, i) /\ StartCodeLen(buffer, i) \in {3, 4}
    BY <1>6, StartCodeLenRange DEF next, StartCodes
  <2> QED BY <1>5, <2>1, <2>2
<1>9. \A f \in Ends : f <= Here \/ next <= f
  <2> TAKE f \in Ends
  <2>1. f \in Int
    BY <1>1, EndsInStream
  <2>2. Here < f => next <= f
    <3> HAVE Here < f
    <3>1. Here + 3 <= f
      BY <1>1, <1>5, EndsApart
    <3> QED BY <1>5, <1>6, <3>1
  <2> QED BY <1>8, <2>1, <2>2
<1>10. Consecutive(Here, next)
  BY <1>8, <1>9 DEF Consecutive
<1>11. NaluUpTo(i) = NaluOf(Here, next)
  <2>1. prevScStart + prevScLen = cursor /\ cursor + 1 \in 1 .. Len(buffer)
    <3>1. prevScStart + prevScLen = cursor
      BY DEF cursor
    <3>2. i <= Len(buffer) - 3 /\ i >= cursor /\ i \in Int
      BY <1>6 DEF StartCodes
    <3> QED BY <1>1, <1>5, <3>1, <3>2, Offsets
  <2>2. buffer[cursor + 1] = stream[base + (cursor + 1)]
    BY <1>1, <2>1 DEF IInv, BufferIsRest
  <2>3. base + (cursor + 1) = Here + 1 /\ base + i = base + i + 1 - 1
    BY <1>1, <1>5, <1>6, Offsets
  <2>4. buffer[prevScStart + prevScLen + 1] = stream[Here + 1]
    BY <2>1, <2>2, <2>3
  <2>5. base + i = CodeStart(next) - 1
    <3>1. base \in Int /\ i \in Int /\ CodeStart(next) = base + i + 1
      BY <1>1, <1>6, Offsets
    <3> QED BY <3>1
  <2>6. base + prevScStart + 1 = CodeStart(Here)
    BY <1>5
  <2> QED BY <2>4, <2>5, <2>6 DEF NaluUpTo, NaluOf
<1>12. /\ Len(emitted) \in Nat /\ Len(emitted') = Len(emitted) + 1
       /\ \A k \in 1 .. Len(emitted) : emitted'[k] = emitted[k]
       /\ emitted'[Len(emitted) + 1] = NaluOf(Here, next)
  <2>1. emitted \in Seq([first : Nat, last : Nat, type : 0 .. 31])
    BY <1>1 DEF IInv, TypeOK
  <2>2. emitted' = Append(emitted, NaluOf(Here, next))
    BY <1>2, <1>11
  <2> QED BY <2>1, <2>2
<1>13. OnlyReferenceNalus'
  <2> SUFFICES ASSUME NEW k \in 1 .. Len(emitted')
               PROVE  \E d, e \in Ends :
                        Consecutive(d, e) /\ e <= next /\ emitted'[k] = NaluOf(d, e)
    BY <1>4, <1>7 DEF OnlyReferenceNalus
  <2>1. CASE k = Len(emitted) + 1
    <3>1. next <= next
      BY <1>8
    <3> QED BY <1>5, <1>6, <1>10, <1>12, <2>1, <3>1
  <2>2. CASE k # Len(emitted) + 1
    <3>1. k \in 1 .. Len(emitted) /\ emitted'[k] = emitted[k]
      BY <1>12, <2>2
    <3>2. PICK d \in Ends, e \in Ends :
            Consecutive(d, e) /\ e <= Here /\ emitted[k] = NaluOf(d, e)
      BY <1>1, <3>1 DEF OnlyReferenceNalus
    <3>3. e <= next
      BY <1>1, <1>8, <3>2, EndsInStream
    <3> QED BY <3>1, <3>2, <3>3
  <2> QED BY <2>1, <2>2
<1>14. EveryReferenceNalu'
  <2> SUFFICES ASSUME NEW d \in Ends, NEW e \in Ends, Consecutive(d, e), e <= next
               PROVE  \E k \in 1 .. Len(emitted') : emitted'[k] = NaluOf(d, e)
    BY <1>4, <1>7 DEF EveryReferenceNalu
  <2>1. d \in Int /\ e \in Int /\ d < e /\ (d >= Here \/ e <= Here)
    <3>1. d \in Int /\ e \in Int /\ d < e
      BY <1>1, EndsInStream DEF Consecutive
    <3> QED BY <1>5, <1>8, <3>1 DEF Consecutive
  <2>2. CASE e <= Here
    <3>1. PICK k \in 1 .. Len(emitted) : emitted[k] = NaluOf(d, e)
      BY <1>1, <2>2 DEF EveryReferenceNalu
    <3>2. k \in 1 .. Len(emitted') /\ emitted'[k] = emitted[k]
      BY <1>12
    <3> QED BY <3>1, <3>2
  <2>3. CASE ~(e <= Here)
    <3>1. e = next
      BY <1>8, <1>9, <2>1, <2>3
    <3>2. d = Here
      BY <1>8, <1>9, <2>1, <2>3, <3>1
    <3>3. Len(emitted) + 1 \in 1 .. Len(emitted')
      BY <1>12
    <3> QED BY <1>12, <3>1, <3>2, <3>3
  <2> QED BY <2>2, <2>3
<1>15. OnBoundary'
  <2>1. Here' \in Ends' /\ CodeStart(Here)' = base' + prevScStart' + 1
    BY <1>2, <1>3, <1>4, <1>6, <1>7 DEF CodeStart
  <2> QED BY <1>1, <1>3, <2>1 DEF OnBoundary
<1> QED BY <1>1, <1>13, <1>14, <1>15 DEF SplitInv

LEMMA ScanEndSplits ==
  ASSUME SplitInv, ScanEnd
  PROVE  SplitInv'
<1>1. IInv /\ IInv' /\ OnBoundary /\ OnlyReferenceNalus /\ EveryReferenceNalu
  BY ScanEndPreserves DEF SplitInv
<1>2. /\ pc = "pairs" /\ pc' = "idle" /\ prevScStart' = 0
      /\ base' = base + prevScStart /\ StartCodes(buffer, cursor) = {}
      /\ UNCHANGED <<stream, dropped, emitted>>
  BY DEF ScanEnd
<1>3. /\ buffer \in Seq(Bytes) /\ buffer' \in Seq(Bytes)
      /\ Len(buffer) \in Nat /\ Len(buffer') \in Nat
      /\ prevScStart \in Nat /\ base \in Nat /\ dropped \in Nat
      /\ prevScLen \in {0, 3, 4}
  BY <1>1, BufferTypes DEF IInv, TypeOK
<1>4. /\ prevScStart \in StartCodes(buffer, 0) /\ prevScStart + 3 <= Len(buffer)
      /\ prevScLen = StartCodeLen(buffer, prevScStart)
  BY <1>1, <1>2, <1>3 DEF IInv, AtStartCode, StartCodes
<1>5. Len(buffer') = Len(buffer) - prevScStart
  BY <1>1, <1>2, <1>3, Offsets DEF IInv, BufferIsRest
<1>6. \A k \in 1 .. Len(buffer) - prevScStart : buffer'[k] = buffer[prevScStart + k]
  <2> TAKE k \in 1 .. Len(buffer) - prevScStart
  <2>1. prevScStart + k \in 1 .. Len(buffer) /\ k \in 1 .. Len(buffer')
          /\ base + (prevScStart + k) = base' + k
    BY <1>2, <1>3, <1>5
  <2>2. buffer[prevScStart + k] = stream[base + (prevScStart + k)]
    BY <1>1, <2>1 DEF IInv, BufferIsRest
  <2>3. buffer'[k] = stream'[base' + k]
    BY <1>1, <2>1 DEF IInv, BufferIsRest
  <2> QED BY <1>2, <2>1, <2>2, <2>3
<1>7. \A i \in Nat : StartCodeLen(buffer', i) = StartCodeLen(buffer, prevScStart + i)
  BY <1>3, <1>5, <1>6, StartCodeLenEqual
<1>8. StartCodeLen(buffer', 0) = prevScLen
  <2>1. 0 \in Nat /\ prevScStart + 0 = prevScStart
    BY <1>3
  <2> QED BY <1>4, <1>7, <2>1
<1>9. Here' = Here
  BY <1>2, <1>3, <1>8 DEF Here
<1>10. OnlyReferenceNalus' /\ EveryReferenceNalu'
  BY <1>1, <1>2, <1>9, SameReference
<1>11. OnBoundary'
  <2>1. 0 \in StartCodes(buffer', 0)
    <3>1. prevScLen # 0 /\ 0 <= Len(buffer') - 3
      BY <1>3, <1>4, <1>5 DEF StartCodes
    <3> QED BY <1>3, <1>8, <3>1 DEF StartCodes
  <2>2. Here' \in Ends' /\ CodeStart(Here)' = base' + prevScStart' + 1
    <3>1. Here \in Ends /\ CodeStart(Here) = base + prevScStart + 1
      BY <1>1, <1>2 DEF OnBoundary
    <3>2. base' + prevScStart' = base + prevScStart
      BY <1>2, <1>3
    <3>3. Ends' = Ends
      BY <1>2 DEF Ends
    <3> QED BY <1>2, <1>9, <3>1, <3>2, <3>3 DEF CodeStart
  <2>3. StartCodes(buffer', StartCodeLen(buffer', 0)) = {}
    <3> SUFFICES ASSUME NEW j \in StartCodes(buffer', prevScLen) PROVE FALSE
      BY <1>8
    <3>1. j \in Nat /\ prevScLen <= j /\ j <= Len(buffer') - 3
            /\ StartCodeLen(buffer', j) # 0
      BY <1>3 DEF StartCodes
    <3>2. StartCodeLen(buffer, prevScStart + j) # 0
      BY <1>7, <3>1
    <3>3. prevScStart + j \in cursor .. Len(buffer) - 3
      BY <1>3, <1>5, <3>1 DEF cursor
    <3>4. prevScStart + j \in StartCodes(buffer, cursor)
      BY <3>2, <3>3 DEF StartCodes
    <3> QED BY <1>2, <3>4
  <2>4. dropped' <= base'
    <3>1. dropped <= base
      BY <1>1 DEF OnBoundary
    <3> QED BY <1>2, <1>3, <3>1
  <2> QED BY <1>2, <2>1, <2>2, <2>3, <2>4 DEF OnBoundary
<1> QED BY <1>1, <1>10, <1>11 DEF SplitInv

LEMMA UnchangedSplits ==
  ASSUME SplitInv, IInv',
         UNCHANGED <<buffer, pc, prevScStart, prevScLen, stream, base, dropped, emitted>>
  PROVE  SplitInv'
<1>1. Here' = Here /\ Ends' = Ends
  BY DEF Here, StartCodeLen, Ends
<1>2. OnlyReferenceNalus' /\ EveryReferenceNalu'
  BY <1>1, SameReference DEF SplitInv
<1>3. CodeStart(Here)' = CodeStart(Here)
  BY <1>1 DEF CodeStart
<1>4. OnBoundary'
  <2>1. OnBoundary
    BY DEF SplitInv
  <2>2. StartCodes(buffer, 0)' = StartCodes(buffer, 0)
          /\ StartCodes(buffer, StartCodeLen(buffer, 0))'
               = StartCodes(buffer, StartCodeLen(buffer, 0))
    BY DEF StartCodes, StartCodeLen
  <2> QED BY <1>1, <1>3, <2>1, <2>2 DEF OnBoundary
<1> QED BY <1>2, <1>4 DEF SplitInv

LEMMA ResetSplits ==
  ASSUME SplitInv, Reset
  PROVE  SplitInv'
<1>1. IInv' /\ base' = dropped' /\ pc' = "idle" /\ emitted' = <<>> /\ buffer' = <<>>
        /\ base' = 0
  BY ResetPreserves DEF SplitInv, Reset
<1>2. ~ (\E d, e \in Ends : d < e /\ e <= Here)'
  <2>1. (IInv /\ base = dropped /\ pc # "pairs"
           => ~ \E d, e \in Ends : d < e /\ e <= Here)'
    BY NothingBeforeFirst, PTL
  <2> QED BY <1>1, <2>1
<1>3. OnlyReferenceNalus' /\ EveryReferenceNalu'
  BY <1>1, <1>2, NothingReported
<1>4. StartCodeLen(buffer', 0) = 0 /\ StartCodes(buffer', 0) = {}
  BY <1>1 DEF StartCodes, StartCodeLen
<1>5. OnBoundary'
  BY <1>1, <1>4 DEF OnBoundary
<1> QED BY <1>1, <1>3, <1>5 DEF SplitInv

\* The inductive invariant that relates the scan to the reference definition
\* (LiveVideoEngine.h:181-245).
THEOREM SplitInvariance == Spec => []SplitInv
<1>1. Init => SplitInv
  BY InitSplits
<1>2. SplitInv /\ [Next]_vars => SplitInv'
  <2> SUFFICES ASSUME SplitInv, [Next]_vars PROVE SplitInv'
    OBVIOUS
  <2>1. CASE \E chunk \in Chunks : Feed(chunk)
    BY <2>1, FeedSplits
  <2>2. CASE Scan
    BY <2>2, ScanNoneSplits, ScanFirstSplits, ScanNextSplits, ScanEndSplits DEF Scan
  <2>3. CASE Lose
    <3>1. IInv'
      BY <2>3, LosePreserves DEF SplitInv
    <3> QED BY <2>3, <3>1, UnchangedSplits DEF Lose
  <2>4. CASE Reset
    BY <2>4, ResetSplits
  <2>5. CASE UNCHANGED vars
    <3>1. IInv'
      BY <2>5, StutterPreserves DEF SplitInv
    <3> QED BY <2>5, <3>1, UnchangedSplits DEF vars
  <2> QED BY <2>1, <2>2, <2>3, <2>4, <2>5 DEF Next
<1> QED BY <1>1, <1>2, PTL DEF Spec

\* When feed() has returned, no start code of the reference definition lies
\* behind the one the buffer begins with.
LEMMA NoneBehindWhenIdle ==
  ASSUME SplitInv, pc = "idle", NEW d \in Ends, NEW e \in Ends, Consecutive(d, e)
  PROVE  e <= Here
<1> SUFFICES ASSUME ~(e <= Here) PROVE FALSE
  OBVIOUS
<1>1. IInv /\ OnBoundary /\ StartCodes(buffer, StartCodeLen(buffer, 0)) = {}
  BY DEF SplitInv, OnBoundary
<1>2. Here = base + StartCodeLen(buffer, 0) /\ StartCodeLen(buffer, 0) \in Nat
        /\ e \in Int /\ Here \in Int
  BY <1>1, StartCodeLenRange, EndsInStream, Offsets DEF Here
<1>3. CASE 0 \in StartCodes(buffer, 0)
  <2>1. Here \in Ends /\ Here < e
    BY <1>1, <1>2, <1>3 DEF OnBoundary
  <2>2. Here + 3 <= e
    BY <1>1, <2>1, EndsApart
  <2>3. e - 3 - base \in StartCodes(buffer, StartCodeLen(buffer, 0))
    BY <1>1, <1>2, <2>2, EndIsCode
  <2> QED BY <1>1, <2>3
<1>4. CASE 0 \notin StartCodes(buffer, 0)
  <2>1. base = dropped /\ StartCodeLen(buffer, 0) = 0
    BY <1>1, <1>4, CodeAtFront, Offsets DEF OnBoundary
  <2>2. base + 0 + 3 <= e /\ 0 \in Nat
    BY <1>1, <1>2, <2>1, EndsInStream, Offsets
  <2>3. e - 3 - base \in StartCodes(buffer, 0)
    BY <1>1, <2>2, EndIsCode
  <2> QED BY <1>1, <2>1, <2>3
<1> QED BY <1>3, <1>4

\* However the stream is cut into chunks, whatever the limit of the buffer, what
\* feed() has reported when it returns is what the reference definition says.
THEOREM ChunksDoNotMatter == Spec => []SplitsAsAnnexB
<1>1. SplitInv => SplitsAsAnnexB
  <2> SUFFICES ASSUME SplitInv, pc = "idle"
               PROVE  {emitted[k] : k \in DOMAIN emitted} = Nalus
    BY DEF SplitsAsAnnexB
  <2>1. DOMAIN emitted = 1 .. Len(emitted)
    BY DEF SplitInv, IInv, TypeOK
  <2>2. Nalus = {NaluOf(pair[1], pair[2]) :
                   pair \in {p \in Ends \X Ends : Consecutive(p[1], p[2])}}
    BY DEF Nalus, NaluOf
  <2>3. ASSUME NEW k \in 1 .. Len(emitted) PROVE emitted[k] \in Nalus
    <3>1. PICK d \in Ends, e \in Ends : Consecutive(d, e) /\ emitted[k] = NaluOf(d, e)
      BY DEF SplitInv, OnlyReferenceNalus
    <3>2. <<d, e>> \in {p \in Ends \X Ends : Consecutive(p[1], p[2])}
      BY <3>1
    <3>3. NaluOf(<<d, e>>[1], <<d, e>>[2]) = NaluOf(d, e)
      OBVIOUS
    <3> QED BY <2>2, <3>1, <3>2, <3>3
  <2>4. ASSUME NEW n \in Nalus PROVE \E k \in 1 .. Len(emitted) : emitted[k] = n
    <3>1. PICK pair \in Ends \X Ends :
            Consecutive(pair[1], pair[2]) /\ n = NaluOf(pair[1], pair[2])
      BY <2>2
    <3>2. pair[1] \in Ends /\ pair[2] \in Ends
      OBVIOUS
    <3>3. pair[2] <= Here
      BY <3>1, <3>2, NoneBehindWhenIdle
    <3> QED BY <3>1, <3>2, <3>3 DEF SplitInv, EveryReferenceNalu
  <2> QED BY <2>1, <2>3, <2>4
<1> QED BY <1>1, SplitInvariance, PTL
=============================================================================
