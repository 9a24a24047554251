---------------------------- MODULE H264Demuxer ----------------------------
(***************************************************************************)
(* H264Demuxer of LiveVideoEngine.h: cuts the byte stream received from    *)
(* the network, in chunks of any size, into NALUs.                         *)
(*                                                                         *)
(* feed() appends a chunk to buffer_ and scans it; the scan reports every  *)
(* NALU that a following start code terminates, and keeps the rest. The    *)
(* scan is one action per NALU, because each report runs handleNalu.       *)
(* Offsets into buffer_ are those of the code (from 0); stream and the     *)
(* reported intervals are numbered from 1, as TLA+ sequences are.          *)
(***************************************************************************)
EXTENDS Integers, Sequences, FiniteSets

CONSTANTS
  Bytes,        \* the bytes a stream is made of
  Chunks,       \* what one call of feed() may bring
  BufferLimit,  \* 4 MB in the code
  MaxStream,    \* bound: bytes fed in all
  MaxGaps       \* bound: places of the stream where bytes are lost

ASSUME BytesAreBytes == Bytes \subseteq 0 .. 255
ASSUME ChunksAreNotEmpty == Chunks \subseteq Seq(Bytes) \ {<<>>}
ASSUME LimitIsNat == BufferLimit \in Nat
ASSUME MaxStreamIsNat == MaxStream \in Nat
ASSUME MaxGapsIsNat == MaxGaps \in Nat

VARIABLES
  buffer,       \* buffer_
  pc,           \* where the thread is: "idle", or inside scan()
  prevScStart,  \* locals of scan: the start code of the NALU being cut
  prevScLen,
  stream,       \* history: all the bytes fed
  base,         \* history: how many of them left buffer_ at its front
  dropped,      \* history: the value of base at the last overflow
  emitted,      \* history: the NALUs reported, as intervals of stream
  gaps          \* history: bytes were lost after these positions of stream

vars == <<buffer, pc, prevScStart, prevScLen, stream, base, dropped, emitted, gaps>>

-----------------------------------------------------------------------------
(* findStartCode *)

\* Mutant of StartCodeLen: only the three-byte start code is known.
StartCodeLenShort(p, i) ==
  IF i + 2 < Len(p) /\ p[i+1] = 0 /\ p[i+2] = 0 /\ p[i+3] = 1 THEN 3 ELSE 0

\* Length of the start code at offset i of p: 00 00 01, 00 00 00 01, or none.
StartCodeLen(p, i) ==
  IF i + 2 < Len(p) /\ p[i+1] = 0 /\ p[i+2] = 0 /\ p[i+3] = 1 THEN 3
  ELSE IF i + 3 < Len(p) /\ p[i+1] = 0 /\ p[i+2] = 0 /\ p[i+3] = 0 /\ p[i+4] = 1
       THEN 4
       ELSE 0

StartCodes(p, from) == {i \in from .. Len(p) - 3 : StartCodeLen(p, i) # 0}

\* i is the offset findStartCode returns when it searches p from an offset on
IsNextStartCode(p, from, i) ==
  /\ i \in StartCodes(p, from)
  /\ \A j \in StartCodes(p, from) : i <= j

-----------------------------------------------------------------------------

Init ==
  /\ buffer = <<>> /\ stream = <<>> /\ emitted = <<>> /\ gaps = {}
  /\ pc = "idle" /\ prevScStart = 0 /\ prevScLen = 0
  /\ base = 0 /\ dropped = 0

\* feed(data, len): append, then scan
Feed(chunk) ==
  /\ pc = "idle"
  /\ Len(stream) + Len(chunk) <= MaxStream
  /\ buffer' = buffer \o chunk
  /\ stream' = stream \o chunk
  /\ pc' = "scan"
  /\ UNCHANGED <<prevScStart, prevScLen, base, dropped, emitted, gaps>>

\* No start code in the whole buffer: wait for more, up to the limit.
ScanNone ==
  /\ pc = "scan"
  /\ StartCodes(buffer, 0) = {}
  /\ \/ /\ Len(buffer) > BufferLimit
        /\ buffer' = <<>>
        /\ base' = Len(stream) /\ dropped' = Len(stream)
     \/ /\ Len(buffer) <= BufferLimit
        /\ UNCHANGED <<buffer, base, dropped>>
  /\ pc' = "idle"
  /\ UNCHANGED <<prevScStart, prevScLen, stream, emitted, gaps>>

\* The first start code; what is before it will be thrown away.
ScanFirst ==
  /\ pc = "scan"
  /\ \E i \in StartCodes(buffer, 0) :
       /\ IsNextStartCode(buffer, 0, i)
       /\ prevScStart' = i
       /\ prevScLen' = StartCodeLen(buffer, i)
  /\ pc' = "pairs"
  /\ UNCHANGED <<buffer, stream, base, dropped, emitted, gaps>>

cursor == prevScStart + prevScLen

\* Mutant of NaluUpTo: the size one short.
NaluUpToShort(naluEnd) ==
  [first |-> base + prevScStart + 1,
   last  |-> base + naluEnd - 1,
   type  |-> buffer[prevScStart + prevScLen + 1] % 32]

\* n.data, n.size and n.type of the NALU that ends where the next start code
\* (at offset naluEnd) begins
NaluUpTo(naluEnd) ==
  [first |-> base + prevScStart + 1,
   last  |-> base + naluEnd,
   type  |-> buffer[prevScStart + prevScLen + 1] % 32]

\* Mutant of ScanNext: the search goes on, but from the same NALU start.
ScanNextKeepsStart ==
  /\ pc = "pairs"
  /\ \E i \in StartCodes(buffer, cursor) :
       /\ IsNextStartCode(buffer, cursor, i)
       /\ emitted' = Append(emitted, NaluUpTo(i))
       /\ prevScLen' = i + StartCodeLen(buffer, i) - prevScStart
  /\ UNCHANGED <<prevScStart, buffer, pc, stream, base, dropped, gaps>>

\* A start code ends the current NALU: report it and go on after it.
ScanNext ==
  /\ pc = "pairs"
  /\ \E i \in StartCodes(buffer, cursor) :
       /\ IsNextStartCode(buffer, cursor, i)
       /\ emitted' = Append(emitted, NaluUpTo(i))
       /\ prevScStart' = i
       /\ prevScLen' = StartCodeLen(buffer, i)
  /\ UNCHANGED <<buffer, pc, stream, base, dropped, gaps>>

\* No further start code: erase everything before the unfinished NALU.
ScanEnd ==
  /\ pc = "pairs"
  /\ StartCodes(buffer, cursor) = {}
  /\ buffer' = SubSeq(buffer, prevScStart + 1, Len(buffer))
  /\ base' = base + prevScStart
  /\ pc' = "idle" /\ prevScStart' = 0 /\ prevScLen' = 0
  /\ UNCHANGED <<stream, dropped, emitted, gaps>>

\* The environment: a datagram is lost, or a sender disconnects and another
\* one starts. Neither reaches the demuxer: nobody calls reset() then.
Lose ==
  /\ pc = "idle"
  /\ Cardinality(gaps) < MaxGaps
  /\ gaps' = gaps \cup {Len(stream)}
  /\ UNCHANGED <<buffer, pc, prevScStart, prevScLen, stream, base, dropped, emitted>>

\* reset(), from release() and init(): a new stream.
Reset ==
  /\ pc = "idle"
  /\ buffer' = <<>> /\ stream' = <<>> /\ emitted' = <<>> /\ gaps' = {}
  /\ base' = 0 /\ dropped' = 0
  /\ UNCHANGED <<pc, prevScStart, prevScLen>>

Scan == ScanNone \/ ScanFirst \/ ScanNext \/ ScanEnd

Next == (\E chunk \in Chunks : Feed(chunk)) \/ Scan \/ Lose \/ Reset

Spec == Init /\ [][Next]_vars

-----------------------------------------------------------------------------
(* The reference: how a byte stream divides into NALUs (H.264 Annex B). A    *)
(* start code ends at every 00 00 01; it has a fourth byte if one more 00    *)
(* precedes. The NALU reaches up to the next start code.                     *)

Ends == {e \in dropped + 3 .. Len(stream) :
           stream[e] = 1 /\ stream[e-1] = 0 /\ stream[e-2] = 0}

CodeStart(e) == IF e - 3 > dropped /\ stream[e-3] = 0 THEN e - 3 ELSE e - 2

Consecutive(d, e) == d < e /\ \A f \in Ends : f <= d \/ e <= f

Nalus ==
  {[first |-> CodeStart(pair[1]), last |-> CodeStart(pair[2]) - 1,
    type  |-> stream[pair[1] + 1] % 32] :
     pair \in {p \in Ends \X Ends : Consecutive(p[1], p[2])}}

\* Whatever the chunks, once feed() returns it has reported exactly the
\* NALUs of the bytes received so far that a following start code terminates:
\* the same ones, with the same bytes and type, as if all came in one chunk.
SplitsAsAnnexB ==
  pc = "idle" => {emitted[k] : k \in DOMAIN emitted} = Nalus

TypeOK ==
  /\ buffer \in Seq(Bytes) /\ stream \in Seq(Bytes)
  /\ pc \in {"idle", "scan", "pairs"}
  /\ prevScStart \in Nat /\ prevScLen \in {0, 3, 4}
  /\ base \in Nat /\ dropped \in Nat
  /\ emitted \in Seq([first : Nat, last : Nat, type : 0 .. 31])
  /\ gaps \subseteq Nat

\* NALUs are reported in stream order, back to back: no byte between the first
\* start code and the unfinished NALU is skipped or reported twice, and that
\* NALU waits, whole, in buffer_.
Tiles ==
  /\ TypeOK
  /\ \A k \in 1 .. Len(emitted) - 1 : emitted[k+1].first = emitted[k].last + 1
  /\ (pc = "idle" /\ emitted # <<>>) => emitted[Len(emitted)].last = base
  /\ buffer = SubSeq(stream, base + 1, Len(stream))

Spans(n, g) == n.first <= g /\ g < n.last

\* A loss is local: bytes missing at one place of the stream end up inside at
\* most one reported NALU; the demuxer is in step again at the next start code.
DamageIsLocal ==
  \A g \in gaps : \A j, k \in DOMAIN emitted :
    (Spans(emitted[j], g) /\ Spans(emitted[k], g)) => j = k
=============================================================================
