---------------------------- MODULE NaluPipeline ----------------------------
(***************************************************************************)
(* From the demuxer to the screen: handleNalu on the feeding thread,       *)
(* nalu_queue_, inputLoop, the MediaCodec decoder and outputLoop           *)
(* (LiveVideoEngine.cpp).                                                  *)
(*                                                                         *)
(* nalu_queue_ is the atomic bounded FIFO that LockFreeRingBuffer is shown *)
(* to implement; what two pushing threads can do to it beyond that is the  *)
(* subject of RingInApp. The decoder is external and modelled from how     *)
(* the two loops use it: a pool of input buffers, one decoding step, a     *)
(* pool of output buffers.                                                 *)
(***************************************************************************)
EXTENDS Integers, Sequences

CONSTANTS
  Mime,          \* mime_: "video/avc" or "video/hevc"
  Fed,           \* kinds of NALU the stream may contain
  QueueRoom,     \* NALUs nalu_queue_ can hold (127 in the engine)
  InputBuffers,  \* input buffers of the decoder
  OutputBuffers, \* output buffers of the decoder
  MaxFailures,   \* bound: how often the decoder refuses a buffer or spoils one
  MaxNalus       \* bound: NALUs the stream contains

Kinds == {"sps", "pps", "idr", "slice", "sei", "other"}

ASSUME MimeIsKnown == Mime \in {"video/avc", "video/hevc"}
ASSUME FedAreKinds == Fed \subseteq Kinds
ASSUME PoolsArePositive ==
  /\ QueueRoom \in Nat \ {0} /\ InputBuffers \in Nat \ {0}
  /\ OutputBuffers \in Nat \ {0}
ASSUME BoundsAreNat == MaxFailures \in Nat /\ MaxNalus \in Nat

VARIABLES
  handled,        \* NALUs handleNalu has been called with; the last one's id
  gop,            \* history: id of the last IDR of the stream, 0 before it
  cachedSps,      \* cached_sps_
  cachedPps,      \* cached_pps_
  configured,     \* codec_configured_
  todo,           \* what the IDR branch of handleNalu has still to enqueue
  queue,          \* nalu_queue_
  inHand,         \* inputLoop's local p, or Nothing
  codecIn,        \* input buffers the decoder has been given
  codecOut,       \* output buffers it has filled
  framesDropped,  \* stats_.framesDropped
  framesDecoded,  \* stats_.framesDecoded
  offered,        \* history: calls of enqueueNalu and drops before it
  lost,           \* history: NALUs gone without being counted
  delivered,      \* history: NALUs the decoder accepted, in order
  failures,       \* how often the decoder failed
  troubled        \* history: the decoder stalled or failed at least once

feeder == <<handled, gop, cachedSps, cachedPps, configured, todo>>
codec  == <<codecIn, codecOut, framesDecoded, failures>>
vars   == <<feeder, queue, inHand, codec, framesDropped, offered, lost, delivered, troubled>>

\* A NALU: id is its place in the stream, gop the place of the IDR it depends
\* on (for the SPS and PPS of a batch, of the IDR they are queued with).
Nalu(kind, id, g) == [kind |-> kind, id |-> id, gop |-> g]

\* An empty cache: a byte vector of size 0.
Empty(kind) == Nalu(kind, 0, 0)

Nothing == [kind |-> "nothing", id |-> 0, gop |-> 0]

\* The classes inputLoop computes from the header byte; an empty NALU has
\* none and counts as neither.
IsFrame(n)  == n.id # 0 /\ n.kind \in {"slice", "idr"}
IsConfig(n) == n.id # 0 /\ n.kind \in {"sps", "pps"}

Init ==
  /\ handled = 0 /\ gop = 0 /\ configured = FALSE
  /\ cachedSps = Empty("sps") /\ cachedPps = Empty("pps")
  /\ todo = <<>> /\ queue = <<>> /\ inHand = Nothing
  /\ codecIn = <<>> /\ codecOut = <<>> /\ failures = 0
  /\ framesDropped = 0 /\ framesDecoded = 0
  /\ offered = 0 /\ lost = 0 /\ delivered = <<>> /\ troubled = FALSE

-----------------------------------------------------------------------------
(* handleNalu, on the feeding thread. The batch of an IDR is three pushes    *)
(* the input thread can interleave with; the other cases are one step.       *)

\* The next NALU of the stream
Arrives(kind) ==
  /\ todo = <<>>
  /\ kind \in Fed
  /\ handled < MaxNalus
  /\ handled' = handled + 1
  /\ gop' = IF kind = "idr" THEN handled' ELSE gop

\* Mutant of Enqueue: a drop is not counted.
EnqueueUncounted(n) ==
  /\ offered' = offered + 1
  /\ queue' = IF Len(queue) < QueueRoom THEN Append(queue, n) ELSE queue
  /\ UNCHANGED framesDropped

\* enqueueNalu: count the NALU as dropped if the queue is full
Enqueue(n) ==
  /\ offered' = offered + 1
  /\ IF Len(queue) < QueueRoom
     THEN queue' = Append(queue, n) /\ UNCHANGED framesDropped
     ELSE framesDropped' = framesDropped + 1 /\ UNCHANGED queue

Drop ==
  /\ offered' = offered + 1
  /\ framesDropped' = framesDropped + 1
  /\ UNCHANGED queue

HandleParameterSet ==
  /\ Mime = "video/avc"
  /\ \/ /\ Arrives("sps")
        /\ cachedSps' = Nalu("sps", handled', 0) /\ UNCHANGED cachedPps
     \/ /\ Arrives("pps")
        /\ cachedPps' = Nalu("pps", handled', 0) /\ UNCHANGED cachedSps
  /\ UNCHANGED <<configured, todo, queue, inHand, codec, framesDropped,
                 offered, lost, delivered, troubled>>

HandleSei ==
  /\ Mime = "video/avc"
  /\ Arrives("sei")
  /\ UNCHANGED <<cachedSps, cachedPps, configured, todo, queue, inHand, codec,
                 framesDropped, offered, lost, delivered, troubled>>

kIdrBatch == 3

\* Mutant of HandleIdr: the parameter sets are queued after the IDR.
HandleIdrFirst ==
  /\ Mime = "video/avc"
  /\ Arrives("idr")
  /\ QueueRoom - Len(queue) >= kIdrBatch
  /\ todo' = << Nalu("idr", handled', handled'),
                [cachedSps EXCEPT !.gop = handled'],
                [cachedPps EXCEPT !.gop = handled'] >>
  /\ UNCHANGED <<queue, framesDropped, offered, cachedSps, cachedPps, configured,
                 inHand, codec, lost, delivered, troubled>>

\* Room for all three: SPS, PPS and IDR are queued. Otherwise the IDR is
\* dropped; codec_configured_ keeps its value.
HandleIdr ==
  /\ Mime = "video/avc"
  /\ Arrives("idr")
  /\ \/ /\ QueueRoom - Len(queue) >= kIdrBatch
        /\ todo' = << [cachedSps EXCEPT !.gop = handled'],
                      [cachedPps EXCEPT !.gop = handled'],
                      Nalu("idr", handled', handled') >>
        /\ UNCHANGED <<queue, framesDropped, offered>>
     \/ /\ QueueRoom - Len(queue) < kIdrBatch
        /\ Drop
        /\ UNCHANGED todo
  /\ UNCHANGED <<cachedSps, cachedPps, configured, inHand, codec, lost, delivered, troubled>>

\* One of the three pushes; after the last one codec_configured_ = true.
EnqueueBatch ==
  /\ todo # <<>>
  /\ Enqueue(Head(todo))
  /\ todo' = Tail(todo)
  /\ configured' = (configured \/ Len(todo) = 1)
  /\ UNCHANGED <<handled, gop, cachedSps, cachedPps, inHand, codec, lost, delivered, troubled>>

\* Everything else: pass it on if the decoder is configured, drop it if not.
HandleOther ==
  /\ \E kind \in IF Mime = "video/avc" THEN {"slice", "other"} ELSE Kinds :
       /\ Arrives(kind)
       /\ IF configured THEN Enqueue(Nalu(kind, handled', gop')) ELSE Drop
  /\ UNCHANGED <<cachedSps, cachedPps, configured, todo, inHand, codec, lost,
                 delivered, troubled>>

HandleNalu ==
  HandleParameterSet \/ HandleSei \/ HandleIdr \/ EnqueueBatch \/ HandleOther

-----------------------------------------------------------------------------
(* inputLoop, on the input thread *)

\* Mutant of InputPop: the last element is taken for an empty queue.
InputPopLeavesOne ==
  /\ inHand = Nothing
  /\ Len(queue) > 1
  /\ inHand' = Head(queue)
  /\ queue' = Tail(queue)
  /\ UNCHANGED <<feeder, codec, framesDropped, offered, lost, delivered, troubled>>

\* pop; the queue may also be empty, which changes nothing
InputPop ==
  /\ inHand = Nothing
  /\ queue # <<>>
  /\ inHand' = Head(queue)
  /\ queue' = Tail(queue)
  /\ UNCHANGED <<feeder, codec, framesDropped, offered, lost, delivered, troubled>>

\* Mutant of InputTryAgain: every NALU is pushed back, not only SPS and PPS.
InputTryAgainAlways ==
  /\ inHand # Nothing
  /\ Len(codecIn) = InputBuffers
  /\ Len(queue) < QueueRoom
  /\ queue' = Append(queue, inHand)
  /\ inHand' = Nothing
  /\ UNCHANGED <<feeder, codec, framesDropped, offered, lost, delivered, troubled>>

\* dequeueInputBuffer: TRY_AGAIN. A parameter set is pushed back and the
\* result of the push ignored; anything else is dropped and counted.
InputTryAgain ==
  /\ inHand # Nothing
  /\ Len(codecIn) = InputBuffers
  /\ \/ /\ IsConfig(inHand)
        /\ IF Len(queue) < QueueRoom
           THEN queue' = Append(queue, inHand) /\ UNCHANGED lost
           ELSE lost' = lost + 1 /\ UNCHANGED queue
        /\ UNCHANGED framesDropped
     \/ /\ ~ IsConfig(inHand)
        /\ framesDropped' = framesDropped + 1
        /\ UNCHANGED <<queue, lost>>
  /\ inHand' = Nothing
  /\ troubled' = TRUE
  /\ UNCHANGED <<feeder, codec, offered, delivered>>

Fails == failures < MaxFailures /\ failures' = failures + 1

\* dequeueInputBuffer: another negative result; or the codec refuses the
\* filled buffer. The NALU is gone, no counter changes.
InputError ==
  /\ Fails
  /\ inHand # Nothing
  /\ lost' = lost + 1
  /\ inHand' = Nothing
  /\ troubled' = TRUE
  /\ UNCHANGED <<feeder, queue, codecIn, codecOut, framesDecoded, framesDropped, offered, delivered>>

\* The buffer is null or too small: it goes back empty, the NALU is dropped.
InputTooBig ==
  /\ Fails
  /\ inHand # Nothing
  /\ Len(codecIn) < InputBuffers
  /\ codecIn' = Append(codecIn, Nothing)
  /\ framesDropped' = framesDropped + 1
  /\ inHand' = Nothing
  /\ troubled' = TRUE
  /\ UNCHANGED <<feeder, queue, codecOut, framesDecoded, offered, lost, delivered>>

\* Copy and queueInputBuffer
InputDeliver ==
  /\ inHand # Nothing
  /\ Len(codecIn) < InputBuffers
  /\ codecIn' = Append(codecIn, inHand)
  /\ delivered' = Append(delivered, inHand)
  /\ inHand' = Nothing
  /\ UNCHANGED <<feeder, queue, codecOut, framesDecoded, failures, framesDropped,
                 offered, lost, troubled>>

InputLoop == InputPop \/ InputTryAgain \/ InputError \/ InputTooBig \/ InputDeliver

-----------------------------------------------------------------------------
(* The decoder (external) and outputLoop *)

\* A frame becomes an output buffer (an empty one, 0, if it cannot be decoded)
\* once there is one; other NALUs only free their input buffer.
Decode ==
  /\ codecIn # <<>>
  /\ \/ /\ IsFrame(Head(codecIn))
        /\ Len(codecOut) < OutputBuffers
        /\ \/ codecOut' = Append(codecOut, Head(codecIn).id) /\ UNCHANGED failures
           \/ codecOut' = Append(codecOut, 0) /\ Fails
     \/ /\ ~ IsFrame(Head(codecIn))
        /\ UNCHANGED <<codecOut, failures>>
  /\ codecIn' = Tail(codecIn)
  /\ UNCHANGED <<feeder, queue, inHand, framesDecoded, framesDropped, offered,
                 lost, delivered, troubled>>

\* dequeueOutputBuffer, then releaseOutputBuffer: rendered and counted unless
\* empty. (TRY_AGAIN and OUTPUT_FORMAT_CHANGED only go round the loop.)
OutputLoop ==
  /\ codecOut # <<>>
  /\ codecOut' = Tail(codecOut)
  /\ framesDecoded' = framesDecoded + (IF Head(codecOut) = 0 THEN 0 ELSE 1)
  /\ UNCHANGED <<feeder, queue, inHand, codecIn, failures, framesDropped, offered,
                 lost, delivered, troubled>>

-----------------------------------------------------------------------------

Next == HandleNalu \/ InputLoop \/ Decode \/ OutputLoop

Spec == Init /\ [][Next]_vars

\* The two loops run as long as running_ is set, the decoder decodes, and
\* handleNalu finishes what it began. Nothing makes the sender send.
FairSpec ==
  /\ Spec
  /\ WF_vars(InputLoop) /\ WF_vars(OutputLoop) /\ WF_vars(Decode)
  /\ WF_vars(EnqueueBatch)

-----------------------------------------------------------------------------

NaluType == [kind : Kinds \cup {"nothing"}, id : 0 .. MaxNalus, gop : 0 .. MaxNalus]

TypeOK ==
  /\ handled \in 0 .. MaxNalus /\ gop \in 0 .. handled
  /\ cachedSps \in NaluType /\ cachedPps \in NaluType
  /\ configured \in BOOLEAN
  /\ todo \in Seq(NaluType) /\ Len(todo) <= kIdrBatch
  /\ queue \in Seq(NaluType) /\ Len(queue) <= QueueRoom
  /\ inHand \in NaluType
  /\ codecIn \in Seq(NaluType) /\ Len(codecIn) <= InputBuffers
  /\ codecOut \in Seq(0 .. MaxNalus) /\ Len(codecOut) <= OutputBuffers
  /\ framesDropped \in Nat /\ framesDecoded \in Nat
  /\ offered \in Nat /\ lost \in Nat
  /\ delivered \in Seq(NaluType)
  /\ failures \in 0 .. MaxFailures /\ troubled \in BOOLEAN

\* Pictures reach the decoder in stream order, none twice: dropping, and
\* pushing parameter sets back, never reorders or repeats a frame.
FramesInOrder ==
  \A i, j \in DOMAIN delivered :
    (i < j /\ IsFrame(delivered[i]) /\ IsFrame(delivered[j]))
      => delivered[i].id < delivered[j].id

\* The counters explain every NALU offered to the queue: it is waiting, in
\* hand, delivered or counted in framesDropped, but for those lost silently.
Ledger ==
  /\ TypeOK
  /\ offered = Len(queue) + (IF inHand = Nothing THEN 0 ELSE 1)
               + Len(delivered) + framesDropped + lost

Delivered(kind, g) ==
  \E i \in DOMAIN delivered : delivered[i].kind = kind /\ delivered[i].gop = g

\* The decoder is started by a key frame with its parameter sets: as long as it
\* always had an input buffer, however full the queue was, no picture precedes
\* the first IDR, and no IDR the SPS and PPS it was queued with.
DecodableFromStart ==
  ~ troubled =>
    \A i \in DOMAIN delivered :
      /\ delivered[i].kind = "slice" =>
           \E j \in 1 .. i - 1 : delivered[j].kind = "idr"
      /\ delivered[i].kind = "idr" =>
           \A kind \in {"sps", "pps"} :
             \E j \in 1 .. i - 1 :
               delivered[j].kind = kind /\ delivered[j].gop = delivered[i].gop

\* The queue runs empty when the sender pauses, although parameter sets go
\* round and round it while the decoder stalls, and whatever the decoder
\* refuses.
QueueDrains == queue # <<>> ~> queue = <<>>

=============================================================================
