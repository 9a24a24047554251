----------------------------- MODULE RingInApp -----------------------------
(***************************************************************************)
(* LockFreeRingBuffer as LiveVideoEngine.cpp uses it, for video/avc:       *)
(*   - the feeding thread queues one frame, or a batch SPS, PPS, IDR after *)
(*     one look at freeCapacity() (handleNalu);                            *)
(*   - the input thread pops, and pushes an SPS or PPS back when the       *)
(*     decoder has no free input buffer (inputLoop): a second pusher;      *)
(*   - a restart empties the ring (init) while the input thread is joined, *)
(*     but with nothing that holds the feeding thread back.                *)
(* The history variables onePusher and quietClear tell the executions that *)
(* keep the contract of the ring from those that break it in either way.   *)
(***************************************************************************)
EXTENDS LockFreeRingBuffer

CONSTANTS Sps, Pps, Idr, Frame  \* the kinds of NALU handleNalu queues

ASSUME KindsAreValues == {Sps, Pps, Idr, Frame} \subseteq Values

VARIABLES
  plan,        \* what handleNalu has still to enqueue, in order
  configured,  \* codec_configured_
  held,        \* the SPS or PPS inputLoop is about to push back, or Blank
  initAt,      \* the next store of clear() inside init(), or "done"
  owed,        \* history: pushes that returned true minus pops (mod CAP);
               \* not kept after a clear() that was not quiet
  onePusher,   \* history: since the ring was last cleared nobody but the
               \* feeding thread pushed
  quietClear   \* history: the feeding thread did nothing to the ring while
               \* it was last cleared

appVars == <<plan, configured, held, initAt, owed, onePusher, quietClear>>

IdrBatch == <<Sps, Pps, Idr>>   \* kIdrBatch

AppInit ==
  /\ Init
  /\ plan = <<>> /\ configured = FALSE /\ held = Blank
  /\ initAt = "done" /\ owed = 0
  /\ onePusher = TRUE /\ quietClear = TRUE

-----------------------------------------------------------------------------
(* handleNalu, on the feeding thread *)

Between == pc[Producer] = "idle" /\ plan = <<>>

FeederAtWork == quietClear' = (quietClear /\ initAt = "done")

\* An IDR: is there room for the batch?
FeedIdr ==
  /\ Between
  /\ SizeLoadHead(Producer)
  /\ FeederAtWork
  /\ UNCHANGED <<plan, configured, held, initAt, owed, onePusher>>

\* There is: queue all three. There is not: drop the IDR.
DecideIdr ==
  /\ FreeCapacity(Producer)
  /\ plan' = IF reserve' >= Len(IdrBatch) THEN IdrBatch ELSE <<>>
  /\ FeederAtWork
  /\ UNCHANGED <<configured, held, initAt, owed, onePusher>>

\* A frame is queued only once an IDR was.
FeedFrame ==
  /\ Between /\ configured
  /\ PushStart(Producer, Frame)
  /\ FeederAtWork
  /\ UNCHANGED <<plan, configured, held, initAt, owed, onePusher>>

\* Next push of the batch. The last one sets codec_configured_, whether or not
\* the pushes succeed.
FeedNext ==
  /\ plan # <<>>
  /\ PushStart(Producer, Head(plan))
  /\ plan' = Tail(plan)
  /\ configured' = (configured \/ Len(plan) = 1)
  /\ FeederAtWork
  /\ UNCHANGED <<held, initAt, owed, onePusher>>

\* The rest of a push, of either thread.
FinishPush(t) ==
  /\ \/ (PushRefresh(t) \/ PushWrite(t)) /\ UNCHANGED owed
     \/ PushPublish(t) /\ owed' = IF quietClear THEN Inc(owed) ELSE 0
  /\ FeederAtWork  \* the input thread, when it pushes, runs after init()
  /\ UNCHANGED <<plan, configured, held, initAt, onePusher>>

-----------------------------------------------------------------------------
(* inputLoop, on the input thread; it exists only after init (start) *)

TakeStart ==
  /\ initAt = "done" /\ held = Blank
  /\ PopStart(Consumer)
  /\ UNCHANGED appVars

TakeOn == (PopRefresh(Consumer) \/ PopRead(Consumer)) /\ UNCHANGED appVars

\* The decoder may have no free input buffer: then a parameter set is kept, to
\* be pushed back. (Any other NALU is dropped.)
TakeDone ==
  /\ PopPublish(Consumer)
  /\ owed' = IF quietClear THEN Dist(1, owed) ELSE 0
  /\ held' \in {Blank} \cup ({val[Consumer]} \cap {Sps, Pps})
  /\ UNCHANGED <<plan, configured, initAt, onePusher, quietClear>>

\* The result of this push is not looked at.
PutBack ==
  /\ held # Blank
  /\ PushStart(Consumer, held)
  /\ held' = Blank
  /\ onePusher' = FALSE
  /\ UNCHANGED <<plan, configured, initAt, owed, quietClear>>

-----------------------------------------------------------------------------
(* release() and init(): the input thread is joined, the ring cleared by the *)
(* four stores of clear(), then start() creates the input thread anew. The   *)
(* feeding thread stops at "codec_ == nullptr" only on entry of feedStream,  *)
(* and no longer once init() has assigned codec_, before it clears.          *)

Restart ==
  /\ initAt = "done"
  /\ pc[Consumer] = "idle" /\ held = Blank
  /\ initAt' = "head"
  /\ configured' = FALSE
  /\ onePusher' = TRUE
  /\ quietClear' = Between
  /\ UNCHANGED vars /\ UNCHANGED <<plan, held, owed>>

ClearRest ==
  UNCHANGED <<buffer, pc, idx, val, ret, reserve, plan, configured, held,
              onePusher, quietClear>>

ClearHead ==
  /\ initAt = "head" /\ initAt' = "tail"
  /\ head' = 0
  /\ UNCHANGED <<tail, headCache, tailCache, owed>> /\ ClearRest

\* Mutant of ClearTail: clear() leaves tail_ alone.
ClearTailForgotten ==
  /\ initAt = "tail" /\ initAt' = "headCache"
  /\ owed' = 0
  /\ UNCHANGED <<head, tail, headCache, tailCache>> /\ ClearRest

ClearTail ==
  /\ initAt = "tail" /\ initAt' = "headCache"
  /\ tail' = 0 /\ owed' = 0
  /\ UNCHANGED <<head, headCache, tailCache>> /\ ClearRest

ClearHeadCache ==
  /\ initAt = "headCache" /\ initAt' = "tailCache"
  /\ headCache' = 0
  /\ UNCHANGED <<head, tail, tailCache, owed>> /\ ClearRest

ClearTailCache ==
  /\ initAt = "tailCache" /\ initAt' = "done"
  /\ tailCache' = 0
  /\ UNCHANGED <<head, tail, headCache, owed>> /\ ClearRest

Clear == ClearHead \/ ClearTail \/ ClearHeadCache \/ ClearTailCache

-----------------------------------------------------------------------------

AppNext ==
  \/ FeedIdr \/ DecideIdr \/ FeedFrame \/ FeedNext
  \/ \E t \in Threads : FinishPush(t)
  \/ TakeStart \/ TakeOn \/ TakeDone \/ PutBack
  \/ Restart \/ Clear

AppSpec == AppInit /\ [][AppNext]_<<vars, appVars>>

-----------------------------------------------------------------------------

Quiet == initAt = "done" /\ \A t \in Threads : pc[t] = "idle"

\* Between operations the ring holds exactly the NALUs whose push succeeded
\* and that were not popped yet: push, pop and clear lose and replay none as
\* long as only the feeding thread pushed, also across restarts.
Accounted == (onePusher /\ quietClear /\ Quiet) => Dist(head, tail) = owed

\* What "single producer, single consumer" (LiveVideoEngine.h) promises of the
\* ring the engine uses: the same, whoever pushed.
NothingLost == (quietClear /\ Quiet) => Dist(head, tail) = owed
=============================================================================
