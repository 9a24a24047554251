------------------------- MODULE EngineLifecycleProofs -------------------------
(***************************************************************************)
(* The safety of the engine's lifecycle for any number of calls of init(). *)
(***************************************************************************)
EXTENDS EngineLifecycle, TLAPS

\* While running_ is not set there are no threads, but those that release()
\* is about to join.
LoopsJoined ==
  /\ ~ running /\ at # "join_input" => loop["input"] = "none"
  /\ ~ running /\ at \notin {"join_input", "join_output"} => loop["output"] = "none"
  /\ at \in {"join_input", "join_output", "delete", "release_window", "clear"}
       => ~ running

InInit == {"acquire", "create", "configure", "start_codec", "reset", "start"}

\* What init() has made of the codec when it is at each of its places
CodecFollowsInit ==
  /\ inInit \/ at \in InInit => inits \in Codecs
  /\ at \in InInit => inInit
  /\ at \in {"release_window", "clear", "acquire", "create"} => codec = None
  /\ at = "configure" => codec # None /\ status[codec] = "created"
  /\ at = "start_codec" => codec # None /\ status[codec] = "configured"
  /\ at = "reset" => codec # None /\ status[codec] = "started"

Started(c) == c # None /\ status[c] = "started"

\* Unless an init failed, the loops that run, and those that are about to,
\* find a started codec.
RunsStarted ==
  ~ failed =>
    /\ running \/ at = "start" => Started(codec)
    /\ \A l \in Loops : loop[l] = "call" => Started(using[l])

\* A window is there only while there is a codec, or when init is at work or
\* has failed; so init() does not overwrite one, unless it is called again
\* after a failure.
OneWindow ==
  /\ at = "clear" => window = None
  /\ ~ retried =>
       /\ held = {window} \ {None}
       /\ at = "acquire" \/ (at = "idle" /\ codec = None /\ ~ failed) => window = None

Resetting == {"configure", "start_codec", "reset"}

\* A feedStream that began in this session adds bytes of this session.
OneSession ==
  quiet /\ codec # None /\ at \notin Resetting =>
    /\ inside \in {None, codec}
    /\ parsed \cup queued \subseteq {codec}

IInv == TypeOK /\ LoopsJoined /\ CodecFollowsInit /\ RunsStarted /\ OneWindow /\ OneSession

-----------------------------------------------------------------------------

\* start() makes threads only when running_ was not set; release() joins both
\* after it cleared it.
LEMMA LoopsJoinedStep == IInv /\ [Next]_vars => LoopsJoined'
  <1> SUFFICES ASSUME IInv, [Next]_vars PROVE LoopsJoined'
    OBVIOUS
  <1> USE DEF IInv, TypeOK, LoopsJoined, Places, Loops, engine, threads, caller, data, history, Step
  <1>1. CASE InitDecoder
    BY <1>1 DEF InitDecoder
  <1>2. CASE Acquire
    BY <1>2 DEF Acquire
  <1>3. CASE CreateDecoder
    BY <1>3 DEF CreateDecoder, GiveUp
  <1>4. CASE Configure
    BY <1>4 DEF Configure, GiveUp, SetStatus
  <1>5. CASE StartCodec
    BY <1>5 DEF StartCodec, GiveUp, SetStatus
  <1>6. CASE ResetSession
    BY <1>6 DEF ResetSession
  <1>7. CASE Start
    BY <1>7 DEF Start, StartLoops
  <1>8. CASE Release
    BY <1>8 DEF Release
  <1>9. CASE Stop
    BY <1>9 DEF Stop
  <1>10. CASE JoinInput \/ JoinOutput
    BY <1>10 DEF JoinInput, JoinOutput, Join
  <1>11. CASE DeleteCodec
    BY <1>11 DEF DeleteCodec
  <1>12. CASE ReleaseWindow
    BY <1>12 DEF ReleaseWindow
  <1>13. CASE ClearParser
    BY <1>13 DEF ClearParser
  <1>14. ASSUME NEW l \in Loops, Loop(l) PROVE LoopsJoined'
    BY <1>14 DEF Loop, LoopTest, LoopReturns, Loops
  <1>15. CASE FeedStream
    BY <1>15 DEF FeedStream, FeedEnter, FeedParse, FeedLeave
  <1>16. CASE UNCHANGED vars
    BY <1>16 DEF vars, engine, threads, caller, data, history
  <1> QED
    BY <1>1, <1>2, <1>3, <1>4, <1>5, <1>6, <1>7, <1>8, <1>9, <1>10, <1>11,
       <1>12, <1>13, <1>14, <1>15, <1>16 DEF Next, InitSteps, ReleaseSteps

\* Nobody but init() and release() touches codec_ and the codec's state.
LEMMA CodecFollowsInitStep == IInv /\ [Next]_vars => CodecFollowsInit'
  <1> SUFFICES ASSUME IInv, [Next]_vars PROVE CodecFollowsInit'
    OBVIOUS
  <1> USE MaxCodecsIsNat DEF IInv, TypeOK, CodecFollowsInit, InInit, Codecs,
       None, Places, engine, threads, caller, data, history, Step
  <1>1. CASE InitDecoder
    BY <1>1 DEF InitDecoder
  <1>2. CASE Acquire
    BY <1>2 DEF Acquire
  <1>3. CASE CreateDecoder
    BY <1>3 DEF CreateDecoder, GiveUp
  <1>4. CASE Configure
    BY <1>4 DEF Configure, GiveUp, SetStatus
  <1>5. CASE StartCodec
    BY <1>5 DEF StartCodec, GiveUp, SetStatus
  <1>6. CASE ResetSession
    BY <1>6 DEF ResetSession
  <1>7. CASE Start
    BY <1>7 DEF Start, StartLoops
  <1>8. CASE Release
    BY <1>8 DEF Release
  <1>9. CASE Stop
    BY <1>9 DEF Stop
  <1>10. CASE JoinInput \/ JoinOutput
    BY <1>10 DEF JoinInput, JoinOutput, Join
  <1>11. CASE DeleteCodec
    BY <1>11 DEF DeleteCodec
  <1>12. CASE ReleaseWindow
    BY <1>12 DEF ReleaseWindow
  <1>13. CASE ClearParser
    BY <1>13 DEF ClearParser
  <1>14. ASSUME NEW l \in Loops, Loop(l) PROVE CodecFollowsInit'
    <2>1. UNCHANGED <<at, inInit, inits, codec, status>>
      BY <1>14 DEF Loop, LoopTest, LoopReturns
    <2> QED
      BY <2>1
  <1>15. CASE FeedStream
    <2>1. UNCHANGED <<at, inInit, inits, codec, status>>
      BY <1>15 DEF FeedStream, FeedEnter, FeedParse, FeedLeave
    <2> QED
      BY <2>1
  <1>16. CASE UNCHANGED vars
    BY <1>16 DEF vars, engine, threads, caller, data, history
  <1> QED
    BY <1>1, <1>2, <1>3, <1>4, <1>5, <1>6, <1>7, <1>8, <1>9, <1>10, <1>11,
       <1>12, <1>13, <1>14, <1>15, <1>16 DEF Next, InitSteps, ReleaseSteps

\* A codec changes its state only while no loop runs on it, unless an init failed.
LEMMA RunsStartedStep == IInv /\ [Next]_vars => RunsStarted'
  <1> SUFFICES ASSUME IInv, [Next]_vars PROVE RunsStarted'
    OBVIOUS
  <1> USE DEF IInv, TypeOK, RunsStarted, Started, LoopsJoined,
       CodecFollowsInit, InInit, Codecs, None, Loops, engine, threads, caller,
       data, history, Step
  <1>1. CASE InitDecoder
    BY <1>1 DEF InitDecoder
  <1>2. CASE Acquire
    BY <1>2 DEF Acquire
  <1>3. CASE CreateDecoder
    BY <1>3 DEF CreateDecoder, GiveUp
  <1>4. CASE Configure
    BY <1>4 DEF Configure, GiveUp, SetStatus
  <1>5. CASE StartCodec
    BY <1>5 DEF StartCodec, GiveUp, SetStatus
  <1>6. CASE ResetSession
    BY <1>6 DEF ResetSession
  <1>7. CASE Start
    BY <1>7 DEF Start, StartLoops
  <1>8. CASE Release
    BY <1>8 DEF Release
  <1>9. CASE Stop
    BY <1>9 DEF Stop
  <1>10. CASE JoinInput \/ JoinOutput
    BY <1>10 DEF JoinInput, JoinOutput, Join
  <1>11. CASE DeleteCodec
    BY <1>11 DEF DeleteCodec
  <1>12. CASE ReleaseWindow
    BY <1>12 DEF ReleaseWindow
  <1>13. CASE ClearParser
    BY <1>13 DEF ClearParser
  <1>14. ASSUME NEW l \in Loops, Loop(l) PROVE RunsStarted'
    <2>1. CASE LoopTest(l)
      BY <2>1 DEF LoopTest, Loops
    <2>2. CASE LoopReturns(l)
      BY <2>2 DEF LoopReturns, Loops
    <2> QED
      BY <1>14, <2>1, <2>2 DEF Loop
  <1>15. CASE FeedStream
    BY <1>15 DEF FeedStream, FeedEnter, FeedParse, FeedLeave
  <1>16. CASE UNCHANGED vars
    BY <1>16 DEF vars, engine, threads, caller, data, history
  <1> QED
    BY <1>1, <1>2, <1>3, <1>4, <1>5, <1>6, <1>7, <1>8, <1>9, <1>10, <1>11,
       <1>12, <1>13, <1>14, <1>15, <1>16 DEF Next, InitSteps, ReleaseSteps

\* init() acquires a window only after release() gave back the one before.
LEMMA OneWindowStep == IInv /\ [Next]_vars => OneWindow'
  <1> SUFFICES ASSUME IInv, [Next]_vars PROVE OneWindow'
    OBVIOUS
  <1> USE DEF IInv, TypeOK, OneWindow, CodecFollowsInit, RunsStarted, Started,
       InInit, Codecs, None, engine, threads, caller, data, history, Step
  <1>1. CASE InitDecoder
    BY <1>1 DEF InitDecoder
  <1>2. CASE Acquire
    BY <1>2 DEF Acquire
  <1>3. CASE CreateDecoder
    BY <1>3 DEF CreateDecoder, GiveUp
  <1>4. CASE Configure
    BY <1>4 DEF Configure, GiveUp, SetStatus
  <1>5. CASE StartCodec
    BY <1>5 DEF StartCodec, GiveUp, SetStatus
  <1>6. CASE ResetSession
    BY <1>6 DEF ResetSession
  <1>7. CASE Start
    BY <1>7 DEF Start, StartLoops
  <1>8. CASE Release
    BY <1>8 DEF Release
  <1>9. CASE Stop
    BY <1>9 DEF Stop
  <1>10. CASE JoinInput \/ JoinOutput
    BY <1>10 DEF JoinInput, JoinOutput, Join
  <1>11. CASE DeleteCodec
    BY <1>11 DEF DeleteCodec
  <1>12. CASE ReleaseWindow
    BY <1>12 DEF ReleaseWindow
  <1>13. CASE ClearParser
    BY <1>13 DEF ClearParser
  <1>14. ASSUME NEW l \in Loops, Loop(l) PROVE OneWindow'
    BY <1>14 DEF Loop, LoopTest, LoopReturns, Loops
  <1>15. CASE FeedStream
    BY <1>15 DEF FeedStream, FeedEnter, FeedParse, FeedLeave
  <1>16. CASE UNCHANGED vars
    BY <1>16 DEF vars, engine, threads, caller, data, history
  <1> QED
    BY <1>1, <1>2, <1>3, <1>4, <1>5, <1>6, <1>7, <1>8, <1>9, <1>10, <1>11,
       <1>12, <1>13, <1>14, <1>15, <1>16 DEF Next, InitSteps, ReleaseSteps

\* Bytes of another session stay out once init() has reset parser and queue.
LEMMA OneSessionStep == IInv /\ [Next]_vars => OneSession'
  <1> SUFFICES ASSUME IInv, [Next]_vars PROVE OneSession'
    OBVIOUS
  <1> USE DEF IInv, TypeOK, OneSession, Resetting, CodecFollowsInit, InInit,
       Codecs, None, engine, threads, caller, data, history, Step
  <1>1. CASE InitDecoder
    BY <1>1 DEF InitDecoder
  <1>2. CASE Acquire
    BY <1>2 DEF Acquire
  <1>3. CASE CreateDecoder
    BY <1>3 DEF CreateDecoder, GiveUp
  <1>4. CASE Configure
    BY <1>4 DEF Configure, GiveUp, SetStatus
  <1>5. CASE StartCodec
    BY <1>5 DEF StartCodec, GiveUp, SetStatus
  <1>6. CASE ResetSession
    BY <1>6 DEF ResetSession
  <1>7. CASE Start
    BY <1>7 DEF Start, StartLoops
  <1>8. CASE Release
    BY <1>8 DEF Release
  <1>9. CASE Stop
    BY <1>9 DEF Stop
  <1>10. CASE JoinInput \/ JoinOutput
    BY <1>10 DEF JoinInput, JoinOutput, Join
  <1>11. CASE DeleteCodec
    BY <1>11 DEF DeleteCodec
  <1>12. CASE ReleaseWindow
    BY <1>12 DEF ReleaseWindow
  <1>13. CASE ClearParser
    BY <1>13 DEF ClearParser
  <1>14. ASSUME NEW l \in Loops, Loop(l) PROVE OneSession'
    <2>1. queued' \subseteq queued
      BY <1>14 DEF Loop, LoopTest, LoopReturns
    <2>2. UNCHANGED <<quiet, codec, at, inside, parsed>>
      BY <1>14 DEF Loop, LoopTest, LoopReturns
    <2> QED
      BY <2>1, <2>2
  <1>15. CASE FeedStream
    BY <1>15 DEF FeedStream, FeedEnter, FeedParse, FeedLeave
  <1>16. CASE UNCHANGED vars
    BY <1>16 DEF vars, engine, threads, caller, data, history
  <1> QED
    BY <1>1, <1>2, <1>3, <1>4, <1>5, <1>6, <1>7, <1>8, <1>9, <1>10, <1>11,
       <1>12, <1>13, <1>14, <1>15, <1>16 DEF Next, InitSteps, ReleaseSteps

\* The types, and codec_ is never dangling.
LEMMA TypeOKStep == IInv /\ [Next]_vars => TypeOK'
  <1> SUFFICES ASSUME IInv, [Next]_vars PROVE TypeOK'
    OBVIOUS
  <1> USE MaxCodecsIsNat DEF IInv, TypeOK, CodecFollowsInit, InInit, Codecs,
       None, Places, Loops, engine, threads, caller, data, history, Step
  <1>1. CASE InitDecoder
    BY <1>1 DEF InitDecoder
  <1>2. CASE Acquire
    BY <1>2 DEF Acquire
  <1>3. CASE CreateDecoder
    BY <1>3 DEF CreateDecoder, GiveUp
  <1>4. CASE Configure
    BY <1>4 DEF Configure, GiveUp, SetStatus
  <1>5. CASE StartCodec
    BY <1>5 DEF StartCodec, GiveUp, SetStatus
  <1>6. CASE ResetSession
    BY <1>6 DEF ResetSession
  <1>7. CASE Start
    BY <1>7 DEF Start, StartLoops
  <1>8. CASE Release
    BY <1>8 DEF Release
  <1>9. CASE Stop
    BY <1>9 DEF Stop
  <1>10. CASE JoinInput \/ JoinOutput
    <2>1. loop' \in [Loops -> {"none", "top", "call", "exited"}]
      BY <1>10 DEF JoinInput, JoinOutput, Join
    <2> QED
      BY <2>1, <1>10 DEF JoinInput, JoinOutput, Join
  <1>11. CASE DeleteCodec
    BY <1>11 DEF DeleteCodec
  <1>12. CASE ReleaseWindow
    BY <1>12 DEF ReleaseWindow
  <1>13. CASE ClearParser
    BY <1>13 DEF ClearParser
  <1>14. ASSUME NEW l \in Loops, Loop(l) PROVE TypeOK'
    <2>1. queued' \subseteq Codecs
      <3>1. queued' \subseteq queued
        BY <1>14 DEF Loop, LoopTest, LoopReturns
      <3> QED
        BY <3>1
    <2>2. /\ loop' \in [Loops -> {"none", "top", "call", "exited"}]
          /\ using' \in [Loops -> Codecs \cup {None}]
      BY <1>14 DEF Loop, LoopTest, LoopReturns
    <2>3. UNCHANGED <<engine, running, caller, inside, parsed, history>>
      BY <1>14 DEF Loop, LoopTest, LoopReturns
    <2> QED
      BY <2>1, <2>2, <2>3
  <1>15. CASE FeedStream
    <2>1. inside' \in Codecs \cup {None} /\ parsed' \subseteq Codecs
      BY <1>15 DEF FeedStream, FeedEnter, FeedParse, FeedLeave
    <2>2. queued' \subseteq Codecs
      BY <2>1, <1>15 DEF FeedStream, FeedEnter, FeedParse, FeedLeave
    <2>3. UNCHANGED <<engine, threads, caller, history>>
      BY <1>15 DEF FeedStream, FeedEnter, FeedParse, FeedLeave
    <2> QED
      BY <2>1, <2>2, <2>3
  <1>16. CASE UNCHANGED vars
    BY <1>16 DEF vars, engine, threads, caller, data, history
  <1> QED
    BY <1>1, <1>2, <1>3, <1>4, <1>5, <1>6, <1>7, <1>8, <1>9, <1>10, <1>11,
       <1>12, <1>13, <1>14, <1>15, <1>16 DEF Next, InitSteps, ReleaseSteps

\* The initial state has no session.
LEMMA LifecycleInit == Init => IInv
  <1> SUFFICES ASSUME Init PROVE IInv
    OBVIOUS
  <1> USE MaxCodecsIsNat DEF Init, Codecs, None, Loops
  <1>1. TypeOK
    <2>1. /\ running \in BOOLEAN /\ inInit \in BOOLEAN
          /\ failed \in BOOLEAN /\ retried \in BOOLEAN /\ quiet \in BOOLEAN
      OBVIOUS
    <2>2. /\ status \in [Codecs -> {"none", "created", "configured", "started", "deleted"}]
          /\ loop \in [Loops -> {"none", "top", "call", "exited"}]
          /\ using \in [Loops -> Codecs \cup {None}]
      OBVIOUS
    <2>3. inits \in 0 .. MaxCodecs
      OBVIOUS
    <2> QED
      BY <2>1, <2>2, <2>3 DEF TypeOK, Places
  <1>2. LoopsJoined /\ CodecFollowsInit
    BY DEF LoopsJoined, CodecFollowsInit, InInit
  <1>3. RunsStarted /\ OneWindow /\ OneSession
    BY DEF RunsStarted, Started, OneWindow, OneSession
  <1> QED
    BY <1>1, <1>2, <1>3 DEF IInv

LEMMA LifecycleStep == IInv /\ [Next]_vars => IInv'
  BY LoopsJoinedStep, CodecFollowsInitStep, RunsStartedStep, OneWindowStep,
     OneSessionStep, TypeOKStep DEF IInv

\* The inductive invariant of init, start, stop and release
\* (LiveVideoEngine.cpp:52-155).
THEOREM LifecycleInvariance == Spec => []IInv
  BY LifecycleInit, LifecycleStep, PTL DEF Spec

-----------------------------------------------------------------------------

\* inputLoop and outputLoop call only a started codec, whatever init and
\* release do meanwhile, as long as no init failed (LiveVideoEngine.cpp:52-155).
THEOREM LoopsCallStartedCodec == Spec => []LoopsOnStartedCodec
  <1>1. IInv => LoopsOnStartedCodec
    BY DEF IInv, RunsStarted, Started, LoopsOnStartedCodec
  <1> QED
    BY <1>1, LifecycleInvariance, PTL

\* start() never assigns to a joinable thread (LiveVideoEngine.cpp:116-122).
THEOREM ThreadsAreJoinedFirst == Spec => NoThreadOverwritten
  <1> DEFINE Joined == Step("start", "idle") /\ loop' # loop
                         => \A l \in Loops : loop[l] = "none"
  <1>1. ASSUME IInv, [Next]_vars PROVE [Joined]_vars
    <2>1. CASE Start
      BY <1>1, <2>1 DEF Start, IInv, LoopsJoined, Loops, Step
    <2>2. CASE (InitSteps /\ ~ Start) \/ ReleaseSteps \/ InitDecoder \/ Release
      BY <1>1, <2>2 DEF InitSteps, ReleaseSteps, InitDecoder, Release, Acquire,
         CreateDecoder, Configure, StartCodec, ResetSession, Stop, JoinInput,
         JoinOutput, DeleteCodec, ReleaseWindow, ClearParser, Step, threads
    <2>3. CASE FeedStream \/ \E l \in Loops : Loop(l)
      BY <2>3 DEF FeedStream, FeedEnter, FeedParse, FeedLeave, Loop, LoopTest,
         LoopReturns, Step, caller
    <2> QED
      BY <1>1, <2>1, <2>2, <2>3 DEF Next
  <1> QED
    BY <1>1, LifecycleInvariance, PTL DEF Spec, NoThreadOverwritten

\* No window leaks while init() is not called again after a failure
\* (LiveVideoEngine.cpp:65-66, :137-150).
THEOREM NoWindowLeaks == Spec => []WindowsReleased
  <1>1. IInv => WindowsReleased
    BY DEF IInv, OneWindow, WindowsReleased
  <1> QED
    BY <1>1, LifecycleInvariance, PTL

\* A session starts with an empty parser and queue (LiveVideoEngine.cpp:104-108).
THEOREM SessionsStartFresh == Spec => []FreshSession
  <1>1. IInv => FreshSession
    BY DEF IInv, OneSession, Resetting, FreshSession
  <1> QED
    BY <1>1, LifecycleInvariance, PTL
==============================================================================
