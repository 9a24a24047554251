--------------------------- MODULE EngineLifecycle ---------------------------
(***************************************************************************)
(* init(), start(), stop() and release() of LiveVideoEngine, against the   *)
(* two loops they start and join and against a feeding thread that is      *)
(* inside feedStream() at any of these moments.                            *)
(*                                                                         *)
(* The GL thread calls initDecoder (init, then start), again whenever it   *)
(* gets a new surface; the UI thread calls release in onDestroy, when      *)
(* onPause has stopped the GL thread of the activity: the two calls do not *)
(* overlap. A codec is named by its number, so that what belongs to an     *)
(* earlier session can be told from what belongs to the present one.       *)
(***************************************************************************)
EXTENDS Integers, FiniteSets

CONSTANT MaxCodecs  \* bound: calls of init()

ASSUME MaxCodecsIsNat == MaxCodecs \in Nat

None   == 0                \* nullptr
Codecs == 1 .. MaxCodecs
Loops  == {"input", "output"}

VARIABLES
  codec,    \* codec_
  status,   \* what has become of each codec object
  window,   \* window_ and surface_ref_, named like the codec made for them
  held,     \* windows acquired and not yet released
  running,  \* running_
  loop,     \* loop[l]: "none" (not joinable), "top", "call", or "exited"
  using,    \* using[l]: the codec_ loop l has passed to the call it is in
  at,       \* where the caller is inside init, start or release
  inInit,   \* was release() called by init()?
  inits,    \* calls of init so far
  inside,   \* the codec_ feedStream saw on entry; None: nobody is inside
  parsed,   \* sessions with bytes in demuxer_, cached_sps_, cached_pps_
  queued,   \* sessions with bytes in nalu_queue_
  failed,   \* history: an init failed and no release followed yet
  retried,  \* history: init was called again after such a failure
  quiet     \* history: init last reset the parser with nobody inside
            \* feedStream since an earlier session

engine  == <<codec, status, window, held>>
threads == <<running, loop, using>>
caller  == <<at, inInit, inits>>
data    == <<inside, parsed, queued>>
history == <<failed, retried, quiet>>
vars    == <<engine, threads, caller, data, history>>

Places == {"idle", "init", "acquire", "create", "configure", "start_codec",
           "reset", "start", "stop", "join_input", "join_output", "delete",
           "release_window", "clear"}

Init ==
  /\ codec = None /\ status = [c \in Codecs |-> "none"]
  /\ window = None /\ held = {}
  /\ running = FALSE /\ loop = [l \in Loops |-> "none"]
  /\ using = [l \in Loops |-> None]
  /\ at = "idle" /\ inInit = FALSE /\ inits = 0
  /\ inside = None /\ parsed = {} /\ queued = {}
  /\ failed = FALSE /\ retried = FALSE /\ quiet = TRUE

Step(from, to) == at = from /\ at' = to

SetStatus(s) == status' = [status EXCEPT ![codec] = s]

-----------------------------------------------------------------------------
(* initDecoder, on the GL thread *)

\* A codec that is still there is released first.
InitDecoder ==
  /\ at = "idle" /\ inits < MaxCodecs
  /\ inits' = inits + 1
  /\ at' = IF codec # None THEN "stop" ELSE "acquire"
  /\ inInit' = TRUE
  /\ retried' = (retried \/ failed)
  /\ UNCHANGED <<engine, threads, data, failed, quiet>>

\* surface_ref_ and window_ are assigned, whatever they were.
Acquire ==
  /\ Step("acquire", "create")
  /\ window' = inits
  /\ held' = held \cup {inits}
  /\ UNCHANGED <<codec, status, threads, inInit, inits, data, history>>

\* The early returns of init leave codec_ null; initDecoder calls start() even so.
GiveUp ==
  /\ at' = "start"
  /\ failed' = TRUE
  /\ codec' = None

CreateDecoder ==
  /\ at = "create"
  /\ \/ /\ at' = "configure"
        /\ codec' = inits
        /\ status' = [status EXCEPT ![inits] = "created"]
        /\ UNCHANGED failed
     \/ GiveUp /\ UNCHANGED status
  /\ UNCHANGED <<window, held, threads, inInit, inits, data, retried, quiet>>

Configure ==
  /\ at = "configure"
  /\ \/ at' = "start_codec" /\ SetStatus("configured") /\ UNCHANGED <<codec, failed>>
     \/ GiveUp /\ SetStatus("deleted")
  /\ UNCHANGED <<window, held, threads, inInit, inits, data, retried, quiet>>

StartCodec ==
  /\ at = "start_codec"
  /\ \/ at' = "reset" /\ SetStatus("started") /\ UNCHANGED <<codec, failed>>
     \/ GiveUp /\ SetStatus("deleted")
  /\ UNCHANGED <<window, held, threads, inInit, inits, data, retried, quiet>>

\* Mutant of ResetSession: the queue keeps its content.
ResetSessionKeepsQueue ==
  /\ Step("reset", "start")
  /\ parsed' = {}
  /\ quiet' = (inside \in {None, codec})
  /\ UNCHANGED <<engine, threads, inInit, inits, inside, queued, failed, retried>>

\* codec_configured_ = false; demuxer_, nalu_queue_ and the caches are emptied.
ResetSession ==
  /\ Step("reset", "start")
  /\ parsed' = {} /\ queued' = {}
  /\ quiet' = (inside \in {None, codec})
  /\ UNCHANGED <<engine, threads, inInit, inits, inside, failed, retried>>

StartLoops == running' = TRUE /\ loop' = [l \in Loops |-> "top"]

\* Mutant of Start: running_ is set but not tested.
StartAnyway ==
  /\ Step("start", "idle")
  /\ StartLoops
  /\ inInit' = FALSE
  /\ UNCHANGED <<engine, using, inits, data, history>>

\* start(): nothing if running_ is set already, else two new threads
Start ==
  /\ Step("start", "idle")
  /\ \/ running /\ UNCHANGED <<running, loop>>
     \/ ~ running /\ StartLoops
  /\ inInit' = FALSE
  /\ UNCHANGED <<engine, using, inits, data, history>>

-----------------------------------------------------------------------------
(* release(), on the UI thread or inside init() *)

Release ==
  /\ Step("idle", "stop")
  /\ UNCHANGED <<engine, threads, inInit, inits, data, history>>

\* Mutant of Stop: running_ stays set.
StopForgets ==
  /\ Step("stop", "join_input")
  /\ UNCHANGED <<engine, threads, inInit, inits, data, history>>

Stop ==
  /\ Step("stop", "join_input")
  /\ running' = FALSE
  /\ UNCHANGED <<engine, loop, using, inInit, inits, data, history>>

\* Mutant of Join: nobody waits for the thread.
JoinNoWait(l) == UNCHANGED <<engine, threads, inInit, inits, data, history>>

Join(l) ==
  /\ loop[l] \in {"none", "exited"}
  /\ loop' = [loop EXCEPT ![l] = "none"]
  /\ UNCHANGED <<engine, running, using, inInit, inits, data, history>>

JoinInput  == Step("join_input", "join_output") /\ Join("input")
JoinOutput == Step("join_output", "delete") /\ Join("output")

DeleteCodec ==
  /\ Step("delete", "release_window")
  /\ status' = IF codec = None THEN status ELSE [status EXCEPT ![codec] = "deleted"]
  /\ codec' = None
  /\ UNCHANGED <<window, held, threads, inInit, inits, data, history>>

\* Mutant of ReleaseWindow: nothing to release if the codec was not created.
ReleaseWindowIfCodec ==
  /\ Step("release_window", "clear")
  /\ held' = IF failed THEN held ELSE held \ {window}
  /\ window' = None
  /\ UNCHANGED <<codec, status, threads, inInit, inits, data, history>>

\* window_ and surface_ref_
ReleaseWindow ==
  /\ Step("release_window", "clear")
  /\ held' = held \ {window}
  /\ window' = None
  /\ UNCHANGED <<codec, status, threads, inInit, inits, data, history>>

\* codec_configured_, the caches and demuxer_, not nalu_queue_; then init goes on.
ClearParser ==
  /\ at = "clear"
  /\ at' = IF inInit THEN "acquire" ELSE "idle"
  /\ parsed' = {}
  /\ failed' = FALSE
  /\ UNCHANGED <<engine, threads, inInit, inits, inside, queued, retried, quiet>>

-----------------------------------------------------------------------------
(* inputLoop and outputLoop: test running_, then call the codec. The input   *)
(* loop does so only if it could pop a NALU.                                 *)

LoopTest(l) ==
  /\ loop[l] = "top"
  /\ \/ /\ ~ running
        /\ loop' = [loop EXCEPT ![l] = "exited"]
        /\ UNCHANGED <<using, queued>>
     \/ /\ running
        /\ l = "input" => queued # {}
        /\ loop' = [loop EXCEPT ![l] = "call"]
        /\ using' = [using EXCEPT ![l] = codec]
        /\ queued' \in IF l = "input" THEN {queued} \cup {queued \ {c} : c \in queued}
                                      ELSE {queued}
  /\ UNCHANGED <<engine, running, caller, inside, parsed, history>>

LoopReturns(l) ==
  /\ loop[l] = "call"
  /\ loop' = [loop EXCEPT ![l] = "top"]
  /\ using' = [using EXCEPT ![l] = None]
  /\ UNCHANGED <<engine, running, caller, data, history>>

Loop(l) == LoopTest(l) \/ LoopReturns(l)

-----------------------------------------------------------------------------
(* feedStream, on the feeding thread *)

\* if (codec_ == nullptr) return
FeedEnter ==
  /\ inside = None /\ codec # None
  /\ inside' = codec
  /\ UNCHANGED <<engine, threads, caller, parsed, queued, history>>

\* Bytes are added to what the demuxer and the caches hold; NALUs made of both
\* may be queued.
FeedParse ==
  /\ inside # None
  /\ parsed' = parsed \cup {inside}
  /\ queued' \in {queued, queued \cup parsed'}
  /\ UNCHANGED <<engine, threads, caller, inside, history>>

FeedLeave ==
  /\ inside # None
  /\ inside' = None
  /\ UNCHANGED <<engine, threads, caller, parsed, queued, history>>

-----------------------------------------------------------------------------

InitSteps    == Acquire \/ CreateDecoder \/ Configure \/ StartCodec \/ ResetSession \/ Start
ReleaseSteps == Stop \/ JoinInput \/ JoinOutput \/ DeleteCodec \/ ReleaseWindow \/ ClearParser
FeedStream   == FeedEnter \/ FeedParse \/ FeedLeave

Next ==
  \/ InitDecoder \/ InitSteps
  \/ Release \/ ReleaseSteps
  \/ \E l \in Loops : Loop(l)
  \/ FeedStream

Spec == Init /\ [][Next]_vars

\* A call that has begun goes on, and so does each loop: the codec calls have
\* timeouts (2 ms and 1 ms).
FairSpec ==
  /\ Spec
  /\ WF_vars(InitSteps \/ ReleaseSteps)
  /\ \A l \in Loops : WF_vars(Loop(l))

-----------------------------------------------------------------------------

\* codec_ is never left pointing to a deleted codec.
TypeOK ==
  /\ codec \in Codecs \cup {None} /\ window \in Codecs \cup {None}
  /\ status \in [Codecs -> {"none", "created", "configured", "started", "deleted"}]
  /\ codec # None => status[codec] \in {"created", "configured", "started"}
  /\ held \subseteq Codecs
  /\ running \in BOOLEAN /\ inInit \in BOOLEAN
  /\ failed \in BOOLEAN /\ retried \in BOOLEAN /\ quiet \in BOOLEAN
  /\ loop \in [Loops -> {"none", "top", "call", "exited"}]
  /\ using \in [Loops -> Codecs \cup {None}]
  /\ at \in Places /\ inits \in 0 .. MaxCodecs
  /\ inside \in Codecs \cup {None}
  /\ parsed \subseteq Codecs /\ queued \subseteq Codecs

\* The loops call only a codec that is started, whatever init and release do
\* meanwhile; after an init that failed, and until the next release, they run
\* on whatever codec_ is.
LoopsOnStartedCodec ==
  ~ failed => \A l \in Loops :
                loop[l] = "call" => using[l] # None /\ status[using[l]] = "started"

\* start() creates threads only when both earlier ones were joined (assigning to
\* a joinable std::thread ends the process), also after init has failed and was
\* called again.
NoThreadOverwritten ==
  [][Step("start", "idle") /\ loop' # loop => \A l \in Loops : loop[l] = "none"]_vars

\* Every window and surface reference acquired is released, also when init
\* failed, unless init is called again before release.
WindowsReleased == ~ retried => held = {window} \ {None}

\* No byte of an earlier session is in the demuxer, the caches or the queue
\* once init is done, unless a feedStream call began in the earlier session and
\* is still at work.
FreshSession ==
  (quiet /\ codec # None /\ at \notin {"configure", "start_codec", "reset"})
    => parsed \cup queued \subseteq {codec}

\* release() and the release() in init() come to an end: both loops see
\* running_ and leave, even those of an init that failed.
ReleaseEnds == at = "stop" ~> at \in {"idle", "acquire"}
==============================================================================
