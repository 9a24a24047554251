--------------------------------- MODULE App ---------------------------------
(***************************************************************************)
(* The app as a whole: the UI thread in the callbacks of MainActivity, the *)
(* threads of the UdpVideoSource objects that it makes, and the listener   *)
(* thread of the one SrtListenerImpl of the process (module SrtListener).  *)
(*                                                                         *)
(* Android is external: it creates an activity while an older one that has *)
(* left the screen is not destroyed yet.  Of the engine only the calls are *)
(* seen; what init() and release() do is the subject of EngineLifecycle.   *)
(***************************************************************************)
EXTENDS SrtListener, Sequences, FiniteSets

CONSTANTS
  MaxActivities,  \* bound: how many activities the process sees
  MaxToggles      \* bound: how often the mode button is pressed

ASSUME AppBoundsAreNat == MaxActivities \in Nat /\ MaxToggles \in Nat

\* In the order of their creation
Activities == 1 .. MaxActivities

VARIABLES
  act,        \* where each activity is in its life
  mode,       \* its mode
  udpSource,  \* its udpSource: an index of src, or 0 for null
  src,        \* the UdpVideoSource objects made so far
  calls,      \* the calls the UI thread has still to make in its callback
  udpStop,    \* where it is inside UdpVideoSource.stop(), and of which source
  robbed,     \* history: activities whose listener another's onDestroy stopped
  toggles     \* how often the mode was toggled

udpVars == <<udpSource, src, udpStop>>
appVars == <<act, mode, udpVars, calls, robbed, toggles>>

\* thread: where runLoop is; fd: the DatagramSocket it made; field: does the
\* property socket refer to it?; missed, for the properties below: did stop()
\* look for it in vain?
NewSource == [running |-> TRUE, thread |-> "bind", fd |-> "none",
              field |-> FALSE, missed |-> FALSE]

NotStopping == [at |-> "idle", s |-> 0]

AppInit ==
  /\ Init
  /\ act = [a \in Activities |-> "new"]
  /\ mode = [a \in Activities |-> "SRT"]
  /\ udpSource = [a \in Activities |-> 0]
  /\ src = <<>> /\ calls = <<>> /\ udpStop = NotStopping
  /\ robbed = {} /\ toggles = 0

UiIsFree == ui = "idle" /\ udpStop = NotStopping
UiIsIdle == UiIsFree /\ calls = <<>>

Call(name, a) == [name |-> name, a |-> a]

-----------------------------------------------------------------------------
(* The callbacks of MainActivity, as the calls they consist of *)

\* A new activity is created when the one before it has left the screen.
OnCreate(a) ==
  /\ UiIsIdle
  /\ act[a] = "new"
  /\ \A b \in Activities : act[b] # "live" /\ (b < a => act[b] # "new")
  /\ act' = [act EXCEPT ![a] = "live"]
  /\ calls' = << Call("start", a) >>
  /\ UNCHANGED <<vars, mode, udpVars, robbed, toggles>>

\* onPause of an activity that is finished
Leave(a) ==
  /\ UiIsIdle
  /\ act[a] = "live"
  /\ act' = [act EXCEPT ![a] = "leaving"]
  /\ UNCHANGED <<vars, mode, udpVars, calls, robbed, toggles>>

\* Mutant of ToggleMode: the listener is left to run on.
ToggleModeStopsUdpOnly(a) ==
  /\ UiIsIdle /\ toggles < MaxToggles
  /\ act[a] = "live"
  /\ mode' = [mode EXCEPT ![a] = IF @ = "SRT" THEN "UDP" ELSE "SRT"]
  /\ calls' = << Call("stopUdp", a), Call("start", a) >>
  /\ toggles' = toggles + 1
  /\ UNCHANGED <<vars, act, udpVars, robbed>>

ToggleMode(a) ==
  /\ UiIsIdle /\ toggles < MaxToggles
  /\ act[a] = "live"
  /\ mode' = [mode EXCEPT ![a] = IF @ = "SRT" THEN "UDP" ELSE "SRT"]
  /\ calls' = << Call("stopUdp", a), Call("stopSrt", a), Call("start", a) >>
  /\ toggles' = toggles + 1
  /\ UNCHANGED <<vars, act, udpVars, robbed>>

OnDestroy(a) ==
  /\ UiIsIdle
  /\ act[a] = "leaving"
  /\ act' = [act EXCEPT ![a] = "destroyed"]
  /\ calls' = << Call("stopSrt", a), Call("release", a) >>
  /\ UNCHANGED <<vars, mode, udpVars, robbed, toggles>>

\* The next of these calls begins.
Calls(name, a) ==
  /\ UiIsFree
  /\ calls # <<>> /\ Head(calls) = Call(name, a)
  /\ calls' = Tail(calls)

\* SrtBridge.nativeStart: nothing, if some activity's listener runs already
StartSrt(a) ==
  /\ Calls("start", a) /\ mode[a] = "SRT"
  /\ Start \/ (running /\ UNCHANGED vars)
  /\ robbed' = robbed \ {a}
  /\ UNCHANGED <<act, mode, udpVars, toggles>>

\* startUdpSource: a new object and its thread
StartUdp(a) ==
  /\ Calls("start", a) /\ mode[a] = "UDP"
  /\ src' = Append(src, NewSource)
  /\ udpSource' = [udpSource EXCEPT ![a] = Len(src')]
  /\ UNCHANGED <<vars, act, mode, udpStop, robbed, toggles>>

\* SrtBridge.nativeStop, whoever started the listener
StopSrt(a) ==
  /\ Calls("stopSrt", a)
  /\ Stop
  /\ robbed' = robbed \cup {b \in Activities \ {a} : act[b] = "live" /\ mode[b] = "SRT"}
  /\ UNCHANGED <<act, mode, udpVars, toggles>>

\* LiveVideoEngineJNI.release
Release(a) ==
  /\ Calls("release", a)
  /\ UNCHANGED <<vars, act, mode, udpVars, robbed, toggles>>

-----------------------------------------------------------------------------
(* UdpVideoSource.stop() on the UI thread *)

\* udpSource?.stop(): running = false
StopUdp(a) ==
  /\ Calls("stopUdp", a)
  /\ IF udpSource[a] = 0
     THEN UNCHANGED udpVars
     ELSE /\ src' = [src EXCEPT ![udpSource[a]].running = FALSE]
          /\ udpStop' = [at |-> "close", s |-> udpSource[a]]
          /\ UNCHANGED udpSource
  /\ UNCHANGED <<vars, act, mode, robbed, toggles>>

\* Mutant of StopUdpClose: the receiving thread is left to close the socket.
StopUdpCloseNot ==
  /\ udpStop.at = "close"
  /\ udpStop' = [udpStop EXCEPT !.at = "join"]
  /\ UNCHANGED <<vars, act, mode, udpSource, src, calls, robbed, toggles>>

\* socket?.close().  The property is not volatile: null may be seen although
\* runLoop has assigned it.
StopUdpClose ==
  /\ udpStop.at = "close"
  /\ \/ /\ src[udpStop.s].field
        /\ src' = [src EXCEPT ![udpStop.s].fd = "closed"]
     \/ src' = [src EXCEPT ![udpStop.s].missed = TRUE]
  /\ udpStop' = [udpStop EXCEPT !.at = "join"]
  /\ UNCHANGED <<vars, act, mode, udpSource, calls, robbed, toggles>>

\* Mutant of StopUdpJoin: the activity goes on to hold the source.
StopUdpJoinKeeps ==
  /\ udpStop.at = "join"
  /\ src' = [src EXCEPT ![udpStop.s].field = FALSE]
  /\ udpStop' = NotStopping
  /\ UNCHANGED <<vars, act, mode, udpSource, calls, robbed, toggles>>

\* thread?.join(500), whether the thread has ended by then or not; thread and
\* socket become null, and the activity forgets the source.
StopUdpJoin ==
  /\ udpStop.at = "join"
  /\ src' = [src EXCEPT ![udpStop.s].field = FALSE]
  /\ udpSource' = [a \in Activities |->
                     IF udpSource[a] = udpStop.s THEN 0 ELSE udpSource[a]]
  /\ udpStop' = NotStopping
  /\ UNCHANGED <<vars, act, mode, calls, robbed, toggles>>

-----------------------------------------------------------------------------
(* UdpVideoSource.runLoop() on the thread of source s *)

PortIsTaken == \E s \in DOMAIN src : src[s].fd = "open"

\* The thread takes one step: from here to there, changing its source.
UdpStep(s, from, new) ==
  /\ src[s].thread = from
  /\ src' = [src EXCEPT ![s] = new]
  /\ UNCHANGED <<vars, act, mode, udpSource, calls, udpStop, robbed, toggles>>

\* DatagramSocket(port), which may fail, and its settings, which may fail when
\* the port is bound already.  Then the thread ends and running stays set.
UdpBind(s) ==
  \/ /\ ~ PortIsTaken
     /\ \E next \in {"assign"} \cup (IF SetupMayFail THEN {"failed"} ELSE {}) :
          UdpStep(s, "bind", [src[s] EXCEPT !.thread = next, !.fd = "open"])
  \/ /\ PortIsTaken \/ SetupMayFail
     /\ UdpStep(s, "bind", [src[s] EXCEPT !.thread = "failed"])

UdpAssign(s) ==
  UdpStep(s, "assign", [src[s] EXCEPT !.thread = "check", !.field = TRUE])

\* while (running); after the loop the socket is left as it is
UdpCheck(s) ==
  UdpStep(s, "check", [src[s] EXCEPT !.thread = IF src[s].running THEN "receive" ELSE "ended"])

\* receive throws SocketException: the socket is closed
UdpReceiveClosed(s) ==
  /\ src[s].fd = "closed"
  /\ UdpStep(s, "receive", [src[s] EXCEPT !.thread = "ended"])

\* receive returns a datagram, or fails otherwise
UdpReceive(s) ==
  /\ src[s].fd = "open"
  /\ \E next \in {"feed", "check"} :
       UdpStep(s, "receive", [src[s] EXCEPT !.thread = next])

\* onPacket: LiveVideoEngineJNI.feedStream
UdpFeed(s) == UdpStep(s, "feed", [src[s] EXCEPT !.thread = "check"])

UdpRunLoop(s) ==
  UdpBind(s) \/ UdpAssign(s) \/ UdpCheck(s) \/ UdpReceiveClosed(s) \/ UdpFeed(s)

\* The garbage collector closes the socket of a source nobody refers to.
Collect(s) ==
  /\ src[s].fd = "open" /\ src[s].thread \in {"ended", "failed"}
  /\ \A a \in Activities : udpSource[a] # s
  /\ src' = [src EXCEPT ![s].fd = "closed"]
  /\ UNCHANGED <<vars, act, mode, udpSource, calls, udpStop, robbed, toggles>>

-----------------------------------------------------------------------------

UiStep ==
  \/ \E a \in Activities :
       StartSrt(a) \/ StartUdp(a) \/ StopSrt(a) \/ Release(a) \/ StopUdp(a)
  \/ StopUdpClose \/ StopUdpJoin
  \/ StopSteps /\ UNCHANGED appVars

Android ==
  \E a \in Activities :
    OnCreate(a) \/ Leave(a) \/ ToggleMode(a) \/ OnDestroy(a) 

AppNext ==
  \/ UiStep \/ Android
  \/ (RunLoop \/ Sender) /\ UNCHANGED appVars
  \/ \E s \in DOMAIN src : UdpRunLoop(s) \/ UdpReceive(s) \/ Collect(s)

allVars == <<vars, appVars>>

AppSpec == AppInit /\ [][AppNext]_allVars

\* All threads go on when they can.  Nobody has to press the button, send a
\* packet or leave; join(500) always returns.
AppFairSpec ==
  /\ AppSpec
  /\ WF_allVars(UiStep)
  /\ WF_allVars(RunLoop /\ UNCHANGED appVars)
  /\ \A s \in 1 .. MaxToggles : WF_allVars(s \in DOMAIN src /\ UdpRunLoop(s))

-----------------------------------------------------------------------------

\* When no callback runs, the activity on the screen has the source its mode
\* asks for and no other, wherever the toggling met the threads; but an older
\* activity that is destroyed late may have stopped its listener.
ModeHolds ==
  \A a \in Activities :
    UiIsIdle /\ act[a] = "live" /\ a \notin robbed =>
      \/ mode[a] = "SRT" /\ running /\ udpSource[a] = 0
      \/ /\ mode[a] = "UDP" /\ udpSource[a] # 0 /\ src[udpSource[a]].running
         /\ ~ running /\ loop = "none"

\* Sources that the app has lost hold of: stop() missed their socket or gave
\* up waiting for their thread, or their activity is gone and never stopped
\* them.
Orphan(s) ==
  \/ ~ src[s].running
  \/ \A a \in Activities : act[a] = "live" => udpSource[a] # s

Feeds(s) == src[s].thread \in {"receive", "feed"}
SrtFeeds == loop \in {"receiving", "recv"}

\* feedStream has one caller at a time, as the ring and the demuxer need it,
\* but for orphans.
OneFeeder ==
  \A s \in DOMAIN src :
    Feeds(s) /\ (SrtFeeds \/ \E t \in DOMAIN src \ {s} : Feeds(t))
      => \E t \in DOMAIN src : Feeds(t) /\ Orphan(t)

\* The source of the activity on the screen finds the port free, unless stop()
\* came before an old one had stored its socket, or was never called.
PortIsFreeAgain ==
  \A s, t \in DOMAIN src :
    s # t /\ ~ Orphan(s) /\ src[s].thread = "bind" /\ src[t].fd = "open"
      => \/ src[t].missed
         \/ src[t].running /\ Orphan(t)

Ended(s) == src[s].thread \in {"ended", "failed"}

\* It waits for a packet on a socket that stop() did not see.
Overlooked(s) == src[s].missed /\ src[s].fd = "open" /\ src[s].thread = "receive"

\* The thread of a source that is stopped ends, unless it is overlooked.
StoppedSourcesEnd ==
  \A s \in 1 .. MaxToggles :
    (s \in DOMAIN src /\ ~ src[s].running)
      ~> (s \in DOMAIN src /\ (Ended(s) \/ Overlooked(s)))

\* Every callback of the UI thread returns, unless it waits in stop() for a
\* connected client that sends nothing.
CallbacksReturn == ~ UiIsIdle ~> (UiIsIdle \/ SilentClient)

==============================================================================
