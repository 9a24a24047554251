------------------------------- MODULE AppProofs -------------------------------
(***************************************************************************)
(* That stop() leaves the SRT listener ready for the next start() and fed  *)
(* by nobody: proved for the listener alone, for every number of sessions  *)
(* and of waiting messages, and carried over to the app, which drives the  *)
(* listener by these calls only. Then what the app keeps itself, for any   *)
(* number of activities and toggles: the running source is the one of the  *)
(* mode, and only orphans feed beside it or keep its port.                 *)
(***************************************************************************)
EXTENDS App, TLAPS

\* Places of runLoop between srt_create_socket and the last assignment to sock_
HasSocket == {"bind", "listening", "accept", "receiving", "recv", "hang_up",
              "close", "forget", "failed"}

\* Places where nothing is open: before the socket is made, after it is closed
NothingOpen == {"none", "attach", "create", "failed", "forget", "exited"}

\* sock_ is set only while runLoop has a socket: stop() closes that one, and
\* where it finds none runLoop closes its own or has closed it.
SocketFollowsLoop ==
  /\ sock => loop \in HasSocket
  /\ loop \in NothingOpen => listener \in {"absent", "closed"}
  /\ loop \in HasSocket /\ ~ sock => listener = "closed"

\* Inside stop() running_ is not set; once srt_close has returned the socket
\* is closed, and no thread is left that could make another.
StopInProgress ==
  /\ ui # "idle" => ~ running
  /\ ui = "idle" /\ ~ running => loop = "none"
  /\ ui \in {"close", "forget"} => loop \notin {"attach", "create"}
  /\ ui = "forget" /\ sock => listener = "closed"

ListenerInv == TypeOK /\ SocketFollowsLoop /\ StopInProgress

-----------------------------------------------------------------------------

LEMMA ListenerInit == Init => ListenerInv
  <1> SUFFICES ASSUME Init PROVE ListenerInv
    OBVIOUS
  <1>1. inbox \in 0 .. MaxPackets /\ starts \in 0 .. MaxStarts
    BY BoundsAreNat DEF Init
  <1>2. TypeOK
    <2>1. running \in BOOLEAN /\ sock \in BOOLEAN
      BY DEF Init
    <2> QED
      BY <1>1, <2>1 DEF Init, TypeOK, UI, Loop
  <1>3. SocketFollowsLoop /\ StopInProgress
    BY DEF Init, SocketFollowsLoop, StopInProgress, HasSocket
  <1> QED
    BY <1>2, <1>3 DEF ListenerInv

\* The types, apart from the rest: they need arithmetic.
LEMMA ListenerTypes == TypeOK /\ [Next]_vars => TypeOK'
  <1> SUFFICES ASSUME TypeOK, [Next]_vars PROVE TypeOK'
    OBVIOUS
  <1> USE BoundsAreNat DEF TypeOK, UI, Loop, env, LoopTo, CloseListener
  <1>1. CASE Start
    BY <1>1 DEF Start
  <1>2. CASE StopSteps
    BY <1>2 DEF StopSteps, StopClose, StopForget, StopJoin
  <1>3. CASE Attach \/ Create
    BY <1>3 DEF Attach, Create
  <1>4. CASE Bind \/ BindFailed
    BY <1>4 DEF Bind, BindFailed
  <1>5. CASE CheckRunning \/ Accept \/ CheckReceiving
    BY <1>5 DEF CheckRunning, Accept, CheckReceiving
  <1>6. CASE Receive \/ HangUp
    BY <1>6 DEF Receive, HangUp
  <1>7. CASE CloseAtEnd \/ ForgetAtEnd
    BY <1>7 DEF CloseAtEnd, ForgetAtEnd
  <1>8. CASE Sender
    BY <1>8 DEF Sender, ClientConnects, ClientSends, ClientLeaves
  <1>9. CASE Stop
    BY <1>9 DEF Stop
  <1>10. CASE UNCHANGED vars
    BY <1>10 DEF vars
  <1> QED
    BY <1>1, <1>2, <1>3, <1>4, <1>5, <1>6, <1>7, <1>8, <1>9, <1>10 DEF Next, RunLoop

\* The UI thread: it calls start() and stop() one after the other.
LEMMA UiPreserves ==
  ListenerInv /\ (Start \/ Stop \/ StopSteps) => (SocketFollowsLoop /\ StopInProgress)'
  <1> SUFFICES ASSUME ListenerInv, Start \/ Stop \/ StopSteps
               PROVE  (SocketFollowsLoop /\ StopInProgress)'
    OBVIOUS
  <1> USE DEF ListenerInv, TypeOK, SocketFollowsLoop, StopInProgress, UI, Loop,
      HasSocket, NothingOpen
  <1>1. CASE Start
    BY <1>1 DEF Start
  <1>2. CASE Stop
    BY <1>2 DEF Stop
  <1>3. CASE StopClose
    BY <1>3 DEF StopClose, CloseListener
  <1>4. CASE StopForget
    BY <1>4 DEF StopForget
  <1>5. CASE StopJoin
    BY <1>5 DEF StopJoin
  <1> QED
    BY <1>1, <1>2, <1>3, <1>4, <1>5 DEF StopSteps

\* The listener thread, at any place while the UI thread is at any place
LEMMA RunLoopPreserves ==
  ListenerInv /\ RunLoop => (SocketFollowsLoop /\ StopInProgress)'
  <1> SUFFICES ASSUME ListenerInv, RunLoop
               PROVE  (SocketFollowsLoop /\ StopInProgress)'
    OBVIOUS
  <1> USE DEF ListenerInv, TypeOK, SocketFollowsLoop, StopInProgress, UI, Loop,
      HasSocket, NothingOpen, LoopTo
  <1>1. CASE Attach \/ Create
    BY <1>1 DEF Attach, Create
  <1>2. CASE Bind
    BY <1>2 DEF Bind, CloseListener
  <1>3. CASE BindFailed \/ ForgetAtEnd
    BY <1>3 DEF BindFailed, ForgetAtEnd
  <1>4. CASE CheckRunning \/ Accept \/ CheckReceiving \/ Receive \/ HangUp
    BY <1>4 DEF CheckRunning, Accept, CheckReceiving, Receive, HangUp
  <1>5. CASE CloseAtEnd
    BY <1>5 DEF CloseAtEnd, CloseListener
  <1> QED
    BY <1>1, <1>2, <1>3, <1>4, <1>5 DEF RunLoop

LEMMA SenderPreserves ==
  ListenerInv /\ (Sender \/ UNCHANGED vars) => (SocketFollowsLoop /\ StopInProgress)'
  BY DEF ListenerInv, SocketFollowsLoop, StopInProgress, Sender, ClientConnects,
     ClientSends, ClientLeaves, vars, env

LEMMA ListenerStep == ListenerInv /\ [Next]_vars => ListenerInv'
  BY ListenerTypes, UiPreserves, RunLoopPreserves, SenderPreserves DEF ListenerInv, Next

LEMMA ListenerInvMeans ==
  /\ ListenerInv => ReadyToStart
  /\ ListenerInv => (Dispatch => ~ Stopped)
  BY DEF ListenerInv, TypeOK, SocketFollowsLoop, StopInProgress, ReadyToStart,
     Stopped, Dispatch, NothingOpen

\* After stop() the port is free and no joinable thread is left, whatever
\* runLoop was doing when stop() was called (SrtListener.cpp:62-93).
THEOREM ListenerIsReady == Spec => []ReadyToStart
  <1>1. ListenerInv => ReadyToStart
    BY ListenerInvMeans
  <1> QED
    BY ListenerInit, ListenerStep, <1>1, PTL DEF Spec

\* After stop() no packet reaches feedStream (SrtListener.cpp:185-216).
THEOREM ListenerFeedsNothing == Spec => NothingFedAfterStop
  <1>1. ListenerInv => [Dispatch => ~ Stopped]_vars
    BY ListenerInvMeans
  <1> QED
    BY ListenerInit, ListenerStep, <1>1, PTL DEF Spec, NothingFedAfterStop

-----------------------------------------------------------------------------
(* The app *)

\* Whatever the activities and the UDP threads do, the listener sees its own
\* steps only.
LEMMA AppStepsListener == AppNext => [Next]_vars
  <1> SUFFICES ASSUME AppNext PROVE [Next]_vars
    OBVIOUS
  <1>1. CASE UiStep
    BY <1>1 DEF UiStep, StartSrt, StartUdp, StopSrt, Release, StopUdp, StopUdpClose,
       StopUdpJoin, Next
  <1>2. CASE Android
    BY <1>2 DEF Android, OnCreate, Leave, ToggleMode, OnDestroy
  <1>3. CASE RunLoop \/ Sender
    BY <1>3 DEF Next
  <1>4. ASSUME NEW s \in DOMAIN src, UdpRunLoop(s) \/ UdpReceive(s) \/ Collect(s)
        PROVE UNCHANGED vars
    BY <1>4 DEF UdpRunLoop, UdpBind, UdpAssign, UdpCheck, UdpReceiveClosed, UdpFeed,
       UdpReceive, Collect, UdpStep
  <1> QED
    BY <1>1, <1>2, <1>3, <1>4 DEF AppNext

\* In the app, too, each behaviour of the listener is one of its own: what is
\* proved of the listener alone holds there.
THEOREM AppDrivesListener == AppSpec => Spec
  <1>1. AppInit => Init
    BY DEF AppInit
  <1>2. [AppNext]_allVars => [Next]_vars
    BY AppStepsListener DEF allVars
  <1> QED
    BY <1>1, <1>2, PTL DEF AppSpec, Spec

\* Two activities, toggling, any number of UDP sources: stop() still leaves
\* the listener ready (MainActivity.kt:70-97).
THEOREM AppIsReady == AppSpec => []ReadyToStart
  BY AppDrivesListener, ListenerIsReady

\* And nothing of a stopped session is fed.
THEOREM AppFeedsNothing == AppSpec => NothingFedAfterStop
  BY AppDrivesListener, ListenerFeedsNothing

-----------------------------------------------------------------------------
(* What the app itself keeps *)

Source == [running : BOOLEAN,
           thread  : {"bind", "assign", "check", "receive", "feed", "failed", "ended"},
           fd      : {"none", "open", "closed"},
           field   : BOOLEAN,
           missed  : BOOLEAN]

AppTypeOK ==
  /\ act \in [Activities -> {"new", "live", "leaving", "destroyed"}]
  /\ mode \in [Activities -> {"SRT", "UDP"}]
  /\ udpSource \in [Activities -> 0 .. Len(src)]
  /\ src \in Seq(Source)
  /\ udpStop \in [at : {"idle", "close", "join"}, s : 0 .. Len(src)]
  /\ robbed \subseteq Activities

\* What is left of toggleMode, of onCreate, and of onDestroy
ToStopUdp(a) == <<Call("stopUdp", a), Call("stopSrt", a), Call("start", a)>>
ToStopSrt(a) == <<Call("stopSrt", a), Call("start", a)>>
ToStart(a)   == <<Call("start", a)>>
ToLeave(a)   == <<Call("stopSrt", a), Call("release", a)>>
ToRelease(a) == <<Call("release", a)>>

Callbacks ==
  \/ calls = <<>>
  \/ \E a \in Activities :
       \/ act[a] = "live" /\ calls \in {ToStopUdp(a), ToStopSrt(a), ToStart(a)}
       \/ act[a] = "destroyed" /\ calls \in {ToLeave(a), ToRelease(a)}

\* One activity is on the screen, and no two hold the same source.
OneScreen ==
  /\ \A a, b \in Activities : act[a] = "live" /\ act[b] = "live" => a = b
  /\ \A a, b \in Activities : udpSource[a] # 0 /\ udpSource[a] = udpSource[b] => a = b
  /\ \A a \in Activities : act[a] = "new" => mode[a] = "SRT" /\ udpSource[a] = 0

\* The UI thread is in one stop() at a time, and in that of a source while
\* toggleMode goes on.
OneStop ==
  udpStop = NotStopping \/
    /\ ui = "idle"
    /\ udpStop.at \in {"close", "join"}
    /\ \E a \in Activities :
         /\ act[a] = "live" /\ calls = ToStopSrt(a)
         /\ udpSource[a] = udpStop.s /\ udpSource[a] # 0

SrtOff == ~ running /\ loop = "none"

\* Between two calls the activity on the screen has what its mode asks for ...
InMode(a) ==
  /\ mode[a] = "SRT" => udpSource[a] = 0 /\ (a \notin robbed => running)
  /\ mode[a] = "UDP" => udpSource[a] # 0 /\ src[udpSource[a]].running /\ SrtOff

\* ... and while toggleMode runs, what is left of the mode before it.
Changing(a) ==
  /\ calls = ToStopUdp(a) =>
       /\ udpStop = NotStopping
       /\ mode[a] = "UDP" => udpSource[a] = 0
       /\ mode[a] = "SRT" => udpSource[a] # 0 /\ SrtOff
  /\ calls = ToStopSrt(a) =>
       IF udpStop = NotStopping THEN udpSource[a] = 0 ELSE ~ src[udpSource[a]].running
  /\ calls = ToStart(a) =>
       /\ udpStop = NotStopping /\ udpSource[a] = 0
       /\ mode[a] = "UDP" => ~ running

ModeFollowsCalls ==
  \A a \in Activities : act[a] = "live" =>
    IF calls \in {ToStopUdp(a), ToStopSrt(a), ToStart(a)} THEN Changing(a) ELSE InMode(a)

\* A source is stopped with its socket closed for good, unless the UI thread
\* is about to close it or has missed it.
SocketsFollowStop ==
  \A s \in DOMAIN src :
    /\ src[s].field => src[s].thread \notin {"bind", "assign"}
    /\ ~ src[s].running =>
         \/ udpStop = [at |-> "close", s |-> s]
         \/ src[s].missed
         \/ src[s].fd = "closed" /\ src[s].thread # "bind"

AppInv ==
  /\ AppTypeOK /\ Callbacks /\ OneScreen /\ OneStop
  /\ ModeFollowsCalls /\ SocketsFollowStop

LEMMA Scripts ==
  \A a \in Activities :
    /\ Head(ToStopUdp(a)) = Call("stopUdp", a) /\ Tail(ToStopUdp(a)) = ToStopSrt(a)
    /\ Head(ToStopSrt(a)) = Call("stopSrt", a) /\ Tail(ToStopSrt(a)) = ToStart(a)
    /\ Head(ToStart(a)) = Call("start", a) /\ Tail(ToStart(a)) = <<>>
    /\ Head(ToLeave(a)) = Call("stopSrt", a) /\ Tail(ToLeave(a)) = ToRelease(a)
    /\ Head(ToRelease(a)) = Call("release", a) /\ Tail(ToRelease(a)) = <<>>
  BY DEF ToStopUdp, ToStopSrt, ToStart, ToLeave, ToRelease

LEMMA CallNames ==
  \A a, b :
    /\ Call("stopUdp", a) \notin {Call("stopSrt", b), Call("start", b), Call("release", b)}
    /\ Call("stopSrt", a) \notin {Call("start", b), Call("release", b)}
    /\ Call("start", a) # Call("release", b)
    /\ \A name : Call(name, a).a = a /\ Call(name, a).name = name
  BY DEF Call

\* What is left of the callbacks tells them apart.
LEMMA ScriptsDiffer ==
  \A a, b \in Activities :
    /\ ToStopUdp(a) \notin {<<>>, ToStopSrt(b), ToStart(b), ToLeave(b), ToRelease(b)}
    /\ ToStopSrt(a) \notin {<<>>, ToStart(b), ToLeave(b), ToRelease(b)}
    /\ ToStart(a) \notin {<<>>, ToLeave(b), ToRelease(b)}
    /\ <<>> \notin {ToLeave(a), ToRelease(a)}
    /\ ToStopUdp(a) = ToStopUdp(b) \/ ToStopSrt(a) = ToStopSrt(b) \/ ToStart(a) = ToStart(b)
         => a = b
  <1> SUFFICES ASSUME NEW a \in Activities, NEW b \in Activities
      PROVE /\ ToStopUdp(a) \notin {<<>>, ToStopSrt(b), ToStart(b), ToLeave(b), ToRelease(b)}
            /\ ToStopSrt(a) \notin {<<>>, ToStart(b), ToLeave(b), ToRelease(b)}
            /\ ToStart(a) \notin {<<>>, ToLeave(b), ToRelease(b)}
            /\ <<>> \notin {ToLeave(a), ToRelease(a)}
            /\ ToStopUdp(a) = ToStopUdp(b) \/ ToStopSrt(a) = ToStopSrt(b)
                 \/ ToStart(a) = ToStart(b) => a = b
    OBVIOUS
  <1>1. /\ Len(ToStopUdp(a)) = 3 /\ Len(ToStopSrt(a)) = 2 /\ Len(ToStopSrt(b)) = 2
        /\ Len(ToStart(a)) = 1 /\ Len(ToStart(b)) = 1 /\ Len(<<>>) = 0
        /\ Len(ToLeave(a)) = 2 /\ Len(ToLeave(b)) = 2
        /\ Len(ToRelease(a)) = 1 /\ Len(ToRelease(b)) = 1
    BY DEF ToStopUdp, ToStopSrt, ToStart, ToLeave, ToRelease
  <1>2. ToStart(a) # ToRelease(b) /\ (ToStart(a) = ToStart(b) => a = b)
    BY Scripts, CallNames
  <1>3. ToStopSrt(a) # ToLeave(b) /\ (ToStopSrt(a) = ToStopSrt(b) => a = b)
    BY Scripts, CallNames, <1>2
  <1>4. ToStopUdp(a) = ToStopUdp(b) => a = b
    BY Scripts, <1>3
  <1>5. ToStopUdp(a) \notin {<<>>, ToStopSrt(b), ToStart(b), ToLeave(b), ToRelease(b)}
    BY <1>1
  <1>6. /\ ToStopSrt(a) \notin {<<>>, ToStart(b), ToLeave(b), ToRelease(b)}
        /\ ToStart(a) \notin {<<>>, ToLeave(b), ToRelease(b)}
        /\ <<>> \notin {ToLeave(a), ToRelease(a)}
    BY <1>1, <1>2, <1>3
  <1> QED
    BY <1>2, <1>3, <1>4, <1>5, <1>6

\* Which callback the next call belongs to, and what is left of it then
LEMMA NextCall ==
  ASSUME Callbacks, NEW name, NEW a \in Activities, Calls(name, a)
  PROVE  /\ name = "stopUdp" =>
              act[a] = "live" /\ calls = ToStopUdp(a) /\ calls' = ToStopSrt(a)
         /\ name = "stopSrt" =>
              \/ act[a] = "live" /\ calls = ToStopSrt(a) /\ calls' = ToStart(a)
              \/ act[a] = "destroyed" /\ calls = ToLeave(a) /\ calls' = ToRelease(a)
         /\ name = "start" => act[a] = "live" /\ calls = ToStart(a) /\ calls' = <<>>
         /\ name = "release" =>
              act[a] = "destroyed" /\ calls = ToRelease(a) /\ calls' = <<>>
  <1>1. calls # <<>> /\ Head(calls) = Call(name, a) /\ calls' = Tail(calls)
    BY DEF Calls
  <1>2. PICK b \in Activities :
          \/ act[b] = "live" /\ calls \in {ToStopUdp(b), ToStopSrt(b), ToStart(b)}
          \/ act[b] = "destroyed" /\ calls \in {ToLeave(b), ToRelease(b)}
    BY <1>1 DEF Callbacks
  <1>3. PICK other : Head(calls) = Call(other, b)
    BY <1>2, Scripts
  <1>4. Call(name, a).a = a /\ Call(other, b).a = b
    BY CallNames
  <1>5. a = b
    BY <1>1, <1>3, <1>4
  <1>6. \A n : Call(n, a).name = n
    BY CallNames
  <1>7. ASSUME NEW n, Head(calls) = Call(n, a) PROVE name = n
    BY <1>1, <1>6, <1>7
  <1>8. CASE calls = ToStopUdp(a)
    <2>1. name = "stopUdp" /\ calls' = ToStopSrt(a)
      BY <1>1, <1>7, <1>8, Scripts
    <2> QED
      BY <1>2, <1>5, <1>8, <2>1, ScriptsDiffer
  <1>9. CASE calls = ToStopSrt(a)
    <2>1. name = "stopSrt" /\ calls' = ToStart(a)
      BY <1>1, <1>7, <1>9, Scripts
    <2> QED
      BY <1>2, <1>5, <1>9, <2>1, ScriptsDiffer
  <1>10. CASE calls = ToStart(a)
    <2>1. name = "start" /\ calls' = <<>>
      BY <1>1, <1>7, <1>10, Scripts
    <2> QED
      BY <1>2, <1>5, <1>10, <2>1, ScriptsDiffer
  <1>11. CASE calls = ToLeave(a)
    <2>1. name = "stopSrt" /\ calls' = ToRelease(a)
      BY <1>1, <1>7, <1>11, Scripts
    <2> QED
      BY <1>2, <1>5, <1>11, <2>1, ScriptsDiffer
  <1>12. CASE calls = ToRelease(a)
    <2>1. name = "release" /\ calls' = <<>>
      BY <1>1, <1>7, <1>12, Scripts
    <2> QED
      BY <1>2, <1>5, <1>12, <2>1, ScriptsDiffer
  <1> QED
    BY <1>2, <1>5, <1>8, <1>9, <1>10, <1>11, <1>12

LEMMA AppInitHolds == AppInit => AppInv
  <1> SUFFICES ASSUME AppInit PROVE AppInv
    OBVIOUS
  <1>1. src \in Seq(Source) /\ Len(src) = 0 /\ DOMAIN src = {}
    BY DEF AppInit
  <1>2. AppTypeOK
    BY <1>1 DEF AppInit, AppTypeOK, NotStopping
  <1>3. Callbacks /\ OneScreen /\ OneStop /\ ModeFollowsCalls /\ SocketsFollowStop
    BY <1>1 DEF AppInit, Callbacks, OneScreen, OneStop, ModeFollowsCalls, SocketsFollowStop
  <1> QED
    BY <1>2, <1>3 DEF AppInv

\* What a step of a receiving thread may change of the sources
LEMMA UdpEffect ==
  ASSUME AppTypeOK, NEW s \in DOMAIN src, UdpRunLoop(s) \/ UdpReceive(s) \/ Collect(s)
  PROVE  /\ src' \in Seq(Source) /\ Len(src') = Len(src) /\ DOMAIN src' = DOMAIN src
         /\ \A t \in DOMAIN src :
              /\ src'[t].running = src[t].running /\ src'[t].missed = src[t].missed
              /\ (src[t].field => src[t].thread \notin {"bind", "assign"}) =>
                   (src'[t].field => src'[t].thread \notin {"bind", "assign"})
              /\ src[t].fd = "closed" /\ src[t].thread # "bind" =>
                   src'[t].fd = "closed" /\ src'[t].thread # "bind"
         /\ UNCHANGED <<vars, act, mode, udpSource, calls, udpStop, robbed>>
  <1> DEFINE Fine(new) ==
        /\ new \in Source
        /\ new.running = src[s].running /\ new.missed = src[s].missed
        /\ (src[s].field => src[s].thread \notin {"bind", "assign"}) =>
             (new.field => new.thread \notin {"bind", "assign"})
        /\ src[s].fd = "closed" /\ src[s].thread # "bind" =>
             new.fd = "closed" /\ new.thread # "bind"
  <1>1. src \in Seq(Source) /\ src[s] \in Source
    BY DEF AppTypeOK
  <1>2. ASSUME NEW new, Fine(new), src' = [src EXCEPT ![s] = new]
        PROVE  /\ src' \in Seq(Source) /\ Len(src') = Len(src) /\ DOMAIN src' = DOMAIN src
               /\ src'[s] = new /\ \A t \in DOMAIN src : t # s => src'[t] = src[t]
    BY <1>1, <1>2
  <1>3. PICK new : Fine(new) /\ src' = [src EXCEPT ![s] = new]
    <2>1. CASE UdpBind(s)
      BY <1>1, <2>1 DEF UdpBind, UdpStep, Source
    <2>2. CASE UdpAssign(s) \/ UdpCheck(s)
      BY <1>1, <2>2 DEF UdpAssign, UdpCheck, UdpStep, Source
    <2>3. CASE UdpReceiveClosed(s) \/ UdpReceive(s) \/ UdpFeed(s)
      BY <1>1, <2>3 DEF UdpReceiveClosed, UdpReceive, UdpFeed, UdpStep, Source
    <2>4. CASE Collect(s)
      BY <1>1, <2>4 DEF Collect, Source
    <2> QED
      BY <2>1, <2>2, <2>3, <2>4 DEF UdpRunLoop
  <1>4. UNCHANGED <<vars, act, mode, udpSource, calls, udpStop, robbed>>
    BY DEF UdpRunLoop, UdpBind, UdpAssign, UdpCheck, UdpReceiveClosed, UdpFeed,
       UdpReceive, Collect, UdpStep
  <1> QED
    BY <1>2, <1>3, <1>4

LEMMA UdpPreserves ==
  ASSUME AppInv, NEW s \in DOMAIN src, UdpRunLoop(s) \/ UdpReceive(s) \/ Collect(s)
  PROVE  AppInv'
  <1> USE UdpEffect
  <1>1. AppTypeOK'
    BY DEF AppInv, AppTypeOK
  <1>2. Callbacks' /\ OneScreen' /\ OneStop'
    BY DEF AppInv, Callbacks, OneScreen, OneStop, vars
  <1>3. ModeFollowsCalls'
    <2>1. \A a \in Activities : udpSource[a] # 0 => udpSource[a] \in DOMAIN src
      BY DEF AppInv, AppTypeOK
    <2>2. \A a \in Activities : act[a] = "live" /\ udpStop # NotStopping /\ calls = ToStopSrt(a)
             => udpSource[a] # 0
      BY ScriptsDiffer DEF AppInv, OneStop
    <2> QED
      BY <2>1, <2>2 DEF AppInv, ModeFollowsCalls, Changing, InMode, SrtOff, vars
  <1>4. SocketsFollowStop'
    BY DEF AppInv, SocketsFollowStop
  <1> QED
    BY <1>1, <1>2, <1>3, <1>4 DEF AppInv

LEMMA ListenerThreadPreserves ==
  ASSUME AppInv, StopSteps \/ RunLoop \/ Sender, UNCHANGED appVars
  PROVE  AppInv'
  <1>1. /\ running' = running
        /\ loop = "none" => loop' = "none"
        /\ ui = "idle" => ui' = "idle"
    BY DEF StopSteps, StopClose, StopForget, StopJoin, RunLoop, LoopTo, Attach, Create,
       Bind, BindFailed, CheckRunning, Accept, CheckReceiving, Receive, HangUp, CloseAtEnd,
       ForgetAtEnd, Sender, ClientConnects, ClientSends, ClientLeaves
  <1>2. UNCHANGED <<act, mode, udpSource, src, udpStop, calls, robbed>>
    BY DEF appVars, udpVars
  <1> QED
    BY <1>1, <1>2 DEF AppInv, AppTypeOK, Callbacks, OneScreen, OneStop, ModeFollowsCalls,
       Changing, InMode, SrtOff, SocketsFollowStop

\* The callbacks begin when no other runs.
LEMMA AndroidPreserves ==
  ASSUME AppInv, Android
  PROVE  AppInv'
  <1> USE ScriptsDiffer DEF AppInv, AppTypeOK, Callbacks, OneScreen, OneStop,
      ModeFollowsCalls, Changing, InMode, SrtOff, SocketsFollowStop, UiIsIdle, UiIsFree,
      vars, env, udpVars
  <1>1. ASSUME NEW a \in Activities, OnCreate(a)
        PROVE  AppInv'
    <2>1. calls' = ToStart(a) /\ udpStop' = NotStopping /\ calls = <<>>
      BY <1>1 DEF OnCreate, ToStart
    <2> QED
      BY <1>1, <2>1 DEF OnCreate
  <1>2. ASSUME NEW a \in Activities, Leave(a)
        PROVE  AppInv'
    BY <1>2 DEF Leave
  <1>3. ASSUME NEW a \in Activities, ToggleMode(a)
        PROVE  AppInv'
    <2>1. calls' = ToStopUdp(a) /\ udpStop' = NotStopping /\ calls = <<>>
      BY <1>3 DEF ToggleMode, ToStopUdp
    <2> QED
      BY <1>3, <2>1 DEF ToggleMode
  <1>4. ASSUME NEW a \in Activities, OnDestroy(a)
        PROVE  AppInv'
    <2>1. calls' = ToLeave(a) /\ udpStop' = NotStopping /\ calls = <<>>
      BY <1>4 DEF OnDestroy, ToLeave
    <2>2. /\ act' = [act EXCEPT ![a] = "destroyed"] /\ act'[a] = "destroyed"
          /\ UNCHANGED <<vars, mode, udpVars, robbed>>
      BY <1>4 DEF OnDestroy
    <2>3. AppTypeOK' /\ Callbacks' /\ OneScreen' /\ OneStop'
      BY <2>1, <2>2
    <2>4. ModeFollowsCalls'
      BY <2>1, <2>2
    <2>5. SocketsFollowStop'
      BY <2>1, <2>2
    <2> QED
      BY <2>3, <2>4, <2>5
  <1> QED
    BY <1>1, <1>2, <1>3, <1>4 DEF Android

\* One source becomes new, the others stay.
Becomes(s, new) ==
  /\ src' \in Seq(Source) /\ Len(src') = Len(src) /\ DOMAIN src' = DOMAIN src
  /\ src'[s] = new /\ \A t \in DOMAIN src : t # s => src'[t] = src[t]

LEMMA SourceFields ==
  \A r \in Source :
    /\ \A v \in BOOLEAN : LET new == [r EXCEPT !.running = v] IN
         /\ new \in Source /\ new.running = v /\ new.field = r.field
         /\ new.thread = r.thread /\ new.fd = r.fd /\ new.missed = r.missed
    /\ LET new == [r EXCEPT !.fd = "closed"] IN
         /\ new \in Source /\ new.running = r.running /\ new.field = r.field
         /\ new.thread = r.thread /\ new.fd = "closed" /\ new.missed = r.missed
    /\ \A v \in BOOLEAN : LET new == [r EXCEPT !.missed = v] IN
         /\ new \in Source /\ new.running = r.running /\ new.field = r.field
         /\ new.thread = r.thread /\ new.fd = r.fd /\ new.missed = v
    /\ \A v \in BOOLEAN : LET new == [r EXCEPT !.field = v] IN
         /\ new \in Source /\ new.running = r.running /\ new.field = v
         /\ new.thread = r.thread /\ new.fd = r.fd /\ new.missed = r.missed
  BY DEF Source

LEMMA SourceChange ==
  ASSUME src \in Seq(Source), NEW s \in DOMAIN src, NEW new \in Source,
         src' = [src EXCEPT ![s] = new]
  PROVE  Becomes(s, new)
  BY DEF Becomes

\* The calls a callback consists of
LEMMA CallsPreserve ==
  ASSUME AppInv, ListenerInv, NEW a \in Activities,
         StartSrt(a) \/ StartUdp(a) \/ StopSrt(a) \/ Release(a) \/ StopUdp(a)
  PROVE  AppInv'
  <1> USE DEF UiIsFree, vars, env, udpVars
  <1>1. \A b, c \in Activities : act[b] = "live" /\ act[c] = "live" => b = c
    BY DEF AppInv, OneScreen
  <1>2. CASE StartSrt(a)
    <2>1. /\ act[a] = "live" /\ calls = ToStart(a) /\ calls' = <<>> /\ mode[a] = "SRT"
          /\ udpSource[a] = 0
      BY <1>2, NextCall, ScriptsDiffer
         DEF StartSrt, AppInv, ModeFollowsCalls, Changing
    <2>2. running' /\ robbed' = robbed \ {a}
          /\ UNCHANGED <<act, mode, udpSource, src, udpStop>> /\ udpStop = NotStopping
      BY <1>2 DEF StartSrt, Start, Calls
    <2>3. AppTypeOK' /\ Callbacks' /\ OneScreen' /\ OneStop' /\ SocketsFollowStop'
      BY <2>1, <2>2 DEF AppInv, AppTypeOK, Callbacks, OneScreen, OneStop, SocketsFollowStop
    <2>4. ModeFollowsCalls'
      BY <1>1, <2>1, <2>2, ScriptsDiffer DEF ModeFollowsCalls, InMode
    <2> QED
      BY <2>3, <2>4 DEF AppInv
  <1>3. CASE StartUdp(a)
    <2>1. /\ act[a] = "live" /\ calls = ToStart(a) /\ calls' = <<>> /\ mode[a] = "UDP"
          /\ udpSource[a] = 0 /\ ~ running
      BY <1>3, NextCall, ScriptsDiffer
         DEF StartUdp, AppInv, ModeFollowsCalls, Changing
    <2>2. /\ UNCHANGED <<vars, act, mode, udpStop, robbed>> /\ udpStop = NotStopping
          /\ ui = "idle" /\ src' = Append(src, NewSource)
          /\ udpSource' = [udpSource EXCEPT ![a] = Len(src')]
      BY <1>3 DEF StartUdp, Calls
    <2>3. SrtOff
      BY <2>1, <2>2 DEF SrtOff, ListenerInv, StopInProgress
    <2>4. NewSource \in Source /\ src \in Seq(Source)
      BY DEF NewSource, Source, AppInv, AppTypeOK
    <2>5. /\ src' \in Seq(Source) /\ Len(src') = Len(src) + 1 /\ Len(src) \in Nat
          /\ DOMAIN src' = DOMAIN src \cup {Len(src')} /\ DOMAIN src = 1 .. Len(src)
          /\ src'[Len(src')] = NewSource
          /\ \A t \in DOMAIN src : src'[t] = src[t]
      BY <2>2, <2>4
    <2>6. /\ udpSource \in [Activities -> 0 .. Len(src)]
          /\ udpSource'[a] = Len(src') /\ \A b \in Activities \ {a} : udpSource'[b] = udpSource[b]
          /\ udpSource' \in [Activities -> 0 .. Len(src')]
      BY <2>2, <2>5 DEF AppInv, AppTypeOK
    <2>7. AppTypeOK' /\ Callbacks' /\ OneStop'
      BY <2>1, <2>2, <2>5, <2>6 DEF AppInv, AppTypeOK, Callbacks, OneStop
    <2>8. OneScreen'
      <3>1. \A b \in Activities \ {a} : udpSource'[b] # udpSource'[a]
        BY <2>5, <2>6
      <3> QED
        BY <2>1, <2>2, <2>6, <3>1 DEF AppInv, OneScreen
    <2>9. SocketsFollowStop'
      <3>1. SocketsFollowStop
        BY DEF AppInv
      <3> QED
        BY <2>2, <2>5, <3>1 DEF SocketsFollowStop, NewSource
    <2>10. ModeFollowsCalls'
      <3>1. src'[udpSource'[a]].running /\ udpSource'[a] # 0
        BY <2>5, <2>6 DEF NewSource
      <3> QED
        BY <1>1, <2>1, <2>2, <2>3, <3>1, ScriptsDiffer DEF ModeFollowsCalls, InMode, SrtOff
    <2> QED
      BY <2>7, <2>8, <2>9, <2>10 DEF AppInv
  <1>4. CASE StopSrt(a)
    <2>1. \/ act[a] = "live" /\ calls = ToStopSrt(a) /\ calls' = ToStart(a)
          \/ act[a] = "destroyed" /\ calls = ToLeave(a) /\ calls' = ToRelease(a)
      BY <1>4, NextCall DEF StopSrt, AppInv
    <2>2. /\ ~ running' /\ loop' = loop /\ udpStop = NotStopping
          /\ robbed' = robbed \cup {b \in Activities \ {a} : act[b] = "live" /\ mode[b] = "SRT"}
          /\ UNCHANGED <<act, mode, udpSource, src, udpStop>>
      BY <1>4 DEF StopSrt, Stop, Calls
    <2>3. AppTypeOK' /\ OneScreen' /\ OneStop' /\ SocketsFollowStop'
      BY <2>2 DEF AppInv, AppTypeOK, OneScreen, OneStop, SocketsFollowStop
    <2>4. Callbacks'
      BY <2>1, <2>2 DEF Callbacks
    <2>5. ModeFollowsCalls'
      <3>1. CASE act[a] = "live" /\ calls = ToStopSrt(a) /\ calls' = ToStart(a)
        <4>1. Changing(a)'
          BY <2>2, <3>1, ScriptsDiffer DEF AppInv, ModeFollowsCalls, Changing
        <4> QED
          BY <1>1, <2>2, <3>1, <4>1 DEF ModeFollowsCalls
      <3>2. CASE act[a] = "destroyed" /\ calls = ToLeave(a) /\ calls' = ToRelease(a)
        <4>1. \A b \in Activities : act[b] = "live" => InMode(b) /\ b # a
          BY <3>2, ScriptsDiffer DEF AppInv, ModeFollowsCalls
        <4>2. \A b \in Activities : act[b] = "live" => InMode(b)'
          BY <2>2, <4>1 DEF InMode, SrtOff
        <4>3. \A b \in Activities : calls' \notin {ToStopUdp(b), ToStopSrt(b), ToStart(b)}
          BY <3>2, ScriptsDiffer
        <4> QED
          BY <2>2, <4>2, <4>3 DEF ModeFollowsCalls
      <3> QED
        BY <2>1, <3>1, <3>2
    <2> QED
      BY <2>3, <2>4, <2>5 DEF AppInv
  <1>5. CASE Release(a)
    <2>1. calls = ToRelease(a) /\ calls' = <<>>
      BY <1>5, NextCall DEF Release, AppInv
    <2>2. UNCHANGED <<vars, act, mode, udpVars, robbed>> /\ udpStop = NotStopping
      BY <1>5 DEF Release, Calls
    <2> QED
      BY <2>1, <2>2, ScriptsDiffer DEF AppInv, AppTypeOK, Callbacks, OneScreen, OneStop,
         SocketsFollowStop, ModeFollowsCalls, InMode, SrtOff
  <1>6. CASE StopUdp(a)
    <2>1. act[a] = "live" /\ calls = ToStopUdp(a) /\ calls' = ToStopSrt(a)
      BY <1>6, NextCall DEF StopUdp, AppInv
    <2>2. UNCHANGED <<vars, act, mode, robbed, udpSource>> /\ ui = "idle" /\ udpStop = NotStopping
      BY <1>6 DEF StopUdp, Calls
    <2>3. CASE udpSource[a] = 0
      <3>1. UNCHANGED <<src, udpStop>>
        BY <1>6, <2>3 DEF StopUdp
      <3>2. AppTypeOK' /\ Callbacks' /\ OneScreen' /\ OneStop' /\ SocketsFollowStop'
        BY <2>1, <2>2, <3>1
           DEF AppInv, AppTypeOK, Callbacks, OneScreen, OneStop, SocketsFollowStop
      <3>3. ModeFollowsCalls'
        BY <1>1, <2>1, <2>2, <2>3, <3>1, ScriptsDiffer DEF ModeFollowsCalls, Changing
      <3> QED
        BY <3>2, <3>3 DEF AppInv
    <2>4. CASE udpSource[a] # 0
      <3> DEFINE s == udpSource[a]
      <3>1. s \in DOMAIN src /\ src \in Seq(Source) /\ src[s] \in Source
        BY <2>4 DEF AppInv, AppTypeOK
      <3>2. src' = [src EXCEPT ![s].running = FALSE] /\ udpStop' = [at |-> "close", s |-> s]
        BY <1>6, <2>4 DEF StopUdp
      <3> HIDE DEF s
      <3>3. /\ src' \in Seq(Source) /\ Len(src') = Len(src) /\ DOMAIN src' = DOMAIN src
            /\ ~ src'[s].running /\ src'[s].field = src[s].field /\ src'[s].thread = src[s].thread
            /\ \A t \in DOMAIN src : t # s => src'[t] = src[t]
        <4> DEFINE new == [src[s] EXCEPT !.running = FALSE]
        <4>1. new \in Source /\ ~ new.running /\ new.field = src[s].field /\ new.thread = src[s].thread
          BY <3>1, SourceFields
        <4>2. src' = [src EXCEPT ![s] = new]
          BY <3>2
        <4> HIDE DEF new
        <4> QED
          BY <3>1, <4>1, <4>2, SourceChange DEF Becomes
      <3>4. AppTypeOK' /\ Callbacks' /\ OneScreen'
        <4>1. udpStop' \in [at : {"idle", "close", "join"}, s : 0 .. Len(src')]
          BY <3>1, <3>2, <3>3
        <4> QED
          BY <2>1, <2>2, <3>3, <4>1 DEF AppInv, AppTypeOK, Callbacks, OneScreen
      <3>5. OneStop'
        BY <2>1, <2>2, <2>4, <3>2 DEF OneStop, s
      <3>6. SocketsFollowStop'
        <4>1. SocketsFollowStop /\ udpStop = NotStopping
          BY <2>2 DEF AppInv
        <4> QED
          BY <3>2, <3>3, <4>1 DEF SocketsFollowStop, NotStopping
      <3>7. ModeFollowsCalls'
        <4>1. ~ src'[udpSource'[a]].running /\ udpStop' # NotStopping
          BY <2>2, <3>2, <3>3 DEF s, NotStopping
        <4> QED
          BY <1>1, <2>1, <2>2, <4>1, ScriptsDiffer DEF ModeFollowsCalls, Changing
      <3> QED
        BY <3>4, <3>5, <3>6, <3>7 DEF AppInv
    <2> QED
      BY <2>3, <2>4
  <1> QED
    BY <1>2, <1>3, <1>4, <1>5, <1>6

\* stop() of a source, which finds its socket or misses it
LEMMA StopUdpClosePreserves ==
  ASSUME AppInv, StopUdpClose
  PROVE  AppInv'
  <1> DEFINE s == udpStop.s
  <1>1. PICK a \in Activities :
          /\ act[a] = "live" /\ calls = ToStopSrt(a) /\ ui = "idle"
          /\ udpSource[a] = s /\ udpSource[a] # 0 /\ udpStop # NotStopping
    BY DEF AppInv, OneStop, StopUdpClose, NotStopping
  <1>2. s \in DOMAIN src /\ src \in Seq(Source) /\ src[s] \in Source /\ ~ src[s].running
    BY <1>1, ScriptsDiffer DEF AppInv, AppTypeOK, ModeFollowsCalls, Changing
  <1>3. /\ udpStop.at = "close" /\ udpStop' = [udpStop EXCEPT !.at = "join"]
        /\ UNCHANGED <<vars, act, mode, udpSource, calls, robbed>>
    BY DEF StopUdpClose
  <1>4. udpStop'.at = "join" /\ udpStop'.s = s /\ udpStop' # NotStopping
        /\ udpStop' \in [at : {"idle", "close", "join"}, s : 0 .. Len(src)]
    BY <1>3 DEF AppInv, AppTypeOK, NotStopping
  <1>5. PICK new \in Source :
          /\ src' = [src EXCEPT ![s] = new]
          /\ ~ new.running /\ new.field = src[s].field /\ new.thread = src[s].thread
          /\ new.missed \/ (new.fd = "closed" /\ src[s].field)
    <2>1. CASE src[s].field /\ src' = [src EXCEPT ![s].fd = "closed"]
      <3> DEFINE new == [src[s] EXCEPT !.fd = "closed"]
      <3>1. src' = [src EXCEPT ![s] = new]
        BY <2>1
      <3>2. /\ new \in Source /\ ~ new.running /\ new.field = src[s].field
            /\ new.thread = src[s].thread /\ new.fd = "closed"
        BY <1>2, SourceFields
      <3> QED
        BY <2>1, <3>1, <3>2
    <2>2. CASE src' = [src EXCEPT ![s].missed = TRUE]
      <3> DEFINE new == [src[s] EXCEPT !.missed = TRUE]
      <3>1. src' = [src EXCEPT ![s] = new]
        BY <2>2
      <3>2. /\ new \in Source /\ ~ new.running /\ new.field = src[s].field
            /\ new.thread = src[s].thread /\ new.missed
        BY <1>2, SourceFields
      <3> QED
        BY <3>1, <3>2
    <2> QED
      BY <2>1, <2>2 DEF StopUdpClose
  <1>6. Becomes(s, new)
    BY <1>2, <1>5, SourceChange
  <1> HIDE DEF s
  <1>7. AppTypeOK' /\ Callbacks' /\ OneScreen'
    BY <1>3, <1>4, <1>6 DEF AppInv, AppTypeOK, Callbacks, OneScreen, Becomes
  <1>8. OneStop'
    BY <1>1, <1>3, <1>4 DEF OneStop, vars
  <1>9. ModeFollowsCalls'
    <2>1. Changing(a)'
      BY <1>1, <1>3, <1>4, <1>5, <1>6, ScriptsDiffer DEF Changing, Becomes
    <2>2. \A b \in Activities : act[b] = "live" => b = a
      BY <1>1 DEF AppInv, OneScreen
    <2> QED
      BY <1>1, <1>3, <2>1, <2>2 DEF ModeFollowsCalls
  <1>10. SocketsFollowStop'
    <2>1. ASSUME NEW t \in DOMAIN src, t # s, ~ src'[t].running
          PROVE  src'[t].missed \/ (src'[t].fd = "closed" /\ src'[t].thread # "bind")
      <3>1. src'[t] = src[t] /\ udpStop # [at |-> "close", s |-> t]
        BY <1>6, <2>1 DEF Becomes, s
      <3> QED
        BY <2>1, <3>1 DEF AppInv, SocketsFollowStop
    <2>2. src[s].field => src[s].thread \notin {"bind", "assign"}
      BY <1>2 DEF AppInv, SocketsFollowStop
    <2>3. \A t \in DOMAIN src : src[t].field => src[t].thread \notin {"bind", "assign"}
      BY DEF AppInv, SocketsFollowStop
    <2> QED
      BY <1>5, <1>6, <2>1, <2>2, <2>3 DEF SocketsFollowStop, Becomes
  <1> QED
    BY <1>7, <1>8, <1>9, <1>10 DEF AppInv

LEMMA StopUdpJoinPreserves ==
  ASSUME AppInv, StopUdpJoin
  PROVE  AppInv'
  <1> DEFINE s == udpStop.s
  <1>1. PICK a \in Activities :
          /\ act[a] = "live" /\ calls = ToStopSrt(a) /\ ui = "idle"
          /\ udpSource[a] = s /\ udpSource[a] # 0 /\ udpStop # NotStopping
    BY DEF AppInv, OneStop, StopUdpJoin, NotStopping
  <1>2. s \in DOMAIN src /\ src \in Seq(Source) /\ src[s] \in Source
    BY <1>1 DEF AppInv, AppTypeOK
  <1>3. /\ udpStop.at = "join" /\ udpStop' = NotStopping
        /\ UNCHANGED <<vars, act, mode, calls, robbed>>
        /\ udpSource' = [b \in Activities |-> IF udpSource[b] = s THEN 0 ELSE udpSource[b]]
    BY DEF StopUdpJoin
  <1>4. PICK new \in Source :
          /\ Becomes(s, new)
          /\ new.running = src[s].running /\ ~ new.field /\ new.fd = src[s].fd
          /\ new.missed = src[s].missed /\ new.thread = src[s].thread
    <2> DEFINE new == [src[s] EXCEPT !.field = FALSE]
    <2>1. src' = [src EXCEPT ![s] = new]
      BY DEF StopUdpJoin
    <2>2. /\ new \in Source /\ new.running = src[s].running /\ ~ new.field /\ new.fd = src[s].fd
          /\ new.missed = src[s].missed /\ new.thread = src[s].thread
      BY <1>2, SourceFields
    <2> HIDE DEF new
    <2> QED
      BY <1>2, <2>1, <2>2, SourceChange
  <1> HIDE DEF s
  <1>5. AppTypeOK'
    BY <1>3, <1>4 DEF AppInv, AppTypeOK, Becomes, NotStopping
  <1>6. Callbacks' /\ OneStop'
    BY <1>3 DEF AppInv, Callbacks, OneStop
  <1>7. OneScreen'
    BY <1>3 DEF AppInv, AppTypeOK, OneScreen
  <1>8. ModeFollowsCalls'
    <2>1. udpSource'[a] = 0
      BY <1>1, <1>3
    <2>2. Changing(a)'
      BY <1>1, <1>3, <2>1, ScriptsDiffer DEF Changing
    <2>3. \A b \in Activities : act[b] = "live" => b = a
      BY <1>1 DEF AppInv, OneScreen
    <2> QED
      BY <1>1, <1>3, <2>2, <2>3 DEF ModeFollowsCalls
  <1>9. SocketsFollowStop'
    <2>1. \A t : udpStop # [at |-> "close", s |-> t]
      BY <1>3
    <2> QED
      BY <1>4, <2>1 DEF AppInv, SocketsFollowStop, Becomes
  <1> QED
    BY <1>5, <1>6, <1>7, <1>8, <1>9 DEF AppInv

LEMMA AppStep == AppInv /\ ListenerInv /\ [AppNext]_allVars => AppInv'
  <1> SUFFICES ASSUME AppInv, ListenerInv, [AppNext]_allVars PROVE AppInv'
    OBVIOUS
  <1>1. CASE UiStep
    BY <1>1, CallsPreserve, StopUdpClosePreserves, StopUdpJoinPreserves,
       ListenerThreadPreserves DEF UiStep
  <1>2. CASE Android
    BY <1>2, AndroidPreserves
  <1>3. CASE (RunLoop \/ Sender) /\ UNCHANGED appVars
    BY <1>3, ListenerThreadPreserves
  <1>4. CASE \E s \in DOMAIN src : UdpRunLoop(s) \/ UdpReceive(s) \/ Collect(s)
    BY <1>4, UdpPreserves
  <1>5. CASE UNCHANGED allVars
    BY <1>5 DEF allVars, appVars, vars, udpVars, AppInv, AppTypeOK, Callbacks, OneScreen,
       OneStop, ModeFollowsCalls, Changing, InMode, SrtOff, SocketsFollowStop
  <1> QED
    BY <1>1, <1>2, <1>3, <1>4, <1>5 DEF AppNext

\* What the activity on the screen holds is the one source that is no orphan.
LEMMA AppInvMeans ==
  ASSUME AppInv, ListenerInv
  PROVE  ModeHolds /\ OneFeeder /\ PortIsFreeAgain
  <1>1. ASSUME NEW s \in DOMAIN src, ~ Orphan(s)
        PROVE  \E a \in Activities : act[a] = "live" /\ udpSource[a] = s /\ src[s].running
    BY <1>1 DEF Orphan
  <1>2. \A s, t \in DOMAIN src : ~ Orphan(s) /\ ~ Orphan(t) => s = t
    BY <1>1 DEF AppInv, OneScreen
  <1>3. \A s \in DOMAIN src : ~ Orphan(s) => loop = "none"
    <2> SUFFICES ASSUME NEW s \in DOMAIN src, ~ Orphan(s) PROVE loop = "none"
      OBVIOUS
    <2>1. PICK a \in Activities : act[a] = "live" /\ udpSource[a] = s /\ src[s].running
      BY <1>1
    <2>2. s # 0
      BY DEF AppInv, AppTypeOK
    <2> QED
      BY <2>1, <2>2 DEF AppInv, ModeFollowsCalls, Changing, InMode, SrtOff, AppTypeOK
  <1>4. ModeHolds
    <2>1. calls = <<>> => \A a \in Activities : act[a] = "live" => InMode(a)
      BY ScriptsDiffer DEF AppInv, ModeFollowsCalls
    <2> QED
      BY <2>1 DEF ModeHolds, UiIsIdle, InMode, SrtOff, AppInv, AppTypeOK
  <1>5. OneFeeder
    BY <1>2, <1>3 DEF OneFeeder, SrtFeeds
  <1>6. PortIsFreeAgain
    <2> SUFFICES ASSUME NEW s \in DOMAIN src, NEW t \in DOMAIN src, s # t, ~ Orphan(s),
                        src[t].fd = "open"
                 PROVE  src[t].missed \/ (src[t].running /\ Orphan(t))
      BY DEF PortIsFreeAgain
    <2>1. Orphan(t)
      BY <1>2
    <2>2. udpStop # [at |-> "close", s |-> t]
      <3> SUFFICES ASSUME udpStop = [at |-> "close", s |-> t] PROVE FALSE
        OBVIOUS
      <3>1. udpStop # NotStopping /\ udpStop.s = t
        BY DEF NotStopping
      <3>2. \E a \in Activities : act[a] = "live" /\ udpSource[a] = t
        BY <3>1 DEF AppInv, OneStop
      <3> QED
        BY <1>1, <3>2 DEF AppInv, OneScreen
    <2> QED
      BY <2>1, <2>2 DEF AppInv, SocketsFollowStop
  <1> QED
    BY <1>4, <1>5, <1>6

\* The listener's invariant and the app's, together
THEOREM AppInvariance == AppSpec => [](ListenerInv /\ AppInv)
  <1>1. AppInit => ListenerInv /\ AppInv
    BY ListenerInit, AppInitHolds DEF AppInit
  <1>2. (ListenerInv /\ AppInv) /\ [AppNext]_allVars => (ListenerInv /\ AppInv)'
    <2>1. [AppNext]_allVars => [Next]_vars
      BY AppStepsListener DEF allVars
    <2> QED
      BY <2>1, ListenerStep, AppStep
  <1> QED
    BY <1>1, <1>2, PTL DEF AppSpec

\* Toggling leaves the activity on the screen with the source of its mode and
\* no other, however the threads ran meanwhile (MainActivity.kt:70-97).
THEOREM ToggleReachesMode == AppSpec => []ModeHolds
  <1>1. ListenerInv /\ AppInv => ModeHolds
    BY AppInvMeans
  <1> QED
    BY <1>1, AppInvariance, PTL

\* feedStream has two callers only if one of them is a source the app has lost
\* hold of.
THEOREM FeedersAreOrphans == AppSpec => []OneFeeder
  <1>1. ListenerInv /\ AppInv => OneFeeder
    BY AppInvMeans
  <1> QED
    BY <1>1, AppInvariance, PTL

\* A new source finds the port taken only by one whose socket stop() missed, or
\* that was never stopped (UdpVideoSource.kt:30-60).
THEOREM StoppedSourceFreesPort == AppSpec => []PortIsFreeAgain
  <1>1. ListenerInv /\ AppInv => PortIsFreeAgain
    BY AppInvMeans
  <1> QED
    BY <1>1, AppInvariance, PTL

==============================================================================
