----------------------------- MODULE SrtListener -----------------------------
(***************************************************************************)
(* SrtListenerImpl of SrtListener.cpp: start() and stop(), called by the   *)
(* UI thread through SrtBridge, against runLoop() on the listener thread.  *)
(*                                                                         *)
(* libsrt and the sender are external, modelled from how the code uses     *)
(* them: accept blocks until a client connects or the listening socket is  *)
(* closed, recvmsg until a message arrives or the connection breaks;       *)
(* closing the listening socket does not close an accepted one.            *)
(***************************************************************************)
EXTENDS Integers

CONSTANTS
  SetupMayFail, \* may attaching fail, creating a socket, bind or listen?
  MaxStarts,    \* bound: listener threads created
  MaxPackets    \* bound: messages waiting at the client's socket

ASSUME SetupMayFailIsBoolean == SetupMayFail \in BOOLEAN
ASSUME BoundsAreNat == MaxStarts \in Nat /\ MaxPackets \in Nat \ {0}

VARIABLES
  running,   \* running_
  sock,      \* sock_: is it a socket?
  listener,  \* the socket sock_ was assigned: absent, open, listening, closed
  ui,        \* where the UI thread is inside stop(), or idle
  loop,      \* where the listener thread is; "none": no joinable thread_
  client,    \* the connection: none, waiting (for accept), up, or broken
  inbox,     \* messages received and not yet read
  starts     \* threads created

vars == <<running, sock, listener, ui, loop, client, inbox, starts>>

env  == <<client, inbox>>

UI   == {"idle", "close", "forget", "join"}
Loop == {"none", "attach", "create", "bind", "listening", "accept", "receiving",
         "recv", "hang_up", "close", "forget", "failed", "exited"}

Init ==
  /\ running = FALSE /\ sock = FALSE /\ listener = "absent"
  /\ ui = "idle" /\ loop = "none"
  /\ client = "none" /\ inbox = 0 /\ starts = 0

-----------------------------------------------------------------------------
(* The UI thread *)

\* start(): nothing if running_ is set already
Start ==
  /\ ui = "idle" /\ ~ running
  /\ starts < MaxStarts
  /\ running' = TRUE
  /\ loop' = "attach"
  /\ starts' = starts + 1
  /\ UNCHANGED <<sock, listener, ui, env>>

\* Mutant of Stop: closing the socket is meant to end the loop.
StopKeepsRunning ==
  /\ ui = "idle"
  /\ ui' = IF sock THEN "close" ELSE "join"
  /\ UNCHANGED <<running, sock, listener, loop, env, starts>>

\* stop(): running_ = false; is there a socket?
Stop ==
  /\ ui = "idle"
  /\ running' = FALSE
  /\ ui' = IF sock THEN "close" ELSE "join"
  /\ UNCHANGED <<sock, listener, loop, env, starts>>

\* srt_close(sock_), whatever sock_ is by now. A client that was not accepted
\* yet is turned away.
CloseListener ==
  /\ listener' = IF sock THEN "closed" ELSE listener
  /\ client' = IF sock /\ client = "waiting" THEN "none" ELSE client

StopClose ==
  /\ ui = "close"
  /\ CloseListener
  /\ ui' = "forget"
  /\ UNCHANGED <<running, sock, loop, inbox, starts>>

StopForget ==
  /\ ui = "forget"
  /\ sock' = FALSE
  /\ ui' = "join"
  /\ UNCHANGED <<running, listener, loop, env, starts>>

\* Mutant of StopJoin: stop() does not wait for the thread.
StopJoinNoWait ==
  /\ ui = "join"
  /\ ui' = "idle"
  /\ UNCHANGED <<running, sock, listener, loop, env, starts>>

\* join the thread, if there is one
StopJoin ==
  /\ ui = "join"
  /\ loop \in {"none", "exited"}
  /\ loop' = "none"
  /\ ui' = "idle"
  /\ UNCHANGED <<running, sock, listener, env, starts>>

-----------------------------------------------------------------------------
(* runLoop() on the listener thread *)

LoopTo(from, to) == loop = from /\ loop' = to

\* AttachCurrentThread, which may fail: return
Attach ==
  /\ LoopTo("attach", "create") \/ (SetupMayFail /\ LoopTo("attach", "exited"))
  /\ UNCHANGED <<running, sock, listener, ui, env, starts>>

\* srt_create_socket, which may fail: return
Create ==
  /\ \/ /\ LoopTo("create", "bind")
        /\ sock' = TRUE /\ listener' = "open"
     \/ /\ SetupMayFail
        /\ LoopTo("create", "exited")
        /\ sock' = FALSE /\ UNCHANGED listener
  /\ UNCHANGED <<running, ui, env, starts>>

\* srt_bind and srt_listen. They fail if stop() closed the socket, or the port
\* is in use; then: close and return.
Bind ==
  /\ \/ /\ sock /\ listener = "open"
        /\ LoopTo("bind", "listening")
        /\ listener' = "listening"
        /\ UNCHANGED client
     \/ /\ SetupMayFail \/ ~ sock \/ listener = "closed"
        /\ LoopTo("bind", "failed")
        /\ CloseListener
  /\ UNCHANGED <<running, sock, ui, inbox, starts>>

\* sock_ = INVALID, return; running_ stays set
BindFailed ==
  /\ LoopTo("failed", "exited")
  /\ sock' = FALSE
  /\ UNCHANGED <<running, listener, ui, env, starts>>

\* while (running_)
CheckRunning ==
  /\ LoopTo("listening", IF running THEN "accept" ELSE "close")
  /\ UNCHANGED <<running, sock, listener, ui, env, starts>>

\* srt_accept: a client, or an error once the socket is closed
Accept ==
  /\ \/ /\ sock /\ listener = "listening" /\ client = "waiting"
        /\ LoopTo("accept", "receiving")
        /\ client' = "up"
     \/ /\ ~ sock \/ listener = "closed"
        /\ LoopTo("accept", "listening")
        /\ UNCHANGED client
  /\ UNCHANGED <<running, sock, listener, ui, inbox, starts>>

\* handleClient: while (running_)
CheckReceiving ==
  /\ LoopTo("receiving", IF running THEN "recv" ELSE "hang_up")
  /\ UNCHANGED <<running, sock, listener, ui, env, starts>>

\* srt_recvmsg: a message, which is dispatched to feedStream, or an error
Receive ==
  /\ \/ /\ inbox > 0
        /\ LoopTo("recv", "receiving")
        /\ inbox' = inbox - 1
     \/ /\ inbox = 0 /\ client = "broken"
        /\ LoopTo("recv", "hang_up")
        /\ UNCHANGED inbox
  /\ UNCHANGED <<running, sock, listener, ui, client, starts>>

\* srt_close(client_sock)
HangUp ==
  /\ LoopTo("hang_up", "listening")
  /\ client' = "none" /\ inbox' = 0
  /\ UNCHANGED <<running, sock, listener, ui, starts>>

\* Mutant of CloseAtEnd: runLoop relies on stop() to close the socket.
CloseAtEndForgotten ==
  /\ LoopTo("close", "forget")
  /\ UNCHANGED <<running, sock, listener, ui, env, starts>>

\* After the loop: srt_close(sock_), sock_ = INVALID, DetachCurrentThread
CloseAtEnd ==
  /\ LoopTo("close", "forget")
  /\ CloseListener
  /\ UNCHANGED <<running, sock, ui, inbox, starts>>

ForgetAtEnd ==
  /\ LoopTo("forget", "exited")
  /\ sock' = FALSE
  /\ UNCHANGED <<running, listener, ui, env, starts>>

-----------------------------------------------------------------------------
(* The sender (external): may connect, send, stay silent, or go away *)

ClientConnects ==
  /\ listener = "listening" /\ client = "none"
  /\ client' = "waiting"
  /\ UNCHANGED <<running, sock, listener, ui, loop, inbox, starts>>

ClientSends ==
  /\ client = "up" /\ inbox < MaxPackets
  /\ inbox' = inbox + 1
  /\ UNCHANGED <<running, sock, listener, ui, loop, client, starts>>

\* It closes the connection, or libsrt gives it up.
ClientLeaves ==
  /\ client \in {"waiting", "up"}
  /\ client' = IF client = "up" THEN "broken" ELSE "none"
  /\ UNCHANGED <<running, sock, listener, ui, loop, inbox, starts>>

-----------------------------------------------------------------------------

StopSteps == StopClose \/ StopForget \/ StopJoin

RunLoop ==
  \/ Attach \/ Create \/ Bind \/ BindFailed
  \/ CheckRunning \/ Accept \/ CheckReceiving \/ Receive \/ HangUp
  \/ CloseAtEnd \/ ForgetAtEnd

Sender == ClientConnects \/ ClientSends \/ ClientLeaves

Next == Start \/ Stop \/ StopSteps \/ RunLoop \/ Sender

Spec == Init /\ [][Next]_vars

\* Both threads go on when they can. Nothing makes a sender send or leave.
FairSpec == Spec /\ WF_vars(StopSteps) /\ WF_vars(RunLoop)

-----------------------------------------------------------------------------

TypeOK ==
  /\ running \in BOOLEAN /\ sock \in BOOLEAN
  /\ listener \in {"absent", "open", "listening", "closed"}
  /\ ui \in UI /\ loop \in Loop
  /\ client \in {"none", "waiting", "up", "broken"}
  /\ inbox \in 0 .. MaxPackets /\ starts \in 0 .. MaxStarts

Stopped == ui = "idle" /\ ~ running

Dispatch == loop = "recv" /\ loop' = "receiving"

\* Once stop() has returned the next start() finds the port free, wherever
\* runLoop was when stop() looked at sock_ (and found none, perhaps), and no
\* joinable thread, even after a failed bind: assigning to a joinable
\* std::thread would end the process.
ReadyToStart == Stopped => listener \in {"absent", "closed"} /\ loop = "none"

\* Once stop() has returned no packet of the old session reaches feedStream:
\* release() may tear the decoder down.
NothingFedAfterStop == [][Dispatch => ~ Stopped]_vars

SilentClient == loop = "recv" /\ client = "up" /\ inbox = 0

==============================================================================
