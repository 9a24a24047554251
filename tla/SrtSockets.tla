----------------------------- MODULE SrtSockets -----------------------------
(***************************************************************************)
(* libsrt's sockets under SrtListener: CUDTUnited in srtcore/api.cpp, the  *)
(* connection requests of CRcvQueue in queue.cpp, and the locks they share.*)
(*                                                                         *)
(* Four threads: the UI thread in SrtListenerImpl::stop(), the listener    *)
(* thread in runLoop(), the worker of the receiver queue, and the garbage  *)
(* collector. A section under m_GlobControlLock is one action, unless the  *)
(* thread waits in it. The locks a thread holds while it waits are states: *)
(* a socket's m_ControlLock and m_ConnectionLock, m_GlobControlLock, and   *)
(* both modes of the lock on the queue's m_pListener. SrtListener binds    *)
(* one port, so there is never more than one multiplexer.                  *)
(***************************************************************************)
EXTENDS Naturals, FiniteSets, FiniteSetsExt

CONSTANTS
  Peers,         \* connections clients ask for: address, socket and ISN
  MaxSockets,    \* bound: socket IDs; nothing starts or asks when none is left
  Backlog,       \* m_uiBackLog, the second argument of srt_listen
  NoPeer

ASSUME SizesArePositive == MaxSockets \in Nat \ {0} /\ Backlog \in Nat \ {0}
ASSUME NoPeerIsNoPeer == NoPeer \notin Peers

VARIABLES
  socket,   \* socket[s]: CUDTSocket s, in m_Sockets, in m_ClosedSockets or not
  idGen,    \* m_SocketIDGenerator: IDs are handed out downwards
  mux,      \* the multiplexer: m_iID, m_iRefCount and m_pListener
  running,  \* running_ of SrtListener
  sock,     \* sock_ of SrtListener
  ui,       \* where the UI thread is in start() or stop()
  app,      \* where the listener thread is in runLoop(), and its client_sock
  call,     \* call[t]: the srt_close that thread t is in
  worker,   \* where CRcvQueue::worker is in a connection request
  gc        \* where the collector is, and the sockets it is about to remove

vars == <<socket, idGen, mux, running, sock, ui, app, call, worker, gc>>

listener == <<running, sock, ui, app>>
database == <<socket, idGen, mux>>

Ids     == 1..MaxSockets
None    == 0
Threads == {"ui", "app"}

NewSocket ==
  [place |-> "none",  \* "live": in m_Sockets; "closed": in m_ClosedSockets;
                      \* "erased": in neither; "deleted"
   status |-> "INIT", opened |-> FALSE, connected |-> FALSE,
   broken |-> FALSE, closing |-> FALSE,
   mux |-> None,      \* m_iMuxID
   busy |-> 0,        \* m_iBusy
   old |-> FALSE,     \* m_tsClosureTimeStamp is further back than the timeout
   onList |-> FALSE,  \* m_pRNode->m_bOnList
   from |-> None,     \* m_ListenSocket
   peer |-> NoPeer,   \* its entry in m_PeerRec
   queued |-> {}]     \* m_QueuedSockets

NoMux   == [id |-> None, refs |-> 0, listener |-> None]
Idle    == [at |-> "idle", s |-> None]
AtRest  == [at |-> "idle", listener |-> None, peer |-> NoPeer, s |-> None]
Asleep  == [at |-> "sleep", todo |-> {}, s |-> None]
NoLoop  == [at |-> "none", listener |-> None, client |-> None]

Init ==
  /\ socket = [s \in Ids |-> NewSocket]
  /\ idGen = MaxSockets
  /\ mux = NoMux
  /\ running = FALSE /\ sock = None /\ ui = "idle"
  /\ app = NoLoop
  /\ call = [t \in Threads |-> Idle]
  /\ worker = AtRest
  /\ gc = Asleep

-----------------------------------------------------------------------------
(* Locks, look-ups and what is done to one socket *)

\* Nobody holds m_GlobControlLock: only the collector waits with it in hand.
GlobFree == gc.at # "destroy"

\* s->m_ControlLock and s->m_ConnectionLock are held across actions only by the
\* close() of a listener, in notListening().
Draining(s)         == \E t \in Threads : call[t] = [at |-> "drain", s |-> s]
ControlLocked(s)    == Draining(s)
ConnectionLocked(s) == Draining(s)

\* ExclusiveLock on m_pListener is waited for: it admits no new reader.
WriterWaits == \E t \in Threads : call[t].at = "drain"

\* SharedLock on m_pListener: the worker processes a connection request.
Reading == worker.at # "idle"

\* locateSocket_LOCKED
Located(s) ==
  s \in Ids /\ socket[s].place = "live" /\ socket[s].status # "CLOSED"

\* setClosed(): the status, and the timer starts again
Closed(r) == [r EXCEPT !.status = "CLOSED", !.old = FALSE]

\* closeInternal()
Shut(r) ==
  IF r.opened THEN [r EXCEPT !.opened = FALSE, !.connected = FALSE, !.closing = TRUE]
              ELSE r

\* breakSocket_LOCKED(), and the move to m_ClosedSockets
Broken(r) ==
  [Closed(Shut(r)) EXCEPT !.broken = TRUE, !.place = "closed"]

\* Whoever waits in accept() on l is notified, and reads l again.
Wakes(l) ==
  app' = IF app.at = "wait" /\ app.listener = l
         THEN [app EXCEPT !.at = "accept"] ELSE app

-----------------------------------------------------------------------------
(* srt_close *)

\* Mutant of Closes: the call does not keep the socket.
ClosesUnkept(t, s) ==
  /\ call' = IF Located(s) THEN [call EXCEPT ![t] = [at |-> "lock", s |-> s]] ELSE call
  /\ UNCHANGED socket

\* t calls srt_close(s). A socket that is found stays busy until the call
\* returns (SocketKeeper); SRT_INVALID_SOCK is not found.
Closes(t, s) ==
  IF Located(s)
  THEN /\ socket' = [socket EXCEPT ![s].busy = @ + 1]
       /\ call' = [call EXCEPT ![t] = [at |-> "lock", s |-> s]]
  ELSE UNCHANGED <<socket, call>>

\* t has s->m_ControlLock.
Locks(t, s) == call[t] = [at |-> "lock", s |-> s] /\ ~ ControlLocked(s)

Returns(t) == call' = [call EXCEPT ![t] = Idle]

\* A listener is broken, and notListening() takes its m_ConnectionLock. (That
\* it is broken before cannot be: the close() that breaks it keeps m_ControlLock
\* until it is no longer LISTENING.)
CloseListener(t) ==
  LET s == call[t].s IN
  /\ Locks(t, s) /\ socket[s].status = "LISTENING"
  /\ socket' = [socket EXCEPT ![s].broken = TRUE, ![s].old = FALSE]
  /\ call' = [call EXCEPT ![t].at = "drain"]
  /\ UNCHANGED <<idGen, mux, listener, worker, gc>>

\* Mutant of CloseDrained: the slot is left to the collector too, as in the original UDT.
CloseDrainedLater(t) ==
  LET s == call[t].s IN
  /\ call[t].at = "drain" /\ ~ Reading
  /\ socket' = [socket EXCEPT ![s].status = "CLOSING", ![s].busy = @ - 1]
  /\ Wakes(s)
  /\ Returns(t)
  /\ UNCHANGED <<idGen, mux, running, sock, ui, worker, gc>>

\* Mutant of CloseDrained: accept() is not notified.
CloseDrainedSilently(t) ==
  LET s == call[t].s IN
  /\ call[t].at = "drain" /\ ~ Reading
  /\ mux' = IF mux.listener = s THEN [mux EXCEPT !.listener = None] ELSE mux
  /\ socket' = [socket EXCEPT ![s].status = "CLOSING", ![s].busy = @ - 1]
  /\ Returns(t)
  /\ UNCHANGED <<idGen, listener, worker, gc>>

\* clearIf() has the exclusive lock when no reader is left. Then accept() is
\* notified; the rest is left to the collector.
CloseDrained(t) ==
  LET s == call[t].s IN
  /\ call[t].at = "drain" /\ ~ Reading
  /\ mux' = IF mux.listener = s THEN [mux EXCEPT !.listener = None] ELSE mux
  /\ socket' = [socket EXCEPT ![s].status = "CLOSING", ![s].busy = @ - 1]
  /\ Wakes(s)
  /\ Returns(t)
  /\ UNCHANGED <<idGen, running, sock, ui, worker, gc>>

\* Mutant of CloseOther: the return for a socket that was moved before forgets to release it.
CloseOtherHeld(t) ==
  LET s == call[t].s
      r == Shut([socket[s] EXCEPT !.status = "CLOSING"]) IN
  /\ Locks(t, s) /\ socket[s].status # "LISTENING" /\ GlobFree
  /\ socket' = [socket EXCEPT ![s] =
       IF @.place = "live"
       THEN [Closed(r) EXCEPT !.place = "closed", !.busy = @ - 1]
       ELSE r]
  /\ Returns(t)
  /\ UNCHANGED <<idGen, mux, listener, worker, gc>>

\* Any other socket is closed internally, and moves to m_ClosedSockets unless
\* the collector was there first.
CloseOther(t) ==
  LET s == call[t].s
      r == Shut([socket[s] EXCEPT !.status = "CLOSING", !.busy = @ - 1]) IN
  /\ Locks(t, s) /\ socket[s].status # "LISTENING" /\ GlobFree
  /\ socket' = [socket EXCEPT ![s] =
       IF @.place = "live"
       THEN [Closed(r) EXCEPT !.place = "closed"]
       ELSE r]
  /\ Returns(t)
  /\ UNCHANGED <<idGen, mux, listener, worker, gc>>

Close(t) == CloseListener(t) \/ CloseDrained(t) \/ CloseOther(t)

-----------------------------------------------------------------------------
(* The UI thread: start() and stop() of SrtListener *)

Start ==
  /\ ui = "idle" /\ ~ running /\ idGen > 0
  /\ running' = TRUE
  /\ app' = [NoLoop EXCEPT !.at = "create"]
  /\ UNCHANGED <<database, sock, ui, call, worker, gc>>

Stop ==
  /\ ui = "idle" /\ running /\ GlobFree
  /\ running' = FALSE
  /\ ui' = IF sock # None THEN "closing" ELSE "join"
  /\ Closes("ui", sock)
  /\ UNCHANGED <<idGen, mux, sock, app, worker, gc>>

StopClosed ==
  /\ ui = "closing" /\ call["ui"] = Idle
  /\ sock' = None
  /\ ui' = "join"
  /\ UNCHANGED <<database, running, app, call, worker, gc>>

StopJoins ==
  /\ ui = "join" /\ app.at = "none"
  /\ ui' = "idle"
  /\ UNCHANGED <<database, running, sock, app, call, worker, gc>>

Ui == Start \/ Stop \/ StopClosed \/ StopJoins \/ Close("ui")

-----------------------------------------------------------------------------
(* The listener thread: runLoop() of SrtListener and the calls it makes *)

Goes(at) == app' = [app EXCEPT !.at = at]

\* srt_create_socket: a new socket in m_Sockets
Create ==
  /\ app.at = "create" /\ GlobFree
  /\ socket' = [socket EXCEPT ![idGen].place = "live"]
  /\ idGen' = idGen - 1
  /\ sock' = idGen
  /\ Goes("bind")
  /\ UNCHANGED <<mux, running, ui, call, worker, gc>>

\* A multiplexer on the port is used again. Otherwise a new one opens the port.
Bind ==
  /\ app.at = "bind" /\ GlobFree
  /\ Located(sock) /\ ~ ControlLocked(sock) /\ socket[sock].status = "INIT"
  /\ mux' = IF mux.id # None THEN [mux EXCEPT !.refs = @ + 1]
                             ELSE [id |-> sock, refs |-> 1, listener |-> None]
  /\ socket' = [socket EXCEPT ![sock].opened = TRUE, ![sock].status = "OPENED",
                              ![sock].mux = mux'.id]
  /\ Goes("listen")
  /\ UNCHANGED <<idGen, running, sock, ui, call, worker, gc>>

\* Another program has the port, or stop() closed the socket in the meantime.
BindFails ==
  /\ app.at = "bind" /\ GlobFree
  /\ \/ /\ Located(sock) /\ ~ ControlLocked(sock) /\ socket[sock].status = "INIT"
        /\ mux.id = None
        /\ socket' = [socket EXCEPT ![sock].opened = TRUE]
     \/ /\ Located(sock) => ~ ControlLocked(sock) /\ socket[sock].status # "INIT"
        /\ UNCHANGED socket
  /\ Goes("failed")
  /\ UNCHANGED <<idGen, mux, running, sock, ui, call, worker, gc>>

CanListen ==
  Located(sock) /\ ~ ControlLocked(sock) /\ socket[sock].status = "OPENED"

\* setListenState(): the slot is set under the exclusive lock.
Listen ==
  /\ app.at = "listen" /\ GlobFree /\ CanListen /\ ~ Reading
  /\ mux.listener = None
  /\ mux' = [mux EXCEPT !.listener = sock]
  /\ socket' = [socket EXCEPT ![sock].status = "LISTENING"]
  /\ Goes("test")
  /\ UNCHANGED <<idGen, running, sock, ui, call, worker, gc>>

\* The slot is taken, or stop() closed the socket in the meantime.
ListenFails ==
  /\ app.at = "listen" /\ GlobFree
  /\ \/ CanListen /\ ~ Reading /\ mux.listener # None
     \/ Located(sock) => ~ ControlLocked(sock) /\ socket[sock].status # "OPENED"
  /\ Goes("failed")
  /\ UNCHANGED <<database, running, sock, ui, call, worker, gc>>

Abandon ==
  /\ app.at = "failed" /\ GlobFree
  /\ Closes("app", sock) /\ Goes("closing")
  /\ UNCHANGED <<idGen, mux, running, sock, ui, worker, gc>>

\* while (running_), when the srt_close of a client has returned: accept(),
\* which keeps the pointer to its listener without making it busy. It fails on
\* a listener that is being closed; after the loop the socket is closed.
Test ==
  /\ app.at = "test" /\ call["app"] = Idle /\ GlobFree
  /\ IF ~ running THEN app' = [NoLoop EXCEPT !.at = "closing"] /\ Closes("app", sock)
     ELSE /\ Located(sock) /\ socket[sock].status = "LISTENING"
          /\ app' = [NoLoop EXCEPT !.at = "accept", !.listener = sock]
          /\ UNCHANGED <<socket, call>>
  /\ UNCHANGED <<idGen, mux, running, sock, ui, worker, gc>>

\* One round of its loop, under m_AcceptLock: a closed listener, the queued
\* socket with the least ID, or a wait.
AcceptRound ==
  LET l == app.listener IN
  /\ app.at = "accept"
  /\ \/ /\ socket[l].status # "LISTENING" \/ socket[l].broken
        /\ Goes("test") /\ UNCHANGED socket
     \/ /\ socket[l].status = "LISTENING" /\ ~ socket[l].broken
        /\ socket[l].queued # {}
        /\ LET u == Min(socket[l].queued) IN
           /\ socket' = [socket EXCEPT ![l].queued = @ \ {u}]
           /\ app' = [app EXCEPT !.at = "return", !.client = u]
     \/ /\ socket[l].status = "LISTENING" /\ ~ socket[l].broken
        /\ socket[l].queued = {}
        /\ Goes("wait") /\ UNCHANGED socket
  /\ UNCHANGED <<idGen, mux, running, sock, ui, call, worker, gc>>

\* handleClient returned: the client is closed, and running_ tested again.
HangsUp == Closes("app", app.client) /\ Goes("test")

\* while (running_) in handleClient, and srt_recvmsg looks the client up.
Receives ==
  IF running /\ Located(app.client) THEN Goes("recv") /\ UNCHANGED <<socket, call>> ELSE HangsUp

\* The client may have been closed since it was taken from the queue.
AcceptReturn ==
  /\ app.at = "return" /\ GlobFree
  /\ IF Located(app.client) THEN Receives
     ELSE Goes("test") /\ UNCHANGED <<socket, call>>
  /\ UNCHANGED <<idGen, mux, running, sock, ui, worker, gc>>

\* srt_recvmsg returns because the connection is broken or closed ...
RecvFails ==
  LET u == socket[app.client] IN
  /\ app.at = "recv" /\ (u.broken \/ u.closing \/ ~ u.connected) /\ GlobFree
  /\ HangsUp
  /\ UNCHANGED <<idGen, mux, running, sock, ui, worker, gc>>

\* ... or with a message.
RecvReturns ==
  LET u == socket[app.client] IN
  /\ app.at = "recv" /\ u.connected /\ ~ u.broken /\ ~ u.closing /\ GlobFree
  /\ Receives
  /\ UNCHANGED <<idGen, mux, running, sock, ui, worker, gc>>

\* The listener's socket is closed.
Leave ==
  /\ app.at = "closing" /\ call["app"] = Idle
  /\ sock' = None
  /\ app' = NoLoop
  /\ UNCHANGED <<database, running, ui, call, worker, gc>>

RunLoop ==
  \/ Create \/ Bind \/ BindFails \/ Listen \/ ListenFails \/ Abandon \/ Test
  \/ AcceptRound \/ AcceptReturn \/ RecvFails \/ Leave \/ Close("app")

-----------------------------------------------------------------------------
(* The worker of the receiver queue *)

\* A connection request goes to the listener under the shared lock.
TakeRequest(p) ==
  /\ worker.at = "idle" /\ mux.listener # None /\ ~ WriterWaits /\ idGen > 0
  /\ ~ socket[mux.listener].closing /\ ~ socket[mux.listener].broken
  /\ worker' = [AtRest EXCEPT !.at = "locate", !.listener = mux.listener, !.peer = p]
  /\ UNCHANGED <<database, listener, call, gc>>

\* locatePeer: the first live socket of the peer that is in m_PeerRec
OfPeer(p) == {s \in Ids : socket[s].place = "live" /\ socket[s].peer = p}

RequestEnds == worker' = AtRest

\* Mutant of Locate: every request is taken for a new one.
LocateNobody ==
  LET l == worker.listener IN
  /\ worker.at = "locate" /\ GlobFree
  /\ worker' = IF Located(l) /\ Cardinality(socket[l].queued) < Backlog
               THEN [worker EXCEPT !.at = "create"] ELSE AtRest
  /\ UNCHANGED <<database, listener, call, gc>>

\* newConnection() looks the peer up. One with a connection is told so again;
\* a broken connection makes room; a full queue refuses. The listener may be
\* gone from m_Sockets.
Locate ==
  LET l     == worker.listener
      mine  == OfPeer(worker.peer)
      first == {s \in mine : s = Min(mine)}
      left  == socket[l].queued \ first IN
  /\ worker.at = "locate" /\ GlobFree
  /\ IF ~ Located(l) \/ \E s \in first : ~ socket[s].broken
     THEN RequestEnds /\ UNCHANGED socket
     ELSE /\ socket' = [s \in Ids |->
               CASE s = l       -> [socket[s] EXCEPT !.queued = left]
                 [] s \in first -> Closed(socket[s])
                 [] OTHER       -> socket[s]]
          /\ IF Cardinality(left) < Backlog
             THEN worker' = [worker EXCEPT !.at = "create"] ELSE RequestEnds
  /\ UNCHANGED <<idGen, mux, listener, call, gc>>

\* The options are copied under the listener's m_ConnectionLock; the socket is
\* mapped, opened and put on the listener's multiplexer.
CreateAccepted ==
  LET l == worker.listener IN
  /\ worker.at = "create" /\ ~ ConnectionLocked(l) /\ GlobFree
  /\ idGen' = idGen - 1
  /\ mux' = [mux EXCEPT !.refs = @ + 1]
  /\ socket' = [socket EXCEPT ![idGen] =
       [NewSocket EXCEPT !.place = "live", !.opened = TRUE, !.mux = mux.id, !.from = l]]
  /\ worker' = [worker EXCEPT !.at = "respond", !.s = idGen]
  /\ UNCHANGED <<listener, call, gc>>

\* acceptAndRespond(), and what follows in newConnection(): until the socket is
\* queued nobody else can reach it. It is connected and handed to the receiver
\* list; the peer is mapped; the socket is submitted to accept(), which is
\* notified; the shared lock is released.
Respond ==
  LET l == worker.listener
      u == worker.s IN
  /\ worker.at = "respond" /\ GlobFree
  /\ socket' = [socket EXCEPT
       ![u].connected = TRUE, ![u].onList = TRUE, ![u].status = "CONNECTED",
       ![u].peer = worker.peer, ![l].queued = @ \cup {u}]
  /\ Wakes(l)
  /\ RequestEnds
  /\ UNCHANGED <<idGen, mux, running, sock, ui, call, gc>>

\* It fails before the socket is connected, or after it when the response cannot
\* be sent: the socket is rolled back.
RespondFails ==
  LET u == worker.s IN
  /\ worker.at = "respond" /\ GlobFree
  /\ \E on \in BOOLEAN :
       socket' = [socket EXCEPT ![u] =
         [Closed(Shut([@ EXCEPT !.connected = on, !.onList = on])) EXCEPT !.place = "closed"]]
  /\ RequestEnds
  /\ UNCHANGED <<idGen, mux, listener, call, gc>>

\* The same thread: a shutdown of the peer, or its silence for too long
PeerGone(u) ==
  /\ worker.at = "idle" /\ mux.id # None
  /\ socket[u].onList /\ socket[u].connected /\ ~ socket[u].broken
  /\ socket' = [socket EXCEPT ![u].closing = TRUE, ![u].broken = TRUE]
  /\ UNCHANGED <<idGen, mux, listener, call, worker, gc>>

\* The same thread takes the sockets that are not connected off its list.
OffList == {u \in Ids : LET r == socket[u] IN
              r.onList /\ (~ r.connected \/ r.broken \/ r.closing)}

RemoveDead ==
  /\ worker.at = "idle" /\ mux.id # None /\ OffList # {}
  /\ socket' = [s \in Ids |->
       IF s \in OffList THEN [socket[s] EXCEPT !.onList = FALSE] ELSE socket[s]]
  /\ UNCHANGED <<idGen, mux, listener, call, worker, gc>>

Request ==
  Locate \/ CreateAccepted \/ Respond \/ RespondFails

-----------------------------------------------------------------------------
(* The garbage collector *)

\* Broken sockets of m_Sockets. A broken listener stays for 3 seconds.
Retirable(s) ==
  /\ socket[s].place = "live" /\ socket[s].broken
  /\ socket[s].status = "LISTENING" => socket[s].old

\* Mutant of Removable: the timer is not looked at.
RemovableAtOnce(s) ==
  LET r == socket[s] IN r.place = "closed" /\ r.busy = 0 /\ ~ r.onList

\* Closed more than a second ago, in nobody's hands and off the receiver list
Removable(s) ==
  LET r == socket[s] IN
  r.place = "closed" /\ r.busy = 0 /\ r.old /\ ~ r.onList

\* removeSocket, up to where it releases m_GlobControlLock: s leaves every map,
\* and the queued sockets of a listener are broken with it.
Removed(db, s) ==
  [q \in Ids |->
     CASE q = s -> [db[s] EXCEPT !.place = "erased", !.peer = NoPeer]
       [] q \in db[s].queued /\ db[q].place = "live" -> Broken(db[q])
       [] OTHER -> db[q]]

\* The next of todo; one on the receiver list or busy again is skipped.
RemoveNext(db, todo) ==
  LET free == {s \in todo : ~ db[s].onList /\ db[s].busy = 0} IN
  IF free = {} THEN socket' = db /\ gc' = Asleep
  ELSE LET s == Min(free) IN
       /\ socket' = Removed(db, s)
       /\ gc' = [at |-> "delete", todo |-> {q \in todo : q > s}, s |-> s]

\* checkBrokenSockets. Broken sockets that still have something to read may be
\* kept: until m_iBrokenCounter of them, at most 60.
GcCheck(keep) ==
  LET retired == {s \in Ids : Retirable(s)} \ keep
      db == [s \in Ids |->
        LET r == [socket[s] EXCEPT !.queued = @ \ {q \in retired : socket[q].from = s}] IN
        IF s \in retired THEN [Closed(r) EXCEPT !.place = "closed"] ELSE r] IN
  /\ gc.at = "sleep"
  /\ RemoveNext(db, {s \in Ids : Removable(s)})
  /\ UNCHANGED <<idGen, mux, listener, call, worker>>

\* closeInternal() takes the socket's m_ConnectionLock, and m_RecvLock if it is
\* open; then the socket is deleted, and the multiplexer loses a reference.
GcDelete ==
  LET s  == gc.s
      on == socket[s].mux # None
      db == [socket EXCEPT ![s] = [NewSocket EXCEPT !.place = "deleted"]] IN
  /\ gc.at = "delete"
  /\ socket[s].opened =>
       ~ ConnectionLocked(s) /\ ~ (app.at = "recv" /\ app.client = s)
  /\ mux' = IF on THEN [mux EXCEPT !.refs = @ - 1] ELSE mux
  /\ IF on /\ mux'.refs = 0 THEN socket' = db /\ gc' = [gc EXCEPT !.at = "destroy"]
     ELSE RemoveNext(db, gc.todo)
  /\ UNCHANGED <<idGen, listener, call, worker>>

\* The last socket is gone: the worker of the queue is joined, and the
\* multiplexer destroyed, under m_GlobControlLock.
GcDestroy ==
  /\ gc.at = "destroy" /\ worker.at = "idle"
  /\ mux' = NoMux
  /\ RemoveNext(socket, gc.todo)
  /\ UNCHANGED <<idGen, listener, call, worker>>

\* A listener is not kept.
Keeps == {s \in Ids : Retirable(s) /\ socket[s].status # "LISTENING"}

Collect ==
  (\E keep \in SUBSET Keeps : GcCheck(keep)) \/ GcDelete \/ GcDestroy

-----------------------------------------------------------------------------
(* Time passes: more than the timeout of a closed or broken socket. Premises
   of the code's timers: accept() reads its listener before that when it is
   notified, a request that can end ends, and a close() takes the slot and
   notifies when no reader is left.                                        *)

\* A close() of the listener holds its m_ConnectionLock and waits for the
\* reader of m_pListener, which waits for that lock.
Inverted ==
  \E t \in Threads :
    call[t].at = "drain" /\ worker.at = "create" /\ worker.listener = call[t].s

Aging(s) ==
  LET r == socket[s] IN
  /\ ~ r.old
  /\ r.place = "closed" \/ (r.place = "live" /\ r.status = "LISTENING" /\ r.broken)

TimePasses ==
  /\ \E s \in Ids : Aging(s)
  /\ app.at # "accept"
  /\ Reading => Inverted
  /\ WriterWaits => Reading
  /\ socket' = [s \in Ids |->
       IF Aging(s) THEN [socket[s] EXCEPT !.old = TRUE] ELSE socket[s]]
  /\ UNCHANGED <<idGen, mux, listener, call, worker, gc>>

Next ==
  \/ Ui \/ RunLoop \/ RecvReturns \/ Request \/ RemoveDead \/ Collect \/ TimePasses
  \/ \E p \in Peers : TakeRequest(p)
  \/ \E u \in Ids : PeerGone(u)

Spec == Init /\ [][Next]_vars

\* Threads that can go on do; so does the clock. start(), stop() and what
\* peers send are up to the user and the peers: srt_recvmsg returns for sure
\* only on a connection that is broken or closed.
FairSpec ==
  /\ Spec
  /\ WF_vars(StopClosed \/ StopJoins \/ Close("ui"))
  /\ WF_vars(RunLoop)
  /\ WF_vars(Request) /\ SF_vars(RemoveDead)
  /\ WF_vars(GcCheck({}) \/ GcDelete \/ GcDestroy) /\ SF_vars(TimePasses)

-----------------------------------------------------------------------------
(* Properties *)

\* Nothing is deleted that a thread still has a pointer to: the listener in
\* accept(), which does not make it busy (the collector's second protects it),
\* and in a connection request, which holds the shared lock; the sockets of a
\* close(); the connection a message is received from; the multiplexer.
InUseNotDeleted ==
  /\ app.at \in {"accept", "wait"} => socket[app.listener].place # "deleted"
  /\ app.at = "recv" => socket[app.client].place # "deleted"
  /\ worker.at # "idle" =>
       socket[worker.listener].place # "deleted" /\ mux.id # None /\ mux.refs > 0
  /\ \A t \in Threads : call[t] # Idle =>
       socket[call[t].s].place # "deleted"
  /\ \A s \in Ids : socket[s].mux # None => socket[s].mux = mux.id /\ mux.refs > 0

\* Every working connection has one owner, the listener thread or the queue of
\* a listener that is not deleted, so that someone closes it; and a peer that
\* repeats its request never has two of them.
EveryConnectionHasAnOwner ==
  \A s \in Ids : socket[s].place = "live" /\ socket[s].status = "CONNECTED"
                   /\ ~ socket[s].broken =>
    /\ Cardinality({l \in Ids : s \in socket[l].queued})
         + (IF app.client = s /\ app.at # "none" THEN 1 ELSE 0)
         = 1
    /\ \A q \in Ids \ {s} : socket[q].place = "live" /\ ~ socket[q].broken
                              /\ socket[s].peer # NoPeer => socket[q].peer # socket[s].peer

\* After stop() a new socket can listen on the port at once: the closed
\* listener has left its slot in the queue, though it is collected much later.
PortIsListenable == app.at = "listen" /\ CanListen => mux.listener = None

\* A close() of the listener and a connection request never wait for each
\* other's lock. docs/dev/low-level-info.md: "There is a potential of reporting a
\* deadlock due to lock inversion between CRcvQueue::m_LSLock and
\* CUDT::m_ConnectionLock. This is false." (m_LSLock is m_pListener's now.)
NoLockInversion == ~ Inverted

\* The connected peer sends nothing, and does not leave.
SilentClient ==
  app.at = "recv" /\ socket[app.client].connected /\ ~ socket[app.client].broken

\* stop() returns, unless the listener thread waits for a silent client or the
\* locks are inverted.
StopReturns == ui # "idle" ~> (ui = "idle" \/ Inverted \/ SilentClient)

\* Sockets that are closed or broken are deleted in the end, whoever holds them
\* when they die, unless the locks are inverted.
Dead == {s \in Ids : \/ socket[s].place \in {"closed", "erased"}
                     \/ socket[s].place = "live" /\ socket[s].broken}

DeadAreDeleted == Dead # {} ~> (Dead = {} \/ Inverted)

=============================================================================
