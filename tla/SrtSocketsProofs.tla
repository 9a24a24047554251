--------------------------- MODULE SrtSocketsProofs ---------------------------
(***************************************************************************)
(* What the locks, the busy counts and the collector's timer of libsrt     *)
(* guarantee under SrtListener, for any number of sockets and clients and  *)
(* any backlog: nothing is deleted in use, every connection has one owner, *)
(* and the port can be listened on again.                                  *)
(***************************************************************************)
EXTENDS SrtSockets, FiniteSetTheorems, TLAPS

IdOrNone   == Ids \cup {None}
PeerOrNone == Peers \cup {NoPeer}

SocketType ==
  [place : {"none", "live", "closed", "erased", "deleted"},
   status : {"INIT", "OPENED", "LISTENING", "CONNECTED", "CLOSING", "CLOSED"},
   opened : BOOLEAN, connected : BOOLEAN, broken : BOOLEAN, closing : BOOLEAN,
   mux : IdOrNone, busy : Int, old : BOOLEAN, onList : BOOLEAN,
   from : IdOrNone, peer : PeerOrNone, queued : SUBSET Ids]

SocketsTypeOK ==
  /\ socket \in [Ids -> SocketType]
  /\ idGen \in 0 .. MaxSockets
  /\ mux \in [id : IdOrNone, refs : Int, listener : IdOrNone]
  /\ running \in BOOLEAN /\ sock \in IdOrNone
  /\ ui \in {"idle", "closing", "join"}
  /\ app \in [at : {"none", "create", "bind", "listen", "failed", "test", "accept",
                    "wait", "return", "recv", "closing"},
              listener : IdOrNone, client : IdOrNone]
  /\ call \in [Threads -> [at : {"idle", "lock", "drain"}, s : IdOrNone]]
  /\ worker \in [at : {"idle", "locate", "create", "respond"},
                 listener : IdOrNone, peer : PeerOrNone, s : IdOrNone]
  /\ gc \in [at : {"sleep", "delete", "destroy"}, todo : SUBSET Ids, s : IdOrNone]

Held(s) == socket[s].place \in {"live", "closed"}

\* Field by field what Draining, OfPeer and the busy count say.
Drained(s) == \E t \in Threads : call[t].at = "drain" /\ call[t].s = s

Calls(t, s) == IF call[t].s = s THEN 1 ELSE 0

\* The life of a socket, from its creation to its deletion.
Life ==
  \A s \in Ids :
    /\ socket[s].place = "none" <=> s <= idGen
    /\ socket[s].place = "none" => socket[s] = NewSocket
    /\ socket[s].place = "deleted" => socket[s] = [NewSocket EXCEPT !.place = "deleted"]
    /\ socket[s].place \in {"closed", "erased"} => socket[s].status \in {"CLOSING", "CLOSED"}
    /\ socket[s].place = "erased" => gc.at = "delete" /\ gc.s = s
    /\ socket[s].place = "live" /\ ~ socket[s].broken => ~ socket[s].old
    /\ socket[s].place = "live" /\ socket[s].from # None => socket[s].opened
    /\ socket[s].status = "OPENED" => socket[s].mux # None /\ socket[s].from = None
    /\ socket[s].onList \/ socket[s].peer # NoPeer => socket[s].from # None
    /\ socket[s].status \in {"INIT", "OPENED"} /\ socket[s].from = None => ~ socket[s].broken
    /\ socket[s].status = "INIT" /\ socket[s].from = None => socket[s].mux = None

\* Only the owner of the slot is LISTENING, and whoever breaks it holds its locks.
Listening ==
  \A s \in Ids : socket[s].status = "LISTENING" =>
    /\ socket[s].place = "live" /\ mux.listener = s /\ socket[s].from = None
    /\ socket[s].broken => Drained(s)

\* A socket is busy for each close() it is in, and kept until it returns. The
\* UI thread closes its listener; the listener thread a client or its listener.
Kept ==
  /\ \A s \in Ids : socket[s].busy = Calls("ui", s) + Calls("app", s)
  /\ \A t \in Threads :
       /\ call[t].at = "idle" <=> call[t].s = None
       /\ call[t].s # None => Held(call[t].s)
  /\ call["ui"].s # None =>
       ui = "closing" /\ socket[call["ui"].s].from = None /\ sock \in {None, call["ui"].s}
  /\ call["app"].s # None =>
       \/ app.at = "closing" /\ socket[call["app"].s].from = None
       \/ app.at = "test" /\ call["app"].s = app.client /\ socket[call["app"].s].from # None

\* One close() at a time waits for the slot; the clock only goes on meanwhile
\* if a connection request waits for the close().
Drains ==
  /\ \A t \in Threads : call[t].at = "drain" =>
       /\ call[t].s = mux.listener
       /\ app.at \notin {"create", "bind", "listen", "failed"}
       /\ socket[call[t].s].old => worker.at = "create"
  /\ ~ (call["ui"].at = "drain" /\ call["app"].at = "drain")

\* Never again in a state to listen
Over(s) ==
  \/ socket[s].place \in {"closed", "erased", "deleted"}
  \/ socket[s].place = "live" /\ socket[s].status \in {"CLOSING", "CLOSED"}

\* start() and stop()
UiOrder ==
  /\ running => ui = "idle"
  /\ ui = "idle" /\ ~ running => app.at = "none"
  /\ ui = "closing" => app.at # "create"
  /\ ui = "closing" /\ call["ui"].s = None /\ sock # None => Over(sock)

\* runLoop() and its socket
LoopOrder ==
  /\ app.at \in {"none", "create"} => sock = None
  /\ app.at = "create" => idGen > 0
  /\ sock # None =>
       /\ socket[sock].place # "none"
       /\ socket[sock].place = "deleted" \/ socket[sock].from = None

\* handleClient() and its client, which no queue has any more
ClientOrder ==
  /\ app.client # None =>
       /\ app.at \in {"return", "recv", "test"}
       /\ socket[app.client].place # "none"
       /\ socket[app.client].place = "deleted" \/ socket[app.client].from # None
       /\ \A l \in Ids : app.client \notin socket[l].queued
  /\ app.at \in {"return", "recv"} => app.client # None
  /\ app.at = "recv" => socket[app.client].opened
  /\ app.at = "test" /\ call["app"].s = None /\ app.client # None =>
       ~ (/\ socket[app.client].place = "live" /\ socket[app.client].status = "CONNECTED"
          /\ ~ socket[app.client].broken)

\* accept(): its listener is not old, or someone is in close() with it.
AcceptOrder ==
  /\ app.at \in {"accept", "wait"} =>
       /\ app.listener # None /\ Held(app.listener)
       /\ socket[app.listener].old => Drained(app.listener)
  /\ app.at = "wait" =>
       \/ Drained(app.listener)
       \/ socket[app.listener].status = "LISTENING" /\ ~ socket[app.listener].broken

\* The slot in the queue belongs to a listener that somebody will close.
Slot ==
  mux.listener # None =>
    /\ Held(mux.listener) /\ socket[mux.listener].mux # None
    /\ socket[mux.listener].from = None
    /\ socket[mux.listener].status = "LISTENING" \/ Drained(mux.listener)
    /\ \/ app.at \in {"test", "accept", "wait", "return", "recv"} /\ sock = mux.listener
       \/ call["ui"].at = "drain" /\ call["ui"].s = mux.listener
       \/ app.at = "closing" /\ call["app"].s = mux.listener

\* The multiplexer counts the sockets that are on it.
OnMux == {s \in Ids : socket[s].mux # None}

References ==
  /\ mux.refs = Cardinality(OnMux)
  /\ \A s \in Ids : socket[s].mux # None => socket[s].mux = mux.id
  /\ mux.id = None => mux.refs = 0 /\ mux.listener = None
  /\ mux.id # None => (mux.refs = 0 <=> gc.at = "destroy")

\* A connection request has the listener of the slot, and the socket it creates
\* to itself; no other socket of its peer works.
RequestOrder ==
  /\ worker.at # "idle" =>
       mux.listener # None /\ worker.listener = mux.listener /\ worker.peer # NoPeer
  /\ worker.at \in {"locate", "create"} => idGen > 0
  /\ worker.at \in {"create", "respond"} =>
       \A s \in Ids : socket[s].place = "live" /\ socket[s].peer = worker.peer
                        => socket[s].broken
  /\ worker.at = "respond" =>
       /\ worker.s # None /\ worker.s # app.client /\ worker.s # sock
       /\ socket[worker.s].place = "live" /\ socket[worker.s].busy = 0
       /\ socket[worker.s].peer = NoPeer /\ socket[worker.s].from = worker.listener
       /\ ~ socket[worker.s].broken
       /\ \A l \in Ids : worker.s \notin socket[l].queued
       /\ \A s \in Ids : socket[s].place = "live" /\ socket[s].peer = worker.peer
                           => worker.s < s

\* What the collector has picked stays as it was, unless it becomes busy.
Picked ==
  /\ gc.at = "delete" => gc.s # None /\ socket[gc.s].place = "erased"
  /\ \A s \in gc.todo : socket[s].place = "closed" /\ socket[s].old

\* A queued socket is live until it is closed with its listener.
Queues ==
  \A l \in Ids : \A q \in socket[l].queued :
    /\ socket[q].from = l
    /\ socket[q].place = IF socket[l].place = "erased" THEN "closed" ELSE "live"

\* A working connection is the listener thread's or waits in a queue.
Owners ==
  \A s \in Ids :
    socket[s].place = "live" /\ socket[s].status = "CONNECTED" /\ ~ socket[s].broken =>
      \/ app.client = s
      \/ socket[s].from # None /\ s \in socket[socket[s].from].queued

\* Of the sockets of a peer only the newest may work.
NewestWorks ==
  \A s, q \in Ids :
    /\ s < q /\ socket[s].place = "live" /\ socket[q].place = "live"
    /\ socket[s].peer # NoPeer /\ socket[s].peer = socket[q].peer
    => socket[q].broken

IInv ==
  /\ SocketsTypeOK /\ Life /\ Listening /\ Kept /\ Drains
  /\ UiOrder /\ LoopOrder /\ ClientOrder /\ AcceptOrder
  /\ Slot /\ References /\ RequestOrder /\ Picked
  /\ Queues /\ Owners /\ NewestWorks

-----------------------------------------------------------------------------
(* Types *)

LEMMA IdFacts ==
  /\ Ids \subseteq Nat /\ None \notin Ids /\ MaxSockets \in Ids
  /\ \A n \in 0 .. MaxSockets : n > 0 => n \in Ids /\ n - 1 \in 0 .. MaxSockets
  BY SizesArePositive DEF Ids, None

LEMMA SocketEdits ==
  ASSUME NEW r \in SocketType
  PROVE  /\ Closed(r) \in SocketType /\ Shut(r) \in SocketType /\ Broken(r) \in SocketType
         /\ \A p \in {"live", "closed", "erased"} : [r EXCEPT !.place = p] \in SocketType
         /\ \A n \in Int : [r EXCEPT !.busy = n] \in SocketType
         /\ \A b \in BOOLEAN : [r EXCEPT !.connected = b, !.onList = b] \in SocketType
         /\ \A q \in SUBSET Ids : [r EXCEPT !.queued = q] \in SocketType
         /\ [r EXCEPT !.place = "erased", !.peer = NoPeer] \in SocketType
         /\ [r EXCEPT !.status = "CLOSING"] \in SocketType
         /\ [r EXCEPT !.onList = FALSE] \in SocketType
         /\ [r EXCEPT !.old = TRUE] \in SocketType
         /\ [r EXCEPT !.broken = TRUE, !.old = FALSE] \in SocketType
         /\ [r EXCEPT !.closing = TRUE, !.broken = TRUE] \in SocketType
  <1>1. /\ Closed(r) \in SocketType /\ Shut(r) \in SocketType
    <2>1. Closed(r) \in SocketType
      BY DEF SocketType, Closed
    <2>2. [r EXCEPT !.opened = FALSE, !.connected = FALSE, !.closing = TRUE] \in SocketType
      BY DEF SocketType
    <2> QED
      BY <2>1, <2>2 DEF Shut
  <1>2. Broken(r) \in SocketType
    BY DEF SocketType, Closed, Shut, Broken
  <1>3. /\ \A p \in {"live", "closed", "erased"} : [r EXCEPT !.place = p] \in SocketType
        /\ \A n \in Int : [r EXCEPT !.busy = n] \in SocketType
        /\ \A q \in SUBSET Ids : [r EXCEPT !.queued = q] \in SocketType
    BY DEF SocketType
  <1>4. \A b \in BOOLEAN : [r EXCEPT !.connected = b, !.onList = b] \in SocketType
    BY DEF SocketType
  <1>5. [r EXCEPT !.place = "erased", !.peer = NoPeer] \in SocketType
    BY DEF SocketType, PeerOrNone
  <1>6. /\ [r EXCEPT !.status = "CLOSING"] \in SocketType
        /\ [r EXCEPT !.onList = FALSE] \in SocketType
        /\ [r EXCEPT !.old = TRUE] \in SocketType
    BY DEF SocketType
  <1>7. /\ [r EXCEPT !.broken = TRUE, !.old = FALSE] \in SocketType
        /\ [r EXCEPT !.closing = TRUE, !.broken = TRUE] \in SocketType
    BY DEF SocketType
  <1> QED
    BY <1>1, <1>2, <1>3, <1>4, <1>5, <1>6, <1>7

LEMMA EditedFields ==
  ASSUME NEW r \in SocketType
  PROVE  /\ LET c == Closed(r) IN
              /\ c.status = "CLOSED" /\ ~ c.old
              /\ c.place = r.place /\ c.broken = r.broken /\ c.opened = r.opened
              /\ c.mux = r.mux /\ c.busy = r.busy /\ c.onList = r.onList
              /\ c.from = r.from /\ c.peer = r.peer /\ c.queued = r.queued
         /\ \A n : LET c == [r EXCEPT !.queued = n] IN
              /\ c.status = r.status /\ c.old = r.old
              /\ c.place = r.place /\ c.broken = r.broken /\ c.opened = r.opened
              /\ c.mux = r.mux /\ c.busy = r.busy /\ c.onList = r.onList
              /\ c.from = r.from /\ c.peer = r.peer /\ c.queued = n
  BY DEF SocketType, Closed

LEMMA NewSocketType ==
  /\ NewSocket \in SocketType
  /\ \A p \in {"live", "deleted"} : [NewSocket EXCEPT !.place = p] \in SocketType
  /\ \A m \in IdOrNone, l \in IdOrNone :
       [NewSocket EXCEPT !.place = "live", !.opened = TRUE, !.mux = m, !.from = l] \in SocketType
  <1>1. NewSocket \in SocketType
    BY DEF SocketType, NewSocket, IdOrNone, PeerOrNone
  <1>2. \A p \in {"live", "deleted"} : [NewSocket EXCEPT !.place = p] \in SocketType
    BY <1>1 DEF SocketType
  <1>3. \A m \in IdOrNone, l \in IdOrNone :
       [NewSocket EXCEPT !.place = "live", !.opened = TRUE, !.mux = m, !.from = l] \in SocketType
    BY <1>1 DEF SocketType
  <1> QED
    BY <1>1, <1>2, <1>3

\* One socket changes.
LEMMA OneSocket ==
  ASSUME NEW f \in [Ids -> SocketType], NEW s \in Ids, NEW r \in SocketType
  PROVE  /\ [f EXCEPT ![s] = r] \in [Ids -> SocketType]
         /\ [f EXCEPT ![s] = r][s] = r
         /\ \A q \in Ids \ {s} : [f EXCEPT ![s] = r][q] = f[q]
  OBVIOUS

\* EXCEPT with two fields of one socket
LEMMA TwoFields ==
  ASSUME NEW f \in [Ids -> SocketType], NEW s \in Ids
  PROVE  /\ [f EXCEPT ![s].broken = TRUE, ![s].old = FALSE]
              = [f EXCEPT ![s] = [f[s] EXCEPT !.broken = TRUE, !.old = FALSE]]
         /\ [f EXCEPT ![s].closing = TRUE, ![s].broken = TRUE]
              = [f EXCEPT ![s] = [f[s] EXCEPT !.closing = TRUE, !.broken = TRUE]]
  OBVIOUS

-----------------------------------------------------------------------------
(* Reading the state *)

\* Min of a set of socket IDs
LEMMA LeastId ==
  ASSUME NEW S \in SUBSET Ids, S # {}
  PROVE  \E n \in S : \A q \in S : n <= q
  <1>1. S \subseteq Nat
    BY IdFacts
  <1>2. PICK n \in S : \A q \in S : <<q, n>> \notin OpToRel(<, Nat)
    BY <1>1, NatLessThanWellFounded, WFMin
  <1>3. \A q \in S : ~ (q < n)
    BY <1>1, <1>2, Zenon DEF OpToRel
  <1> QED
    BY <1>1, <1>3

LEMMA FieldTypes ==
  ASSUME NEW r \in SocketType
  PROVE  /\ r.busy \in Int /\ r.queued \subseteq Ids
         /\ r.mux \in IdOrNone /\ r.from \in IdOrNone /\ r.peer \in PeerOrNone
         /\ r.place \in {"none", "live", "closed", "erased", "deleted"}
         /\ r.status \in {"INIT", "OPENED", "LISTENING", "CONNECTED", "CLOSING", "CLOSED"}
         /\ r.broken \in BOOLEAN /\ r.old \in BOOLEAN /\ r.opened \in BOOLEAN
  BY DEF SocketType

LEMMA NamedIds ==
  ASSUME SocketsTypeOK
  PROVE  /\ sock # None => sock \in Ids
         /\ mux.listener # None => mux.listener \in Ids
         /\ mux.id # None => mux.id \in Ids
         /\ app.client # None => app.client \in Ids
         /\ app.listener # None => app.listener \in Ids
         /\ worker.s # None => worker.s \in Ids
         /\ worker.listener # None => worker.listener \in Ids
         /\ gc.s # None => gc.s \in Ids
         /\ gc.todo \subseteq Ids
         /\ \A t \in Threads : call[t].s # None => call[t].s \in Ids
         /\ \A s \in Ids : /\ socket[s] \in SocketType
                           /\ socket[s].from # None => socket[s].from \in Ids
                           /\ socket[s].queued \subseteq Ids
  <1>1. \A i \in IdOrNone : i # None => i \in Ids
    BY DEF IdOrNone
  <1>2. \A s \in Ids : socket[s] \in SocketType
    BY DEF SocketsTypeOK
  <1> QED
    BY <1>1, <1>2, FieldTypes DEF SocketsTypeOK

LEMMA CallFacts ==
  ASSUME SocketsTypeOK, Kept
  PROVE  /\ \A t \in Threads :
              /\ t = "ui" \/ t = "app"
              /\ call[t].at \in {"idle", "lock", "drain"}
              /\ call[t].s # None => call[t].s \in Ids /\ Held(call[t].s)
              /\ call[t] = Idle <=> call[t].s = None
              /\ call[t].at = "idle" <=> call[t].s = None
              /\ \A a, s : call[t] = [at |-> a, s |-> s] <=> call[t].at = a /\ call[t].s = s
         /\ "ui" \in Threads /\ "app" \in Threads
  <1>1. call \in [Threads -> [at : {"idle", "lock", "drain"}, s : IdOrNone]]
    BY DEF SocketsTypeOK
  <1>2. /\ \A t \in Threads : t = "ui" \/ t = "app"
        /\ "ui" \in Threads /\ "app" \in Threads
    BY DEF Threads
  <1>3. \A i \in IdOrNone : i = None \/ i \in Ids
    BY DEF IdOrNone
  <1> SUFFICES ASSUME NEW t \in Threads
               PROVE  /\ call[t].at \in {"idle", "lock", "drain"}
                      /\ call[t].s # None => call[t].s \in Ids /\ Held(call[t].s)
                      /\ call[t] = Idle <=> call[t].s = None
                      /\ call[t].at = "idle" <=> call[t].s = None
                      /\ \A a, s : call[t] = [at |-> a, s |-> s] <=> call[t].at = a /\ call[t].s = s
    BY <1>2
  <1> DEFINE c == call[t]
  <1>4. c \in [at : {"idle", "lock", "drain"}, s : IdOrNone]
    BY <1>1
  <1>5. c.at = "idle" <=> c.s = None
    BY DEF Kept
  <1>6. c.s # None => Held(c.s)
    BY DEF Kept
  <1> HIDE DEF c
  <1>7. \A a, s : c = [at |-> a, s |-> s] <=> c.at = a /\ c.s = s
    BY <1>4
  <1>10. c.at \in {"idle", "lock", "drain"} /\ c.s \in IdOrNone
    BY <1>4
  <1>8. c = Idle <=> c.s = None
    BY <1>5, <1>7, Zenon DEF Idle
  <1>9. c.s # None => c.s \in Ids /\ Held(c.s)
    BY <1>3, <1>6, <1>10
  <1> QED
    BY <1>5, <1>7, <1>8, <1>9, <1>10, Zenon DEF c

LEMMA DrainFacts ==
  ASSUME SocketsTypeOK, Kept
  PROVE  /\ \A s : Draining(s) <=> Drained(s)
         /\ WriterWaits <=> \E t \in Threads : call[t].at = "drain"
  BY CallFacts DEF Draining, Drained, WriterWaits

LEMMA LocatedFacts ==
  ASSUME SocketsTypeOK, Life, NEW s \in IdOrNone
  PROVE  /\ Located(s) => /\ s \in Ids /\ s # None /\ socket[s] \in SocketType
                          /\ socket[s].place = "live" /\ socket[s].status # "CLOSED" /\ Held(s)
         /\ ~ Located(s) /\ s # None /\ socket[s].place # "none" => Over(s)
  <1>1. s # None => s \in Ids
    BY DEF IdOrNone
  <1>2. Located(s) => s # None
    BY IdFacts DEF Located
  <1>3. s \in Ids => socket[s] \in SocketType
    BY DEF SocketsTypeOK
  <1> QED
    BY <1>1, <1>2, <1>3, FieldTypes DEF Located, Held, Over

\* Nothing about socket s changes but how busy it is.
OnlyBusy(s) ==
  /\ socket'[s].place = socket[s].place /\ socket'[s].status = socket[s].status
  /\ socket'[s].opened = socket[s].opened /\ socket'[s].connected = socket[s].connected
  /\ socket'[s].broken = socket[s].broken /\ socket'[s].closing = socket[s].closing
  /\ socket'[s].mux = socket[s].mux /\ socket'[s].old = socket[s].old
  /\ socket'[s].onList = socket[s].onList /\ socket'[s].from = socket[s].from
  /\ socket'[s].peer = socket[s].peer /\ socket'[s].queued = socket[s].queued
  /\ socket'[s] = socket[s] \/ socket[s].place = "live"

\* What is said of the sockets alone does not change with the threads.
LEMMA SameDatabase ==
  ASSUME IInv, UNCHANGED <<idGen, mux, gc>>,
         \A s \in Ids : OnlyBusy(s),
         \A s : Drained(s)' <=> Drained(s)
  PROVE  (Life /\ Listening /\ References /\ Picked /\ Queues /\ NewestWorks)'
  <1> USE DEF OnlyBusy
  <1>1. gc.todo \subseteq Ids /\ (gc.s # None => gc.s \in Ids)
    BY DEF IInv, SocketsTypeOK, IdOrNone
  <1>2. OnMux' = OnMux
    BY DEF OnMux
  <1>3. Life' /\ Listening'
    BY DEF IInv, Life, Listening
  <1>4. References' /\ Picked'
    BY <1>1, <1>2 DEF IInv, References, Picked
  <1>5. \A l \in Ids : socket[l].queued \subseteq Ids
    BY FieldTypes DEF IInv, SocketsTypeOK
  <1>6. Queues' /\ NewestWorks'
    BY <1>5 DEF IInv, Queues, NewestWorks
  <1> QED
    BY <1>3, <1>4, <1>6

LEMMA ClosesEffect ==
  ASSUME IInv, NEW t \in Threads, NEW s \in IdOrNone, call[t].s = None, Closes(t, s)
  PROVE  /\ socket' \in [Ids -> SocketType] /\ \A q \in Ids : OnlyBusy(q)
         /\ \A q \in Ids : socket'[q].busy =
                             IF Located(s) /\ q = s THEN socket[q].busy + 1 ELSE socket[q].busy
         /\ call' \in [Threads -> [at : {"idle", "lock", "drain"}, s : IdOrNone]]
         /\ call'[t].s = IF Located(s) THEN s ELSE None
         /\ call'[t].at = IF Located(s) THEN "lock" ELSE "idle"
         /\ \A u \in Threads : u # t => call'[u] = call[u]
         /\ \A q : Drained(q)' <=> Drained(q)
  <1>1. SocketsTypeOK /\ Life /\ Kept
    BY DEF IInv
  <1>2. CASE Located(s)
    <2>1. /\ s \in Ids /\ socket[s] \in SocketType /\ socket[s].place = "live"
      BY <1>1, <1>2, LocatedFacts
    <2> DEFINE r == [socket[s] EXCEPT !.busy = @ + 1]
    <2>2. r \in SocketType
      BY <2>1 DEF SocketType
    <2>3. /\ r.busy = socket[s].busy + 1
          /\ r.place = socket[s].place /\ r.status = socket[s].status
          /\ r.opened = socket[s].opened /\ r.connected = socket[s].connected
          /\ r.broken = socket[s].broken /\ r.closing = socket[s].closing
          /\ r.mux = socket[s].mux /\ r.old = socket[s].old
          /\ r.onList = socket[s].onList /\ r.from = socket[s].from
          /\ r.peer = socket[s].peer /\ r.queued = socket[s].queued
      BY <2>1 DEF SocketType
    <2>4. socket' = [socket EXCEPT ![s] = r]
      BY <1>2 DEF Closes
    <2> HIDE DEF r
    <2>5. socket' \in [Ids -> SocketType] /\ socket'[s] = r /\ \A q \in Ids \ {s} : socket'[q] = socket[q]
      BY <1>1, <2>1, <2>2, <2>4, OneSocket DEF SocketsTypeOK
    <2>6. /\ call' \in [Threads -> [at : {"idle", "lock", "drain"}, s : IdOrNone]]
          /\ call'[t].s = s /\ call'[t].at = "lock"
          /\ \A u \in Threads : u # t => call'[u] = call[u]
      BY <1>1, <1>2 DEF Closes, SocketsTypeOK
    <2>7. \A q : Drained(q)' <=> Drained(q)
      BY <1>1, <2>6, CallFacts DEF Drained
    <2> QED
      BY <1>2, <2>1, <2>2, <2>3, <2>5, <2>6, <2>7 DEF OnlyBusy
  <1>3. CASE ~ Located(s)
    <2>1. UNCHANGED <<socket, call>>
      BY <1>3 DEF Closes
    <2>2. call[t].at = "idle"
      BY <1>1, CallFacts
    <2> QED
      BY <1>1, <1>3, <2>1, <2>2 DEF OnlyBusy, SocketsTypeOK, Drained
  <1> QED
    BY <1>2, <1>3

-----------------------------------------------------------------------------
(* The UI thread *)

LEMMA StartStep ==
  ASSUME IInv, Start
  PROVE  IInv'
  <1>1. /\ ui = "idle" /\ ~ running /\ idGen > 0 /\ running' = TRUE
        /\ app' = [at |-> "create", listener |-> None, client |-> None]
        /\ UNCHANGED <<socket, idGen, mux, sock, ui, call, worker, gc>>
    BY DEF Start, NoLoop, database
  <1>2. app.at = "none" /\ app.client = None /\ sock = None
    BY <1>1 DEF IInv, UiOrder, LoopOrder, ClientOrder
  <1>3. \A t \in Threads : call[t].s = None /\ call[t].at = "idle"
    BY <1>1, <1>2, CallFacts DEF IInv, Kept
  <1>4. SocketsTypeOK'
    BY <1>1 DEF IInv, SocketsTypeOK, IdOrNone
  <1>5. (Life /\ Listening /\ References /\ Picked /\ Queues /\ NewestWorks)'
    BY <1>1, SameDatabase DEF OnlyBusy, Drained
  <1>6. Kept' /\ Drains'
    BY <1>1, <1>3, CallFacts DEF IInv, Kept, Drains, Held, Calls
  <1>7. (UiOrder /\ LoopOrder /\ ClientOrder /\ AcceptOrder)'
    BY <1>1, <1>2 DEF IInv, UiOrder, LoopOrder, ClientOrder, AcceptOrder
  <1>8. Slot' /\ RequestOrder' /\ Owners'
    BY <1>1, <1>2, <1>3, CallFacts DEF IInv, Slot, RequestOrder, Owners
  <1> QED
    BY <1>4, <1>5, <1>6, <1>7, <1>8 DEF IInv

LEMMA StopStep ==
  ASSUME IInv, Stop
  PROVE  IInv'
  <1>1. /\ ui = "idle" /\ running /\ running' = FALSE
        /\ ui' = IF sock # None THEN "closing" ELSE "join"
        /\ Closes("ui", sock)
        /\ UNCHANGED <<idGen, mux, sock, app, worker, gc>>
    BY DEF Stop
  <1>2. /\ SocketsTypeOK /\ Life /\ Kept /\ sock \in IdOrNone
        /\ "ui" \in Threads /\ "app" \in Threads /\ "ui" # "app"
        /\ \A t \in Threads : t = "ui" \/ t = "app"
    BY CallFacts DEF IInv, SocketsTypeOK
  <1>3. call["ui"].s = None /\ call["ui"].at = "idle"
    BY <1>1, <1>2, CallFacts DEF Kept
  <1>4. /\ socket' \in [Ids -> SocketType] /\ \A q \in Ids : OnlyBusy(q)
        /\ \A q \in Ids : socket'[q].busy =
                            IF Located(sock) /\ q = sock THEN socket[q].busy + 1 ELSE socket[q].busy
        /\ call' \in [Threads -> [at : {"idle", "lock", "drain"}, s : IdOrNone]]
        /\ call'["ui"].s = IF Located(sock) THEN sock ELSE None
        /\ call'["ui"].at = IF Located(sock) THEN "lock" ELSE "idle"
        /\ call'["app"] = call["app"]
        /\ \A q : Drained(q)' <=> Drained(q)
    BY <1>1, <1>2, <1>3, ClosesEffect
  <1>5. /\ Located(sock) => /\ sock \in Ids /\ sock # None /\ Held(sock)
                            /\ socket[sock].place = "live"
        /\ ~ Located(sock) /\ sock # None => Over(sock)
        /\ sock # None => app.at \notin {"none", "create"}
        /\ sock # None => sock \in Ids
    BY <1>2, LocatedFacts DEF IInv, LoopOrder, IdOrNone
  <1>6. SocketsTypeOK'
    BY <1>1, <1>4 DEF IInv, SocketsTypeOK
  <1>7. (Life /\ Listening /\ References /\ Picked /\ Queues /\ NewestWorks)'
    BY <1>1, <1>4, SameDatabase
  <1>8. Kept'
    <2>1. \A q \in Ids : socket'[q].busy = Calls("ui", q)' + Calls("app", q)'
      BY <1>2, <1>3, <1>4, <1>5, IdFacts DEF Kept, Calls
    <2>2. \A q \in Ids : (Held(q)' <=> Held(q)) /\ socket'[q].from = socket[q].from
      BY <1>4 DEF OnlyBusy, Held
    <2>3. \A t \in Threads : call[t].s # None => call[t].s \in Ids
      BY <1>2, CallFacts
    <2>4. Located(sock) => socket[sock].from = None
      BY <1>5 DEF IInv, LoopOrder
    <2> QED
      BY <1>1, <1>2, <1>3, <1>4, <1>5, <2>1, <2>2, <2>3, <2>4 DEF Kept
  <1>9. Drains'
    BY <1>1, <1>2, <1>3, <1>4, <1>5, CallFacts DEF IInv, Drains, OnlyBusy
  <1>10. UiOrder'
    BY <1>1, <1>3, <1>4, <1>5 DEF IInv, UiOrder, Over, OnlyBusy
  <1>11. app.client # None => app.client \in Ids
    BY <1>2 DEF SocketsTypeOK, IdOrNone
  <1>12. LoopOrder' /\ ClientOrder'
    BY <1>1, <1>4, <1>5, <1>11 DEF IInv, LoopOrder, ClientOrder, OnlyBusy
  <1>13. app.listener # None => app.listener \in Ids
    BY <1>2 DEF SocketsTypeOK, IdOrNone
  <1>14. AcceptOrder'
    BY <1>1, <1>4, <1>13 DEF IInv, AcceptOrder, Held, OnlyBusy
  <1>15. mux.listener # None => mux.listener \in Ids
    BY <1>2 DEF SocketsTypeOK, IdOrNone
  <1>16. Slot'
    BY <1>1, <1>3, <1>4, <1>15 DEF IInv, Slot, Held, OnlyBusy
  <1>17. RequestOrder' /\ Owners'
    <2>1. worker.s # None => worker.s \in Ids
      BY <1>2 DEF SocketsTypeOK, IdOrNone
    <2>2. \A q \in Ids : socket[q].from # None => socket[q].from \in Ids
      BY <1>2, FieldTypes DEF SocketsTypeOK, IdOrNone
    <2> QED
      BY <1>1, <1>4, <2>1, <2>2 DEF IInv, RequestOrder, Owners, OnlyBusy
  <1> QED
    BY <1>6, <1>7, <1>8, <1>9, <1>10, <1>12, <1>14, <1>16, <1>17 DEF IInv

LEMMA StopClosedStep ==
  ASSUME IInv, StopClosed
  PROVE  IInv'
  <1>1. /\ ui = "closing" /\ call["ui"].s = None /\ sock' = None /\ ui' = "join"
        /\ UNCHANGED <<socket, idGen, mux, running, app, call, worker, gc>>
    BY CallFacts DEF IInv, StopClosed, database
  <1>2. \A t \in Threads : t = "ui" \/ t = "app"
    BY DEF Threads
  <1>3. SocketsTypeOK'
    BY <1>1 DEF IInv, SocketsTypeOK, IdOrNone
  <1>4. (Life /\ Listening /\ References /\ Picked /\ Queues /\ NewestWorks)'
    BY <1>1, SameDatabase DEF OnlyBusy, Drained
  <1>5. Kept' /\ Drains'
    BY <1>1 DEF IInv, Kept, Drains, Held, Calls
  <1>6. (UiOrder /\ LoopOrder /\ ClientOrder /\ AcceptOrder)'
    BY <1>1 DEF IInv, UiOrder, LoopOrder, ClientOrder, AcceptOrder, Held, Drained
  <1>7. Slot'
    <2>1. ASSUME mux.listener # None, app.at \in {"test", "accept", "wait", "return", "recv"},
                 sock = mux.listener
          PROVE  FALSE
      <3>1. mux.listener \in Ids /\ Over(mux.listener)
        BY <1>1, <2>1, NamedIds DEF IInv, UiOrder
      <3>2. Drained(mux.listener)
        BY <2>1, <3>1 DEF IInv, Slot, Listening, Over
      <3>3. call["app"].s # None
        BY <1>1, <1>2, <2>1, <3>2 DEF Drained
      <3> QED
        BY <2>1, <3>1, <3>2, <3>3, <1>1, <1>2 DEF IInv, Kept, Slot, Drained
    <2> QED
      BY <1>1, <2>1 DEF IInv, Slot, Held, Drained
  <1>8. RequestOrder' /\ Owners'
    BY <1>1, CallFacts DEF IInv, RequestOrder, Owners
  <1> QED
    BY <1>3, <1>4, <1>5, <1>6, <1>7, <1>8 DEF IInv

LEMMA StopJoinsStep ==
  ASSUME IInv, StopJoins
  PROVE  IInv'
  <1>1. /\ ui = "join" /\ app.at = "none" /\ ui' = "idle"
        /\ UNCHANGED <<socket, idGen, mux, running, sock, app, call, worker, gc>>
    BY DEF StopJoins, database
  <1>2. call["ui"].s = None
    BY <1>1 DEF IInv, Kept
  <1>3. SocketsTypeOK'
    BY <1>1 DEF IInv, SocketsTypeOK
  <1>4. (Life /\ Listening /\ References /\ Picked /\ Queues /\ NewestWorks)'
    BY <1>1, SameDatabase DEF OnlyBusy, Drained
  <1>5. Kept' /\ Drains'
    BY <1>1, <1>2 DEF IInv, Kept, Drains, Held, Calls
  <1>6. (UiOrder /\ LoopOrder /\ ClientOrder /\ AcceptOrder)'
    BY <1>1 DEF IInv, UiOrder, LoopOrder, ClientOrder, AcceptOrder, Held, Drained
  <1>7. Slot' /\ RequestOrder' /\ Owners'
    BY <1>1 DEF IInv, Slot, RequestOrder, Owners, Held, Drained
  <1> QED
    BY <1>3, <1>4, <1>5, <1>6, <1>7 DEF IInv

-----------------------------------------------------------------------------
(* The listener thread, where no socket changes *)

\* The steps of runLoop() that only move on.
LEMMA LoopMoves ==
  ASSUME IInv,
         UNCHANGED <<socket, idGen, mux, running, ui, call, worker, gc>>,
         \/ /\ app.at \in {"bind", "listen"}
            /\ app' = [app EXCEPT !.at = "failed"] /\ sock' = sock
         \/ /\ app.at = "test" /\ call["app"].s = None /\ sock # None
            /\ socket[sock].status = "LISTENING"
            /\ app' = [at |-> "accept", listener |-> sock, client |-> None] /\ sock' = sock
         \/ app.at = "accept" /\ app' = [app EXCEPT !.at = "test"] /\ sock' = sock
         \/ /\ app.at = "accept" /\ socket[app.listener].status = "LISTENING"
            /\ ~ socket[app.listener].broken
            /\ app' = [app EXCEPT !.at = "wait"] /\ sock' = sock
         \/ /\ app.at = "return" /\ ~ Located(app.client)
            /\ app' = [app EXCEPT !.at = "test"] /\ sock' = sock
         \/ /\ app.at \in {"return", "recv"} /\ Located(app.client)
            /\ app' = [app EXCEPT !.at = "recv"] /\ sock' = sock
         \/ /\ app.at = "closing" /\ call["app"].s = None
            /\ app' = [at |-> "none", listener |-> None, client |-> None] /\ sock' = None
  PROVE  IInv'
  <1>1. /\ SocketsTypeOK /\ Life /\ Kept /\ sock \in IdOrNone /\ app.client \in IdOrNone
    BY DEF IInv, SocketsTypeOK
  <1>2. \A t \in Threads : t = "ui" \/ t = "app"
    BY DEF Threads
  <1>3. /\ app'.at \in {"failed", "accept", "test", "wait", "recv", "none"}
        /\ app'.at = "failed" => app.at \in {"bind", "listen"}
        /\ app'.at = "test" => app.at \in {"accept", "return"}
        /\ app'.at = "accept" => /\ app.at = "test" /\ app'.listener = sock /\ sock # None
                                 /\ socket[sock].status = "LISTENING"
                                 /\ call["app"].s = None
        /\ app'.at = "wait" => /\ app.at = "accept" /\ app'.listener = app.listener
                               /\ socket[app.listener].status = "LISTENING"
                               /\ ~ socket[app.listener].broken
        /\ app'.at = "recv" => app.at \in {"return", "recv"} /\ Located(app.client)
        /\ app'.at = "none" => app.at = "closing" /\ call["app"].s = None
        /\ sock' = IF app'.at = "none" THEN None ELSE sock
        /\ app'.client = IF app'.at \in {"accept", "none"} THEN None ELSE app.client
        /\ app.at = "return" /\ app'.at = "test" => ~ Located(app.client)
        /\ app.at \in {"bind", "listen", "test", "accept", "return", "recv", "closing"}
    BY DEF IInv, SocketsTypeOK
  <1>4. SocketsTypeOK'
    BY <1>1 DEF IInv, SocketsTypeOK, IdOrNone
  <1>5. (Life /\ Listening /\ References /\ Picked /\ Queues /\ NewestWorks)'
    BY SameDatabase DEF OnlyBusy, Drained
  <1>6. Kept' /\ Drains'
    BY <1>2, <1>3 DEF IInv, Kept, Drains, Held, Calls
  <1>7. UiOrder' /\ LoopOrder'
    BY <1>3 DEF IInv, UiOrder, LoopOrder, Over
  <1>8. ClientOrder'
    <2>1. app.client # None => app.client \in Ids /\ socket[app.client] \in SocketType
      BY <1>1, NamedIds DEF SocketsTypeOK
    <2>2. app'.at = "recv" => socket[app.client].opened
      BY <1>1, <1>3, <2>1, LocatedFacts DEF IInv, ClientOrder, Life
    <2>3. app.at = "return" /\ app'.at = "test" =>
            ~ (socket[app.client].place = "live" /\ socket[app.client].status = "CONNECTED")
      BY <1>1, <1>3, <2>1 DEF Located, IInv, ClientOrder
    <2> QED
      BY <1>3, <2>2, <2>3 DEF IInv, ClientOrder
  <1>9. AcceptOrder'
    <2>1. app'.at = "accept" =>
            /\ sock \in Ids /\ Held(sock)
            /\ socket[sock].old => Drained(sock)
      BY <1>1, <1>3, NamedIds, FieldTypes DEF IInv, Life, Listening, Held, SocketsTypeOK
    <2> QED
      BY <1>3, <2>1 DEF IInv, AcceptOrder, Held, Drained
  <1>10. Slot'
    BY <1>3 DEF IInv, Slot, Held, Drained
  <1>11. RequestOrder' /\ Owners'
    BY <1>3 DEF IInv, RequestOrder, Owners, ClientOrder
  <1> QED
    BY <1>4, <1>5, <1>6, <1>7, <1>8, <1>9, <1>10, <1>11 DEF IInv

\* The listener thread calls srt_close: its listener's when the loop is over,
\* its client's in it.
LEMMA LoopCloses ==
  ASSUME IInv, NEW s \in IdOrNone, Closes("app", s),
         UNCHANGED <<idGen, mux, running, sock, ui, worker, gc>>,
         \/ /\ s = sock /\ app'.at = "closing" /\ app'.client = None
            /\ app.at \in {"failed", "test"} /\ call["app"].s = None
         \/ /\ s = app.client /\ app' = [app EXCEPT !.at = "test"]
            /\ app.at \in {"return", "recv"},
         SocketsTypeOK => app' \in [at : {"closing", "test"}, listener : IdOrNone, client : IdOrNone]
  PROVE  IInv'
  <1>1. /\ SocketsTypeOK /\ Life /\ Kept /\ sock \in IdOrNone /\ app.client \in IdOrNone
        /\ app' \in [at : {"closing", "test"}, listener : IdOrNone, client : IdOrNone]
        /\ "ui" \in Threads /\ "app" \in Threads /\ "ui" # "app"
        /\ \A t \in Threads : t = "ui" \/ t = "app"
    BY CallFacts DEF IInv, SocketsTypeOK
  <1>2. /\ app.at \in {"failed", "test", "return", "recv"}
        /\ app'.at = "closing" => /\ s = sock /\ app'.client = None
                                  /\ app.at \in {"failed", "test"}
        /\ app'.at = "test" => /\ s = app.client /\ app'.client = app.client
                               /\ app.at \in {"return", "recv"} /\ app.client # None
        /\ app'.at \in {"closing", "test"}
    BY <1>1 DEF IInv, SocketsTypeOK, ClientOrder
  <1>3. call["app"].s = None /\ call["app"].at = "idle"
    BY <1>1, <1>2, CallFacts DEF IInv, Kept
  <1>4. /\ socket' \in [Ids -> SocketType] /\ \A q \in Ids : OnlyBusy(q)
        /\ \A q \in Ids : socket'[q].busy =
                            IF Located(s) /\ q = s THEN socket[q].busy + 1 ELSE socket[q].busy
        /\ call' \in [Threads -> [at : {"idle", "lock", "drain"}, s : IdOrNone]]
        /\ call'["app"].s = IF Located(s) THEN s ELSE None
        /\ call'["app"].at = IF Located(s) THEN "lock" ELSE "idle"
        /\ call'["ui"] = call["ui"]
        /\ \A q : Drained(q)' <=> Drained(q)
    BY <1>1, <1>3, ClosesEffect
  <1>5. /\ Located(s) => s \in Ids /\ s # None /\ Held(s) /\ socket[s].place = "live"
        /\ ~ Located(s) /\ s # None =>
             ~ (socket[s].place = "live" /\ socket[s].status \in {"LISTENING", "CONNECTED"})
        /\ s # None => s \in Ids
    <2>1. s # None => s \in Ids
      BY DEF IdOrNone
    <2> QED
      BY <1>1, <2>1, LocatedFacts DEF Located
  <1>6. SocketsTypeOK'
    BY <1>1, <1>4 DEF SocketsTypeOK
  <1>7. (Life /\ Listening /\ References /\ Picked /\ Queues /\ NewestWorks)'
    BY <1>4, SameDatabase
  <1>8. Kept'
    <2>1. \A q \in Ids : socket'[q].busy = Calls("ui", q)' + Calls("app", q)'
      BY <1>1, <1>3, <1>4, <1>5, IdFacts DEF Kept, Calls
    <2>2. \A q \in Ids : (Held(q)' <=> Held(q)) /\ socket'[q].from = socket[q].from
      BY <1>4 DEF OnlyBusy, Held
    <2>3. \A t \in Threads : call[t].s # None => call[t].s \in Ids
      BY <1>1, CallFacts
    <2>4. Located(s) /\ app'.at = "closing" => socket[s].from = None
      BY <1>2, <1>5 DEF IInv, LoopOrder
    <2>5. Located(s) /\ app'.at = "test" => socket[s].from # None
      BY <1>2, <1>5 DEF IInv, ClientOrder
    <2> QED
      BY <1>1, <1>2, <1>3, <1>4, <1>5, <2>1, <2>2, <2>3, <2>4, <2>5 DEF Kept
  <1>9. Drains'
    BY <1>1, <1>2, <1>3, <1>4, <1>5, CallFacts DEF IInv, Drains, OnlyBusy
  <1>10. UiOrder'
    BY <1>1, <1>2, <1>4, NamedIds DEF IInv, UiOrder, Over, OnlyBusy
  <1>11. LoopOrder' /\ AcceptOrder'
    BY <1>1, <1>2, <1>4, NamedIds DEF IInv, LoopOrder, AcceptOrder, OnlyBusy
  <1>12. ClientOrder'
    BY <1>1, <1>2, <1>4, <1>5, NamedIds DEF IInv, ClientOrder, OnlyBusy
  <1>13. Slot'
    <2>1. ASSUME mux.listener # None PROVE mux.listener \in Ids
      BY <1>1, <2>1, NamedIds
    <2>2. ASSUME mux.listener # None, sock = mux.listener, app'.at = "closing", ~ Located(s)
          PROVE  call["ui"].at = "drain" /\ call["ui"].s = mux.listener
      BY <1>1, <1>2, <1>3, <1>5, <2>1, <2>2 DEF IInv, Slot, Listening, Drained
    <2> QED
      BY <1>2, <1>3, <1>4, <2>1, <2>2 DEF IInv, Slot, Held, OnlyBusy
  <1>14. RequestOrder'
    BY <1>1, <1>2, <1>4, <1>5, NamedIds DEF IInv, RequestOrder, OnlyBusy
  <1>15. Owners'
    BY <1>1, <1>2, <1>3, <1>4, NamedIds DEF IInv, Owners, ClientOrder, OnlyBusy
  <1> QED
    BY <1>6, <1>7, <1>8, <1>9, <1>10, <1>11, <1>12, <1>13, <1>14, <1>15 DEF IInv

\* Every step of the listener thread that leaves the sockets alone, but for
\* finding the one it closes.
LEMMA LoopStep ==
  ASSUME IInv,
         \/ ListenFails \/ Abandon \/ Test \/ AcceptReturn \/ RecvFails \/ RecvReturns \/ Leave
  PROVE  IInv'
  <1> USE DEF database
  <1>1. /\ SocketsTypeOK /\ sock \in IdOrNone /\ app.client \in IdOrNone
        /\ app \in [at : {"none", "create", "bind", "listen", "failed", "test", "accept",
                          "wait", "return", "recv", "closing"},
                    listener : IdOrNone, client : IdOrNone]
    BY DEF IInv, SocketsTypeOK
  <1>2. call["app"] = Idle <=> call["app"].s = None
    BY CallFacts DEF IInv
  <1>3. CASE ListenFails
    BY <1>3, LoopMoves DEF ListenFails, Goes
  <1>4. CASE Abandon
    <2>1. app.client = None /\ call["app"].s = None
      BY <1>4, CallFacts DEF Abandon, IInv, ClientOrder, Kept
    <2>2. app' \in [at : {"closing", "test"}, listener : IdOrNone, client : IdOrNone]
          /\ app'.at = "closing" /\ app'.client = None
      BY <1>1, <1>4, <2>1 DEF Abandon, Goes
    <2> QED
      BY <1>1, <1>4, <2>1, <2>2, LoopCloses DEF Abandon
  <1>5. CASE Test
    <2>1. CASE running
      <3>1. sock # None
        BY <1>5, <2>1, IdFacts DEF Test, Located
      <3> QED
        BY <1>2, <1>5, <2>1, <3>1, LoopMoves DEF Test, NoLoop
    <2>2. CASE ~ running
      <3>1. app' \in [at : {"closing", "test"}, listener : IdOrNone, client : IdOrNone]
            /\ app'.at = "closing" /\ app'.client = None
        BY <1>5, <2>2 DEF Test, NoLoop, IdOrNone
      <3> QED
        BY <1>1, <1>2, <1>5, <2>2, <3>1, LoopCloses DEF Test
    <2> QED
      BY <2>1, <2>2
  <1>6. ASSUME HangsUp, app.at \in {"return", "recv"},
               UNCHANGED <<idGen, mux, running, sock, ui, worker, gc>>
        PROVE  IInv'
    <2>1. /\ app' = [app EXCEPT !.at = "test"] /\ Closes("app", app.client)
          /\ app' \in [at : {"closing", "test"}, listener : IdOrNone, client : IdOrNone]
      BY <1>1, <1>6 DEF HangsUp, Goes
    <2> QED
      BY <1>1, <1>6, <2>1, LoopCloses
  <1>7. ASSUME Receives, app.at \in {"return", "recv"},
               UNCHANGED <<idGen, mux, running, sock, ui, worker, gc>>
        PROVE  IInv'
    <2>1. CASE running /\ Located(app.client)
      BY <1>7, <2>1, LoopMoves DEF Receives, Goes
    <2>2. CASE ~ (running /\ Located(app.client))
      BY <1>6, <1>7, <2>2 DEF Receives
    <2> QED
      BY <2>1, <2>2
  <1>8. CASE AcceptReturn
    <2>1. CASE Located(app.client)
      BY <1>7, <1>8, <2>1 DEF AcceptReturn
    <2>2. CASE ~ Located(app.client)
      BY <1>8, <2>2, LoopMoves DEF AcceptReturn, Goes
    <2> QED
      BY <2>1, <2>2
  <1>9. CASE RecvFails \/ RecvReturns
    BY <1>6, <1>7, <1>9 DEF RecvFails, RecvReturns
  <1>10. CASE Leave
    BY <1>2, <1>10, LoopMoves DEF Leave, NoLoop
  <1> QED
    BY <1>3, <1>4, <1>5, <1>8, <1>9, <1>10

-----------------------------------------------------------------------------
(* The listener thread and its sockets *)

LEMMA AcceptRoundStep ==
  ASSUME IInv, AcceptRound
  PROVE  IInv'
  <1> DEFINE l == app.listener
             u == Min(socket[l].queued)
  <1>1. /\ SocketsTypeOK /\ app.at = "accept" /\ l \in Ids /\ socket[l] \in SocketType
        /\ app.client = None /\ Held(l)
        /\ \A t \in Threads : t = "ui" \/ t = "app"
    BY NamedIds, CallFacts DEF IInv, AcceptRound, AcceptOrder, ClientOrder
  <1>2. CASE app' = [app EXCEPT !.at = "test"] /\ UNCHANGED socket
    BY <1>1, <1>2, LoopMoves DEF AcceptRound
  <1>3. CASE /\ socket[l].status = "LISTENING" /\ ~ socket[l].broken
             /\ app' = [app EXCEPT !.at = "wait"] /\ UNCHANGED socket
    BY <1>1, <1>3, LoopMoves DEF AcceptRound
  <1>4. CASE /\ socket[l].status = "LISTENING" /\ socket[l].queued # {}
             /\ socket' = [socket EXCEPT ![l].queued = @ \ {u}]
             /\ app' = [app EXCEPT !.at = "return", !.client = u]
    <2>1. u \in socket[l].queued /\ u \in Ids /\ u # None
      <3>1. socket[l].queued \subseteq Ids
        BY <1>1, FieldTypes
      <3>2. \E n \in socket[l].queued : \A q \in socket[l].queued : n <= q
        BY <1>4, <3>1, LeastId
      <3> QED
        BY <3>1, <3>2, IdFacts DEF Min
    <2> HIDE DEF u
    <2>2. /\ UNCHANGED <<idGen, mux, running, sock, ui, call, worker, gc>>
          /\ app'.at = "return" /\ app'.client = u /\ app'.listener = l
          /\ app' \in [at : {"return"}, listener : IdOrNone, client : IdOrNone]
      BY <1>1, <1>4, <2>1 DEF AcceptRound, SocketsTypeOK, IdOrNone
    <2>3. /\ socket' \in [Ids -> SocketType]
          /\ socket'[l] = [socket[l] EXCEPT !.queued = @ \ {u}]
          /\ \A q \in Ids : q # l => socket'[q] = socket[q]
      BY <1>1, <1>4 DEF SocketsTypeOK, SocketType
    <2>4. /\ \A q \in Ids :
               /\ socket'[q].place = socket[q].place /\ socket'[q].status = socket[q].status
               /\ socket'[q].opened = socket[q].opened /\ socket'[q].broken = socket[q].broken
               /\ socket'[q].mux = socket[q].mux /\ socket'[q].old = socket[q].old
               /\ socket'[q].onList = socket[q].onList /\ socket'[q].from = socket[q].from
               /\ socket'[q].peer = socket[q].peer /\ socket'[q].busy = socket[q].busy
               /\ socket'[q].queued = IF q = l THEN socket[l].queued \ {u} ELSE socket[q].queued
      <3>1. LET r == [socket[l] EXCEPT !.queued = @ \ {u}] IN
            /\ r.place = socket[l].place /\ r.status = socket[l].status
            /\ r.opened = socket[l].opened /\ r.broken = socket[l].broken
            /\ r.mux = socket[l].mux /\ r.old = socket[l].old
            /\ r.onList = socket[l].onList /\ r.from = socket[l].from
            /\ r.peer = socket[l].peer /\ r.busy = socket[l].busy
            /\ r.queued = socket[l].queued \ {u}
        BY <1>1 DEF SocketType
      <3> QED
        BY <2>3, <3>1
    <2>5. SocketsTypeOK'
      BY <1>1, <2>2, <2>3 DEF SocketsTypeOK
    <2>6. Life' /\ Listening'
      BY <1>1, <2>2, <2>3, <2>4 DEF IInv, Life, Listening, Drained, Held
    <2>7. Kept' /\ Drains'
      <3>1. call["app"].s = None
        BY <1>1, CallFacts DEF IInv, Kept
      <3>2. Drains'
        BY <1>1, <2>2, <2>4, <3>1, CallFacts DEF IInv, Drains
      <3> QED
        BY <1>1, <2>2, <2>4, <3>1, <3>2, NamedIds, CallFacts DEF IInv, Kept, Held, Calls
    <2>8. UiOrder' /\ LoopOrder' /\ AcceptOrder'
      BY <1>1, <2>2, <2>4, NamedIds DEF IInv, UiOrder, LoopOrder, AcceptOrder, Over
    <2>9. ClientOrder'
      <3>1. /\ socket[u].from = l /\ l # None /\ socket[u].place # "none"
            /\ \A q \in Ids : u \in socket[q].queued => q = l
        BY <1>1, <2>1, IdFacts DEF IInv, Queues
      <3> QED
        BY <1>1, <2>1, <2>2, <2>4, <3>1 DEF ClientOrder
    <2>10. Slot' /\ RequestOrder'
      BY <1>1, <2>1, <2>2, <2>4, NamedIds DEF IInv, Slot, RequestOrder, Held, Drained
    <2>11. References' /\ Picked'
      <3>1. OnMux' = OnMux
        BY <2>4 DEF OnMux
      <3> QED
        BY <1>1, <2>2, <2>4, <3>1, NamedIds DEF IInv, References, Picked
    <2>12. Queues' /\ NewestWorks'
      BY <1>1, <2>2, <2>4, NamedIds DEF IInv, Queues, NewestWorks
    <2>13. Owners'
      <3>1. \A s \in Ids : s # None /\ (socket[s].from # None => socket[s].from \in Ids)
        BY <1>1, NamedIds, IdFacts
      <3>2. \A s \in Ids :
              socket[s].place = "live" /\ socket[s].status = "CONNECTED" /\ ~ socket[s].broken =>
                socket[s].from \in Ids /\ s \in socket[socket[s].from].queued
        <4>1. Owners /\ app.client = None
          BY <1>1 DEF IInv
        <4> QED
          BY <3>1, <4>1 DEF Owners
      <3> QED
        BY <2>2, <2>4, <3>2, IdFacts DEF Owners
    <2> QED
      BY <2>5, <2>6, <2>7, <2>8, <2>9, <2>10, <2>11, <2>12, <2>13 DEF IInv
  <1> QED
    BY <1>2, <1>3, <1>4 DEF AcceptRound, Goes

\* Nobody knows the next socket ID.
LEMMA FreshFacts ==
  ASSUME IInv, idGen > 0
  PROVE  /\ idGen \in Ids /\ idGen # None /\ idGen - 1 \in 0 .. MaxSockets
         /\ socket[idGen] = NewSocket /\ socket[idGen].place = "none"
         /\ \A s \in Ids : socket[s].place = "none" /\ s # idGen <=> s <= idGen - 1
         /\ socket[idGen].mux = None /\ socket[idGen].from = None
         /\ socket[idGen].busy = 0 /\ socket[idGen].queued = {}
         /\ socket[idGen].status = "INIT" /\ ~ socket[idGen].broken /\ ~ socket[idGen].old
         /\ ~ socket[idGen].onList /\ socket[idGen].peer = NoPeer
         /\ \A t \in Threads : call[t].s # idGen
         /\ app.client # idGen /\ sock # idGen /\ mux.listener # idGen
         /\ app.at \in {"accept", "wait"} => app.listener # idGen
         /\ worker.at = "respond" => worker.s # idGen
         /\ gc.at = "delete" => gc.s # idGen
         /\ idGen \notin gc.todo
         /\ \A s \in Ids : idGen \notin socket[s].queued
  <1>1. /\ SocketsTypeOK /\ idGen \in 0 .. MaxSockets
        /\ idGen \in Ids /\ idGen # None /\ idGen - 1 \in 0 .. MaxSockets
    BY IdFacts DEF IInv, SocketsTypeOK
  <1>2. socket[idGen].place = "none" /\ socket[idGen] = NewSocket
    BY <1>1, IdFacts DEF IInv, Life
  <1>3. \A s \in Ids : socket[s].place = "none" /\ s # idGen <=> s <= idGen - 1
    <2>1. \A s \in Ids : s \in Nat
      BY IdFacts
    <2>2. \A s \in Ids : socket[s].place = "none" <=> s <= idGen
      BY DEF IInv, Life
    <2>3. \A i, j \in Nat : (i <= j /\ i # j) <=> i <= j - 1
      OBVIOUS
    <2>4. idGen \in Nat
      BY <1>1
    <2> QED
      BY <2>1, <2>2, <2>3, <2>4
  <1>4. /\ socket[idGen].mux = None /\ socket[idGen].from = None
        /\ socket[idGen].busy = 0 /\ socket[idGen].queued = {}
        /\ socket[idGen].status = "INIT" /\ ~ socket[idGen].broken /\ ~ socket[idGen].old
        /\ ~ socket[idGen].onList /\ socket[idGen].peer = NoPeer
    BY <1>2 DEF NewSocket
  <1>5. \A t \in Threads : call[t].s # idGen
    BY <1>1, <1>2, CallFacts DEF IInv, Held
  <1>6. app.client # idGen /\ sock # idGen /\ mux.listener # idGen
    BY <1>1, <1>2 DEF IInv, ClientOrder, LoopOrder, Slot, Held
  <1>7. /\ app.at \in {"accept", "wait"} => app.listener # idGen
        /\ worker.at = "respond" => worker.s # idGen
    BY <1>1, <1>2 DEF IInv, AcceptOrder, RequestOrder, Held
  <1>8. /\ gc.at = "delete" => gc.s # idGen
        /\ idGen \notin gc.todo
    BY <1>1, <1>2 DEF IInv, Picked
  <1>9. \A s \in Ids : idGen \notin socket[s].queued
    BY <1>1, <1>2 DEF IInv, Queues
  <1> QED
    BY <1>1, <1>2, <1>3, <1>4, <1>5, <1>6, <1>7, <1>8, <1>9

\* While the listener's socket is made, no request is under way.
LEMMA NoSlotYet ==
  ASSUME IInv, app.at \in {"create", "bind", "listen", "failed"}
  PROVE  /\ mux.listener = None /\ worker.at = "idle"
         /\ \A t \in Threads : call[t].at # "drain"
         /\ app.client = None /\ call["app"].s = None
         /\ \A s \in Ids : socket[s].status # "LISTENING"
  <1>1. \A t \in Threads : call[t].at # "drain"
    BY DEF IInv, Drains
  <1>2. mux.listener = None
    BY <1>1, CallFacts DEF IInv, Slot
  <1>3. worker.at = "idle"
    BY <1>2 DEF IInv, RequestOrder
  <1>4. app.client = None /\ call["app"].s = None
    BY CallFacts DEF IInv, ClientOrder, Kept
  <1>5. \A s \in Ids : socket[s].status # "LISTENING"
    BY <1>2, IdFacts DEF IInv, Listening
  <1> QED
    BY <1>1, <1>2, <1>3, <1>4, <1>5

LEMMA CreateStep ==
  ASSUME IInv, Create
  PROVE  IInv'
  <1>1. /\ SocketsTypeOK /\ app.at = "create" /\ idGen > 0
        /\ UNCHANGED <<mux, running, ui, call, worker, gc>>
        /\ idGen' = idGen - 1 /\ sock' = idGen
        /\ app'.at = "bind" /\ app'.listener = app.listener /\ app'.client = app.client
        /\ SocketsTypeOK => app' \in [at : {"bind"}, listener : IdOrNone, client : IdOrNone]
        /\ \A t \in Threads : t = "ui" \/ t = "app"
    BY CallFacts DEF Create, Goes, IInv, LoopOrder, SocketsTypeOK
  <1> DEFINE n == idGen
             r == [NewSocket EXCEPT !.place = "live"]
  <1>2. /\ n \in Ids /\ n # None /\ idGen - 1 \in 0 .. MaxSockets
        /\ socket[n] = NewSocket /\ socket[n].place = "none"
        /\ socket[n].mux = None /\ socket[n].queued = {}
        /\ \A s \in Ids : (socket[s].place = "none" /\ s # n) <=> s <= idGen'
        /\ \A t \in Threads : call[t].s # n
        /\ app.client # n /\ n \notin gc.todo /\ (gc.at = "delete" => gc.s # n)
        /\ \A s \in Ids : n \notin socket[s].queued
        /\ sock' = n
    BY <1>1, FreshFacts
  <1>3. /\ mux.listener = None /\ worker.at = "idle"
        /\ \A t \in Threads : call[t].at # "drain"
        /\ app.client = None /\ call["app"].s = None
        /\ \A s \in Ids : socket[s].status # "LISTENING"
    BY <1>1, NoSlotYet
  <1>4. r \in SocketType /\ socket' = [socket EXCEPT ![n] = r]
    BY <1>2, NewSocketType DEF Create
  <1>5. /\ r.place = "live" /\ r.status = "INIT" /\ r.mux = None /\ r.from = None
        /\ r.busy = 0 /\ r.queued = {} /\ ~ r.broken /\ ~ r.old
        /\ ~ r.onList /\ r.peer = NoPeer
    BY DEF NewSocket
  <1> HIDE DEF n, r
  <1>14. /\ socket' \in [Ids -> SocketType] /\ socket'[n] = r
         /\ \A q \in Ids : q # n => socket'[q] = socket[q]
    BY <1>1, <1>2, <1>4, OneSocket DEF SocketsTypeOK
  <1>6. SocketsTypeOK'
    BY <1>1, <1>2, <1>14 DEF SocketsTypeOK, IdOrNone
  <1>7. Life'
    BY <1>1, <1>2, <1>14, <1>5 DEF IInv, Life
  <1>8. Listening' /\ Slot' /\ RequestOrder' /\ Drains'
    BY <1>1, <1>3, <1>14, <1>5 DEF IInv, Listening, Slot, RequestOrder, Drains, Drained
  <1>9. Kept'
    BY <1>1, <1>2, <1>3, <1>14, <1>5, CallFacts DEF IInv, Kept, Calls, Held, UiOrder
  <1>10. (UiOrder /\ LoopOrder /\ ClientOrder /\ AcceptOrder)'
    BY <1>1, <1>2, <1>3, <1>14, <1>5 DEF IInv, UiOrder, LoopOrder, ClientOrder, AcceptOrder
  <1>11. References' /\ Picked'
    <2>1. OnMux' = OnMux
      BY <1>1, <1>2, <1>14, <1>5 DEF OnMux
    <2> QED
      BY <1>1, <1>2, <1>14, <1>5, <2>1, NamedIds DEF IInv, References, Picked
  <1>12. Queues' /\ NewestWorks'
    BY <1>1, <1>2, <1>14, <1>5, NamedIds DEF IInv, Queues, NewestWorks
  <1>13. Owners'
    BY <1>1, <1>2, <1>14, <1>5, NamedIds DEF IInv, Owners
  <1> QED
    BY <1>6, <1>7, <1>8, <1>9, <1>10, <1>11, <1>12, <1>13 DEF IInv

\* The socket of the listener thread is bound, or listens.
LEMMA ListenerMoves ==
  ASSUME IInv, app.at \in {"bind", "listen"}, NEW r \in SocketType,
         Located(sock), socket[sock].status \in {"INIT", "OPENED"},
         socket' = [socket EXCEPT ![sock] = r],
         r.place = "live", r.status \in {"INIT", "OPENED", "LISTENING"}, r.queued = socket[sock].queued,
         r.broken = socket[sock].broken, r.busy = socket[sock].busy, r.old = socket[sock].old,
         r.onList = socket[sock].onList, r.from = socket[sock].from, r.peer = socket[sock].peer,
         app' \in [at : {"listen", "failed", "test"}, listener : IdOrNone, client : IdOrNone],
         app'.client = app.client, app'.listener = app.listener,
         UNCHANGED <<idGen, running, sock, ui, call, worker, gc>>,
         mux' \in [id : IdOrNone, refs : Int, listener : IdOrNone]
  PROVE  /\ SocketsTypeOK' /\ Kept' /\ Drains' /\ UiOrder' /\ LoopOrder' /\ ClientOrder'
         /\ AcceptOrder' /\ RequestOrder' /\ Picked' /\ Queues' /\ Owners' /\ NewestWorks'
         /\ sock \in Ids /\ socket[sock].place = "live" /\ socket'[sock] = r
         /\ \A q \in Ids : q # sock => socket'[q] = socket[q]
  <1>1. /\ SocketsTypeOK /\ Life /\ sock \in Ids /\ sock # None
        /\ socket[sock].place = "live" /\ socket[sock].from = None
        /\ \A t \in Threads : t = "ui" \/ t = "app"
    BY CallFacts, IdFacts DEF IInv, Located, LoopOrder
  <1>2. /\ mux.listener = None /\ worker.at = "idle"
        /\ \A t \in Threads : call[t].at # "drain"
        /\ app.client = None /\ call["app"].s = None
    BY NoSlotYet
  <1>3. /\ socket' \in [Ids -> SocketType] /\ socket'[sock] = r
        /\ \A q \in Ids : q # sock => socket'[q] = socket[q]
    BY <1>1, OneSocket DEF SocketsTypeOK
  <1>4. \A q \in Ids : /\ socket'[q].place = socket[q].place
                       /\ socket'[q].queued = socket[q].queued
                       /\ socket'[q].broken = socket[q].broken
                       /\ socket'[q].busy = socket[q].busy
                       /\ socket'[q].old = socket[q].old
                       /\ socket'[q].from = socket[q].from
                       /\ socket'[q].peer = socket[q].peer
                       /\ q # sock => socket'[q].status = socket[q].status
    BY <1>1, <1>3
  <1>5. SocketsTypeOK'
    BY <1>1, <1>3 DEF SocketsTypeOK
  <1>6. Kept' /\ Drains'
    BY <1>1, <1>2, <1>4, CallFacts DEF IInv, Kept, Drains, Held, Calls
  <1>7. (UiOrder /\ LoopOrder /\ ClientOrder /\ AcceptOrder)'
    BY <1>1, <1>2, <1>4 DEF IInv, UiOrder, LoopOrder, ClientOrder, AcceptOrder, Over
  <1>8. RequestOrder' /\ Picked'
    BY <1>1, <1>2, <1>4, NamedIds DEF IInv, RequestOrder, Picked
  <1>9. Queues' /\ NewestWorks'
    BY <1>1, <1>4, NamedIds DEF IInv, Queues, NewestWorks
  <1>10. Owners'
    BY <1>1, <1>3, <1>4, NamedIds DEF IInv, Owners
  <1> QED
    BY <1>1, <1>3, <1>5, <1>6, <1>7, <1>8, <1>9, <1>10

\* The socket that is bound takes a reference to the multiplexer.
LEMMA OneMore ==
  ASSUME IInv, NEW s \in Ids, socket[s].mux = None, gc.at # "destroy", mux'.id # None,
         socket'[s].mux = mux'.id, \A q \in Ids : q # s => socket'[q].mux = socket[q].mux,
         mux.id # None => mux'.id = mux.id,
         mux'.refs = mux.refs + 1, UNCHANGED gc
  PROVE  References'
  <1>1. IsFiniteSet(OnMux) /\ mux.refs \in Nat /\ mux.refs = Cardinality(OnMux)
    <2>1. IsFiniteSet(Ids)
      BY SizesArePositive, FS_Interval DEF Ids
    <2>2. IsFiniteSet(OnMux)
      BY <2>1, FS_Subset DEF OnMux
    <2> QED
      BY <2>2, FS_CardinalityType DEF IInv, References
  <1>2. s \notin OnMux /\ OnMux' = OnMux \cup {s}
    BY DEF OnMux
  <1>3. Cardinality(OnMux') = mux.refs + 1
    <2>1. Cardinality(OnMux \cup {s}) = Cardinality(OnMux) + 1
      BY <1>1, <1>2, FS_AddElement
    <2> QED
      BY <1>1, <1>2, <2>1
  <1> QED
    BY <1>1, <1>3 DEF IInv, References

LEMMA BindStep ==
  ASSUME IInv, Bind
  PROVE  IInv'
  <1> DEFINE r == [socket[sock] EXCEPT !.opened = TRUE, !.status = "OPENED", !.mux = mux'.id]
  <1>1. /\ SocketsTypeOK /\ app.at = "bind" /\ gc.at # "destroy"
        /\ Located(sock) /\ socket[sock].status = "INIT"
        /\ UNCHANGED <<idGen, running, sock, ui, call, worker, gc>>
    BY DEF Bind, GlobFree, IInv
  <1>2. /\ sock \in Ids /\ sock # None /\ socket[sock] \in SocketType
        /\ socket[sock].place = "live" /\ socket[sock].from = None /\ socket[sock].mux = None
    BY <1>1, IdFacts, NamedIds DEF Located, IInv, LoopOrder, Life
  <1>3. mux.listener = None /\ \A s \in Ids : socket[s].status # "LISTENING"
    BY <1>1, NoSlotYet
  <1>4. /\ mux' \in [id : IdOrNone, refs : Int, listener : IdOrNone]
        /\ mux'.id = IF mux.id # None THEN mux.id ELSE sock
        /\ mux'.refs = IF mux.id # None THEN mux.refs + 1 ELSE 1
        /\ mux'.listener = None
    BY <1>1, <1>2, <1>3 DEF Bind, SocketsTypeOK, IdOrNone
  <1>5. mux'.id \in IdOrNone /\ mux'.id # None /\ mux'.refs = mux.refs + 1
    BY <1>2, <1>4 DEF IInv, References, IdOrNone
  <1>6. /\ r \in SocketType /\ r.opened /\ r.status = "OPENED" /\ r.mux = mux'.id
        /\ r.place = socket[sock].place /\ r.queued = socket[sock].queued
        /\ r.broken = socket[sock].broken /\ r.busy = socket[sock].busy
        /\ r.old = socket[sock].old /\ r.onList = socket[sock].onList
        /\ r.from = socket[sock].from /\ r.peer = socket[sock].peer
    BY <1>2, <1>5 DEF SocketType
  <1>7. /\ app' \in [at : {"listen", "failed", "test"}, listener : IdOrNone, client : IdOrNone]
        /\ app'.client = app.client /\ app'.listener = app.listener
    BY <1>1 DEF Bind, Goes, SocketsTypeOK
  <1>12. socket' = [socket EXCEPT ![sock] = r]
    BY <1>1, <1>2 DEF Bind, SocketsTypeOK
  <1> HIDE DEF r
  <1>8. /\ SocketsTypeOK' /\ Kept' /\ Drains' /\ UiOrder' /\ LoopOrder' /\ ClientOrder'
        /\ AcceptOrder' /\ RequestOrder' /\ Picked' /\ Queues' /\ Owners' /\ NewestWorks'
        /\ socket'[sock] = r /\ \A q \in Ids : q # sock => socket'[q] = socket[q]
    BY <1>1, <1>2, <1>4, <1>6, <1>7, <1>12, ListenerMoves
  <1>9. Life'
    BY <1>1, <1>2, <1>5, <1>6, <1>8 DEF IInv, Life
  <1>10. Listening' /\ Slot'
    BY <1>3, <1>4, <1>6, <1>8, IdFacts DEF IInv, Listening, Slot
  <1>11. References'
    BY <1>1, <1>2, <1>4, <1>5, <1>6, <1>8, OneMore
  <1> QED
    BY <1>8, <1>9, <1>10, <1>11 DEF IInv

LEMMA BindFailsStep ==
  ASSUME IInv, BindFails
  PROVE  IInv'
  <1>1. /\ SocketsTypeOK /\ app.at = "bind" /\ app' = [app EXCEPT !.at = "failed"]
        /\ UNCHANGED <<idGen, mux, running, sock, ui, call, worker, gc>>
    BY DEF BindFails, Goes, IInv
  <1>2. CASE UNCHANGED socket
    BY <1>1, <1>2, LoopMoves
  <1>3. CASE /\ Located(sock) /\ socket[sock].status = "INIT"
             /\ socket' = [socket EXCEPT ![sock].opened = TRUE]
    <2> DEFINE r == [socket[sock] EXCEPT !.opened = TRUE]
    <2>1. /\ sock \in Ids /\ socket[sock] \in SocketType
          /\ socket[sock].place = "live" /\ socket[sock].from = None
          /\ Located(sock) /\ socket[sock].status = "INIT"
      BY <1>1, <1>3, IdFacts, NamedIds DEF Located, IInv, LoopOrder
    <2>2. /\ r \in SocketType /\ r.opened /\ r.status = "INIT" /\ r.mux = socket[sock].mux
          /\ r.place = socket[sock].place /\ r.queued = socket[sock].queued
          /\ r.broken = socket[sock].broken /\ r.busy = socket[sock].busy
          /\ r.old = socket[sock].old /\ r.onList = socket[sock].onList
          /\ r.from = socket[sock].from /\ r.peer = socket[sock].peer
      BY <1>3, <2>1 DEF SocketType
    <2>3. /\ app' \in [at : {"listen", "failed", "test"}, listener : IdOrNone, client : IdOrNone]
          /\ app'.client = app.client /\ app'.listener = app.listener
          /\ mux' \in [id : IdOrNone, refs : Int, listener : IdOrNone]
          /\ socket' = [socket EXCEPT ![sock] = r]
      BY <1>1, <1>3, <2>1 DEF SocketsTypeOK
    <2> HIDE DEF r
    <2>4. /\ SocketsTypeOK' /\ Kept' /\ Drains' /\ UiOrder' /\ LoopOrder' /\ ClientOrder'
          /\ AcceptOrder' /\ RequestOrder' /\ Picked' /\ Queues' /\ Owners' /\ NewestWorks'
          /\ socket'[sock] = r /\ \A q \in Ids : q # sock => socket'[q] = socket[q]
      BY <1>1, <2>1, <2>2, <2>3, ListenerMoves
    <2>5. Life'
      BY <1>1, <1>3, <2>1, <2>2, <2>4 DEF IInv, Life
    <2>6. Listening' /\ Slot'
      BY <1>1, <2>2, <2>4, NoSlotYet, IdFacts DEF IInv, Listening, Slot
    <2>7. References'
      <3>1. OnMux' = OnMux
        BY <2>2, <2>4 DEF OnMux
      <3> QED
        BY <1>1, <2>2, <2>4, <3>1 DEF IInv, References
    <2> QED
      BY <2>4, <2>5, <2>6, <2>7 DEF IInv
  <1> QED
    BY <1>2, <1>3 DEF BindFails

LEMMA ListenStep ==
  ASSUME IInv, Listen
  PROVE  IInv'
  <1> DEFINE r == [socket[sock] EXCEPT !.status = "LISTENING"]
  <1>1. /\ SocketsTypeOK /\ app.at = "listen" /\ app' = [app EXCEPT !.at = "test"]
        /\ Located(sock) /\ socket[sock].status = "OPENED"
        /\ mux' = [mux EXCEPT !.listener = sock]
        /\ UNCHANGED <<idGen, running, sock, ui, call, worker, gc>>
    BY DEF Listen, CanListen, Goes, IInv
  <1>2. /\ sock \in Ids /\ sock # None /\ socket[sock] \in SocketType
        /\ socket[sock].place = "live" /\ socket[sock].from = None
        /\ socket[sock].mux # None /\ ~ socket[sock].broken
    BY <1>1, IdFacts, NamedIds DEF Located, IInv, LoopOrder, Life
  <1>3. /\ \A s \in Ids : socket[s].status # "LISTENING"
        /\ worker.at = "idle"
    BY <1>1, NoSlotYet
  <1>4. /\ mux' \in [id : IdOrNone, refs : Int, listener : IdOrNone]
        /\ mux'.id = mux.id /\ mux'.refs = mux.refs /\ mux'.listener = sock
    BY <1>1, <1>2 DEF SocketsTypeOK, IdOrNone
  <1>6. /\ r \in SocketType /\ r.status = "LISTENING" /\ r.opened = socket[sock].opened
        /\ r.mux = socket[sock].mux
        /\ r.place = socket[sock].place /\ r.queued = socket[sock].queued
        /\ r.broken = socket[sock].broken /\ r.busy = socket[sock].busy
        /\ r.old = socket[sock].old /\ r.onList = socket[sock].onList
        /\ r.from = socket[sock].from /\ r.peer = socket[sock].peer
    BY <1>2 DEF SocketType
  <1>7. /\ app' \in [at : {"listen", "failed", "test"}, listener : IdOrNone, client : IdOrNone]
        /\ app'.client = app.client /\ app'.listener = app.listener /\ app'.at = "test"
        /\ socket' = [socket EXCEPT ![sock] = r]
    BY <1>1, <1>2 DEF SocketsTypeOK, Listen
  <1> HIDE DEF r
  <1>8. /\ SocketsTypeOK' /\ Kept' /\ Drains' /\ UiOrder' /\ LoopOrder' /\ ClientOrder'
        /\ AcceptOrder' /\ RequestOrder' /\ Picked' /\ Queues' /\ Owners' /\ NewestWorks'
        /\ socket'[sock] = r /\ \A q \in Ids : q # sock => socket'[q] = socket[q]
    BY <1>1, <1>2, <1>4, <1>6, <1>7, ListenerMoves
  <1>9. Life'
    BY <1>1, <1>2, <1>6, <1>8 DEF IInv, Life
  <1>10. Listening' /\ Slot'
    BY <1>1, <1>2, <1>3, <1>4, <1>6, <1>7, <1>8 DEF IInv, Listening, Slot, Held
  <1>11. References'
    <2>1. OnMux' = OnMux
      BY <1>6, <1>8 DEF OnMux
    <2> QED
      BY <1>1, <1>2, <1>4, <1>6, <1>8, <2>1 DEF IInv, References
  <1> QED
    BY <1>8, <1>9, <1>10, <1>11 DEF IInv

-----------------------------------------------------------------------------
(* srt_close, by either thread *)

\* What is known of a close() under way
LEMMA CloseFacts ==
  ASSUME IInv, NEW t \in Threads, call[t].at # "idle"
  PROVE  /\ call[t].s \in Ids /\ call[t].s # None /\ Held(call[t].s)
         /\ socket[call[t].s] \in SocketType
         /\ socket[call[t].s].place \in {"live", "closed"}
         /\ worker.at = "respond" => worker.s # call[t].s
         /\ \A l \in Ids : call[t].s \notin socket[l].queued
         /\ t = "ui" => /\ ui = "closing" /\ sock \in {None, call[t].s}
                        /\ socket[call[t].s].from = None
         /\ t = "app" => \/ app.at = "closing" /\ app.client = None /\ socket[call[t].s].from = None
                         \/ app.at = "test" /\ call[t].s = app.client
         /\ app.at \in {"return", "recv"} => call[t].s # app.client
         /\ t = "ui" \/ t = "app"
  <1> DEFINE s == call[t].s
  <1>1. /\ SocketsTypeOK /\ Kept /\ s # None /\ s \in Ids /\ Held(s) /\ (t = "ui" \/ t = "app")
    BY CallFacts DEF IInv
  <1>2. socket[s] \in SocketType /\ socket[s].place \in {"live", "closed"}
    BY <1>1, NamedIds DEF Held
  <1>3. /\ t = "ui" => ui = "closing" /\ sock \in {None, s} /\ socket[s].from = None
        /\ t = "app" => \/ app.at = "closing" /\ app.client = None /\ socket[s].from = None
                        \/ app.at = "test" /\ s = app.client
    BY <1>1 DEF Kept, IInv, ClientOrder
  <1>4. worker.at = "respond" => worker.s # s
    <2>1. /\ socket[s].busy = Calls("ui", s) + Calls("app", s)
          /\ Calls("ui", s) \in {0, 1} /\ Calls("app", s) \in {0, 1}
          /\ Calls("ui", s) = 1 \/ Calls("app", s) = 1
      BY <1>1 DEF Kept, Calls
    <2>2. socket[s].busy # 0
      BY <2>1
    <2> QED
      BY <2>2 DEF IInv, RequestOrder
  <1>5. \A l \in Ids : s \notin socket[l].queued
    BY <1>1, <1>3, IdFacts DEF IInv, Queues, ClientOrder
  <1>6. app.at \in {"return", "recv"} => s # app.client
    BY <1>1, <1>2, <1>3 DEF IInv, ClientOrder
  <1> QED
    BY <1>1, <1>2, <1>3, <1>4, <1>5, <1>6

LEMMA CloseListenerStep ==
  ASSUME IInv, NEW t \in Threads, CloseListener(t)
  PROVE  IInv'
  <1> DEFINE s == call[t].s
             r == [socket[s] EXCEPT !.broken = TRUE, !.old = FALSE]
  <1>1. /\ SocketsTypeOK /\ Kept /\ call[t].at = "lock" /\ ~ Drained(s)
        /\ socket[s].status = "LISTENING"
        /\ UNCHANGED <<idGen, mux, running, sock, ui, app, worker, gc>>
    BY CallFacts, DrainFacts
       DEF CloseListener, Locks, ControlLocked, listener, IInv
  <1>2. /\ s \in Ids /\ s # None /\ socket[s] \in SocketType /\ Held(s)
        /\ socket[s].place = "live" /\ mux.listener = s /\ socket[s].from = None
        /\ \A l \in Ids : s \notin socket[l].queued
        /\ worker.at = "respond" => worker.s # s
    BY <1>1, CloseFacts DEF IInv, Listening
  <1>3. /\ call' \in [Threads -> [at : {"idle", "lock", "drain"}, s : IdOrNone]]
        /\ call'[t].at = "drain" /\ call'[t].s = s
        /\ \A u \in Threads : u # t => call'[u] = call[u]
        /\ \A u \in Threads : call'[u].s = call[u].s
    BY <1>1 DEF CloseListener, SocketsTypeOK
  <1>4. socket' = [socket EXCEPT ![s] = r]
    BY <1>1, <1>2, TwoFields DEF CloseListener, SocketsTypeOK
  <1>5. /\ r \in SocketType /\ r.broken /\ ~ r.old /\ r.status = "LISTENING"
        /\ r.place = "live" /\ r.opened = socket[s].opened
        /\ r.mux = socket[s].mux /\ r.busy = socket[s].busy /\ r.onList = socket[s].onList
        /\ r.from = None /\ r.peer = socket[s].peer /\ r.queued = socket[s].queued
    BY <1>1, <1>2 DEF SocketType
  <1> HIDE DEF r
  <1>6. /\ socket' \in [Ids -> SocketType] /\ socket'[s] = r
        /\ \A q \in Ids : q # s => socket'[q] = socket[q]
    BY <1>1, <1>2, <1>4, <1>5, OneSocket DEF SocketsTypeOK
  <1>7. /\ \A q : Drained(q)' <=> Drained(q) \/ q = s
        /\ \A u \in Threads : call[u].at # "drain"
        /\ \A u \in Threads : u = "ui" \/ u = "app"
    BY <1>1, <1>2, <1>3, CallFacts DEF Drained, IInv, Drains
  <1> HIDE DEF s
  <1>8. SocketsTypeOK'
    BY <1>1, <1>3, <1>6 DEF SocketsTypeOK
  <1>9. Life' /\ Listening'
    BY <1>1, <1>2, <1>5, <1>6, <1>7 DEF IInv, Life, Listening
  <1>10. Kept'
    BY <1>1, <1>2, <1>3, <1>5, <1>6, <1>7, CallFacts DEF IInv, Kept, Held, Calls
  <1>11. Drains'
    <2>1. app.at \notin {"create", "bind", "listen", "failed"}
      BY <1>2, NoSlotYet
    <2> QED
      BY <1>1, <1>2, <1>3, <1>5, <1>6, <1>7, <2>1, CallFacts DEF Drains
  <1>12. (UiOrder /\ LoopOrder)'
    BY <1>1, <1>2, <1>3, <1>5, <1>6, <1>7, NamedIds, CallFacts DEF IInv, UiOrder, LoopOrder, Over
  <1>13. (ClientOrder /\ AcceptOrder)'
    BY <1>1, <1>2, <1>3, <1>5, <1>6, <1>7, NamedIds, CallFacts DEF IInv, ClientOrder, AcceptOrder, Held
  <1>14. Slot' /\ RequestOrder'
    BY <1>1, <1>2, <1>3, <1>5, <1>6, <1>7, NamedIds, CallFacts DEF IInv, Slot, RequestOrder, Held
  <1>15. References' /\ Picked'
    <2>1. OnMux' = OnMux
      BY <1>2, <1>5, <1>6 DEF OnMux
    <2> QED
      BY <1>1, <1>2, <1>5, <1>6, <2>1, NamedIds DEF IInv, References, Picked
  <1>16. Queues' /\ NewestWorks'
    BY <1>1, <1>2, <1>5, <1>6, NamedIds DEF IInv, Queues, NewestWorks
  <1>17. Owners'
    BY <1>1, <1>2, <1>5, <1>6, NamedIds DEF IInv, Owners
  <1> QED
    BY <1>8, <1>9, <1>10, <1>11, <1>12, <1>13, <1>14, <1>15, <1>16, <1>17 DEF IInv

\* A socket that is closed and released by its close()
LEMMA Released ==
  ASSUME NEW x \in SocketType,
         NEW c, c = [x EXCEPT !.status = "CLOSING", !.busy = @ - 1]
  PROVE  /\ c \in SocketType /\ c.status = "CLOSING" /\ c.busy = x.busy - 1
         /\ c.place = x.place /\ c.broken = x.broken /\ c.old = x.old
         /\ c.mux = x.mux /\ c.onList = x.onList /\ c.opened = x.opened
         /\ c.from = x.from /\ c.peer = x.peer /\ c.queued = x.queued
         /\ \A f \in [Ids -> SocketType], s \in Ids : f[s] = x =>
              [f EXCEPT ![s].status = "CLOSING", ![s].busy = @ - 1] = [f EXCEPT ![s] = c]
  <1> DEFINE k == x.busy - 1
  <1>1. k \in Int
    BY FieldTypes
  <1>2. c = [x EXCEPT !.status = "CLOSING", !.busy = k]
    OBVIOUS
  <1> HIDE DEF k
  <1>3. /\ c \in SocketType /\ c.status = "CLOSING" /\ c.busy = k
        /\ c.place = x.place /\ c.broken = x.broken /\ c.old = x.old
        /\ c.mux = x.mux /\ c.onList = x.onList /\ c.opened = x.opened
        /\ c.from = x.from /\ c.peer = x.peer /\ c.queued = x.queued
    BY <1>1, <1>2 DEF SocketType
  <1>4. ASSUME NEW f \in [Ids -> SocketType], NEW s \in Ids, f[s] = x
        PROVE  [f EXCEPT ![s].status = "CLOSING", ![s].busy = @ - 1] = [f EXCEPT ![s] = c]
    <2>1. [f EXCEPT ![s].status = "CLOSING", ![s].busy = @ - 1]
            = [f EXCEPT ![s].status = "CLOSING", ![s].busy = k]
      BY <1>4 DEF k, SocketType
    <2> QED
      BY <1>2, <1>4, <2>1
  <1> QED
    BY <1>3, <1>4 DEF k

LEMMA CloseDrainedStep ==
  ASSUME IInv, NEW t \in Threads, CloseDrained(t)
  PROVE  IInv'
  <1> DEFINE s == call[t].s
             r == [socket[s] EXCEPT !.status = "CLOSING", !.busy = @ - 1]
  <1>1. /\ SocketsTypeOK /\ Kept /\ call[t].at = "drain" /\ worker.at = "idle"
        /\ UNCHANGED <<idGen, running, sock, ui, worker, gc>>
    BY DEF CloseDrained, Reading, IInv
  <1>2. /\ s \in Ids /\ s # None /\ socket[s] \in SocketType /\ Held(s)
        /\ mux.listener = s /\ socket[s].from = None /\ ~ socket[s].old
        /\ \A l \in Ids : s \notin socket[l].queued
        /\ socket[s].place \in {"live", "closed"}
        /\ t = "ui" => ui = "closing" /\ sock \in {None, s}
        /\ t = "app" => app.at = "closing" /\ app.client = None
    BY <1>1, CloseFacts DEF IInv, Drains, Slot, ClientOrder
  <1>3. /\ call' \in [Threads -> [at : {"idle", "lock", "drain"}, s : IdOrNone]]
        /\ call'[t].at = "idle" /\ call'[t].s = None
        /\ \A u \in Threads : u # t => call'[u] = call[u]
    BY <1>1 DEF CloseDrained, Returns, Idle, SocketsTypeOK, IdOrNone
  <1>4. socket' = [socket EXCEPT ![s] = r]
    BY <1>1, <1>2, Released DEF CloseDrained, SocketsTypeOK
  <1>5. /\ r \in SocketType /\ r.broken = socket[s].broken /\ ~ r.old /\ r.status = "CLOSING"
        /\ r.place = socket[s].place /\ r.opened = socket[s].opened
        /\ r.mux = socket[s].mux /\ r.busy = socket[s].busy - 1 /\ r.onList = socket[s].onList
        /\ r.from = None /\ r.peer = socket[s].peer /\ r.queued = socket[s].queued
    <2>1. /\ r \in SocketType /\ r.status = "CLOSING" /\ r.busy = socket[s].busy - 1
          /\ r.place = socket[s].place /\ r.broken = socket[s].broken /\ r.old = socket[s].old
          /\ r.mux = socket[s].mux /\ r.onList = socket[s].onList /\ r.opened = socket[s].opened
          /\ r.from = socket[s].from /\ r.peer = socket[s].peer /\ r.queued = socket[s].queued
      BY <1>2, Released
    <2> QED
      BY <1>2, <2>1
  <1>18. /\ mux' \in [id : IdOrNone, refs : Int, listener : IdOrNone]
         /\ mux'.id = mux.id /\ mux'.refs = mux.refs /\ mux'.listener = None
    BY <1>1, <1>2 DEF CloseDrained, SocketsTypeOK, IdOrNone
  <1>19. /\ app' \in [at : {"none", "create", "bind", "listen", "failed", "test", "accept",
                            "wait", "return", "recv", "closing"},
                      listener : IdOrNone, client : IdOrNone]
         /\ app'.client = app.client /\ app'.listener = app.listener
         /\ app'.at = IF app.at = "wait" /\ app.listener = s THEN "accept" ELSE app.at
    BY <1>1 DEF CloseDrained, Wakes, SocketsTypeOK
  <1> HIDE DEF r
  <1>6. /\ socket' \in [Ids -> SocketType] /\ socket'[s] = r
        /\ \A q \in Ids : q # s => socket'[q] = socket[q]
    BY <1>1, <1>2, <1>4, <1>5, OneSocket DEF SocketsTypeOK
  <1>7. /\ \A q : Drained(q) => q = s
        /\ \A u \in Threads : call'[u].at # "drain"
        /\ \A u \in Threads : u = "ui" \/ u = "app"
        /\ "ui" \in Threads /\ "app" \in Threads /\ "ui" # "app"
    BY <1>1, <1>2, <1>3, CallFacts DEF Drained, IInv, Drains
  <1> HIDE DEF s
  <1>8. SocketsTypeOK'
    BY <1>1, <1>3, <1>6, <1>18, <1>19 DEF SocketsTypeOK
  <1>9. Life' /\ Listening'
    BY <1>1, <1>2, <1>5, <1>6, <1>18 DEF IInv, Life, Listening
  <1>10. Kept' /\ Drains'
    <2>1. \A q \in Ids : socket'[q].busy = Calls("ui", q)' + Calls("app", q)'
      <3>1. s = call[t].s
        BY DEF s
      <3>2. \A q \in Ids : q # None /\ socket[q].busy = Calls("ui", q) + Calls("app", q)
        BY <1>1, IdFacts DEF Kept
      <3> QED
        BY <1>2, <1>3, <1>5, <1>6, <1>7, <3>1, <3>2 DEF Calls
    <2> QED
      BY <1>1, <1>2, <1>3, <1>5, <1>6, <1>7, <1>19, <2>1, CallFacts DEF IInv, Kept, Held, Drains
  <1>12. (UiOrder /\ LoopOrder)'
    BY <1>1, <1>2, <1>3, <1>5, <1>6, <1>7, <1>19, NamedIds, CallFacts DEF IInv, UiOrder, LoopOrder, Over
  <1>13. ClientOrder'
    BY <1>1, <1>2, <1>3, <1>5, <1>6, <1>7, <1>19, NamedIds, CallFacts DEF IInv, ClientOrder
  <1>20. AcceptOrder'
    BY <1>1, <1>2, <1>3, <1>5, <1>6, <1>7, <1>19, NamedIds, CallFacts DEF IInv, AcceptOrder, Held
  <1>14. Slot' /\ RequestOrder'
    BY <1>1, <1>18 DEF IInv, Slot, RequestOrder
  <1>15. References' /\ Picked'
    <2>1. OnMux' = OnMux
      BY <1>2, <1>5, <1>6 DEF OnMux
    <2> QED
      BY <1>1, <1>2, <1>5, <1>6, <1>18, <2>1, NamedIds DEF IInv, References, Picked
  <1>16. Queues' /\ NewestWorks'
    BY <1>1, <1>2, <1>5, <1>6, NamedIds DEF IInv, Queues, NewestWorks
  <1>17. Owners'
    BY <1>1, <1>2, <1>5, <1>6, <1>19, NamedIds DEF IInv, Owners
  <1> QED
    BY <1>8, <1>9, <1>10, <1>12, <1>13, <1>14, <1>15, <1>16, <1>17, <1>20 DEF IInv

LEMMA CloseOtherStep ==
  ASSUME IInv, NEW t \in Threads, CloseOther(t)
  PROVE  IInv'
  <1> DEFINE s == call[t].s
             c == [socket[s] EXCEPT !.status = "CLOSING", !.busy = @ - 1]
             r == IF socket[s].place = "live"
                  THEN [Closed(Shut(c)) EXCEPT !.place = "closed"] ELSE Shut(c)
  <1>1. /\ SocketsTypeOK /\ Kept /\ call[t].at = "lock" /\ ~ Drained(s)
        /\ socket[s].status # "LISTENING"
        /\ UNCHANGED <<idGen, mux, running, sock, ui, app, worker, gc>>
    BY CallFacts, DrainFacts
       DEF CloseOther, Locks, ControlLocked, listener, IInv
  <1>2. /\ s \in Ids /\ s # None /\ socket[s] \in SocketType /\ Held(s)
        /\ \A l \in Ids : s \notin socket[l].queued
        /\ socket[s].place \in {"live", "closed"}
        /\ worker.at = "respond" => worker.s # s
        /\ app.at \in {"return", "recv"} => s # app.client
        /\ t = "ui" => ui = "closing" /\ sock \in {None, s}
    BY <1>1, CloseFacts
  <1>21. mux.listener # s
    BY <1>1, <1>2 DEF IInv, Slot
  <1>3. /\ call' \in [Threads -> [at : {"idle", "lock", "drain"}, s : IdOrNone]]
        /\ call'[t].at = "idle" /\ call'[t].s = None
        /\ \A u \in Threads : u # t => call'[u] = call[u]
    BY <1>1 DEF CloseOther, Returns, Idle, SocketsTypeOK, IdOrNone
  <1>4. socket' = [socket EXCEPT ![s] = r]
    BY <1>1, <1>2 DEF CloseOther, SocketsTypeOK
  <1>5. /\ r \in SocketType /\ r.broken = socket[s].broken
        /\ r.old => socket[s].place = "closed" /\ socket[s].old
        /\ socket[s].place = "closed" => r.old = socket[s].old
        /\ r.status \in {"CLOSING", "CLOSED"} /\ r.place = "closed"
        /\ r.mux = socket[s].mux /\ r.busy = socket[s].busy - 1 /\ r.onList = socket[s].onList
        /\ r.from = socket[s].from /\ r.peer = socket[s].peer /\ r.queued = socket[s].queued
    <2>1. /\ c \in SocketType /\ c.status = "CLOSING" /\ c.busy = socket[s].busy - 1
          /\ c.place = socket[s].place /\ c.broken = socket[s].broken /\ c.old = socket[s].old
          /\ c.mux = socket[s].mux /\ c.onList = socket[s].onList
          /\ c.from = socket[s].from /\ c.peer = socket[s].peer /\ c.queued = socket[s].queued
      BY <1>2, Released
    <2> HIDE DEF c
    <2> DEFINE d == Shut(c)
    <2>2. /\ d \in SocketType /\ d.status = "CLOSING" /\ d.busy = c.busy
          /\ d.place = c.place /\ d.broken = c.broken /\ d.old = c.old
          /\ d.mux = c.mux /\ d.onList = c.onList
          /\ d.from = c.from /\ d.peer = c.peer /\ d.queued = c.queued
      BY <2>1 DEF SocketType, Shut
    <2> HIDE DEF d
    <2> DEFINE e == [Closed(d) EXCEPT !.place = "closed"]
    <2>3. /\ e \in SocketType /\ e.status = "CLOSED" /\ e.busy = d.busy
          /\ e.place = "closed" /\ e.broken = d.broken /\ ~ e.old
          /\ e.mux = d.mux /\ e.onList = d.onList
          /\ e.from = d.from /\ e.peer = d.peer /\ e.queued = d.queued
      BY <2>2 DEF SocketType, Closed
    <2>4. r = IF socket[s].place = "live" THEN e ELSE d
      BY DEF d
    <2> HIDE DEF e, d, r
    <2>5. CASE socket[s].place = "live"
      BY <2>1, <2>2, <2>3, <2>4, <2>5
    <2>6. CASE socket[s].place = "closed"
      BY <2>1, <2>2, <2>4, <2>6
    <2> QED
      BY <1>2, <2>5, <2>6
  <1> HIDE DEF r
  <1>6. /\ socket' \in [Ids -> SocketType] /\ socket'[s] = r
        /\ \A q \in Ids : q # s => socket'[q] = socket[q]
    BY <1>1, <1>2, <1>4, <1>5, OneSocket DEF SocketsTypeOK
  <1>7. /\ \A q : Drained(q)' <=> Drained(q)
        /\ \A u \in Threads : call'[u].at = "drain" <=> call[u].at = "drain"
        /\ \A u \in Threads : u = "ui" \/ u = "app"
        /\ "ui" \in Threads /\ "app" \in Threads /\ "ui" # "app"
    BY <1>1, <1>2, <1>3, CallFacts DEF Drained, IInv, Drains
  <1>22. \A q \in Ids : socket'[q].busy = Calls("ui", q)' + Calls("app", q)'
    <2>1. \A q \in Ids : q # None /\ socket[q].busy = Calls("ui", q) + Calls("app", q)
      BY <1>1, IdFacts DEF Kept
    <2> QED
      BY <1>2, <1>3, <1>5, <1>6, <1>7, <2>1 DEF Calls
  <1> HIDE DEF s
  <1>23. s = call[t].s
    BY DEF s
  <1>8. SocketsTypeOK'
    BY <1>1, <1>3, <1>6 DEF SocketsTypeOK
  <1>9. Life' /\ Listening'
    BY <1>1, <1>2, <1>5, <1>6, <1>7 DEF IInv, Life, Listening, Held
  <1>10. Kept'
    BY <1>1, <1>2, <1>3, <1>5, <1>6, <1>7, <1>22, CallFacts DEF IInv, Kept, Held
  <1>11. Drains'
    BY <1>1, <1>2, <1>3, <1>6, <1>7, <1>21, NamedIds, CallFacts DEF IInv, Drains
  <1>12. (UiOrder /\ LoopOrder)'
    BY <1>1, <1>2, <1>3, <1>5, <1>6, <1>7, NamedIds, CallFacts DEF IInv, UiOrder, LoopOrder, Over
  <1>13. ClientOrder'
    BY <1>1, <1>2, <1>3, <1>5, <1>6, <1>7, <1>23, NamedIds, CallFacts DEF IInv, ClientOrder, Kept
  <1>20. AcceptOrder'
    BY <1>1, <1>2, <1>3, <1>5, <1>6, <1>7, NamedIds, CallFacts DEF IInv, AcceptOrder, Held
  <1>14. Slot' /\ RequestOrder'
    <2>1. Slot'
      BY <1>1, <1>2, <1>3, <1>6, <1>7, <1>21, <1>23, NamedIds DEF IInv, Slot, Held
    <2>2. RequestOrder'
      BY <1>1, <1>2, <1>5, <1>6, NamedIds DEF IInv, RequestOrder
    <2> QED
      BY <2>1, <2>2
  <1>15. References' /\ Picked'
    <2>1. OnMux' = OnMux
      BY <1>2, <1>5, <1>6 DEF OnMux
    <2> QED
      BY <1>1, <1>2, <1>5, <1>6, <2>1, NamedIds DEF IInv, References, Picked
  <1>16. Queues' /\ NewestWorks'
    BY <1>1, <1>2, <1>5, <1>6, NamedIds DEF IInv, Queues, NewestWorks
  <1>17. Owners'
    BY <1>1, <1>2, <1>5, <1>6, NamedIds DEF IInv, Owners
  <1> QED
    BY <1>8, <1>9, <1>10, <1>11, <1>12, <1>13, <1>14, <1>15, <1>16, <1>17, <1>20 DEF IInv

-----------------------------------------------------------------------------
(* The worker of the receiver queue *)

LEMMA TakeRequestStep ==
  ASSUME IInv, NEW p \in Peers, TakeRequest(p)
  PROVE  IInv'
  <1>1. /\ SocketsTypeOK /\ Kept /\ worker.at = "idle" /\ mux.listener # None /\ idGen > 0
        /\ \A t \in Threads : call[t].at # "drain"
        /\ UNCHANGED <<socket, idGen, mux, running, sock, ui, app, call, gc>>
    BY DrainFacts DEF TakeRequest, database, listener, IInv
  <1>2. p # NoPeer
    BY NoPeerIsNoPeer
  <1>3. /\ worker'.at = "locate" /\ worker'.listener = mux.listener /\ worker'.peer = p
        /\ worker' \in [at : {"idle", "locate", "create", "respond"},
                        listener : IdOrNone, peer : PeerOrNone, s : IdOrNone]
    BY <1>1 DEF TakeRequest, AtRest, SocketsTypeOK, PeerOrNone, IdOrNone
  <1>4. SocketsTypeOK'
    BY <1>1, <1>3 DEF SocketsTypeOK
  <1>5. (Life /\ Listening /\ References /\ Picked /\ Queues /\ NewestWorks)'
    BY <1>1, SameDatabase DEF OnlyBusy, Drained
  <1>6. Kept' /\ Drains'
    BY <1>1 DEF IInv, Kept, Drains, Held, Calls
  <1>7. (UiOrder /\ LoopOrder /\ ClientOrder /\ AcceptOrder)'
    BY <1>1 DEF IInv, UiOrder, LoopOrder, ClientOrder, AcceptOrder, Held, Drained, Over
  <1>8. Slot' /\ RequestOrder' /\ Owners'
    BY <1>1, <1>2, <1>3 DEF IInv, Slot, RequestOrder, Owners, Held, Drained
  <1> QED
    BY <1>4, <1>5, <1>6, <1>7, <1>8 DEF IInv

\* A request that ends leaves everything as it is.
LEMMA RequestEndsStep ==
  ASSUME IInv, worker.at # "create", RequestEnds,
         UNCHANGED <<socket, idGen, mux, running, sock, ui, app, call, gc>>
  PROVE  IInv'
  <1>1. worker'.at = "idle" /\ SocketsTypeOK'
    BY DEF RequestEnds, AtRest, IInv, SocketsTypeOK, IdOrNone, PeerOrNone
  <1>2. (Life /\ Listening /\ References /\ Picked /\ Queues /\ NewestWorks)'
    BY SameDatabase DEF OnlyBusy, Drained
  <1>3. Kept' /\ Drains'
    BY <1>1 DEF IInv, Kept, Drains, Held, Calls
  <1>4. (UiOrder /\ LoopOrder /\ ClientOrder /\ AcceptOrder)'
    BY DEF IInv, UiOrder, LoopOrder, ClientOrder, AcceptOrder, Held, Drained, Over
  <1>5. Slot' /\ RequestOrder' /\ Owners'
    BY <1>1 DEF IInv, Slot, RequestOrder, Owners, Held, Drained
  <1> QED
    BY <1>1, <1>2, <1>3, <1>4, <1>5 DEF IInv

LEMMA LocateStep ==
  ASSUME IInv, Locate
  PROVE  IInv'
  <1> DEFINE l     == worker.listener
             mine  == OfPeer(worker.peer)
             first == {s \in mine : s = Min(mine)}
             left  == socket[l].queued \ first
  <1>1. /\ SocketsTypeOK /\ Kept /\ worker.at = "locate" /\ idGen > 0
        /\ mux.listener # None /\ l = mux.listener /\ worker.peer # NoPeer
        /\ l \in Ids /\ socket[l].queued \subseteq Ids
        /\ UNCHANGED <<idGen, mux, running, sock, ui, app, call, gc>>
    BY NamedIds DEF Locate, listener, IInv, RequestOrder
  <1>2. CASE RequestEnds /\ UNCHANGED socket
    BY <1>1, <1>2, RequestEndsStep
  <1>3. CASE /\ \A s \in first : socket[s].broken
             /\ socket' = [s \in Ids |->
                  CASE s = l       -> [socket[s] EXCEPT !.queued = left]
                    [] s \in first -> Closed(socket[s])
                    [] OTHER       -> socket[s]]
             /\ worker' = [worker EXCEPT !.at = "create"] \/ RequestEnds
    <2>1. /\ first \subseteq Ids /\ left \subseteq socket[l].queued
          /\ \A s \in first : socket[s].broken /\ socket[s].place = "live"
          /\ \A s \in socket[l].queued : s \in left \/ s \in first
      BY <1>3 DEF OfPeer
    <2>19. l \notin first
      <3>1. Slot /\ Life
        BY DEF IInv
      <3>2. socket[l].peer = NoPeer
        BY <1>1, <3>1 DEF Slot, Life
      <3> QED
        BY <1>1, <3>2 DEF OfPeer
    <2>2. \A s \in Ids : socket[s].place = "live" /\ socket[s].peer = worker.peer
                           => socket[s].broken
      <3>1. mine \in SUBSET Ids /\ (\A s \in mine : socket[s].place = "live" /\ socket[s].peer = worker.peer)
            /\ \A s \in Ids : socket[s].place = "live" /\ socket[s].peer = worker.peer => s \in mine
        BY DEF OfPeer
      <3> SUFFICES ASSUME mine # {} PROVE \A s \in mine : socket[s].broken
        BY <3>1
      <3>2. PICK m \in mine : \A q \in mine : m <= q
        BY <3>1, LeastId
      <3>3. Min(mine) \in mine /\ \A q \in mine : Min(mine) <= q
        BY <3>2 DEF Min
      <3>4. socket[Min(mine)].broken
        BY <1>3, <3>3
      <3> DEFINE k == Min(mine)
      <3> HIDE DEF mine, k
      <3>5. \A s \in mine : s = k \/ k < s
        <4>1. mine \subseteq Nat
          BY <3>1, IdFacts
        <4>2. k \in mine /\ \A q \in mine : k <= q
          BY <3>3 DEF k
        <4> QED
          BY <4>1, <4>2
      <3>6. k \in mine /\ socket[k].broken
        BY <3>3, <3>4 DEF k
      <3> QED
        BY <1>1, <3>1, <3>5, <3>6 DEF IInv, NewestWorks
    <2> HIDE DEF l, left, first
    <2>3. \A q \in Ids : socket[q] \in SocketType
      BY <1>1, NamedIds
    <2>4. /\ socket'[l] = [socket[l] EXCEPT !.queued = left]
          /\ \A q \in first : socket'[q] = Closed(socket[q])
          /\ \A q \in Ids : q # l /\ q \notin first => socket'[q] = socket[q]
      <3>1. ASSUME NEW q \in Ids
            PROVE  socket'[q] = CASE q = l -> [socket[q] EXCEPT !.queued = left]
                                  [] q \in first -> Closed(socket[q])
                                  [] OTHER -> socket[q]
        BY <1>3
      <3>2. socket'[l] = [socket[l] EXCEPT !.queued = left]
        BY <1>1, <2>19, <3>1
      <3>3. ASSUME NEW q \in first PROVE socket'[q] = Closed(socket[q])
        BY <2>1, <2>19, <3>1
      <3>4. ASSUME NEW q \in Ids, q # l, q \notin first PROVE socket'[q] = socket[q]
        BY <3>1, <3>4
      <3> QED
        BY <3>2, <3>3, <3>4
    <2>5. socket' \in [Ids -> SocketType]
      <3>1. left \in SUBSET Ids
        BY <1>1, <2>1
      <3>2. \A q \in Ids : /\ [socket[q] EXCEPT !.queued = left] \in SocketType
                           /\ Closed(socket[q]) \in SocketType
        BY <2>3, <3>1, SocketEdits
      <3>3. \A q \in Ids : socket'[q] \in SocketType
        BY <2>3, <2>4, <3>2
      <3> QED
        BY <1>3, <3>3
    <2>6. \A q \in Ids :
            /\ socket'[q].place = socket[q].place /\ socket'[q].broken = socket[q].broken
            /\ socket'[q].opened = socket[q].opened /\ socket'[q].mux = socket[q].mux
            /\ socket'[q].busy = socket[q].busy /\ socket'[q].onList = socket[q].onList
            /\ socket'[q].from = socket[q].from /\ socket'[q].peer = socket[q].peer
            /\ socket'[q].queued = IF q = l THEN left ELSE socket[q].queued
            /\ socket'[q].old => socket[q].old
            /\ q \notin first => socket'[q].status = socket[q].status /\ socket'[q].old = socket[q].old
            /\ q \in first => socket'[q].status = "CLOSED"
      <3> SUFFICES ASSUME NEW q \in Ids
                   PROVE
            /\ socket'[q].place = socket[q].place /\ socket'[q].broken = socket[q].broken
            /\ socket'[q].opened = socket[q].opened /\ socket'[q].mux = socket[q].mux
            /\ socket'[q].busy = socket[q].busy /\ socket'[q].onList = socket[q].onList
            /\ socket'[q].from = socket[q].from /\ socket'[q].peer = socket[q].peer
            /\ socket'[q].queued = IF q = l THEN left ELSE socket[q].queued
            /\ socket'[q].old => socket[q].old
            /\ q \notin first => socket'[q].status = socket[q].status /\ socket'[q].old = socket[q].old
            /\ q \in first => socket'[q].status = "CLOSED"
        OBVIOUS
      <3>1. CASE q = l
        <4> DEFINE c == [socket[q] EXCEPT !.queued = left]
        <4>1. /\ c.status = socket[q].status /\ c.old = socket[q].old
              /\ c.place = socket[q].place /\ c.broken = socket[q].broken
              /\ c.opened = socket[q].opened /\ c.mux = socket[q].mux
              /\ c.busy = socket[q].busy /\ c.onList = socket[q].onList
              /\ c.from = socket[q].from /\ c.peer = socket[q].peer /\ c.queued = left
          BY <2>3, EditedFields
        <4> HIDE DEF c
        <4>2. socket'[q] = c
          BY <2>4, <3>1 DEF c
        <4> QED
          BY <2>19, <3>1, <4>1, <4>2
      <3>2. CASE q \in first
        BY <2>3, <2>4, <2>19, <3>2, EditedFields
      <3>3. CASE q # l /\ q \notin first
        BY <2>4, <3>3
      <3> QED
        BY <3>1, <3>2, <3>3
    <2>7. /\ worker' \in [at : {"idle", "locate", "create", "respond"},
                          listener : IdOrNone, peer : PeerOrNone, s : IdOrNone]
          /\ worker'.at \in {"idle", "create"}
          /\ worker'.at = "create" => worker'.listener = worker.listener /\ worker'.peer = worker.peer
      BY <1>1, <1>3 DEF RequestEnds, AtRest, SocketsTypeOK, IdOrNone, PeerOrNone
    <2>8. SocketsTypeOK'
      BY <1>1, <2>5, <2>7 DEF SocketsTypeOK
    <2>9. Life'
      <3>1. \A q \in Ids : (socket[q].place = "none" \/ socket[q].place = "deleted")
                              => socket'[q] = socket[q]
        <4>1. Slot
          BY DEF IInv
        <4>2. socket[l].place \notin {"none", "deleted"}
          BY <1>1, <4>1 DEF Slot, Held, l
        <4> QED
          BY <2>1, <2>4, <4>2
      <3> QED
        BY <1>1, <2>1, <2>6, <3>1 DEF IInv, Life
    <2>10. Listening' /\ Drains'
      BY <1>1, <2>1, <2>6, <2>7, NamedIds, CallFacts DEF IInv, Listening, Drained, Drains, l
    <2>11. Kept'
      BY <1>1, <2>6, CallFacts DEF IInv, Kept, Held, Calls
    <2>12. (UiOrder /\ LoopOrder)'
      BY <1>1, <2>1, <2>6, NamedIds DEF IInv, UiOrder, LoopOrder, Over
    <2>13. (ClientOrder /\ AcceptOrder)'
      BY <1>1, <2>1, <2>6, NamedIds DEF IInv, ClientOrder, AcceptOrder, Held, Drained
    <2>14. Slot'
      BY <1>1, <2>6, <2>19, NamedIds DEF IInv, Slot, Held, Drained
    <2>15. RequestOrder'
      BY <1>1, <2>2, <2>6, <2>7 DEF IInv, RequestOrder
    <2>16. References' /\ Picked'
      <3>1. OnMux' = OnMux
        BY <2>6 DEF OnMux
      <3> QED
        BY <1>1, <2>1, <2>6, <3>1, NamedIds DEF IInv, References, Picked
    <2>17. Queues' /\ NewestWorks'
      BY <1>1, <2>1, <2>6, NamedIds DEF IInv, Queues, NewestWorks
    <2>18. Owners'
      BY <1>1, <2>1, <2>6, NamedIds DEF IInv, Owners
    <2> QED
      BY <2>8, <2>9, <2>10, <2>11, <2>12, <2>13, <2>14, <2>15, <2>16, <2>17, <2>18 DEF IInv
  <1>4. \/ RequestEnds /\ UNCHANGED socket
        \/ /\ \A s \in first : socket[s].broken
           /\ socket' = [s \in Ids |->
                  CASE s = l       -> [socket[s] EXCEPT !.queued = left]
                    [] s \in first -> Closed(socket[s])
                    [] OTHER       -> socket[s]]
           /\ worker' = [worker EXCEPT !.at = "create"] \/ RequestEnds
    BY DEF Locate
  <1> QED
    BY <1>2, <1>3, <1>4

LEMMA CreateAcceptedStep ==
  ASSUME IInv, CreateAccepted
  PROVE  IInv'
  <1> DEFINE l == worker.listener
             n == idGen
             r == [NewSocket EXCEPT !.place = "live", !.opened = TRUE, !.mux = mux.id, !.from = l]
  <1>1. /\ SocketsTypeOK /\ Kept /\ worker.at = "create" /\ gc.at # "destroy" /\ idGen > 0
        /\ l = mux.listener /\ mux.listener # None /\ l # None /\ l \in Ids /\ worker.peer # NoPeer
        /\ idGen' = idGen - 1
        /\ UNCHANGED <<running, sock, ui, app, call, gc>>
    BY NamedIds DEF CreateAccepted, GlobFree, listener, IInv, RequestOrder
  <1>2. /\ n \in Ids /\ n # None /\ idGen - 1 \in 0 .. MaxSockets
        /\ socket[n] = NewSocket /\ socket[n].place = "none"
        /\ socket[n].mux = None /\ socket[n].queued = {} /\ socket[n].peer = NoPeer
        /\ \A s \in Ids : (socket[s].place = "none" /\ s # n) <=> s <= idGen'
        /\ \A t \in Threads : call[t].s # n
        /\ app.client # n /\ sock # n /\ mux.listener # n
        /\ n \notin gc.todo /\ (gc.at = "delete" => gc.s # n)
        /\ app.at \in {"accept", "wait"} => app.listener # n
        /\ \A s \in Ids : n \notin socket[s].queued
    BY <1>1, FreshFacts
  <1>3. /\ app.at \notin {"create", "bind", "listen", "failed"}
        /\ \A t \in Threads : call[t].at # "drain"
    <2>1. app.at \notin {"create", "bind", "listen", "failed"}
      BY <1>1, NoSlotYet
    <2>2. ~ Drained(l)
      BY <1>1, DrainFacts DEF CreateAccepted, ConnectionLocked
    <2>3. Drains
      BY DEF IInv
    <2> QED
      BY <1>1, <2>1, <2>2, <2>3 DEF Drains, Drained
  <1>4. /\ mux.id \in Ids /\ mux.id # None
        /\ mux' \in [id : IdOrNone, refs : Int, listener : IdOrNone]
        /\ mux'.id = mux.id /\ mux'.refs = mux.refs + 1 /\ mux'.listener = mux.listener
    <2>1. Slot /\ References
      BY DEF IInv
    <2>2. mux.id # None /\ mux.id \in Ids
      BY <1>1, <2>1, NamedIds DEF References
    <2> QED
      BY <1>1, <2>2 DEF CreateAccepted, SocketsTypeOK
  <1>5. /\ r \in SocketType /\ socket' = [socket EXCEPT ![n] = r]
        /\ r.place = "live" /\ r.status = "INIT" /\ r.mux = mux.id /\ r.from = l /\ r.opened
        /\ r.busy = 0 /\ r.queued = {} /\ ~ r.broken /\ ~ r.old
        /\ ~ r.onList /\ r.peer = NoPeer
    <2>1. mux.id \in IdOrNone /\ l \in IdOrNone
      BY <1>1, <1>4 DEF IdOrNone
    <2>2. r \in SocketType
      BY <2>1, NewSocketType
    <2>3. /\ r.place = "live" /\ r.status = "INIT" /\ r.mux = mux.id /\ r.from = l /\ r.opened
          /\ r.busy = 0 /\ r.queued = {} /\ ~ r.broken /\ ~ r.old
          /\ ~ r.onList /\ r.peer = NoPeer
      BY DEF NewSocket
    <2>4. socket' = [socket EXCEPT ![n] = r]
      BY DEF CreateAccepted
    <2> QED
      BY <2>2, <2>3, <2>4
  <1>6. /\ worker' \in [at : {"idle", "locate", "create", "respond"},
                        listener : IdOrNone, peer : PeerOrNone, s : IdOrNone]
        /\ worker'.at = "respond" /\ worker'.s = n
        /\ worker'.listener = l /\ worker'.peer = worker.peer
    BY <1>1, <1>2 DEF CreateAccepted, SocketsTypeOK, IdOrNone
  <1> HIDE DEF n, r, l
  <1>7. /\ socket' \in [Ids -> SocketType] /\ socket'[n] = r
        /\ \A q \in Ids : q # n => socket'[q] = socket[q]
    BY <1>1, <1>2, <1>5, OneSocket DEF SocketsTypeOK
  <1>8. SocketsTypeOK'
    BY <1>1, <1>2, <1>4, <1>6, <1>7 DEF SocketsTypeOK
  <1>9. Life' /\ Listening'
    BY <1>1, <1>2, <1>4, <1>5, <1>7 DEF IInv, Life, Listening, Drained
  <1>10. Kept' /\ Drains'
    BY <1>1, <1>2, <1>3, <1>5, <1>7, CallFacts DEF IInv, Kept, Drains, Calls, Held
  <1>11. (UiOrder /\ LoopOrder)'
    BY <1>1, <1>2, <1>3, <1>7, NamedIds DEF IInv, UiOrder, LoopOrder, Over
  <1>12. (ClientOrder /\ AcceptOrder)'
    BY <1>1, <1>2, <1>5, <1>7, NamedIds DEF IInv, ClientOrder, AcceptOrder, Held, Drained
  <1>13. Slot'
    BY <1>1, <1>2, <1>4, <1>7, NamedIds DEF IInv, Slot, Held, Drained
  <1>14. RequestOrder'
    <2>1. \A s \in Ids : socket[s].place = "live" => n < s
      <3>1. n = idGen /\ idGen \in Nat
        BY <1>1, IdFacts DEF SocketsTypeOK, n
      <3>2. \A s \in Ids : s \in Nat /\ ~ (s <= n) => n < s
        BY <3>1, IdFacts
      <3>3. \A s \in Ids : socket[s].place = "none" <=> s <= n
        BY <3>1 DEF IInv, Life
      <3> QED
        BY <3>2, <3>3, IdFacts
    <2>2. RequestOrder
      BY DEF IInv
    <2> QED
      BY <1>1, <1>2, <1>4, <1>5, <1>6, <1>7, <2>1, <2>2 DEF RequestOrder, l
  <1>15. References'
    BY <1>1, <1>2, <1>4, <1>5, <1>7, OneMore
  <1>16. Picked'
    BY <1>1, <1>2, <1>7, NamedIds DEF IInv, Picked
  <1>17. Queues' /\ NewestWorks'
    BY <1>1, <1>2, <1>5, <1>7, NamedIds DEF IInv, Queues, NewestWorks
  <1>18. Owners'
    BY <1>1, <1>2, <1>5, <1>7, NamedIds DEF IInv, Owners
  <1> QED
    BY <1>8, <1>9, <1>10, <1>11, <1>12, <1>13, <1>14, <1>15, <1>16, <1>17, <1>18 DEF IInv

\* What is known of the socket that a request has made
LEMMA RespondFacts ==
  ASSUME IInv, worker.at = "respond"
  PROVE  /\ worker.s \in Ids /\ worker.s # None /\ socket[worker.s] \in SocketType
         /\ worker.listener \in Ids /\ mux.listener = worker.listener /\ worker.s # worker.listener
         /\ worker.peer \in PeerOrNone /\ worker.peer # NoPeer
         /\ socket[worker.s].place = "live" /\ socket[worker.s].from = worker.listener
         /\ socket[worker.s].from # None /\ ~ socket[worker.s].broken /\ ~ socket[worker.s].old
         /\ socket[worker.s].peer = NoPeer
         /\ worker.s # app.client /\ worker.s # sock /\ mux.listener # worker.s
         /\ \A l \in Ids : worker.s \notin socket[l].queued
         /\ \A t \in Threads : call[t].s # worker.s
         /\ worker.s \notin gc.todo /\ (gc.at = "delete" => gc.s # worker.s)
         /\ socket[worker.s].status # "LISTENING"
         /\ \A s \in Ids : socket[s].place = "live" /\ socket[s].peer = worker.peer
                             => worker.s < s /\ socket[s].broken
         /\ ~ Drained(worker.s)
  <1>1. SocketsTypeOK /\ Kept /\ RequestOrder /\ Slot /\ Life /\ Listening /\ Picked
    BY DEF IInv
  <1>2. /\ worker.s \in Ids /\ worker.s # None /\ socket[worker.s] \in SocketType
        /\ worker.listener \in Ids /\ worker.listener # None /\ mux.listener = worker.listener
        /\ worker.peer \in PeerOrNone /\ worker.peer # NoPeer
    BY <1>1, NamedIds DEF RequestOrder, SocketsTypeOK
  <1>3. /\ socket[worker.s].place = "live" /\ socket[worker.s].from = worker.listener
        /\ ~ socket[worker.s].broken /\ socket[worker.s].peer = NoPeer
        /\ worker.s # app.client /\ worker.s # sock
        /\ \A l \in Ids : worker.s \notin socket[l].queued
        /\ \A s \in Ids : socket[s].place = "live" /\ socket[s].peer = worker.peer
                            => worker.s < s /\ socket[s].broken
    BY <1>1 DEF RequestOrder
  <1>4. worker.s # worker.listener /\ mux.listener # worker.s
    BY <1>1, <1>2, <1>3 DEF Slot
  <1>5. ~ socket[worker.s].old /\ socket[worker.s].status # "LISTENING"
    BY <1>1, <1>2, <1>3 DEF Life, Listening
  <1>6. \A t \in Threads : call[t].s # worker.s
    <2>1. ASSUME NEW t \in Threads, call[t].at # "idle" PROVE call[t].s # worker.s
      BY <2>1, CloseFacts
    <2> QED
      BY <1>1, <1>2, <2>1, CallFacts
  <1>7. worker.s \notin gc.todo /\ (gc.at = "delete" => gc.s # worker.s)
    BY <1>1, <1>3 DEF Picked
  <1>8. ~ Drained(worker.s)
    BY <1>6 DEF Drained
  <1> QED
    BY <1>2, <1>3, <1>4, <1>5, <1>6, <1>7, <1>8

LEMMA RespondStep ==
  ASSUME IInv, Respond
  PROVE  IInv'
  <1> DEFINE l == worker.listener
             u == worker.s
             r == [socket[u] EXCEPT !.connected = TRUE, !.onList = TRUE,
                                    !.status = "CONNECTED", !.peer = worker.peer]
             k == [socket[l] EXCEPT !.queued = @ \cup {u}]
  <1>1. /\ SocketsTypeOK /\ Kept /\ worker.at = "respond"
        /\ UNCHANGED <<idGen, mux, running, sock, ui, call, gc>>
    BY DEF Respond, IInv
  <1>2. /\ u \in Ids /\ u # None /\ socket[u] \in SocketType /\ u # l
        /\ l \in Ids /\ mux.listener = l /\ socket[l] \in SocketType
        /\ worker.peer \in PeerOrNone /\ worker.peer # NoPeer
        /\ socket[u].place = "live" /\ socket[u].from = l /\ l # None
        /\ ~ socket[u].broken /\ ~ socket[u].old /\ socket[u].status # "LISTENING"
        /\ u # app.client /\ u # sock
        /\ \A q \in Ids : u \notin socket[q].queued
        /\ \A t \in Threads : call[t].s # u
        /\ u \notin gc.todo /\ (gc.at = "delete" => gc.s # u)
        /\ \A s \in Ids : socket[s].place = "live" /\ socket[s].peer = worker.peer
                            => u < s /\ socket[s].broken
        /\ ~ Drained(u)
    BY <1>1, RespondFacts, NamedIds, IdFacts
  <1>3. socket' = [socket EXCEPT ![u] = r, ![l] = k]
    BY <1>1, <1>2 DEF Respond, SocketsTypeOK
  <1>4. /\ r \in SocketType /\ r.place = "live" /\ r.status = "CONNECTED" /\ r.onList
        /\ r.peer = worker.peer
        /\ r.broken = socket[u].broken /\ r.opened = socket[u].opened /\ r.mux = socket[u].mux
        /\ r.busy = socket[u].busy /\ r.old = socket[u].old /\ r.from = socket[u].from
        /\ r.queued = socket[u].queued
    BY <1>2 DEF SocketType
  <1>5. /\ k \in SocketType /\ k.place = socket[l].place /\ k.status = socket[l].status
        /\ k.broken = socket[l].broken /\ k.opened = socket[l].opened /\ k.mux = socket[l].mux
        /\ k.busy = socket[l].busy /\ k.old = socket[l].old /\ k.from = socket[l].from
        /\ k.onList = socket[l].onList /\ k.peer = socket[l].peer
        /\ k.queued = socket[l].queued \cup {u}
    <2>1. socket[l].queued \cup {u} \in SUBSET Ids
      BY <1>2, FieldTypes
    <2> DEFINE n == socket[l].queued \cup {u}
    <2>2. k = [socket[l] EXCEPT !.queued = n]
      OBVIOUS
    <2> HIDE DEF n, k
    <2>3. k \in SocketType
      BY <1>2, <2>1, <2>2, SocketEdits DEF n
    <2>4. /\ k.place = socket[l].place /\ k.status = socket[l].status
          /\ k.broken = socket[l].broken /\ k.opened = socket[l].opened /\ k.mux = socket[l].mux
          /\ k.busy = socket[l].busy /\ k.old = socket[l].old /\ k.from = socket[l].from
          /\ k.onList = socket[l].onList /\ k.peer = socket[l].peer
          /\ k.queued = n
      BY <1>2, <2>2 DEF SocketType
    <2> QED
      BY <2>3, <2>4 DEF n
  <1>6. /\ app' \in [at : {"none", "create", "bind", "listen", "failed", "test", "accept",
                           "wait", "return", "recv", "closing"},
                     listener : IdOrNone, client : IdOrNone]
        /\ app'.client = app.client /\ app'.listener = app.listener
        /\ app'.at = IF app.at = "wait" /\ app.listener = l THEN "accept" ELSE app.at
    BY <1>1 DEF Respond, Wakes, SocketsTypeOK
  <1>7. /\ worker' \in [at : {"idle", "locate", "create", "respond"},
                        listener : IdOrNone, peer : PeerOrNone, s : IdOrNone]
        /\ worker'.at = "idle"
    BY DEF Respond, RequestEnds, AtRest, IdOrNone, PeerOrNone
  <1> HIDE DEF r, k, u, l
  <1>8. /\ socket' \in [Ids -> SocketType] /\ socket'[u] = r /\ socket'[l] = k
        /\ \A q \in Ids : q # u /\ q # l => socket'[q] = socket[q]
    BY <1>1, <1>2, <1>3, <1>4, <1>5 DEF SocketsTypeOK
  <1>9. \A q \in Ids :
          /\ socket'[q].place = socket[q].place /\ socket'[q].broken = socket[q].broken
          /\ socket'[q].opened = socket[q].opened /\ socket'[q].mux = socket[q].mux
          /\ socket'[q].busy = socket[q].busy /\ socket'[q].old = socket[q].old
          /\ socket'[q].from = socket[q].from
          /\ q = u => socket'[q].status = "CONNECTED" /\ socket'[q].peer = worker.peer
          /\ q # u => /\ socket'[q].status = socket[q].status
                      /\ socket'[q].peer = socket[q].peer
                      /\ socket'[q].onList = socket[q].onList
          /\ q = l => socket'[q].queued = socket[q].queued \cup {u}
          /\ q # l => socket'[q].queued = socket[q].queued
    <2> SUFFICES ASSUME NEW q \in Ids
                 PROVE
          /\ socket'[q].place = socket[q].place /\ socket'[q].broken = socket[q].broken
          /\ socket'[q].opened = socket[q].opened /\ socket'[q].mux = socket[q].mux
          /\ socket'[q].busy = socket[q].busy /\ socket'[q].old = socket[q].old
          /\ socket'[q].from = socket[q].from
          /\ q = u => socket'[q].status = "CONNECTED" /\ socket'[q].peer = worker.peer
          /\ q # u => /\ socket'[q].status = socket[q].status
                      /\ socket'[q].peer = socket[q].peer
                      /\ socket'[q].onList = socket[q].onList
          /\ q = l => socket'[q].queued = socket[q].queued \cup {u}
          /\ q # l => socket'[q].queued = socket[q].queued
      OBVIOUS
    <2>1. CASE q = u
      BY <1>2, <1>4, <1>8, <2>1
    <2>2. CASE q = l
      BY <1>2, <1>5, <1>8, <2>2
    <2>3. CASE q # u /\ q # l
      BY <1>8, <2>3
    <2> QED
      BY <2>1, <2>2, <2>3
  <1>10. SocketsTypeOK'
    BY <1>1, <1>6, <1>7, <1>8 DEF SocketsTypeOK
  <1>11. Life'
    <2>1. socket[l].place # "none" /\ socket[l].place # "deleted"
      BY <1>2 DEF IInv, Slot, Held
    <2> QED
      BY <1>1, <1>2, <1>8, <1>9, <2>1 DEF IInv, Life
  <1>12. Listening' /\ Drains'
    <2>1. Drains /\ \A t \in Threads : call[t].at = "drain" => ~ socket[call[t].s].old
      BY <1>1 DEF IInv, Drains
    <2> QED
      BY <1>1, <1>2, <1>6, <1>9, <2>1, CallFacts DEF IInv, Listening, Drains, Drained
  <1>13. Kept'
    BY <1>1, <1>2, <1>6, <1>9, CallFacts DEF IInv, Kept, Calls, Held
  <1>14. (UiOrder /\ LoopOrder)'
    BY <1>1, <1>2, <1>6, <1>9, NamedIds DEF IInv, UiOrder, LoopOrder, Over
  <1>15. (ClientOrder /\ AcceptOrder)'
    BY <1>1, <1>2, <1>6, <1>9, NamedIds DEF IInv, ClientOrder, AcceptOrder, Held, Drained
  <1>16. Slot' /\ RequestOrder'
    BY <1>1, <1>2, <1>6, <1>7, <1>9, NamedIds DEF IInv, Slot, RequestOrder, Held, Drained
  <1>17. References' /\ Picked'
    <2>1. OnMux' = OnMux
      BY <1>9 DEF OnMux
    <2> QED
      BY <1>1, <1>2, <1>9, <2>1, NamedIds DEF IInv, References, Picked
  <1>18. Queues'
    <2>1. socket[l].place # "erased"
      BY <1>2 DEF IInv, Slot, Held
    <2>2. \A q \in Ids : u # q \/ socket[q].place = "live"
      BY <1>2
    <2> QED
      BY <1>1, <1>2, <1>9, <2>1, <2>2, NamedIds DEF IInv, Queues
  <1>19. NewestWorks'
    <2>1. \A i, j \in Nat : i < j => ~ (j < i)
      OBVIOUS
    <2> QED
      BY <1>1, <1>2, <1>9, <2>1, IdFacts DEF IInv, NewestWorks
  <1>20. Owners'
    BY <1>1, <1>2, <1>6, <1>9, NamedIds DEF IInv, Owners
  <1> QED
    BY <1>10, <1>11, <1>12, <1>13, <1>14, <1>15, <1>16, <1>17, <1>18, <1>19, <1>20 DEF IInv

LEMMA RespondFailsStep ==
  ASSUME IInv, RespondFails
  PROVE  IInv'
  <1> DEFINE u == worker.s
  <1>1. /\ SocketsTypeOK /\ Kept /\ worker.at = "respond"
        /\ UNCHANGED <<idGen, mux, running, sock, ui, app, call, gc>>
    BY DEF RespondFails, listener, IInv
  <1>2. /\ u \in Ids /\ u # None /\ socket[u] \in SocketType
        /\ socket[u].place = "live" /\ socket[u].from # None /\ mux.listener # u
        /\ u # app.client /\ u # sock
        /\ socket[u].status # "LISTENING"
        /\ \A q \in Ids : u \notin socket[q].queued
        /\ \A t \in Threads : call[t].s # u
        /\ u \notin gc.todo /\ (gc.at = "delete" => gc.s # u)
        /\ ~ Drained(u)
    BY <1>1, RespondFacts
  <1>3. PICK on \in BOOLEAN :
          socket' = [socket EXCEPT ![u] =
            [Closed(Shut([@ EXCEPT !.connected = on, !.onList = on])) EXCEPT !.place = "closed"]]
    BY DEF RespondFails
  <1> DEFINE c == [socket[u] EXCEPT !.connected = on, !.onList = on]
             d == Shut(c)
             r == [Closed(d) EXCEPT !.place = "closed"]
  <1>4. /\ r \in SocketType /\ r.place = "closed" /\ r.status = "CLOSED" /\ ~ r.old
        /\ r.broken = socket[u].broken /\ r.mux = socket[u].mux /\ r.busy = socket[u].busy
        /\ r.from = socket[u].from /\ r.peer = socket[u].peer /\ r.queued = socket[u].queued
    <2>1. /\ c \in SocketType /\ c.broken = socket[u].broken /\ c.mux = socket[u].mux
          /\ c.busy = socket[u].busy /\ c.from = socket[u].from /\ c.peer = socket[u].peer
          /\ c.queued = socket[u].queued
      BY <1>2 DEF SocketType
    <2> HIDE DEF c
    <2>2. /\ d \in SocketType /\ d.broken = c.broken /\ d.mux = c.mux /\ d.busy = c.busy
          /\ d.from = c.from /\ d.peer = c.peer /\ d.queued = c.queued
      BY <2>1 DEF SocketType, Shut
    <2> HIDE DEF d
    <2>3. /\ r \in SocketType /\ r.place = "closed" /\ r.status = "CLOSED" /\ ~ r.old
          /\ r.broken = d.broken /\ r.mux = d.mux /\ r.busy = d.busy
          /\ r.from = d.from /\ r.peer = d.peer /\ r.queued = d.queued
      BY <2>2 DEF SocketType, Closed
    <2> HIDE DEF r
    <2> QED
      BY <2>1, <2>2, <2>3
  <1>5. socket' = [socket EXCEPT ![u] = r]
    BY <1>3
  <1>6. /\ worker' \in [at : {"idle", "locate", "create", "respond"},
                        listener : IdOrNone, peer : PeerOrNone, s : IdOrNone]
        /\ worker'.at = "idle"
    BY DEF RespondFails, RequestEnds, AtRest, IdOrNone, PeerOrNone
  <1> HIDE DEF r, u
  <1>7. /\ socket' \in [Ids -> SocketType] /\ socket'[u] = r
        /\ \A q \in Ids : q # u => socket'[q] = socket[q]
    BY <1>1, <1>2, <1>4, <1>5, OneSocket DEF SocketsTypeOK
  <1>8. SocketsTypeOK'
    BY <1>1, <1>6, <1>7 DEF SocketsTypeOK
  <1>9. Life' /\ Listening'
    BY <1>1, <1>2, <1>4, <1>7 DEF IInv, Life, Listening, Drained
  <1>10. Kept' /\ Drains'
    <2>1. Drains /\ \A t \in Threads : call[t].at = "drain" => ~ socket[call[t].s].old
      BY <1>1 DEF IInv, Drains
    <2> QED
      BY <1>1, <1>2, <1>4, <1>7, <2>1, CallFacts DEF IInv, Kept, Drains, Calls, Held
  <1>11. (UiOrder /\ LoopOrder)'
    BY <1>1, <1>2, <1>4, <1>7, NamedIds DEF IInv, UiOrder, LoopOrder, Over
  <1>12. (ClientOrder /\ AcceptOrder)'
    BY <1>1, <1>2, <1>4, <1>7, NamedIds DEF IInv, ClientOrder, AcceptOrder, Held, Drained
  <1>13. Slot' /\ RequestOrder'
    BY <1>1, <1>2, <1>6, <1>7, NamedIds DEF IInv, Slot, RequestOrder, Held, Drained
  <1>14. References' /\ Picked'
    <2>1. OnMux' = OnMux
      BY <1>2, <1>4, <1>7 DEF OnMux
    <2> QED
      BY <1>1, <1>2, <1>4, <1>7, <2>1, NamedIds DEF IInv, References, Picked
  <1>15. Queues' /\ NewestWorks'
    BY <1>1, <1>2, <1>4, <1>7, NamedIds DEF IInv, Queues, NewestWorks
  <1>16. Owners'
    BY <1>1, <1>2, <1>4, <1>7, NamedIds DEF IInv, Owners
  <1> QED
    BY <1>8, <1>9, <1>10, <1>11, <1>12, <1>13, <1>14, <1>15, <1>16 DEF IInv

\* A connection breaks.
LEMMA PeerGoneStep ==
  ASSUME IInv, NEW u \in Ids, PeerGone(u)
  PROVE  IInv'
  <1> DEFINE r == [socket[u] EXCEPT !.closing = TRUE, !.broken = TRUE]
  <1>1. /\ SocketsTypeOK /\ Kept /\ worker.at = "idle" /\ socket[u] \in SocketType
        /\ socket[u].onList /\ ~ socket[u].broken
        /\ UNCHANGED <<idGen, mux, running, sock, ui, app, call, worker, gc>>
    BY NamedIds DEF PeerGone, listener, IInv
  <1>2. /\ socket[u].from # None /\ socket[u].status # "LISTENING"
        /\ socket[u].place # "none" /\ socket[u].place # "deleted"
    BY <1>1 DEF IInv, Life, Listening, NewSocket
  <1>3. /\ r \in SocketType /\ r.broken /\ r.place = socket[u].place
        /\ r.status = socket[u].status /\ r.opened = socket[u].opened
        /\ r.mux = socket[u].mux /\ r.busy = socket[u].busy /\ r.old = socket[u].old
        /\ r.onList = socket[u].onList /\ r.from = socket[u].from /\ r.peer = socket[u].peer
        /\ r.queued = socket[u].queued
    BY <1>1 DEF SocketType
  <1>4. socket' = [socket EXCEPT ![u] = r]
    BY <1>1, TwoFields DEF PeerGone, SocketsTypeOK
  <1> HIDE DEF r
  <1>5. /\ socket' \in [Ids -> SocketType] /\ socket'[u] = r
        /\ \A q \in Ids : q # u => socket'[q] = socket[q]
    BY <1>1, <1>3, <1>4, OneSocket DEF SocketsTypeOK
  <1>6. SocketsTypeOK'
    BY <1>1, <1>5 DEF SocketsTypeOK
  <1>7. Life' /\ Listening'
    BY <1>1, <1>2, <1>3, <1>5 DEF IInv, Life, Listening, Drained
  <1>8. Kept' /\ Drains'
    BY <1>1, <1>3, <1>5, CallFacts DEF IInv, Kept, Drains, Calls, Held
  <1>9. (UiOrder /\ LoopOrder)'
    BY <1>1, <1>3, <1>5, NamedIds DEF IInv, UiOrder, LoopOrder, Over
  <1>10. (ClientOrder /\ AcceptOrder)'
    BY <1>1, <1>2, <1>3, <1>5, NamedIds DEF IInv, ClientOrder, AcceptOrder, Held, Drained
  <1>11. Slot' /\ RequestOrder'
    BY <1>1, <1>3, <1>5, NamedIds DEF IInv, Slot, RequestOrder, Held, Drained
  <1>12. References' /\ Picked'
    <2>1. OnMux' = OnMux
      BY <1>3, <1>5 DEF OnMux
    <2> QED
      BY <1>1, <1>3, <1>5, <2>1, NamedIds DEF IInv, References, Picked
  <1>13. Queues' /\ NewestWorks'
    BY <1>1, <1>3, <1>5, NamedIds DEF IInv, Queues, NewestWorks
  <1>14. Owners'
    BY <1>1, <1>3, <1>5, NamedIds DEF IInv, Owners
  <1> QED
    BY <1>6, <1>7, <1>8, <1>9, <1>10, <1>11, <1>12, <1>13, <1>14 DEF IInv

LEMMA RemoveDeadStep ==
  ASSUME IInv, RemoveDead
  PROVE  IInv'
  <1>1. /\ SocketsTypeOK /\ Kept
        /\ UNCHANGED <<idGen, mux, running, sock, ui, app, call, worker, gc>>
        /\ \A q \in Ids : socket[q] \in SocketType
    BY NamedIds DEF RemoveDead, listener, IInv
  <1>2. \A q \in Ids : socket'[q] = IF q \in OffList THEN [socket[q] EXCEPT !.onList = FALSE]
                                                     ELSE socket[q]
    BY DEF RemoveDead
  <1>3. \A q \in Ids : [socket[q] EXCEPT !.onList = FALSE] \in SocketType
    BY <1>1, SocketEdits
  <1>4. socket' \in [Ids -> SocketType]
    <2>1. \A q \in Ids : socket'[q] \in SocketType
      BY <1>1, <1>2, <1>3
    <2> QED
      BY <2>1 DEF RemoveDead
  <1>5. \A q \in Ids :
          /\ socket'[q].place = socket[q].place /\ socket'[q].status = socket[q].status
          /\ socket'[q].opened = socket[q].opened /\ socket'[q].broken = socket[q].broken
          /\ socket'[q].mux = socket[q].mux /\ socket'[q].busy = socket[q].busy
          /\ socket'[q].old = socket[q].old /\ socket'[q].from = socket[q].from
          /\ socket'[q].peer = socket[q].peer /\ socket'[q].queued = socket[q].queued
          /\ socket'[q].onList => socket[q].onList
          /\ socket[q].onList \/ socket'[q] = socket[q]
    <2>1. \A q \in Ids : LET c == [socket[q] EXCEPT !.onList = FALSE] IN
          /\ c.place = socket[q].place /\ c.status = socket[q].status
          /\ c.opened = socket[q].opened /\ c.broken = socket[q].broken
          /\ c.mux = socket[q].mux /\ c.busy = socket[q].busy
          /\ c.old = socket[q].old /\ c.from = socket[q].from
          /\ c.peer = socket[q].peer /\ c.queued = socket[q].queued
          /\ ~ c.onList
      BY <1>1 DEF SocketType
    <2>2. \A q \in OffList : socket[q].onList
      BY DEF OffList
    <2> QED
      BY <1>2, <2>1, <2>2
  <1>6. SocketsTypeOK'
    BY <1>1, <1>4 DEF SocketsTypeOK
  <1>7. Life' /\ Listening'
    <2>1. \A q \in Ids : socket[q].place \in {"none", "deleted"} => ~ socket[q].onList
      BY DEF IInv, Life, NewSocket
    <2> QED
      BY <1>1, <1>5, <2>1 DEF IInv, Life, Listening, Drained
  <1>8. Kept' /\ Drains'
    BY <1>1, <1>5, CallFacts DEF IInv, Kept, Drains, Calls, Held
  <1>9. (UiOrder /\ LoopOrder)'
    BY <1>1, <1>5, NamedIds DEF IInv, UiOrder, LoopOrder, Over
  <1>10. (ClientOrder /\ AcceptOrder)'
    BY <1>1, <1>5, NamedIds DEF IInv, ClientOrder, AcceptOrder, Held, Drained
  <1>11. Slot' /\ RequestOrder'
    BY <1>1, <1>5, NamedIds DEF IInv, Slot, RequestOrder, Held, Drained
  <1>12. References' /\ Picked'
    <2>1. OnMux' = OnMux
      BY <1>5 DEF OnMux
    <2> QED
      BY <1>1, <1>5, <2>1, NamedIds DEF IInv, References, Picked
  <1>13. Queues' /\ NewestWorks'
    BY <1>1, <1>5, NamedIds DEF IInv, Queues, NewestWorks
  <1>14. Owners'
    BY <1>1, <1>5, NamedIds DEF IInv, Owners
  <1> QED
    BY <1>6, <1>7, <1>8, <1>9, <1>10, <1>11, <1>12, <1>13, <1>14 DEF IInv

-----------------------------------------------------------------------------
(* The garbage collector *)

\* What a step of the collector may do, whatever it was on its way to: it
\* retires the sockets of R, deletes d, and erases e with the sockets B that
\* are queued on it.
Collected(R, B, d, e) ==
  /\ R \subseteq Ids /\ B \subseteq Ids /\ d \in IdOrNone /\ e \in IdOrNone
  /\ UNCHANGED <<idGen, running, sock, ui, app, call, worker>>
  /\ mux'.listener = mux.listener
  /\ \A q \in R : socket[q].place = "live" /\ socket[q].broken
  /\ \A q \in B : /\ e # None /\ q \in socket[e].queued
                  /\ socket[q].place = "live" /\ q \notin R
  /\ e # None =>
       /\ socket[e].place = "closed" /\ socket[e].old /\ socket[e].busy = 0
       /\ socket'[e].place = "erased" /\ socket'[e].peer = NoPeer
       /\ gc'.at = "delete" /\ gc'.s = e
       /\ \A q \in socket[e].queued : socket[q].place = "live" => q \in R \/ q \in B
  /\ d # None =>
       /\ socket[d].place = "erased" /\ ~ (app.at = "recv" /\ app.client = d)
       /\ socket'[d] = [NewSocket EXCEPT !.place = "deleted"]
  /\ \A q \in Ids :
       /\ socket[q].place = "erased" => q = d
       /\ socket[q].place = "none" \/ socket[q].place = "deleted" => socket'[q] = socket[q]
       /\ q # d =>
            /\ socket'[q].mux = socket[q].mux /\ socket'[q].busy = socket[q].busy
            /\ socket'[q].onList = socket[q].onList /\ socket'[q].from = socket[q].from
            /\ socket'[q].queued = socket[q].queued \ {x \in R : socket[x].from = q}
            /\ q # e => socket'[q].peer = socket[q].peer
            /\ q \in R \/ q \in B =>
                 socket'[q].place = "closed" /\ socket'[q].status = "CLOSED" /\ ~ socket'[q].old
            /\ q \notin B =>
                 socket'[q].broken = socket[q].broken /\ socket'[q].opened = socket[q].opened
            /\ q \notin R /\ q \notin B =>
                 socket'[q].status = socket[q].status /\ socket'[q].old = socket[q].old
            /\ q \notin R /\ q \notin B /\ q # e => socket'[q].place = socket[q].place

LEMMA CollectedKeeps ==
  ASSUME IInv, NEW R, NEW B, NEW d, NEW e, Collected(R, B, d, e)
  PROVE  /\ Life' /\ Listening' /\ Kept' /\ Drains' /\ UiOrder' /\ LoopOrder' /\ ClientOrder'
         /\ AcceptOrder' /\ Slot' /\ RequestOrder' /\ Queues' /\ Owners' /\ NewestWorks'
         /\ \A q \in Ids : socket[q].place = "closed" /\ socket[q].old /\ q # e
                             => socket'[q].place = "closed" /\ socket'[q].old
  <1> USE DEF Collected
  <1>1. /\ SocketsTypeOK /\ Kept
        /\ (d # None => d \in Ids) /\ (e # None => e \in Ids) /\ None \notin Ids
        /\ \A q \in R : q \in Ids
        /\ \A q \in B : q \in Ids
    BY IdFacts DEF IInv, IdOrNone
  <1>2. d # None =>
          /\ socket'[d].place = "deleted" /\ socket'[d].status = "INIT" /\ ~ socket'[d].broken
          /\ ~ socket'[d].opened /\ ~ socket'[d].old /\ ~ socket'[d].onList
          /\ socket'[d].mux = None /\ socket'[d].busy = 0 /\ socket'[d].from = None
          /\ socket'[d].peer = NoPeer /\ socket'[d].queued = {}
    BY DEF NewSocket
  <1>3. \A t \in Threads : call[t].s # None => call[t].s # d /\ call[t].s # e
    <2>1. e # None => \A t \in Threads : call[t].s # e
      <3>1. e # None => 0 = Calls("ui", e) + Calls("app", e)
        BY <1>1 DEF Kept
      <3>2. Calls("ui", e) \in {0, 1} /\ Calls("app", e) \in {0, 1}
        BY DEF Calls
      <3>3. e # None => Calls("ui", e) = 0 /\ Calls("app", e) = 0
        BY <3>1, <3>2
      <3> QED
        BY <1>1, <3>3, CallFacts DEF Calls
    <2>2. d # None => \A t \in Threads : call[t].s # d
      BY <1>1, CallFacts DEF Held
    <2> QED
      BY <2>1, <2>2
  <1>4. \A q : Drained(q) => q \in Ids /\ q # d /\ q # e
    BY <1>1, <1>3, CallFacts DEF Drained
  <1>5. \A q \in B : socket[q].from = e /\ e \in Ids
    BY <1>1 DEF IInv, Queues
  <1>6. \A l \in Ids : d \notin socket[l].queued
    <2>1. \A l \in Ids : \A q \in socket[l].queued : q \in Ids /\ socket[q].place # "erased"
      BY <1>1, NamedIds DEF IInv, Queues
    <2> QED
      BY <1>1, <2>1
  <1>7. Life'
    BY <1>1, <1>2, <1>5 DEF IInv, Life
  <1>8. Listening' /\ Drains'
    <2>1. Listening /\ Drains
      BY DEF IInv
    <2>2. Listening'
      BY <1>1, <1>2, <1>4, <2>1 DEF Listening, Life, Drained
    <2>3. Drains'
      BY <1>1, <1>2, <1>3, <2>1, CallFacts DEF Drains
    <2> QED
      BY <2>2, <2>3
  <1>9. Kept'
    <2>1. \A q \in Ids : socket'[q].busy = Calls("ui", q)' + Calls("app", q)'
      <3>1. d # None => Calls("ui", d) = 0 /\ Calls("app", d) = 0
        BY <1>1, <1>3, CallFacts DEF Calls
      <3>2. \A q \in Ids : Calls("ui", q)' = Calls("ui", q) /\ Calls("app", q)' = Calls("app", q)
        BY DEF Calls
      <3> QED
        BY <1>1, <1>2, <3>1, <3>2 DEF Kept
    <2>2. \A t \in Threads : call[t].s # None =>
            /\ call[t].s \in Ids /\ Held(call[t].s)'
            /\ socket'[call[t].s].from = socket[call[t].s].from
      BY <1>1, <1>3, CallFacts DEF Held
    <2> QED
      BY <1>1, <2>1, <2>2, CallFacts DEF Kept
  <1>10. (UiOrder /\ LoopOrder)'
    <2>1. sock # None => sock \in Ids
      BY <1>1, NamedIds
    <2>2. sock # None /\ Over(sock) => Over(sock)'
      BY <1>1, <1>2, <2>1 DEF Over
    <2> QED
      BY <1>1, <1>2, <2>1, <2>2 DEF IInv, UiOrder, LoopOrder
  <1>11. ClientOrder'
    <2>1. app.client # None => app.client \in Ids /\ app.client \notin B
      BY <1>1, <1>5, NamedIds DEF IInv, ClientOrder
    <2>2. \A l \in Ids : socket'[l].queued \subseteq socket[l].queued
      BY <1>1, <1>2
    <2> QED
      BY <1>1, <1>2, <2>1, <2>2 DEF IInv, ClientOrder
  <1>12. AcceptOrder'
    <2>1. AcceptOrder /\ Listening
      BY DEF IInv
    <2>2. app.at \in {"accept", "wait"} => /\ app.listener \in Ids /\ app.listener # d
                                           /\ app.listener # e
      BY <1>1, <1>4, <2>1, NamedIds DEF AcceptOrder, Held
    <2> QED
      BY <1>1, <1>5, <2>1, <2>2 DEF AcceptOrder, Held, Listening, Drained
  <1>13. Slot'
    <2>1. Slot /\ Listening /\ Life
      BY DEF IInv
    <2>2. mux.listener # None => /\ mux.listener \in Ids /\ mux.listener # d
                                 /\ mux.listener # e /\ mux.listener \notin B
      BY <1>1, <1>4, <1>5, <2>1, NamedIds DEF Slot, Held, Life
    <2>3. mux.listener # None =>
            /\ Held(mux.listener)' /\ socket'[mux.listener].mux # None
            /\ socket'[mux.listener].from = None
      BY <2>1, <2>2 DEF Slot, Held
    <2>4. mux.listener # None =>
            socket'[mux.listener].status = "LISTENING" \/ Drained(mux.listener)'
      BY <2>1, <2>2 DEF Slot, Listening, Drained
    <2> QED
      BY <2>1, <2>3, <2>4 DEF Slot
  <1>14. RequestOrder'
    <2>1. worker.at = "respond" => /\ worker.s \in Ids /\ worker.s # d /\ worker.s # e
                                   /\ worker.s \notin R /\ worker.s \notin B
      BY <1>1, RespondFacts
    <2>2. \A l \in Ids : socket'[l].queued \subseteq socket[l].queued
      BY <1>1, <1>2
    <2>3. \A s \in Ids : socket'[s].place = "live" =>
            /\ socket[s].place = "live" /\ socket'[s].peer = socket[s].peer
            /\ socket'[s].broken = socket[s].broken
      BY <1>1, <1>2
    <2> QED
      BY <1>1, <2>1, <2>2, <2>3 DEF IInv, RequestOrder
  <1>15. Queues'
    <2>1. ASSUME NEW l \in Ids, NEW q \in socket'[l].queued
          PROVE  /\ socket'[q].from = l
                 /\ socket'[q].place = IF socket'[l].place = "erased" THEN "closed" ELSE "live"
      <3>1. l # d /\ q \in socket[l].queued /\ ~ (q \in R /\ socket[q].from = l)
        BY <1>1, <1>2, <2>1
      <3>2. q \in Ids /\ q # d
        BY <1>1, <1>6, <3>1, NamedIds
      <3>3. /\ socket[q].from = l /\ q \notin R
            /\ socket[l].place # "erased" /\ socket[q].place = "live"
        BY <3>1, <3>2 DEF IInv, Queues
      <3>4. q # e
        BY <1>1, <3>2, <3>3
      <3>5. CASE l = e
        BY <1>1, <3>1, <3>2, <3>3, <3>4, <3>5
      <3>6. CASE l # e
        <4>1. q \notin B
          BY <1>5, <3>3, <3>6
        <4>2. socket'[l].place # "erased"
          BY <1>1, <3>1, <3>3, <3>6
        <4> QED
          BY <3>2, <3>3, <3>4, <4>1, <4>2
      <3> QED
        BY <3>5, <3>6
    <2> QED
      BY <2>1 DEF Queues
  <1>16. Owners'
    <2>1. ASSUME NEW s \in Ids, socket'[s].place = "live", socket'[s].status = "CONNECTED",
                 ~ socket'[s].broken
          PROVE  app.client = s \/ (socket'[s].from # None /\ s \in socket'[socket'[s].from].queued)
      <3>1. s # d /\ s # e /\ s \notin R /\ s \notin B
        BY <1>1, <1>2, <2>1
      <3>2. /\ socket[s].place = "live" /\ socket[s].status = "CONNECTED" /\ ~ socket[s].broken
            /\ socket'[s].from = socket[s].from
        BY <2>1, <3>1
      <3>3. app.client = s \/ (socket[s].from # None /\ s \in socket[socket[s].from].queued)
        BY <3>2 DEF IInv, Owners
      <3>4. ASSUME socket[s].from # None, s \in socket[socket[s].from].queued
            PROVE  s \in socket'[socket[s].from].queued
        <4>1. socket[s].from \in Ids
          BY <1>1, <3>4, NamedIds
        <4>2. socket[socket[s].from].place # "erased"
          BY <3>2, <3>4, <4>1 DEF IInv, Queues
        <4>3. socket[s].from # d
          BY <4>1, <4>2, <1>1
        <4> QED
          BY <3>1, <3>4, <4>1, <4>3
      <3> QED
        BY <3>2, <3>3, <3>4
    <2> QED
      BY <2>1 DEF Owners
  <1>17. NewestWorks'
    <2>1. \A s \in Ids : socket'[s].place = "live" =>
            /\ socket[s].place = "live" /\ socket'[s].peer = socket[s].peer
            /\ socket'[s].broken = socket[s].broken
      BY <1>1, <1>2
    <2> QED
      BY <2>1 DEF IInv, NewestWorks
  <1>18. \A q \in Ids : socket[q].place = "closed" /\ socket[q].old /\ q # e
                          => socket'[q].place = "closed" /\ socket'[q].old
    BY <1>1
  <1> QED
    BY <1>7, <1>8, <1>9, <1>10, <1>11, <1>12, <1>13, <1>14, <1>15, <1>16, <1>17, <1>18

\* The sockets db as the collector leaves them before it goes on to the next of
\* its list: those of R are retired, and d is deleted.
Prepared(db, R, d) ==
  /\ db \in [Ids -> SocketType] /\ R \subseteq Ids /\ d \in IdOrNone
  /\ UNCHANGED <<idGen, running, sock, ui, app, call, worker>>
  /\ mux'.listener = mux.listener
  /\ \A q \in R : socket[q].place = "live" /\ socket[q].broken
  /\ d # None =>
       /\ socket[d].place = "erased" /\ ~ (app.at = "recv" /\ app.client = d)
       /\ db[d] = [NewSocket EXCEPT !.place = "deleted"]
  /\ \A q \in Ids :
       /\ socket[q].place = "erased" => q = d
       /\ socket[q].place = "none" \/ socket[q].place = "deleted" => db[q] = socket[q]
       /\ q # d =>
            /\ db[q].mux = socket[q].mux /\ db[q].busy = socket[q].busy
            /\ db[q].onList = socket[q].onList /\ db[q].from = socket[q].from
            /\ db[q].peer = socket[q].peer
            /\ db[q].broken = socket[q].broken /\ db[q].opened = socket[q].opened
            /\ db[q].queued = socket[q].queued \ {x \in R : socket[x].from = q}
            /\ q \in R =>
                 db[q].place = "closed" /\ db[q].status = "CLOSED" /\ ~ db[q].old
            /\ q \notin R =>
                 /\ db[q].place = socket[q].place /\ db[q].status = socket[q].status
                 /\ db[q].old = socket[q].old

\* The whole invariant, but for the references to the multiplexer and types
Rest ==
  /\ Life /\ Listening /\ Kept /\ Drains /\ UiOrder /\ LoopOrder /\ ClientOrder
  /\ AcceptOrder /\ Slot /\ RequestOrder /\ Queues /\ Owners /\ NewestWorks

\* No socket is erased: the collector sleeps on, or destroys the multiplexer.
LEMMA PreparedKeeps ==
  ASSUME IInv, NEW R, NEW d, Prepared(socket', R, d)
  PROVE  /\ Rest'
         /\ \A q \in Ids : socket[q].place = "closed" /\ socket[q].old
                             => socket'[q].place = "closed" /\ socket'[q].old
  <1>1. Collected(R, {}, d, None)
    <2>1. None \in IdOrNone /\ \A q \in Ids : q # None
      BY IdFacts DEF IdOrNone
    <2> QED
      BY <2>1 DEF Prepared, Collected
  <1>2. \A q \in Ids : q # None
    BY IdFacts
  <1>3. /\ Life' /\ Listening' /\ Kept' /\ Drains' /\ UiOrder' /\ LoopOrder' /\ ClientOrder'
        /\ AcceptOrder' /\ Slot' /\ RequestOrder' /\ Queues' /\ Owners' /\ NewestWorks'
        /\ \A q \in Ids : socket[q].place = "closed" /\ socket[q].old /\ q # None
                            => socket'[q].place = "closed" /\ socket'[q].old
    BY <1>1, CollectedKeeps
  <1> QED
    BY <1>2, <1>3 DEF Rest

LEMMA BrokenFields ==
  ASSUME NEW r \in SocketType
  PROVE  LET b == Broken(r) IN
         /\ b.place = "closed" /\ b.status = "CLOSED" /\ ~ b.old
         /\ b.mux = r.mux /\ b.busy = r.busy /\ b.onList = r.onList
         /\ b.from = r.from /\ b.peer = r.peer /\ b.queued = r.queued
  <1> DEFINE d == Shut(r)
  <1>1. /\ d \in SocketType
        /\ d.mux = r.mux /\ d.busy = r.busy /\ d.onList = r.onList
        /\ d.from = r.from /\ d.peer = r.peer /\ d.queued = r.queued
    BY DEF SocketType, Shut
  <1> HIDE DEF d
  <1>2. LET b == [Closed(d) EXCEPT !.broken = TRUE, !.place = "closed"] IN
        /\ b.place = "closed" /\ b.status = "CLOSED" /\ ~ b.old
        /\ b.mux = d.mux /\ b.busy = d.busy /\ b.onList = d.onList
        /\ b.from = d.from /\ b.peer = d.peer /\ b.queued = d.queued
    BY <1>1 DEF SocketType, Closed
  <1> QED
    BY <1>1, <1>2 DEF Broken, d

\* What removeSocket() does to socket e of db
LEMMA RemovedFields ==
  ASSUME NEW db \in [Ids -> SocketType], NEW e \in Ids, db[e].place = "closed",
         NEW f, f = Removed(db, e)
  PROVE  /\ f \in [Ids -> SocketType]
         /\ f[e].place = "erased" /\ f[e].peer = NoPeer
         /\ f[e].status = db[e].status /\ f[e].old = db[e].old /\ f[e].broken = db[e].broken
         /\ f[e].opened = db[e].opened
         /\ f[e].mux = db[e].mux /\ f[e].busy = db[e].busy /\ f[e].onList = db[e].onList
         /\ f[e].from = db[e].from /\ f[e].queued = db[e].queued
         /\ \A q \in Ids : q \in db[e].queued /\ db[q].place = "live" =>
              /\ f[q].place = "closed" /\ f[q].status = "CLOSED" /\ ~ f[q].old
              /\ f[q].mux = db[q].mux /\ f[q].busy = db[q].busy /\ f[q].onList = db[q].onList
              /\ f[q].from = db[q].from /\ f[q].peer = db[q].peer /\ f[q].queued = db[q].queued
         /\ \A q \in Ids : q # e /\ ~ (q \in db[e].queued /\ db[q].place = "live")
                             => f[q] = db[q]
  <1> DEFINE r == [db[e] EXCEPT !.place = "erased", !.peer = NoPeer]
  <1>1. ASSUME NEW q \in Ids
        PROVE  f[q] = CASE q = e -> r
                        [] q \in db[e].queued /\ db[q].place = "live" -> Broken(db[q])
                        [] OTHER -> db[q]
    BY DEF Removed
  <1>2. db[e].place # "live"
    OBVIOUS
  <1>3. /\ r \in SocketType /\ r.place = "erased" /\ r.peer = NoPeer
        /\ r.status = db[e].status /\ r.old = db[e].old /\ r.broken = db[e].broken
        /\ r.opened = db[e].opened
        /\ r.mux = db[e].mux /\ r.busy = db[e].busy /\ r.onList = db[e].onList
        /\ r.from = db[e].from /\ r.queued = db[e].queued
    <2>1. db[e] \in SocketType
      OBVIOUS
    <2> QED
      BY <2>1 DEF SocketType, PeerOrNone
  <1> HIDE DEF r
  <1>4. f[e] = r
    BY <1>1, <1>2
  <1>5. ASSUME NEW q \in Ids, q \in db[e].queued, db[q].place = "live"
        PROVE  f[q] = Broken(db[q])
    BY <1>1, <1>2, <1>5
  <1>6. ASSUME NEW q \in Ids, q # e, ~ (q \in db[e].queued /\ db[q].place = "live")
        PROVE  f[q] = db[q]
    BY <1>1, <1>6
  <1>7. \A q \in Ids : q \in db[e].queued /\ db[q].place = "live" =>
              /\ f[q].place = "closed" /\ f[q].status = "CLOSED" /\ ~ f[q].old
              /\ f[q].mux = db[q].mux /\ f[q].busy = db[q].busy /\ f[q].onList = db[q].onList
              /\ f[q].from = db[q].from /\ f[q].peer = db[q].peer /\ f[q].queued = db[q].queued
    <2>1. ASSUME NEW q \in Ids
          PROVE  LET b == Broken(db[q]) IN
                 /\ b.place = "closed" /\ b.status = "CLOSED" /\ ~ b.old
                 /\ b.mux = db[q].mux /\ b.busy = db[q].busy /\ b.onList = db[q].onList
                 /\ b.from = db[q].from /\ b.peer = db[q].peer /\ b.queued = db[q].queued
      BY BrokenFields
    <2> QED
      BY <1>5, <2>1
  <1>8. f \in [Ids -> SocketType]
    <2>1. \A q \in Ids : Broken(db[q]) \in SocketType
      BY SocketEdits
    <2>2. \A q \in Ids : f[q] \in SocketType
      BY <1>3, <1>4, <1>5, <1>6, <2>1
    <2> QED
      BY <2>2 DEF Removed
  <1> QED
    BY <1>3, <1>4, <1>6, <1>7, <1>8

\* ... and then it goes on.
LEMMA RemoveNextStep ==
  ASSUME IInv, NEW R, NEW d, NEW db, NEW todo, Prepared(db, R, d), RemoveNext(db, todo),
         \A q \in todo : q \in Ids /\ socket[q].place = "closed" /\ socket[q].old
  PROVE  /\ Rest' /\ Picked'
         /\ socket' \in [Ids -> SocketType]
         /\ gc' \in [at : {"sleep", "delete", "destroy"}, todo : SUBSET Ids, s : IdOrNone]
         /\ gc'.at # "destroy"
         /\ \A q \in Ids : socket'[q].mux = db[q].mux
  <1>1. /\ db \in [Ids -> SocketType] /\ todo \subseteq Ids
        /\ \A q \in Ids : q # None
        /\ \A q \in todo : q # d /\ q \notin R
    BY IdFacts DEF Prepared
  <1> DEFINE free == {s \in todo : ~ db[s].onList /\ db[s].busy = 0}
             e == Min(free)
  <1>2. CASE free = {}
    <2>1. socket' = db /\ gc' = Asleep
      BY <1>2 DEF RemoveNext
    <2>2. Rest'
      BY <2>1, PreparedKeeps
    <2>3. /\ gc'.at = "sleep" /\ gc'.todo = {}
          /\ gc' \in [at : {"sleep", "delete", "destroy"}, todo : SUBSET Ids, s : IdOrNone]
      BY <2>1 DEF Asleep, IdOrNone
    <2>4. Picked'
      BY <2>3 DEF Picked
    <2> QED
      BY <1>1, <2>1, <2>2, <2>3, <2>4
  <1>3. CASE free # {}
    <2>1. e \in free
      <3>1. free \in SUBSET Ids
        BY <1>1
      <3>2. \E n \in free : \A q \in free : n <= q
        BY <1>3, <3>1, LeastId
      <3> QED
        BY <3>2 DEF Min
    <2>2. /\ socket' = Removed(db, e)
          /\ gc' = [at |-> "delete", todo |-> {q \in todo : q > e}, s |-> e]
      BY <1>3 DEF RemoveNext
    <2>3. /\ e \in todo /\ e \in Ids /\ e # None /\ ~ db[e].onList /\ db[e].busy = 0
          /\ socket[e].place = "closed" /\ socket[e].old /\ e # d /\ e \notin R
      BY <1>1, <2>1
    <2> HIDE DEF e, free
    <2>4. /\ db[e].place = "closed" /\ socket[e].busy = 0
      BY <2>3 DEF Prepared
    <2>5. /\ socket' \in [Ids -> SocketType]
          /\ socket'[e].place = "erased" /\ socket'[e].peer = NoPeer
          /\ socket'[e].status = db[e].status /\ socket'[e].old = db[e].old
          /\ socket'[e].broken = db[e].broken /\ socket'[e].opened = db[e].opened
          /\ socket'[e].mux = db[e].mux /\ socket'[e].busy = db[e].busy
          /\ socket'[e].onList = db[e].onList
          /\ socket'[e].from = db[e].from /\ socket'[e].queued = db[e].queued
      BY <1>1, <2>2, <2>3, <2>4, RemovedFields
    <2>6. \A q \in Ids : q \in db[e].queued /\ db[q].place = "live" =>
              /\ socket'[q].place = "closed" /\ socket'[q].status = "CLOSED" /\ ~ socket'[q].old
              /\ socket'[q].mux = db[q].mux /\ socket'[q].busy = db[q].busy
              /\ socket'[q].onList = db[q].onList
              /\ socket'[q].from = db[q].from /\ socket'[q].peer = db[q].peer
              /\ socket'[q].queued = db[q].queued
      BY <1>1, <2>2, <2>3, <2>4, RemovedFields
    <2>7. \A q \in Ids : q # e /\ ~ (q \in db[e].queued /\ db[q].place = "live")
                             => socket'[q] = db[q]
      BY <1>1, <2>2, <2>3, <2>4, RemovedFields
    <2> DEFINE B == {q \in db[e].queued : db[q].place = "live"}
    <2>8. \A q \in B : /\ q \in socket[e].queued /\ q \in Ids
                       /\ socket[q].place = "live" /\ q \notin R /\ q # d /\ q # e
      <3>1. \A q \in db[e].queued : q \in socket[e].queued /\ q \in Ids
        BY <2>3, NamedIds DEF Prepared, IInv
      <3>2. d # None => db[d].place = "deleted"
        BY DEF Prepared, NewSocket
      <3>3. \A q \in B : q # d
        BY <1>1, <3>1, <3>2
      <3> QED
        BY <2>4, <3>1, <3>3 DEF Prepared
    <2>9. \A q \in socket[e].queued : socket[q].place = "live" => q \in R \/ q \in B
      <3>1. \A q \in socket[e].queued : q \in Ids
        BY <2>3, NamedIds DEF IInv
      <3>2. \A q \in Ids : socket[q].place = "live" => q # d
        BY <1>1 DEF Prepared
      <3> QED
        BY <2>3, <3>1, <3>2 DEF Prepared
    <2>10. \A q \in Ids : /\ q \in B <=> q \in db[e].queued /\ db[q].place = "live"
                          /\ q \notin B /\ q # e => socket'[q] = db[q]
      BY <2>7
    <2>11. /\ gc'.at = "delete" /\ gc'.s = e /\ gc'.todo = {q \in todo : q > e}
           /\ gc' \in [at : {"sleep", "delete", "destroy"}, todo : SUBSET Ids, s : IdOrNone]
      BY <1>1, <2>2, <2>3 DEF IdOrNone
    <2> HIDE DEF B
    <2>12. Collected(R, B, d, e)
      <3>1. /\ R \subseteq Ids /\ B \subseteq Ids /\ d \in IdOrNone /\ e \in IdOrNone
            /\ UNCHANGED <<idGen, running, sock, ui, app, call, worker>>
            /\ mux'.listener = mux.listener
            /\ \A q \in R : socket[q].place = "live" /\ socket[q].broken
        BY <2>3, <2>8 DEF Prepared, IdOrNone
      <3>2. d # None =>
              /\ socket[d].place = "erased" /\ ~ (app.at = "recv" /\ app.client = d)
              /\ socket'[d] = [NewSocket EXCEPT !.place = "deleted"]
        <4>1. d \notin B /\ d # e
          BY <2>3, <2>8
        <4>2. d # None => d \in Ids
          BY DEF Prepared, IdOrNone
        <4> QED
          BY <2>10, <4>1, <4>2 DEF Prepared
      <3>3. ASSUME NEW q \in Ids
            PROVE
       /\ socket[q].place = "erased" => q = d
       /\ socket[q].place = "none" \/ socket[q].place = "deleted" => socket'[q] = socket[q]
        BY <2>3, <2>8, <2>10 DEF Prepared
      <3>4. ASSUME NEW q \in Ids, q # d
            PROVE
            /\ socket'[q].mux = socket[q].mux /\ socket'[q].busy = socket[q].busy
            /\ socket'[q].onList = socket[q].onList /\ socket'[q].from = socket[q].from
            /\ socket'[q].queued = socket[q].queued \ {x \in R : socket[x].from = q}
            /\ q # e => socket'[q].peer = socket[q].peer
            /\ q \in R \/ q \in B =>
                 socket'[q].place = "closed" /\ socket'[q].status = "CLOSED" /\ ~ socket'[q].old
            /\ q \notin B =>
                 socket'[q].broken = socket[q].broken /\ socket'[q].opened = socket[q].opened
            /\ q \notin R /\ q \notin B =>
                 socket'[q].status = socket[q].status /\ socket'[q].old = socket[q].old
            /\ q \notin R /\ q \notin B /\ q # e => socket'[q].place = socket[q].place
        <4>1. /\ db[q].mux = socket[q].mux /\ db[q].busy = socket[q].busy
              /\ db[q].onList = socket[q].onList /\ db[q].from = socket[q].from
              /\ db[q].peer = socket[q].peer
              /\ db[q].broken = socket[q].broken /\ db[q].opened = socket[q].opened
              /\ db[q].queued = socket[q].queued \ {x \in R : socket[x].from = q}
              /\ q \in R =>
                   db[q].place = "closed" /\ db[q].status = "CLOSED" /\ ~ db[q].old
              /\ q \notin R =>
                   /\ db[q].place = socket[q].place /\ db[q].status = socket[q].status
                   /\ db[q].old = socket[q].old
          BY <3>4 DEF Prepared
        <4>2. CASE q = e
          BY <2>3, <2>5, <2>8, <4>1, <4>2
        <4>3. CASE q \in B
          BY <2>6, <2>8, <2>10, <4>1, <4>3
        <4>4. CASE q # e /\ q \notin B
          BY <2>10, <4>1, <4>4
        <4> QED
          BY <4>2, <4>3, <4>4
      <3> QED
        BY <2>3, <2>4, <2>5, <2>8, <2>9, <2>11, <3>1, <3>2, <3>3, <3>4 DEF Collected
    <2>13. /\ Rest'
           /\ \A q \in Ids : socket[q].place = "closed" /\ socket[q].old /\ q # e
                             => socket'[q].place = "closed" /\ socket'[q].old
      BY <2>12, CollectedKeeps DEF Rest
    <2>14. Picked'
      <3>1. \A q \in gc'.todo : q # e
        <4>1. \A q \in Nat : ~ (q > q)
          OBVIOUS
        <4> QED
          BY <2>3, <2>11, <4>1, IdFacts
      <3> QED
        BY <1>1, <2>3, <2>5, <2>11, <2>13, <3>1 DEF Picked
    <2>15. \A q \in Ids : socket'[q].mux = db[q].mux
      BY <2>5, <2>6, <2>10
    <2> QED
      BY <2>5, <2>11, <2>13, <2>14, <2>15
  <1> QED
    BY <1>2, <1>3

LEMMA OnMuxIsFinite == SocketsTypeOK => IsFiniteSet(OnMux) /\ Cardinality(OnMux) \in Nat
  <1>1. IsFiniteSet(Ids)
    BY SizesArePositive, FS_Interval DEF Ids
  <1>2. IsFiniteSet(OnMux)
    BY <1>1, FS_Subset DEF OnMux
  <1> QED
    BY <1>2, FS_CardinalityType

LEMMA SameQueue ==
  ASSUME NEW x \in SocketType
  PROVE  [x EXCEPT !.queued = x.queued] = x
  BY DEF SocketType

LEMMA GcCheckStep ==
  ASSUME IInv, NEW keep, GcCheck(keep)
  PROVE  IInv'
  <1> DEFINE R == {s \in Ids : Retirable(s)} \ keep
             q0(s) == socket[s].queued \ {q \in R : socket[q].from = s}
             r(s) == [socket[s] EXCEPT !.queued = @ \ {q \in R : socket[q].from = s}]
             c(s) == [Closed(r(s)) EXCEPT !.place = "closed"]
             db == [s \in Ids |-> IF s \in R THEN c(s) ELSE r(s)]
             todo == {s \in Ids : Removable(s)}
  <1>1. /\ SocketsTypeOK /\ gc.at = "sleep" /\ RemoveNext(db, todo)
        /\ UNCHANGED <<idGen, mux, running, sock, ui, app, call, worker>>
        /\ \A s \in Ids : socket[s] \in SocketType /\ socket[s].queued \subseteq Ids
    BY NamedIds DEF GcCheck, listener, IInv
  <1>2. \A s \in Ids :
          /\ r(s) \in SocketType
          /\ r(s).status = socket[s].status /\ r(s).old = socket[s].old
          /\ r(s).place = socket[s].place /\ r(s).broken = socket[s].broken
          /\ r(s).opened = socket[s].opened
          /\ r(s).mux = socket[s].mux /\ r(s).busy = socket[s].busy
          /\ r(s).onList = socket[s].onList
          /\ r(s).from = socket[s].from /\ r(s).peer = socket[s].peer /\ r(s).queued = q0(s)
          /\ socket[s].queued = {} => r(s) = socket[s]
    <2> TAKE s \in Ids
    <2> DEFINE n == q0(s)
    <2>1. n \in SUBSET Ids /\ (socket[s].queued = {} => n = {})
      BY <1>1
    <2>2. r(s) = [socket[s] EXCEPT !.queued = n]
      OBVIOUS
    <2> HIDE DEF R, q0, r, n
    <2>3. /\ r(s) \in SocketType
          /\ r(s).status = socket[s].status /\ r(s).old = socket[s].old
          /\ r(s).place = socket[s].place /\ r(s).broken = socket[s].broken
          /\ r(s).opened = socket[s].opened
          /\ r(s).mux = socket[s].mux /\ r(s).busy = socket[s].busy
          /\ r(s).onList = socket[s].onList
          /\ r(s).from = socket[s].from /\ r(s).peer = socket[s].peer /\ r(s).queued = n
      BY <1>1, <2>1, <2>2 DEF SocketType
    <2>4. ASSUME socket[s].queued = {} PROVE r(s) = socket[s]
      <3>1. n = socket[s].queued
        BY <2>1, <2>4
      <3>2. [socket[s] EXCEPT !.queued = socket[s].queued] = socket[s]
        BY <1>1, SameQueue
      <3> QED
        BY <2>2, <3>1, <3>2
    <2> QED
      BY <2>3, <2>4 DEF n
  <1> HIDE DEF r
  <1>3. \A s \in Ids :
          /\ c(s) \in SocketType
          /\ c(s).place = "closed" /\ c(s).status = "CLOSED" /\ ~ c(s).old
          /\ c(s).broken = r(s).broken /\ c(s).opened = r(s).opened
          /\ c(s).mux = r(s).mux /\ c(s).busy = r(s).busy /\ c(s).onList = r(s).onList
          /\ c(s).from = r(s).from /\ c(s).peer = r(s).peer /\ c(s).queued = r(s).queued
    <2>1. ASSUME NEW x \in SocketType
          PROVE  LET y == [Closed(x) EXCEPT !.place = "closed"] IN
                 /\ y \in SocketType
                 /\ y.place = "closed" /\ y.status = "CLOSED" /\ ~ y.old
                 /\ y.broken = x.broken /\ y.opened = x.opened
                 /\ y.mux = x.mux /\ y.busy = x.busy /\ y.onList = x.onList
                 /\ y.from = x.from /\ y.peer = x.peer /\ y.queued = x.queued
      BY DEF SocketType, Closed
    <2> QED
      BY <1>2, <2>1
  <1> HIDE DEF c
  <1>4. \A s \in Ids : s \in R => socket[s].place = "live" /\ socket[s].broken
    BY DEF Retirable
  <1>5. \A s \in Ids : /\ socket[s].place # "erased"
                       /\ socket[s].place = "none" \/ socket[s].place = "deleted"
                            => s \notin R /\ socket[s].queued = {}
    BY <1>1, <1>4 DEF IInv, Life, NewSocket
  <1>6. /\ db \in [Ids -> SocketType]
        /\ \A s \in Ids : db[s] = IF s \in R THEN c(s) ELSE r(s)
    BY <1>2, <1>3
  <1>7. \A q \in todo : q \in Ids /\ socket[q].place = "closed" /\ socket[q].old
    BY DEF Removable
  <1>8. R \subseteq Ids /\ None \in IdOrNone /\ \A q \in Ids : q # None
    BY IdFacts DEF IdOrNone
  <1> HIDE DEF db, todo
  <1>9. \A q \in Ids :
            /\ db[q].mux = socket[q].mux /\ db[q].busy = socket[q].busy
            /\ db[q].onList = socket[q].onList /\ db[q].from = socket[q].from
            /\ db[q].peer = socket[q].peer
            /\ db[q].broken = socket[q].broken /\ db[q].opened = socket[q].opened
            /\ db[q].queued = q0(q)
            /\ q \in R =>
                 db[q].place = "closed" /\ db[q].status = "CLOSED" /\ ~ db[q].old
            /\ q \notin R =>
                 /\ db[q].place = socket[q].place /\ db[q].status = socket[q].status
                 /\ db[q].old = socket[q].old
            /\ socket[q].place = "none" \/ socket[q].place = "deleted" => db[q] = socket[q]
    <2> HIDE DEF R, q0
    <2> QED
      BY <1>2, <1>3, <1>5, <1>6
  <1>10. Prepared(db, R, None)
    <2>1. \A q \in R : socket[q].place = "live" /\ socket[q].broken
      BY <1>4, <1>8
    <2> HIDE DEF R
    <2> QED
      BY <1>1, <1>5, <1>6, <1>8, <1>9, <2>1 DEF Prepared
  <1> HIDE DEF R, q0
  <1>11. /\ Rest' /\ Picked'
         /\ socket' \in [Ids -> SocketType]
         /\ gc' \in [at : {"sleep", "delete", "destroy"}, todo : SUBSET Ids, s : IdOrNone]
         /\ gc'.at # "destroy"
         /\ \A q \in Ids : socket'[q].mux = socket[q].mux
    BY <1>1, <1>7, <1>9, <1>10, RemoveNextStep
  <1>12. SocketsTypeOK'
    BY <1>1, <1>11 DEF SocketsTypeOK
  <1>13. References'
    <2>1. OnMux' = OnMux
      BY <1>11 DEF OnMux
    <2> QED
      BY <1>1, <1>11, <2>1 DEF IInv, References
  <1> QED
    BY <1>11, <1>12, <1>13 DEF IInv, Rest

LEMMA GcDeleteStep ==
  ASSUME IInv, GcDelete
  PROVE  IInv'
  <1> DEFINE s == gc.s
             on == socket[s].mux # None
             r == [NewSocket EXCEPT !.place = "deleted"]
             db == [socket EXCEPT ![s] = r]
  <1>1. /\ SocketsTypeOK /\ gc.at = "delete" /\ s \in Ids /\ s # None
        /\ socket[s].place = "erased"
        /\ \A q \in gc.todo : q \in Ids /\ socket[q].place = "closed" /\ socket[q].old
        /\ UNCHANGED <<idGen, running, sock, ui, app, call, worker>>
        /\ mux' = IF on THEN [mux EXCEPT !.refs = @ - 1] ELSE mux
        /\ \/ on /\ mux'.refs = 0 /\ socket' = db /\ gc' = [gc EXCEPT !.at = "destroy"]
           \/ ~ (on /\ mux'.refs = 0) /\ RemoveNext(db, gc.todo)
    BY NamedIds, IdFacts DEF GcDelete, listener, IInv, Picked
  <1>2. ~ (app.at = "recv" /\ app.client = s)
    BY DEF GcDelete, IInv, ClientOrder
  <1>3. /\ r \in SocketType /\ r.mux = None
        /\ db \in [Ids -> SocketType] /\ db[s] = r
        /\ \A q \in Ids : q # s => db[q] = socket[q]
    <2>1. r \in SocketType /\ r.mux = None
      BY NewSocketType DEF NewSocket
    <2> HIDE DEF r
    <2> QED
      BY <1>1, <2>1, OneSocket DEF SocketsTypeOK
  <1>4. /\ mux' \in [id : IdOrNone, refs : Int, listener : IdOrNone]
        /\ mux'.id = mux.id /\ mux'.listener = mux.listener
        /\ mux'.refs = IF on THEN mux.refs - 1 ELSE mux.refs
    BY <1>1 DEF SocketsTypeOK
  <1> HIDE DEF db, on
  <1>5. Prepared(db, {}, s)
    <2>1. \A q \in Ids : socket[q].place = "erased" => q = s
      BY DEF IInv, Life
    <2>2. \A q \in Ids : socket[q].queued = socket[q].queued \ {}
      OBVIOUS
    <2> QED
      BY <1>1, <1>2, <1>3, <1>4, <2>1, <2>2 DEF Prepared, IdOrNone
  <1>6. ASSUME socket' \in [Ids -> SocketType], \A q \in Ids : socket'[q].mux = db[q].mux,
               mux'.id # None => (mux'.refs = 0 <=> gc'.at = "destroy")
        PROVE  References'
    <2>1. IsFiniteSet(OnMux) /\ Cardinality(OnMux) \in Nat /\ mux.refs = Cardinality(OnMux)
          /\ References
      BY <1>1, OnMuxIsFinite DEF IInv, References
    <2>2. s \in Ids /\ \A q \in Ids : socket'[q].mux = IF q = s THEN None ELSE socket[q].mux
      <3> HIDE DEF r
      <3> QED
        BY <1>1, <1>3, <1>6
    <2>3. OnMux' = OnMux \ {s} /\ (on <=> s \in OnMux)
      BY <2>2 DEF OnMux, on
    <2>4. Cardinality(OnMux \ {s}) = IF s \in OnMux THEN Cardinality(OnMux) - 1 ELSE Cardinality(OnMux)
      BY <2>1, FS_RemoveElement
    <2>5. mux'.refs = Cardinality(OnMux')
      BY <1>4, <2>1, <2>4, <2>3
    <2>6. mux.id = None => ~ on
      BY <1>1, <2>1 DEF References, on
    <2>7. \A q \in Ids : socket'[q].mux # None => socket'[q].mux = mux'.id
      BY <1>4, <2>1, <2>2 DEF References
    <2> QED
      BY <1>4, <1>6, <2>1, <2>5, <2>6, <2>7 DEF References
  <1>7. CASE on /\ mux'.refs = 0 /\ socket' = db /\ gc' = [gc EXCEPT !.at = "destroy"]
    <2>1. /\ Rest'
          /\ \A q \in Ids : socket[q].place = "closed" /\ socket[q].old
                             => socket'[q].place = "closed" /\ socket'[q].old
      BY <1>5, <1>7, PreparedKeeps
    <2>2. /\ gc' \in [at : {"sleep", "delete", "destroy"}, todo : SUBSET Ids, s : IdOrNone]
          /\ gc'.at = "destroy" /\ gc'.todo = gc.todo
      BY <1>1, <1>7 DEF SocketsTypeOK
    <2>3. Picked'
      BY <1>1, <2>1, <2>2 DEF Picked
    <2>4. SocketsTypeOK'
      BY <1>1, <1>3, <1>4, <1>7, <2>2 DEF SocketsTypeOK
    <2>5. References'
      BY <1>3, <1>6, <1>7, <2>2
    <2> QED
      BY <2>1, <2>3, <2>4, <2>5 DEF IInv, Rest
  <1>8. CASE ~ (on /\ mux'.refs = 0) /\ RemoveNext(db, gc.todo)
    <2>1. /\ Rest' /\ Picked'
          /\ socket' \in [Ids -> SocketType]
          /\ gc' \in [at : {"sleep", "delete", "destroy"}, todo : SUBSET Ids, s : IdOrNone]
          /\ gc'.at # "destroy"
          /\ \A q \in Ids : socket'[q].mux = db[q].mux
      BY <1>1, <1>5, <1>8, RemoveNextStep
    <2>2. SocketsTypeOK'
      BY <1>1, <1>4, <2>1 DEF SocketsTypeOK
    <2>3. mux'.id # None => mux'.refs # 0
      BY <1>1, <1>4, <1>8 DEF IInv, References
    <2>4. References'
      BY <1>6, <2>1, <2>3
    <2> QED
      BY <2>1, <2>2, <2>4 DEF IInv, Rest
  <1> QED
    BY <1>1, <1>7, <1>8

LEMMA GcDestroyStep ==
  ASSUME IInv, GcDestroy
  PROVE  IInv'
  <1>1. /\ SocketsTypeOK /\ gc.at = "destroy"
        /\ mux' = [id |-> None, refs |-> 0, listener |-> None]
        /\ RemoveNext(socket, gc.todo)
        /\ \A q \in gc.todo : q \in Ids /\ socket[q].place = "closed" /\ socket[q].old
        /\ UNCHANGED <<idGen, running, sock, ui, app, call, worker>>
    BY NamedIds DEF GcDestroy, NoMux, listener, IInv, Picked
  <1>2. OnMux = {}
    <2>1. Cardinality(OnMux) = 0
      BY <1>1 DEF IInv, References
    <2> QED
      BY <1>1, <2>1, OnMuxIsFinite, FS_EmptySet
  <1>3. mux.listener = None
    BY <1>2, NamedIds DEF IInv, Slot, OnMux
  <1>4. Prepared(socket, {}, None)
    <2>1. \A q \in Ids : q # None /\ socket[q].place # "erased"
      BY <1>1, IdFacts DEF IInv, Life
    <2>2. \A q \in Ids : socket[q].queued = socket[q].queued \ {}
      OBVIOUS
    <2> QED
      BY <1>1, <1>3, <2>1, <2>2 DEF Prepared, SocketsTypeOK, IdOrNone
  <1>5. /\ Rest' /\ Picked'
        /\ socket' \in [Ids -> SocketType]
        /\ gc' \in [at : {"sleep", "delete", "destroy"}, todo : SUBSET Ids, s : IdOrNone]
        /\ \A q \in Ids : socket'[q].mux = socket[q].mux
    BY <1>1, <1>4, RemoveNextStep
  <1>6. mux' \in [id : IdOrNone, refs : Int, listener : IdOrNone]
    BY <1>1 DEF IdOrNone
  <1>7. SocketsTypeOK'
    BY <1>1, <1>5, <1>6 DEF SocketsTypeOK
  <1>8. References'
    <2>1. OnMux' = {}
      BY <1>2, <1>5 DEF OnMux
    <2> QED
      BY <1>1, <2>1, FS_EmptySet DEF References, OnMux
  <1> QED
    BY <1>5, <1>7, <1>8 DEF IInv, Rest

-----------------------------------------------------------------------------
(* The clock *)

LEMMA TimePassesStep ==
  ASSUME IInv, TimePasses
  PROVE  IInv'
  <1>1. /\ SocketsTypeOK /\ Kept /\ app.at # "accept"
        /\ (\E t \in Threads : call[t].at = "drain") => worker.at = "create"
        /\ UNCHANGED <<idGen, mux, running, sock, ui, app, call, worker, gc>>
        /\ \A q \in Ids : socket[q] \in SocketType
    BY NamedIds, DrainFacts DEF TimePasses, Inverted, Reading, listener, IInv
  <1>2. \A q \in Ids : socket'[q] = IF Aging(q) THEN [socket[q] EXCEPT !.old = TRUE] ELSE socket[q]
    BY DEF TimePasses
  <1>3. \A q \in Ids : [socket[q] EXCEPT !.old = TRUE] \in SocketType
    BY <1>1, SocketEdits
  <1>4. socket' \in [Ids -> SocketType]
    <2>1. \A q \in Ids : socket'[q] \in SocketType
      BY <1>1, <1>2, <1>3
    <2> QED
      BY <2>1 DEF TimePasses
  <1>5. \A q \in Ids :
          /\ socket'[q].place = socket[q].place /\ socket'[q].status = socket[q].status
          /\ socket'[q].opened = socket[q].opened /\ socket'[q].broken = socket[q].broken
          /\ socket'[q].mux = socket[q].mux /\ socket'[q].busy = socket[q].busy
          /\ socket'[q].onList = socket[q].onList /\ socket'[q].from = socket[q].from
          /\ socket'[q].peer = socket[q].peer /\ socket'[q].queued = socket[q].queued
          /\ socket[q].old => socket'[q].old
          /\ socket'[q].old # socket[q].old =>
               \/ socket[q].place = "closed"
               \/ socket[q].place = "live" /\ socket[q].status = "LISTENING" /\ socket[q].broken
          /\ socket[q].place \notin {"live", "closed"} => socket'[q] = socket[q]
    <2>1. \A q \in Ids : LET c == [socket[q] EXCEPT !.old = TRUE] IN
          /\ c.place = socket[q].place /\ c.status = socket[q].status
          /\ c.opened = socket[q].opened /\ c.broken = socket[q].broken
          /\ c.mux = socket[q].mux /\ c.busy = socket[q].busy
          /\ c.onList = socket[q].onList /\ c.from = socket[q].from
          /\ c.peer = socket[q].peer /\ c.queued = socket[q].queued
          /\ c.old
      BY <1>1 DEF SocketType
    <2>2. \A q \in Ids : Aging(q) =>
            \/ socket[q].place = "closed"
            \/ socket[q].place = "live" /\ socket[q].status = "LISTENING" /\ socket[q].broken
      BY DEF Aging
    <2>3. \A q \in Ids : Aging(q) => socket'[q] = [socket[q] EXCEPT !.old = TRUE]
      BY <1>2
    <2>4. \A q \in Ids : ~ Aging(q) => socket'[q] = socket[q]
      BY <1>2
    <2> SUFFICES ASSUME NEW q \in Ids
                 PROVE
          /\ socket'[q].place = socket[q].place /\ socket'[q].status = socket[q].status
          /\ socket'[q].opened = socket[q].opened /\ socket'[q].broken = socket[q].broken
          /\ socket'[q].mux = socket[q].mux /\ socket'[q].busy = socket[q].busy
          /\ socket'[q].onList = socket[q].onList /\ socket'[q].from = socket[q].from
          /\ socket'[q].peer = socket[q].peer /\ socket'[q].queued = socket[q].queued
          /\ socket[q].old => socket'[q].old
          /\ socket'[q].old # socket[q].old =>
               \/ socket[q].place = "closed"
               \/ socket[q].place = "live" /\ socket[q].status = "LISTENING" /\ socket[q].broken
          /\ socket[q].place \notin {"live", "closed"} => socket'[q] = socket[q]
      OBVIOUS
    <2>5. CASE Aging(q)
      <3> DEFINE c == [socket[q] EXCEPT !.old = TRUE]
      <3>1. /\ c.place = socket[q].place /\ c.status = socket[q].status
            /\ c.opened = socket[q].opened /\ c.broken = socket[q].broken
            /\ c.mux = socket[q].mux /\ c.busy = socket[q].busy
            /\ c.onList = socket[q].onList /\ c.from = socket[q].from
            /\ c.peer = socket[q].peer /\ c.queued = socket[q].queued
            /\ c.old
        BY <2>1
      <3>2. socket'[q] = c
        BY <2>3, <2>5
      <3> HIDE DEF c
      <3> QED
        BY <2>2, <2>5, <3>1, <3>2
    <2>6. CASE ~ Aging(q)
      BY <2>4, <2>6
    <2> QED
      BY <2>5, <2>6
  <1>6. SocketsTypeOK'
    BY <1>1, <1>4 DEF SocketsTypeOK
  <1>7. Life' /\ Listening'
    BY <1>1, <1>5 DEF IInv, Life, Listening, Drained
  <1>8. Kept' /\ Drains'
    BY <1>1, <1>5, CallFacts DEF IInv, Kept, Drains, Calls, Held
  <1>9. (UiOrder /\ LoopOrder)'
    BY <1>1, <1>5, NamedIds DEF IInv, UiOrder, LoopOrder, Over
  <1>10. ClientOrder'
    BY <1>1, <1>5, NamedIds DEF IInv, ClientOrder
  <1>11. AcceptOrder'
    BY <1>1, <1>5, NamedIds DEF IInv, AcceptOrder, Listening, Held, Drained
  <1>12. Slot' /\ RequestOrder'
    BY <1>1, <1>5, NamedIds DEF IInv, Slot, RequestOrder, Held, Drained
  <1>13. References' /\ Picked'
    <2>1. OnMux' = OnMux
      BY <1>5 DEF OnMux
    <2> QED
      BY <1>1, <1>5, <2>1, NamedIds DEF IInv, References, Picked
  <1>14. Queues' /\ NewestWorks'
    BY <1>1, <1>5, NamedIds DEF IInv, Queues, NewestWorks
  <1>15. Owners'
    BY <1>1, <1>5, NamedIds DEF IInv, Owners
  <1> QED
    BY <1>6, <1>7, <1>8, <1>9, <1>10, <1>11, <1>12, <1>13, <1>14, <1>15 DEF IInv

-----------------------------------------------------------------------------
(* The invariant *)

LEMMA InitIInv == Init => IInv
  <1> SUFFICES ASSUME Init PROVE IInv
    OBVIOUS
  <1>1. /\ \A s \in Ids :
             /\ socket[s] = NewSocket /\ socket[s].place = "none" /\ socket[s].status = "INIT"
             /\ ~ socket[s].broken /\ ~ socket[s].old /\ ~ socket[s].onList
             /\ socket[s].mux = None /\ socket[s].from = None /\ socket[s].peer = NoPeer
             /\ socket[s].busy = 0 /\ socket[s].queued = {}
        /\ idGen = MaxSockets /\ mux.id = None /\ mux.refs = 0 /\ mux.listener = None
        /\ ~ running /\ sock = None /\ ui = "idle"
        /\ app.at = "none" /\ app.listener = None /\ app.client = None
        /\ \A t \in Threads : call[t].at = "idle" /\ call[t].s = None
        /\ worker.at = "idle" /\ gc.at = "sleep" /\ gc.todo = {}
    BY DEF Init, NewSocket, NoMux, NoLoop, Idle, AtRest, Asleep
  <1>2. "ui" \in Threads /\ "app" \in Threads /\ \A s \in Ids : s # None
    BY IdFacts DEF Threads
  <1>3. SocketsTypeOK
    <2>1. socket \in [Ids -> SocketType]
      BY NewSocketType DEF Init
    <2>2. idGen \in 0 .. MaxSockets /\ mux \in [id : IdOrNone, refs : Int, listener : IdOrNone]
      BY SizesArePositive DEF Init, NoMux, IdOrNone
    <2>3. /\ running \in BOOLEAN /\ sock \in IdOrNone /\ ui \in {"idle", "closing", "join"}
          /\ app \in [at : {"none", "create", "bind", "listen", "failed", "test", "accept",
                            "wait", "return", "recv", "closing"},
                      listener : IdOrNone, client : IdOrNone]
          /\ call \in [Threads -> [at : {"idle", "lock", "drain"}, s : IdOrNone]]
      BY DEF Init, NoLoop, Idle, IdOrNone
    <2>4. /\ worker \in [at : {"idle", "locate", "create", "respond"},
                         listener : IdOrNone, peer : PeerOrNone, s : IdOrNone]
          /\ gc \in [at : {"sleep", "delete", "destroy"}, todo : SUBSET Ids, s : IdOrNone]
      BY DEF Init, AtRest, Asleep, IdOrNone, PeerOrNone
    <2> QED
      BY <2>1, <2>2, <2>3, <2>4 DEF SocketsTypeOK
  <1>4. Life
    <2>1. \A s \in Ids : s <= MaxSockets
      BY SizesArePositive DEF Ids
    <2> QED
      BY <1>1, <2>1 DEF Life
  <1>5. Listening /\ Drains /\ UiOrder /\ LoopOrder /\ ClientOrder /\ AcceptOrder
    BY <1>1, <1>2 DEF Listening, Drains, UiOrder, LoopOrder, ClientOrder, AcceptOrder
  <1>6. Kept
    BY <1>1, <1>2 DEF Kept, Calls
  <1>7. Slot /\ RequestOrder /\ Picked /\ Queues /\ Owners /\ NewestWorks
    BY <1>1 DEF Slot, RequestOrder, Picked, Queues, Owners, NewestWorks
  <1>8. References
    <2>1. OnMux = {}
      BY <1>1 DEF OnMux
    <2> QED
      BY <1>1, <2>1, FS_EmptySet DEF References, OnMux
  <1> QED
    BY <1>3, <1>4, <1>5, <1>6, <1>7, <1>8 DEF IInv

LEMMA NextIInv == IInv /\ [Next]_vars => IInv'
  <1> SUFFICES ASSUME IInv, [Next]_vars PROVE IInv'
    OBVIOUS
  <1>1. ASSUME NEW t \in Threads, Close(t) PROVE IInv'
    BY <1>1, CloseListenerStep, CloseDrainedStep, CloseOtherStep DEF Close
  <1>2. CASE Ui
    <2>1. "ui" \in Threads
      BY DEF Threads
    <2> QED
      BY <1>1, <1>2, <2>1, StartStep, StopStep, StopClosedStep, StopJoinsStep DEF Ui
  <1>3. CASE RunLoop
    <2>1. "app" \in Threads
      BY DEF Threads
    <2> QED
      BY <1>1, <1>3, <2>1, CreateStep, BindStep, BindFailsStep, ListenStep, AcceptRoundStep,
         LoopStep DEF RunLoop
  <1>4. CASE RecvReturns
    BY <1>4, LoopStep
  <1>5. CASE Request \/ RemoveDead
    BY <1>5, LocateStep, CreateAcceptedStep, RespondStep, RespondFailsStep, RemoveDeadStep
       DEF Request
  <1>6. CASE Collect
    BY <1>6, GcCheckStep, GcDeleteStep, GcDestroyStep DEF Collect
  <1>7. CASE TimePasses
    BY <1>7, TimePassesStep
  <1>8. ASSUME NEW p \in Peers, TakeRequest(p) PROVE IInv'
    BY <1>8, TakeRequestStep
  <1>9. ASSUME NEW u \in Ids, PeerGone(u) PROVE IInv'
    BY <1>9, PeerGoneStep
  <1>10. CASE UNCHANGED vars
    <2> USE <1>10 DEF vars
    <2>1. SocketsTypeOK' /\ (Life /\ Listening /\ References /\ Picked /\ Queues /\ NewestWorks)'
      <3>1. SocketsTypeOK'
        BY DEF IInv, SocketsTypeOK
      <3> QED
        BY <3>1, SameDatabase DEF OnlyBusy, Drained
    <2>2. Kept' /\ Drains'
      BY DEF IInv, Kept, Drains, Held, Calls
    <2>3. (UiOrder /\ LoopOrder /\ ClientOrder /\ AcceptOrder)'
      BY DEF IInv, UiOrder, LoopOrder, ClientOrder, AcceptOrder, Held, Drained, Over
    <2>4. Slot' /\ RequestOrder' /\ Owners'
      BY DEF IInv, Slot, RequestOrder, Owners, Held, Drained
    <2> QED
      BY <2>1, <2>2, <2>3, <2>4 DEF IInv
  <1> QED
    BY <1>2, <1>3, <1>4, <1>5, <1>6, <1>7, <1>8, <1>9, <1>10 DEF Next

-----------------------------------------------------------------------------
(* The theorems *)

LEMMA Invariance == Spec => []IInv
  BY InitIInv, NextIInv, PTL DEF Spec

\* No pointer of a thread goes bad, for any number of sockets, clients and any
\* backlog. The listener in accept() is protected by the second the collector
\* waits after setClosed(), the sockets of an srt_close by m_iBusy, the listener
\* of a request by the slot, which a close() leaves only when no reader is left.
\* (checkBrokenSockets and removeSocket in api.cpp; clearIf in queue.cpp)
THEOREM NothingFreedInUse == Spec => []InUseNotDeleted
  <1>1. ASSUME IInv PROVE InUseNotDeleted
    <2>1. SocketsTypeOK /\ Kept /\ Life /\ AcceptOrder /\ ClientOrder /\ RequestOrder /\ Slot
          /\ References
      BY <1>1 DEF IInv
    <2>2. \A s \in Ids : socket[s].mux # None => socket[s].mux = mux.id /\ mux.refs > 0
      <3>1. IsFiniteSet(OnMux) /\ Cardinality(OnMux) \in Nat
        BY <2>1, OnMuxIsFinite
      <3>2. OnMux # {} => Cardinality(OnMux) # 0
        BY <3>1, FS_EmptySet
      <3> QED
        BY <2>1, <3>1, <3>2 DEF References, OnMux
    <2>3. app.at \in {"accept", "wait"} => socket[app.listener].place # "deleted"
      BY <2>1 DEF AcceptOrder, Held
    <2>4. app.at = "recv" => socket[app.client].place # "deleted"
      <3>1. app.client # None => app.client \in Ids
        BY <2>1, NamedIds
      <3>2. \A s \in Ids : socket[s].place = "deleted" => ~ socket[s].opened
        BY <2>1 DEF Life, NewSocket
      <3> QED
        BY <2>1, <3>1, <3>2 DEF ClientOrder
    <2>5. worker.at # "idle" =>
            socket[worker.listener].place # "deleted" /\ mux.id # None /\ mux.refs > 0
      BY <2>1, <2>2, NamedIds DEF RequestOrder, Slot, Held
    <2>6. \A t \in Threads : call[t] # Idle => socket[call[t].s].place # "deleted"
      BY <2>1, CallFacts DEF Held
    <2> QED
      BY <2>2, <2>3, <2>4, <2>5, <2>6 DEF InUseNotDeleted
  <1> QED
    BY <1>1, Invariance, PTL

\* A working connection is in one queue, or handleClient() has it, and never
\* both; a peer that repeats its request never has two. (newConnection in api.cpp:
\* it closes the broken connection of a peer before it makes a new one; accept()
\* takes from the queue what it returns, and handleClient() closes it.)
THEOREM OneOwner == Spec => []EveryConnectionHasAnOwner
  <1>1. ASSUME IInv PROVE EveryConnectionHasAnOwner
    <2>1. SocketsTypeOK /\ Queues /\ Owners /\ NewestWorks /\ ClientOrder
      BY <1>1 DEF IInv
    <2> SUFFICES ASSUME NEW s \in Ids, socket[s].place = "live", socket[s].status = "CONNECTED",
                        ~ socket[s].broken
                 PROVE
           /\ Cardinality({l \in Ids : s \in socket[l].queued})
                + (IF app.client = s /\ app.at # "none" THEN 1 ELSE 0)
                = 1
           /\ \A q \in Ids \ {s} : socket[q].place = "live" /\ ~ socket[q].broken
                                     /\ socket[s].peer # NoPeer => socket[q].peer # socket[s].peer
      BY DEF EveryConnectionHasAnOwner
    <2> DEFINE Q == {l \in Ids : s \in socket[l].queued}
    <2> DEFINE n == IF app.client = s /\ app.at # "none" THEN 1 ELSE 0
    <2>2. ASSUME app.client = s PROVE Cardinality(Q) + n = 1
      <3>1. app.at # "none" /\ Q = {}
        BY <2>1, <2>2, IdFacts DEF ClientOrder
      <3>2. Cardinality({}) = 0
        BY FS_EmptySet
      <3>3. Cardinality(Q) = 0
        <4> HIDE DEF Q
        <4> QED
          BY <3>1, <3>2
      <3>4. n = 1
        BY <2>2, <3>1
      <3> QED
        BY <3>3, <3>4
    <2>3. ASSUME app.client # s PROVE Cardinality(Q) + n = 1
      <3>1. socket[s].from # None /\ s \in socket[socket[s].from].queued
        BY <2>1, <2>3 DEF Owners
      <3>2. Q = {socket[s].from}
        BY <2>1, <3>1, NamedIds DEF Queues
      <3>3. Cardinality(Q) = 1
        BY <3>2, FS_Singleton
      <3> QED
        BY <2>3, <3>3
    <2>4. ASSUME NEW q \in Ids \ {s}, socket[q].place = "live", ~ socket[q].broken,
                 socket[s].peer # NoPeer, socket[q].peer = socket[s].peer
          PROVE  FALSE
      <3>1. s < q \/ q < s
        BY IdFacts
      <3> QED
        BY <2>1, <2>4, <3>1 DEF NewestWorks
    <2> QED
      BY <2>2, <2>3, <2>4
  <1> QED
    BY <1>1, Invariance, PTL

\* srt_listen never finds another listener in the slot of the port: stop() joins
\* runLoop(), whose srt_close has left the slot (clearIf in notListening), though
\* the old listener is collected seconds later. (core.cpp and queue.cpp)
THEOREM SlotIsFreeAgain == Spec => []PortIsListenable
  <1>1. ASSUME IInv PROVE PortIsListenable
    BY <1>1, NoSlotYet DEF PortIsListenable
  <1> QED
    BY <1>1, Invariance, PTL

===============================================================================
