----------------------------- MODULE SocksProxy -----------------------------
(***************************************************************************)
(* The relay listener (SocksProxy) and the life of a connection in it: the *)
(* accept loop, one owned thread per session, the hand-over of the client  *)
(* socket from the session to DirectRelay and from there to the Worker     *)
(* tunnel (Relay), and stop(), which cancels every session and joins its   *)
(* thread.                                                                 *)
(*                                                                         *)
(* A connection's socket handle is stored in up to two places at once      *)
(* while it changes hands; handles[c] is the set of objects that hold it.  *)
(* What a relay does with the bytes is DeliverHello's; here a relay is     *)
(* probing, pumping or in the tunnel, and what matters is what stop()      *)
(* finds.  Every wait of a relay before the pump has a time-out.           *)
(***************************************************************************)
EXTENDS Integers, FiniteSets

CONSTANTS
    Conns,              \* connections; one is used again once it is over
    Stoppers,           \* threads that call stop(), the destructor included
    Acceptor,           \* the thread in run()
    Nobody,
    maxConnections,
    kAcceptMaxConsecutiveErrors,
    kMaxProbeAttempts,  \* connections deliverHello may use
    TunnelFallback,     \* RelayContext::tunnelFallback
    StopsEarly          \* stop() may be called before run() is listening

ASSUME ProxyConstants ==
    /\ IsFiniteSet(Conns) /\ IsFiniteSet(Stoppers)
    /\ maxConnections \in Nat \ {0}
    /\ kAcceptMaxConsecutiveErrors \in Nat
    /\ kMaxProbeAttempts \in Nat \ {0}
    /\ TunnelFallback \in BOOLEAN /\ StopsEarly \in BOOLEAN
    /\ {Acceptor, Nobody} \cap (Conns \cup Stoppers) = {}
    /\ Acceptor # Nobody /\ Conns \cap Stoppers = {}

VARIABLES
    accPc,          \* where run() is
    accConn,        \* the connection accept() returned
    errors,         \* consecutiveErrors
    listenSock,     \* "none", "open" or "closed"
    running,        \* running_
    stopRequested,  \* stopRequested_
    stopPc,         \* where each stop() is
    toCancel,       \* sessions a stop() has still to cancel
    mutex,          \* the stop() that holds sessionsMutex_, or Nobody
    cutting,        \* the session whose DirectRelay::stop() is under way
    woken,          \* stop() calls that sessionsChanged_ has notified
    sessions,       \* sessions_
    finished,       \* finished_: threads that wait to be joined
    joins,          \* the threads each thread is joining
    pc,             \* where each session thread is
    handles,        \* the objects that hold the client socket's handle
    open,           \* the client socket itself
    cancelled,      \* Session::cancelled
    relay,          \* Session::relay is set
    stopping,       \* DirectRelay::stopping_
    target,         \* DirectRelay::targetSock_ is open
    attempts,       \* connections deliverHello has used
    tunnel,         \* DirectRelay::tunnel_ is set
    tunnelStop      \* Relay::stopping_

control == <<accPc, accConn, errors, listenSock, running, stopRequested>>
stopper == <<stopPc, toCancel, mutex, cutting, woken>>
book == <<sessions, finished, joins>>
client == <<handles, open>>
inner == <<stopping, target, attempts, tunnel, tunnelStop>>
vars == <<control, stopper, book, pc, client, cancelled, relay, inner>>

Init ==
    /\ accPc = "bind" /\ accConn = Nobody /\ errors = 0
    /\ listenSock = "none" /\ running = FALSE /\ stopRequested = FALSE
    /\ stopPc = [s \in Stoppers |-> "idle"]
    /\ toCancel = [s \in Stoppers |-> {}]
    /\ mutex = Nobody /\ cutting = Nobody /\ woken = {}
    /\ sessions = {} /\ finished = {}
    /\ joins = [a \in Conns \cup Stoppers \cup {Acceptor} |-> {}]
    /\ pc = [c \in Conns |-> "free"]
    /\ handles = [c \in Conns |-> {}]
    /\ open = [c \in Conns |-> FALSE]
    /\ cancelled = [c \in Conns |-> FALSE]
    /\ relay = [c \in Conns |-> FALSE]
    /\ stopping = [c \in Conns |-> FALSE]
    /\ target = [c \in Conns |-> FALSE]
    /\ attempts = [c \in Conns |-> 0]
    /\ tunnel = [c \in Conns |-> FALSE]
    /\ tunnelStop = [c \in Conns |-> FALSE]

sessionsFree == mutex = Nobody
goto(c, place) == pc' = [pc EXCEPT ![c] = place]

---------------------------------------------------------------------------
(* The accept loop                                                         *)

Bind ==
    /\ accPc = "bind"
    /\ accPc' \in {"enter", "ended"}
    /\ UNCHANGED <<accConn, errors, listenSock, running, stopRequested,
                   stopper, book, pc, client, cancelled, relay, inner>>

\* The test of stopRequested_, under listenMutex_ until Publish.
Enter ==
    /\ accPc = "enter"
    /\ accPc' = IF stopRequested THEN "ended" ELSE "publish"
    /\ UNCHANGED <<accConn, errors, listenSock, running, stopRequested,
                   stopper, book, pc, client, cancelled, relay, inner>>

Publish ==
    /\ accPc = "publish"
    /\ listenSock' = "open"
    /\ running' = TRUE
    /\ accPc' = "accept"
    /\ UNCHANGED <<accConn, errors, stopRequested,
                   stopper, book, pc, client, cancelled, relay, inner>>

LeaveLoop ==
    /\ accPc = "accept" /\ ~running
    /\ accPc' = "ended"
    /\ UNCHANGED <<accConn, errors, listenSock, running, stopRequested,
                   stopper, book, pc, client, cancelled, relay, inner>>

\* accept() may return a connection although stop() has cleared running_
\* while it was blocked.
Accept(c) ==
    /\ accPc = "accept" /\ listenSock = "open" /\ pc[c] = "free"
    /\ accConn' = c
    /\ errors' = 0
    /\ accPc' = "reap"
    /\ goto(c, "accepted")
    /\ open' = [open EXCEPT ![c] = TRUE]
    /\ UNCHANGED <<listenSock, running, stopRequested,
                   stopper, book, handles, cancelled, relay, inner>>

\* A closed listener is a fatal error, as is too long a run of others.
AcceptFails ==
    /\ accPc = "accept"
    /\ LET last == listenSock = "closed" \/ errors + 1 > kAcceptMaxConsecutiveErrors
       IN  IF ~running \/ last
           THEN running' = FALSE /\ accPc' = "ended" /\ UNCHANGED errors
           ELSE errors' = errors + 1 /\ UNCHANGED <<running, accPc>>
    /\ UNCHANGED <<accConn, listenSock, stopRequested,
                   stopper, book, pc, client, cancelled, relay, inner>>

\* reapFinished takes the list; the joins follow outside the lock.
takeFinished(a) ==
    /\ joins' = [joins EXCEPT ![a] = finished]
    /\ finished' = {}

SpawnReap ==
    /\ accPc = "reap" /\ sessionsFree
    /\ takeFinished(Acceptor)
    /\ accPc' = "insert"
    /\ UNCHANGED <<accConn, errors, listenSock, running, stopRequested,
                   stopper, sessions, pc, client, cancelled, relay, inner>>

refused == ~running \/ Cardinality(sessions) >= maxConnections

inserting == accPc = "insert" /\ joins[Acceptor] = {} /\ sessionsFree

\* Refused, or the thread could not be created: the socket is closed.
SpawnRefuses ==
    /\ inserting
    /\ accPc' = "accept"
    /\ accConn' = Nobody
    /\ goto(accConn, "free")
    /\ open' = [open EXCEPT ![accConn] = FALSE]
    /\ UNCHANGED <<errors, listenSock, running, stopRequested,
                   stopper, book, handles, cancelled, relay, inner>>

SpawnStarts ==
    /\ inserting /\ ~refused
    /\ sessions' = sessions \cup {accConn}
    /\ handles' = [handles EXCEPT ![accConn] = {"session"}]
    /\ goto(accConn, "negotiate")
    /\ accPc' = "accept"
    /\ accConn' = Nobody
    /\ UNCHANGED <<errors, listenSock, running, stopRequested,
                   stopper, finished, joins, open, cancelled, relay, inner>>

---------------------------------------------------------------------------
(* A session thread                                                        *)

\* The handshake ends by success, by failure or by an exception; a relay
\* built on success has a copy of the handle.
Negotiate(c) ==
    /\ pc[c] = "negotiate"
    /\ \/ goto(c, "refuse") /\ UNCHANGED handles
       \/ /\ goto(c, "handover")
          /\ handles' = [handles EXCEPT ![c] = @ \cup {"relay"}]
    /\ UNCHANGED <<control, stopper, book, open, cancelled, relay, inner>>

\* A failed handshake that closes the socket and leaves its handle behind.
RefuseKeepsHandle(c) ==
    /\ pc[c] = "refuse" /\ sessionsFree
    /\ open' = [open EXCEPT ![c] = FALSE]
    /\ goto(c, "leave")
    /\ UNCHANGED <<control, stopper, book, handles, cancelled, relay, inner>>

\* The handle is retired and closed under sessionsMutex_, in serve() or, for
\* an exception, in sessionMain().
Refuse(c) ==
    /\ pc[c] = "refuse" /\ sessionsFree
    /\ handles' = [handles EXCEPT ![c] = {}]
    /\ open' = [open EXCEPT ![c] = FALSE]
    /\ goto(c, "leave")
    /\ UNCHANGED <<control, stopper, book, cancelled, relay, inner>>

\* A hand-over that does not look at cancelled.
HandOverBlind(c) ==
    /\ pc[c] = "handover" /\ sessionsFree
    /\ handles' = [handles EXCEPT ![c] = @ \ {"session"}]
    /\ relay' = [relay EXCEPT ![c] = TRUE]
    /\ goto(c, "relay")
    /\ UNCHANGED <<control, stopper, book, open, cancelled, inner>>

\* The relay owns the socket now; a session cancelled meanwhile goes straight
\* to the relay's destructor.
HandOver(c) ==
    /\ pc[c] = "handover" /\ sessionsFree
    /\ handles' = [handles EXCEPT ![c] = @ \ {"session"}]
    /\ relay' = [relay EXCEPT ![c] = ~cancelled[c]]
    /\ goto(c, IF cancelled[c] THEN "destroy" ELSE "relay")
    /\ UNCHANGED <<control, stopper, book, open, cancelled, inner>>

RunRelay(c) ==
    /\ pc[c] = "relay"
    /\ goto(c, IF stopping[c] THEN "close" ELSE "connect")
    /\ UNCHANGED <<control, stopper, book, client, cancelled, relay, inner>>

\* connectTarget publishes its socket unless stop() came while it connected.
connected(c) ==
    /\ ~stopping[c]
    /\ target' = [target EXCEPT ![c] = TRUE]
    /\ attempts' = [attempts EXCEPT ![c] = @ + 1]
    /\ goto(c, "deliver")
    /\ UNCHANGED handles

\* Collecting the hello, resolving and connecting, in either order: any of
\* them may fail.
Prepare(c) ==
    /\ pc[c] = "connect"
    /\ \/ connected(c)
       \/ goto(c, "close") /\ UNCHANGED <<handles, target, attempts>>
    /\ UNCHANGED <<control, stopper, book, open, cancelled, relay,
                   stopping, tunnel, tunnelStop>>

\* deliverHello gave up: handOffToTunnel builds the tunnel on the relay's
\* handle if there is a tunnel to fall back on.
undelivered(c) ==
    /\ handles' = [handles EXCEPT ![c] = IF TunnelFallback THEN @ \cup {"tunnel"} ELSE @]
    /\ goto(c, IF TunnelFallback THEN "offer" ELSE "close")

\* One profile of deliverHello: it wins, it was the last, or the connection
\* is dropped for a new one.
Deliver(c) ==
    /\ pc[c] = "deliver"
    /\ \/ goto(c, "pump") /\ UNCHANGED <<handles, target>>
       \/ undelivered(c) /\ UNCHANGED target
       \/ /\ attempts[c] < kMaxProbeAttempts /\ ~stopping[c]
          /\ target' = [target EXCEPT ![c] = FALSE]
          /\ goto(c, "reconnect")
          /\ UNCHANGED handles
    /\ UNCHANGED <<control, stopper, book, open, cancelled, relay,
                   stopping, attempts, tunnel, tunnelStop>>

Reconnect(c) ==
    /\ pc[c] = "reconnect"
    /\ \/ connected(c)
       \/ undelivered(c) /\ UNCHANGED <<target, attempts>>
    /\ UNCHANGED <<control, stopper, book, open, cancelled, relay,
                   stopping, tunnel, tunnelStop>>

\* pump() ends when a peer, a time-out or an error ends it, and at once
\* when stopping_ is set.
Pump(c) ==
    /\ pc[c] = "pump"
    /\ goto(c, "close")
    /\ UNCHANGED <<control, stopper, book, client, cancelled, relay, inner>>

\* handOffToTunnel under socketMutex_; a tunnel that is not run closes the
\* socket in its destructor.
OfferTunnel(c) ==
    /\ pc[c] = "offer"
    /\ handles' = [handles EXCEPT ![c] = @ \ {"relay"}]
    /\ tunnel' = [tunnel EXCEPT ![c] = ~stopping[c]]
    /\ goto(c, IF stopping[c] THEN "dropTunnel" ELSE "tunnel")
    /\ UNCHANGED <<control, stopper, book, open, cancelled, relay,
                   stopping, target, attempts, tunnelStop>>

\* Relay::run returns: the peer ended it, or stop() did.
TunnelEnds(c) ==
    /\ pc[c] = "tunnel"
    /\ tunnel' = [tunnel EXCEPT ![c] = FALSE]
    /\ goto(c, "dropTunnel")
    /\ UNCHANGED <<control, stopper, book, client, cancelled, relay,
                   stopping, target, attempts, tunnelStop>>

\* ~Relay closes the client socket.
DropTunnel(c) ==
    /\ pc[c] = "dropTunnel"
    /\ handles' = [handles EXCEPT ![c] = @ \ {"tunnel"}]
    /\ open' = [open EXCEPT ![c] = FALSE]
    /\ tunnelStop' = [tunnelStop EXCEPT ![c] = FALSE]
    /\ goto(c, "close")
    /\ UNCHANGED <<control, stopper, book, cancelled, relay,
                   stopping, target, attempts, tunnel>>

closeSockets(c) ==
    /\ handles' = [handles EXCEPT ![c] = @ \ {"relay"}]
    /\ open' = [open EXCEPT ![c] = @ /\ "relay" \notin handles[c]]
    /\ target' = [target EXCEPT ![c] = FALSE]

\* The end of DirectRelay::run.
RelayReturns(c) ==
    /\ pc[c] = "close"
    /\ closeSockets(c)
    /\ goto(c, "unregister")
    /\ UNCHANGED <<control, stopper, book, cancelled, relay,
                   stopping, attempts, tunnel, tunnelStop>>

\* run() may throw; serve() unregisters the relay before it is destroyed.
RelayThrows(c) ==
    /\ pc[c] \in {"connect", "deliver", "reconnect", "pump"}
    /\ goto(c, "unregister")
    /\ UNCHANGED <<control, stopper, book, client, cancelled, relay, inner>>

Unregister(c) ==
    /\ pc[c] = "unregister" /\ sessionsFree
    /\ relay' = [relay EXCEPT ![c] = FALSE]
    /\ goto(c, "destroy")
    /\ UNCHANGED <<control, stopper, book, client, cancelled, inner>>

\* ~DirectRelay closes what run() did not get to.
DestroyRelay(c) ==
    /\ pc[c] = "destroy"
    /\ closeSockets(c)
    /\ stopping' = [stopping EXCEPT ![c] = FALSE]
    /\ attempts' = [attempts EXCEPT ![c] = 0]
    /\ goto(c, "leave")
    /\ UNCHANGED <<control, stopper, book, cancelled, relay, tunnel, tunnelStop>>

\* The end of sessionMain: leave the book and take the threads that ended
\* before, ...
Leave(c) ==
    /\ pc[c] = "leave" /\ sessionsFree
    /\ sessions' = sessions \ {c}
    /\ joins' = [joins EXCEPT ![c] = finished]
    /\ finished' = {c}
    /\ cancelled' = [cancelled EXCEPT ![c] = FALSE]
    /\ goto(c, "notify")
    /\ UNCHANGED <<control, stopper, client, relay, inner>>

Waiting == {"waitFor", "wait"}
waiters == {s \in Stoppers : stopPc[s] \in Waiting}

\* A session that leaves quietly.
NotifyNobody(c) ==
    /\ pc[c] = "notify"
    /\ goto(c, "reap")
    /\ UNCHANGED <<control, stopper, book, client, cancelled, relay, inner>>

\* ... and wake every stop() that waits, with sessionsMutex_ released.
Notify(c) ==
    /\ pc[c] = "notify"
    /\ woken' = woken \cup waiters
    /\ goto(c, "reap")
    /\ UNCHANGED <<control, stopPc, toCancel, mutex, cutting, book, client, cancelled,
                   relay, inner>>

ThreadExits(c) ==
    /\ pc[c] = "reap" /\ joins[c] = {}
    /\ goto(c, "exited")
    /\ UNCHANGED <<control, stopper, book, client, cancelled, relay, inner>>

\* std::thread::join by whoever took the thread's handle.
Join(a, c) ==
    /\ c \in joins[a] /\ pc[c] = "exited"
    /\ joins' = [joins EXCEPT ![a] = @ \ {c}]
    /\ goto(c, "free")
    /\ UNCHANGED <<control, stopper, sessions, finished, client, cancelled,
                   relay, inner>>

---------------------------------------------------------------------------
(* stop()                                                                  *)

step(s, place) == stopPc' = [stopPc EXCEPT ![s] = place]

StopRequest(s) ==
    /\ stopPc[s] = "idle"
    /\ StopsEarly \/ running \/ accPc = "ended"
    /\ stopRequested' = TRUE
    /\ step(s, "flag")
    /\ UNCHANGED <<accPc, accConn, errors, listenSock, running, toCancel, mutex,
                   cutting, woken, book, pc, client, cancelled, relay, inner>>

StopFlag(s) ==
    /\ stopPc[s] = "flag"
    /\ running' = FALSE
    /\ step(s, "listener")
    /\ UNCHANGED <<accPc, accConn, errors, listenSock, stopRequested, toCancel,
                   mutex, cutting, woken, book, pc, client, cancelled, relay, inner>>

\* listenMutex_ is free: run() holds it only from Enter to Publish.
StopListener(s) ==
    /\ stopPc[s] = "listener" /\ accPc # "publish"
    /\ listenSock' = IF listenSock = "open" THEN "closed" ELSE listenSock
    /\ step(s, "lock")
    /\ UNCHANGED <<accPc, accConn, errors, running, stopRequested, toCancel,
                   mutex, cutting, woken, book, pc, client, cancelled, relay, inner>>

StopLock(s) ==
    /\ stopPc[s] = "lock" /\ sessionsFree
    /\ mutex' = s
    /\ toCancel' = [toCancel EXCEPT ![s] = sessions]
    /\ step(s, "cancel")
    /\ UNCHANGED <<control, cutting, woken, book, pc, client, cancelled, relay, inner>>

\* cancel(), up to DirectRelay::stop()'s wait for socketMutex_: a relay knows
\* that it is to stop before its sockets and its tunnel do.
cancel(c) ==
    /\ cancelled' = [cancelled EXCEPT ![c] = TRUE]
    /\ stopping' = [stopping EXCEPT ![c] = @ \/ relay[c]]
    /\ cutting' = IF relay[c] THEN c ELSE Nobody

StopCancel(s, c) ==
    /\ stopPc[s] = "cancel" /\ c \in toCancel[s] /\ cutting = Nobody
    /\ cancel(c)
    /\ toCancel' = [toCancel EXCEPT ![s] = @ \ {c}]
    /\ UNCHANGED <<control, stopPc, mutex, woken, book, pc, client, relay, target,
                   attempts, tunnel, tunnelStop>>

\* The rest of DirectRelay::stop(), under socketMutex_: the tunnel, if there
\* is one by then, is stopped, and the receive sides are shut down.
StopSockets(s, c) ==
    /\ stopPc[s] = "cancel" /\ cutting = c
    /\ tunnelStop' = [tunnelStop EXCEPT ![c] = @ \/ tunnel[c]]
    /\ cutting' = Nobody
    /\ UNCHANGED <<control, stopPc, toCancel, mutex, woken, book, pc, client, cancelled,
                   relay, stopping, target, attempts, tunnel>>

drained == sessions = {}

\* wait_for tests its condition before it releases sessionsMutex_.
StopWait(s) ==
    /\ stopPc[s] = "cancel" /\ toCancel[s] = {} /\ cutting = Nobody
    /\ mutex' = Nobody
    /\ step(s, IF drained THEN "reap" ELSE "waitFor")
    /\ UNCHANGED <<control, toCancel, cutting, woken, book, pc, client, cancelled,
                   relay, inner>>

\* Either wait tests its condition again, under sessionsMutex_, whenever it
\* wakes: notified or not.
StopWakes(s) ==
    /\ stopPc[s] \in Waiting /\ sessionsFree
    /\ woken' = woken \ {s}
    /\ step(s, IF drained THEN "reap" ELSE stopPc[s])
    /\ UNCHANGED <<control, toCancel, mutex, cutting, book, pc, client, cancelled,
                   relay, inner>>

\* kStopDrainWarnSeconds are over: the second wait has no deadline.
StopWaitsOn(s) ==
    /\ stopPc[s] = "waitFor" /\ sessionsFree
    /\ woken' = woken \ {s}
    /\ step(s, IF drained THEN "reap" ELSE "wait")
    /\ UNCHANGED <<control, toCancel, mutex, cutting, book, pc, client, cancelled,
                   relay, inner>>

\* A stop that leaves the finished threads to someone else.
StopReapForgets(s) ==
    /\ stopPc[s] = "reap"
    /\ step(s, "join")
    /\ UNCHANGED <<control, toCancel, mutex, cutting, woken, book, pc, client, cancelled,
                   relay, inner>>

StopReap(s) ==
    /\ stopPc[s] = "reap" /\ sessionsFree
    /\ takeFinished(s)
    /\ step(s, "join")
    /\ UNCHANGED <<control, toCancel, mutex, cutting, woken, sessions, pc, client,
                   cancelled, relay, inner>>

StopReturn(s) ==
    /\ stopPc[s] = "join" /\ joins[s] = {}
    /\ step(s, "done")
    /\ UNCHANGED <<control, toCancel, mutex, cutting, woken, book, pc, client, cancelled,
                   relay, inner>>

---------------------------------------------------------------------------

AcceptLoop ==
    \/ Bind \/ Enter \/ Publish \/ LeaveLoop \/ AcceptFails
    \/ SpawnReap \/ SpawnRefuses \/ SpawnStarts
    \/ \E c \in Conns : Accept(c)

SessionStep(c) ==
    \/ Negotiate(c) \/ Refuse(c) \/ HandOver(c) \/ RunRelay(c)
    \/ Prepare(c) \/ Deliver(c) \/ Reconnect(c) \/ OfferTunnel(c)
    \/ DropTunnel(c) \/ RelayReturns(c) \/ Unregister(c) \/ DestroyRelay(c)
    \/ Leave(c) \/ Notify(c) \/ ThreadExits(c)

StopStep(s) ==
    \/ StopFlag(s) \/ StopListener(s) \/ StopLock(s) \/ StopWait(s)
    \/ StopWaitsOn(s) \/ StopReap(s) \/ StopReturn(s)
    \/ \E c \in Conns : StopCancel(s, c) \/ StopSockets(s, c)

Joins == \E a \in DOMAIN joins, c \in Conns : Join(a, c)

Next ==
    \/ AcceptLoop \/ Joins
    \/ \E s \in Stoppers : StopRequest(s) \/ StopStep(s) \/ StopWakes(s)
    \/ \E c \in Conns : SessionStep(c) \/ Pump(c) \/ TunnelEnds(c) \/ RelayThrows(c)

Spec == Init /\ [][Next]_vars

\* Every thread runs on, and every wait of a session but the pump's and the
\* tunnel's has a time-out of its own; the pump ends once it is told to stop.
\* A stop() wakes when it is notified; nothing makes a tunnel return.
FairSpec ==
    /\ Spec
    /\ WF_vars(AcceptLoop) /\ WF_vars(Joins)
    /\ \A s \in Stoppers : WF_vars(StopStep(s)) /\ WF_vars(s \in woken /\ StopWakes(s))
    /\ \A c \in Conns : WF_vars(SessionStep(c)) /\ WF_vars(stopping[c] /\ Pump(c))

---------------------------------------------------------------------------
(* Properties                                                              *)

InRelay == {"relay", "connect", "deliver", "reconnect", "pump", "offer",
            "tunnel", "dropTunnel", "close", "unregister"}
Over == {"notify", "reap", "exited", "free"}

\* What stop() can reach is alive: wherever the client socket's handle is
\* stored the socket is open, so cancel() never shuts down a handle that was
\* closed and possibly reissued; a registered relay or tunnel is still
\* running, and its session is still in the book; a relay whose stop() is
\* under way stays registered until that call is over.
ReachableIsAlive ==
    \A c \in Conns :
        /\ handles[c] # {} => open[c]
        /\ relay[c] => pc[c] \in InRelay /\ c \in sessions
        /\ tunnel[c] => pc[c] = "tunnel" /\ relay[c]
        /\ cutting = c => relay[c]

\* Once a stop() has returned there is no session, and none appears later:
\* "Closes the listener, aborts every live connection and waits for their
\* threads" (SocksProxy::stop).
DrainedAfterStop ==
    (\E s \in Stoppers : stopPc[s] = "done") => sessions = {}

\* Nothing is left behind: a session thread that left the book has closed its
\* client and its target socket, however it ended, a stop() that has returned
\* leaves no session, and once every stop() and run() have returned every
\* session thread has been joined by someone (SocksProxy::stop, reap and the
\* session's guards).
NothingIsLeftBehind ==
    /\ \A c \in Conns : pc[c] \in {"leave"} \cup Over => ~open[c] /\ ~target[c]
    /\ DrainedAfterStop
    /\ (accPc = "ended" /\ \A s \in Stoppers : stopPc[s] = "done")
         => \A c \in Conns : pc[c] = "free"

\* A cancellation is never lost between the session, the relay and the
\* tunnel: once a session is cancelled, a relay that runs has been told to
\* stop, and so has a tunnel that runs, or the DirectRelay::stop() that will
\* tell it is under way.
CancelReaches ==
    \A c \in Conns : cancelled[c] =>
        /\ pc[c] \in InRelay => stopping[c]
        /\ pc[c] = "tunnel" => tunnelStop[c] \/ cutting = c

\* A tunnel that was told to stop returns at last.  The code cannot promise
\* it: a receive in progress may depend on the peer (WsClient.cpp:107).
TunnelsReturn == \A c \in Conns : []<>~(pc[c] = "tunnel" /\ tunnelStop[c])

\* If every tunnel that is told to stop returns, every stop() returns,
\* whatever the sessions are doing when it is called: no notification of
\* sessionsChanged_ is lost to a stop() that has run into its wait without a
\* deadline, no two threads wait for each other's join, and no session outruns
\* its cancellation (SocksProxy::stop, sessionMain and reapFinished).
StopReturns ==
    TunnelsReturn => \A s \in Stoppers : stopPc[s] = "flag" ~> stopPc[s] = "done"
=============================================================================
