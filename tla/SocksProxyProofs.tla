-------------------------- MODULE SocksProxyProofs --------------------------
(***************************************************************************)
(* The relay listener's safety invariants, for any number of connections   *)
(* and of threads that call stop().  The inductive invariant says, for     *)
(* every place a session thread can be at, who holds its socket, whether a *)
(* relay and a tunnel are registered, and what a cancellation has reached; *)
(* who joins which thread; and how far run() is once a stop() has begun.   *)
(***************************************************************************)
EXTENDS SocksProxy, TLAPS

Agents == Conns \cup Stoppers \cup {Acceptor}
Ending == {"notify", "reap", "exited"}
InBook == {"negotiate", "refuse", "handover", "destroy", "leave"} \cup InRelay
Places == {"accepted"} \cup InBook \cup Over
AccPlaces == {"bind", "enter", "publish", "accept", "reap", "insert", "ended"}
StopPlaces == {"idle", "flag", "listener", "lock", "cancel", "waitFor", "wait",
               "reap", "join", "done"}

Types ==
    /\ accPc \in AccPlaces
    /\ accConn \in Conns \cup {Nobody}
    /\ stopPc \in [Stoppers -> StopPlaces]
    /\ cutting \in Conns \cup {Nobody}
    /\ sessions \in SUBSET Conns
    /\ finished \in SUBSET Conns
    /\ joins \in [Agents -> SUBSET Conns]
    /\ pc \in [Conns -> Places]
    /\ handles \in [Conns -> SUBSET {"session", "relay", "tunnel"}]
    /\ open \in [Conns -> BOOLEAN]
    /\ cancelled \in [Conns -> BOOLEAN]
    /\ relay \in [Conns -> BOOLEAN]
    /\ stopping \in [Conns -> BOOLEAN]
    /\ target \in [Conns -> BOOLEAN]
    /\ tunnel \in [Conns -> BOOLEAN]
    /\ tunnelStop \in [Conns -> BOOLEAN]

\* Who holds the client socket's handle at each place; run() may throw, so a
\* relay that is on its way out may still hold it.
HandlesAre(c) ==
    /\ pc[c] \in {"accepted", "leave"} \cup Over => handles[c] = {}
    /\ pc[c] \in {"negotiate", "refuse"} => handles[c] = {"session"}
    /\ pc[c] = "handover" => handles[c] = {"session", "relay"}
    /\ pc[c] \in {"relay", "connect", "deliver", "reconnect", "pump"}
         => handles[c] = {"relay"}
    /\ pc[c] = "offer" => handles[c] = {"relay", "tunnel"}
    /\ pc[c] \in {"tunnel", "dropTunnel"} => handles[c] = {"tunnel"}
    /\ pc[c] \in {"close", "unregister", "destroy"} => handles[c] \subseteq {"relay"}

\* What is registered where, and what a cancellation has reached.
SessionInv(c) ==
    /\ c \in sessions <=> pc[c] \in InBook
    /\ pc[c] = "accepted" <=> accPc \in {"reap", "insert"} /\ accConn = c
    /\ HandlesAre(c)
    /\ open[c] <=> handles[c] # {} \/ pc[c] = "accepted"
    /\ relay[c] <=> pc[c] \in InRelay
    /\ tunnel[c] <=> pc[c] = "tunnel"
    /\ target[c] => pc[c] \in InRelay \cup {"destroy"}
    /\ cancelled[c] /\ pc[c] \in InRelay => stopping[c]
    /\ cancelled[c] /\ pc[c] = "tunnel" => tunnelStop[c] \/ cutting = c

SessionsInv == \A c \in Conns : SessionInv(c)
AcceptInv == accPc \in {"reap", "insert"} => accConn \in Conns

\* A thread joins others only where the code does, ...
JoinersAre ==
    /\ joins[Acceptor] # {} => accPc = "insert"
    /\ \A s \in Stoppers : joins[s] # {} => stopPc[s] = "join"
    /\ \A c \in Conns : joins[c] # {} => pc[c] \in {"notify", "reap"}

\* ... and no set of ending threads only waits for itself: each has a member
\* that still has to be taken, or that a thread outside the set joins.
NoRingOfJoins ==
    \A T \in SUBSET {c \in Conns : pc[c] \in Ending} : T # {} =>
        \E c \in T : c \in finished \/ \E a \in Agents \ T : c \in joins[a]

ThreadsInv == JoinersAre /\ NoRingOfJoins

\* A stop() that cancels holds sessionsMutex_, and the relay it is stopping is
\* still running.
LockInv ==
    /\ \A s \in Stoppers : stopPc[s] = "cancel" => mutex = s
    /\ cutting # Nobody => mutex # Nobody /\ pc[cutting] \in InRelay

\* How far things are once a stop() has begun, if none begins early.
Accepting == {"accept", "reap", "insert", "ended"}
DrainInv ==
    /\ running = TRUE => accPc \in Accepting
    /\ \A s \in Stoppers :
          /\ stopPc[s] # "idle" => accPc \in Accepting
          /\ stopPc[s] \notin {"idle", "flag"} => running = FALSE
          /\ stopPc[s] \in {"reap", "join", "done"} => sessions = {}
          /\ stopPc[s] \in {"join", "done"} => finished = {}

ProxyInv == Types /\ AcceptInv /\ SessionsInv /\ LockInv /\ ThreadsInv
DrainedInv == ProxyInv /\ DrainInv
---------------------------------------------------------------------------
(* Proofs                                                                  *)

\* Every step keeps the variables in their ranges.
LEMMA TypesStep ==
  ASSUME Types, AcceptInv, [Next]_vars PROVE Types'
<1> USE DEF Types, Agents, InRelay, Over, InBook, Places, AccPlaces, StopPlaces,
            AcceptInv
<1>1. CASE AcceptLoop
  <2>1. CASE Bind
    BY Zenon, <2>1 DEF Bind, stopper, book, client, inner
  <2>2. CASE Enter
    BY Zenon, <2>2 DEF Enter, stopper, book, client, inner
  <2>3. CASE Publish
    BY Zenon, <2>3 DEF Publish, stopper, book, client, inner
  <2>4. CASE LeaveLoop
    BY Zenon, <2>4 DEF LeaveLoop, stopper, book, client, inner
  <2>5. CASE AcceptFails
    BY Zenon, <2>5 DEF AcceptFails, stopper, book, client, inner
  <2>6. CASE SpawnReap
    BY Zenon, <2>6 DEF SpawnReap, takeFinished, sessionsFree, stopper, client, inner
  <2>7. CASE SpawnRefuses
    BY Zenon, <2>7 DEF SpawnRefuses, inserting, goto, stopper, book, inner
  <2>8. CASE SpawnStarts
    BY <2>8 DEF SpawnStarts, inserting, refused, goto, stopper, inner
  <2>9. ASSUME NEW c \in Conns, Accept(c) PROVE Types'
    BY Zenon, <2>9 DEF Accept, goto, stopper, book, inner
  <2> QED
    BY Zenon, <1>1, <2>1, <2>2, <2>3, <2>4, <2>5, <2>6, <2>7, <2>8, <2>9 DEF
       AcceptLoop
<1>2. ASSUME NEW c \in Conns, SessionStep(c) PROVE Types'
  <2>1. CASE Negotiate(c)
    BY <2>1 DEF Negotiate, goto, control, stopper, book, inner
  <2>2. CASE Refuse(c)
    BY Zenon, <2>2 DEF Refuse, goto, control, stopper, book, inner
  <2>3. CASE HandOver(c)
    BY Zenon, <2>3 DEF HandOver, goto, control, stopper, book, inner
  <2>4. CASE RunRelay(c)
    BY Zenon, <2>4 DEF RunRelay, goto, control, stopper, book, client, inner
  <2>5. CASE Prepare(c)
    <3>1. CASE connected(c)
      BY Zenon, <2>5, <3>1 DEF Prepare, connected, goto, control, stopper, book
    <3>2. CASE goto(c, "close") /\ UNCHANGED <<handles, target, attempts>>
      BY Zenon, <2>5, <3>2 DEF Prepare, goto, control, stopper, book
    <3> QED
      BY Zenon, <2>5, <3>1, <3>2 DEF Prepare
  <2>6. CASE Deliver(c)
    <3>1. CASE goto(c, "pump") /\ UNCHANGED <<handles, target>>
      BY Zenon, <2>6, <3>1 DEF Deliver, goto, control, stopper, book
    <3>2. CASE undelivered(c) /\ UNCHANGED target
      BY Zenon, <2>6, <3>2 DEF Deliver, undelivered, goto, control, stopper, book
    <3>3. CASE /\ target' = [target EXCEPT ![c] = FALSE]
               /\ goto(c, "reconnect") /\ UNCHANGED handles
      BY Zenon, <2>6, <3>3 DEF Deliver, goto, control, stopper, book
    <3> QED
      BY Zenon, <2>6, <3>1, <3>2, <3>3 DEF Deliver
  <2>7. CASE Reconnect(c)
    <3>1. CASE connected(c)
      BY Zenon, <2>7, <3>1 DEF Reconnect, connected, goto, control, stopper, book
    <3>2. CASE undelivered(c) /\ UNCHANGED <<target, attempts>>
      BY Zenon, <2>7, <3>2 DEF Reconnect, undelivered, goto, control, stopper, book
    <3> QED
      BY Zenon, <2>7, <3>1, <3>2 DEF Reconnect
  <2>8. CASE OfferTunnel(c)
    BY Zenon, <2>8 DEF OfferTunnel, goto, control, stopper, book
  <2>9. CASE DropTunnel(c)
    BY Zenon, <2>9 DEF DropTunnel, goto, control, stopper, book
  <2>10. CASE RelayReturns(c)
    BY Zenon, <2>10 DEF RelayReturns, closeSockets, goto, control, stopper, book
  <2>11. CASE Unregister(c)
    BY Zenon, <2>11 DEF Unregister, goto, control, stopper, book, client, inner
  <2>12. CASE DestroyRelay(c)
    BY Zenon, <2>12 DEF DestroyRelay, closeSockets, goto, control, stopper, book
  <2>13. CASE Leave(c)
    BY Zenon, <2>13 DEF Leave, goto, control, stopper, client, inner
  <2>14. CASE ThreadExits(c)
    BY Zenon, <2>14 DEF ThreadExits, goto, control, stopper, book, client, inner
  <2>15. CASE Notify(c)
    BY Zenon, <2>15 DEF Notify, goto, control, book, client, inner
  <2> QED
    BY Zenon, <1>2, <2>1, <2>2, <2>3, <2>4, <2>5, <2>6, <2>7, <2>8, <2>9, <2>10,
       <2>11, <2>12, <2>13, <2>14, <2>15 DEF SessionStep
<1>3. ASSUME NEW c \in Conns, Pump(c) \/ TunnelEnds(c) \/ RelayThrows(c) PROVE Types'
  <2>1. CASE Pump(c)
    BY Zenon, <2>1 DEF Pump, goto, control, stopper, book, client, inner
  <2>2. CASE TunnelEnds(c)
    BY Zenon, <2>2 DEF TunnelEnds, goto, control, stopper, book, client
  <2>3. CASE RelayThrows(c)
    BY Zenon, <2>3 DEF RelayThrows, goto, control, stopper, book, client, inner
  <2> QED
    BY Zenon, <1>3, <2>1, <2>2, <2>3
<1>4. ASSUME NEW s \in Stoppers, StopRequest(s) \/ StopStep(s) \/ StopWakes(s)
      PROVE  Types'
  <2>1. CASE StopRequest(s)
    BY Zenon, <2>1 DEF StopRequest, step, book, client, inner
  <2>2. CASE StopFlag(s)
    BY Zenon, <2>2 DEF StopFlag, step, book, client, inner
  <2>3. CASE StopListener(s)
    BY Zenon, <2>3 DEF StopListener, step, book, client, inner
  <2>4. CASE StopLock(s)
    BY Zenon, <2>4 DEF StopLock, step, control, book, client, inner
  <2>5. CASE StopWait(s)
    BY Zenon, <2>5 DEF StopWait, step, drained, control, book, client, inner
  <2>6. CASE StopWakes(s)
    BY Zenon, <2>6 DEF StopWakes, Waiting, step, drained, control, book, client, inner
  <2>7. CASE StopReap(s)
    BY Zenon, <2>7 DEF StopReap, takeFinished, step, control, client, inner
  <2>8. CASE StopReturn(s)
    BY Zenon, <2>8 DEF StopReturn, step, control, book, client, inner
  <2>9. ASSUME NEW c \in Conns, StopCancel(s, c) PROVE Types'
    BY Zenon, <2>9 DEF StopCancel, cancel, control, book, client
  <2>10. CASE StopWaitsOn(s)
    BY Zenon, <2>10 DEF StopWaitsOn, step, drained, control, book, client, inner
  <2>11. ASSUME NEW c \in Conns, StopSockets(s, c) PROVE Types'
    BY Zenon, <2>11 DEF StopSockets, control, book, client
  <2> QED
    BY Zenon, <1>4, <2>1, <2>2, <2>3, <2>4, <2>5, <2>6, <2>7, <2>8, <2>9,
       <2>10, <2>11 DEF StopStep
<1>5. ASSUME NEW a \in Agents, NEW c \in Conns, Join(a, c) PROVE Types'
  BY Zenon, <1>5 DEF Join, goto, control, stopper, client, inner
<1>6. CASE UNCHANGED vars
  BY Zenon, <1>6 DEF vars, control, stopper, book, client, inner
<1> QED
  BY Zenon, <1>1, <1>2, <1>3, <1>4, <1>5, <1>6 DEF Next, Joins

\* Every step of run(), of a session and of stop() keeps what the session, the
\* relay and the tunnel hold in agreement with where the session's thread is.
LEMMA SessionsStep ==
  ASSUME Types, AcceptInv, SessionsInv, [Next]_vars
  PROVE  AcceptInv' /\ SessionsInv'
<1> DEFINE Goal == AcceptInv' /\ SessionsInv'
<1> USE ProxyConstants
    DEF Types, InRelay, Over, InBook, Places, AcceptInv, SessionsInv, SessionInv,
        HandlesAre
<1>1. CASE AcceptLoop
  <2>1. CASE Bind
    BY <2>1 DEF Bind, stopper, book, client, inner
  <2>2. CASE Enter
    BY <2>2 DEF Enter, stopper, book, client, inner
  <2>3. CASE Publish
    BY <2>3 DEF Publish, stopper, book, client, inner
  <2>4. CASE LeaveLoop
    BY <2>4 DEF LeaveLoop, stopper, book, client, inner
  <2>5. CASE AcceptFails
    BY <2>5 DEF AcceptFails, stopper, book, client, inner
  <2>6. CASE SpawnReap
    BY <2>6 DEF SpawnReap, takeFinished, sessionsFree, stopper, client, inner
  <2>7. CASE SpawnRefuses
    BY <2>7 DEF SpawnRefuses, inserting, goto, stopper, book, inner
  <2>8. CASE SpawnStarts
    BY SMTT(30), <2>8 DEF SpawnStarts, inserting, refused, goto, stopper, inner
  <2>9. ASSUME NEW c \in Conns, Accept(c) PROVE Goal
    BY <2>9 DEF Accept, goto, stopper, book, inner
  <2> QED
    BY Zenon, <1>1, <2>1, <2>2, <2>3, <2>4, <2>5, <2>6, <2>7, <2>8, <2>9 DEF
       AcceptLoop
<1>2. ASSUME NEW c \in Conns, SessionStep(c) PROVE Goal
  <2>1. CASE Negotiate(c)
    BY <2>1 DEF Negotiate, goto, control, stopper, book, inner
  <2>2. CASE Refuse(c)
    BY <2>2 DEF Refuse, goto, control, stopper, book, inner
  <2>3. CASE HandOver(c)
    <3>1. AcceptInv' /\ \A d \in Conns \ {c} : SessionInv(d)'
      BY <2>3 DEF HandOver, goto, control, stopper, book, inner
    <3>2. handles'[c] = {"relay"} /\ open'[c] = TRUE
      <4>1. handles[c] = {"session", "relay"} /\ open[c] = TRUE
        BY Zenon, <2>3 DEF HandOver
      <4>2. handles'[c] = handles[c] \ {"session"} /\ open' = open
        BY <2>3 DEF HandOver
      <4> HIDE DEF Types, SessionsInv, SessionInv
      <4> QED
        BY Zenon, <4>1, <4>2
    <3>3. /\ target'[c] = FALSE /\ tunnel'[c] = FALSE /\ cancelled'[c] = cancelled[c]
          /\ sessions' = sessions /\ c \in sessions
          /\ accConn' = accConn /\ accPc' = accPc /\ pc[c] # "accepted"
      BY <2>3 DEF HandOver, control, book, inner
    <3>4. /\ relay'[c] = ~cancelled[c]
          /\ pc'[c] = IF cancelled[c] THEN "destroy" ELSE "relay"
      BY <2>3 DEF HandOver, goto
    <3>5. SessionInv(c)'
      BY Zenon, <3>2, <3>3, <3>4
    <3> QED
      BY <3>1, <3>5
  <2>4. CASE RunRelay(c)
    BY <2>4 DEF RunRelay, goto, control, stopper, book, client, inner
  <2>5. CASE Prepare(c)
    <3>1. CASE connected(c)
      BY <2>5, <3>1 DEF Prepare, connected, goto, control, stopper, book
    <3>2. CASE goto(c, "close") /\ UNCHANGED <<handles, target, attempts>>
      BY <2>5, <3>2 DEF Prepare, goto, control, stopper, book
    <3> QED
      BY Zenon, <2>5, <3>1, <3>2 DEF Prepare
  <2>6. CASE Deliver(c)
    <3>1. CASE goto(c, "pump") /\ UNCHANGED <<handles, target>>
      BY <2>6, <3>1 DEF Deliver, goto, control, stopper, book
    <3>2. CASE undelivered(c) /\ UNCHANGED target
      BY SMTT(30), <2>6, <3>2 DEF Deliver, undelivered, goto, control, stopper, book
    <3>3. CASE /\ target' = [target EXCEPT ![c] = FALSE]
               /\ goto(c, "reconnect") /\ UNCHANGED handles
      BY <2>6, <3>3 DEF Deliver, goto, control, stopper, book
    <3> QED
      BY Zenon, <2>6, <3>1, <3>2, <3>3 DEF Deliver
  <2>7. CASE Reconnect(c)
    <3>1. CASE connected(c)
      BY <2>7, <3>1 DEF Reconnect, connected, goto, control, stopper, book
    <3>2. CASE undelivered(c) /\ UNCHANGED <<target, attempts>>
      BY <2>7, <3>2 DEF Reconnect, undelivered, goto, control, stopper, book
    <3> QED
      BY Zenon, <2>7, <3>1, <3>2 DEF Reconnect
  <2>8. CASE OfferTunnel(c)
    BY SMTT(60), <2>8 DEF OfferTunnel, goto, control, stopper, book
  <2>9. CASE DropTunnel(c)
    BY <2>9 DEF DropTunnel, goto, control, stopper, book
  <2>10. CASE RelayReturns(c)
    BY <2>10 DEF RelayReturns, closeSockets, goto, control, stopper, book
  <2>11. CASE Unregister(c)
    BY <2>11 DEF Unregister, goto, control, stopper, book, client, inner
  <2>12. CASE DestroyRelay(c)
    BY <2>12 DEF DestroyRelay, closeSockets, goto, control, stopper, book
  <2>13. CASE Leave(c)
    BY <2>13 DEF Leave, goto, control, stopper, client, inner
  <2>14. CASE ThreadExits(c)
    BY <2>14 DEF ThreadExits, goto, control, stopper, book, client, inner
  <2>15. CASE Notify(c)
    BY <2>15 DEF Notify, goto, control, book, client, inner
  <2> QED
    BY Zenon, <1>2, <2>1, <2>2, <2>3, <2>4, <2>5, <2>6, <2>7, <2>8, <2>9, <2>10,
       <2>11, <2>12, <2>13, <2>14, <2>15 DEF SessionStep
<1>3. ASSUME NEW c \in Conns, Pump(c) \/ TunnelEnds(c) \/ RelayThrows(c) PROVE Goal
  <2>1. CASE Pump(c)
    BY <2>1 DEF Pump, goto, control, stopper, book, client, inner
  <2>2. CASE TunnelEnds(c)
    BY <2>2 DEF TunnelEnds, goto, control, stopper, book, client
  <2>3. CASE RelayThrows(c)
    BY <2>3 DEF RelayThrows, goto, control, stopper, book, client, inner
  <2> QED
    BY Zenon, <1>3, <2>1, <2>2, <2>3
<1>4. ASSUME NEW s \in Stoppers, StopRequest(s) \/ StopStep(s) \/ StopWakes(s)
      PROVE  Goal
  <2>1. CASE StopRequest(s)
    BY <2>1 DEF StopRequest, step, book, client, inner
  <2>2. CASE StopFlag(s)
    BY <2>2 DEF StopFlag, step, book, client, inner
  <2>3. CASE StopListener(s)
    BY <2>3 DEF StopListener, step, book, client, inner
  <2>4. CASE StopLock(s)
    BY <2>4 DEF StopLock, step, control, book, client, inner
  <2>5. CASE StopWait(s)
    BY <2>5 DEF StopWait, step, drained, control, book, client, inner
  <2>6. CASE StopWakes(s)
    BY <2>6 DEF StopWakes, Waiting, step, drained, control, book, client, inner
  <2>7. CASE StopReap(s)
    BY <2>7 DEF StopReap, takeFinished, step, control, client, inner
  <2>8. CASE StopReturn(s)
    BY <2>8 DEF StopReturn, step, control, book, client, inner
  <2>9. ASSUME NEW c \in Conns, StopCancel(s, c) PROVE Goal
    BY <2>9 DEF StopCancel, cancel, control, book, client
  <2>10. CASE StopWaitsOn(s)
    BY <2>10 DEF StopWaitsOn, step, drained, control, book, client, inner
  <2>11. ASSUME NEW c \in Conns, StopSockets(s, c) PROVE Goal
    BY <2>11 DEF StopSockets, control, book, client
  <2> QED
    BY Zenon, <1>4, <2>1, <2>2, <2>3, <2>4, <2>5, <2>6, <2>7, <2>8, <2>9,
       <2>10, <2>11 DEF StopStep
<1>5. ASSUME NEW a \in Agents, NEW c \in Conns, Join(a, c) PROVE Goal
  BY <1>5 DEF Join, goto, control, stopper, client, inner
<1>6. CASE UNCHANGED vars
  BY <1>6 DEF vars, control, stopper, book, client, inner
<1> QED
  BY Zenon, <1>1, <1>2, <1>3, <1>4, <1>5, <1>6 DEF Next, Joins

\* A step that takes no part in a cancellation keeps its lock and its relay, if
\* no session leaves its relay while sessionsMutex_ is held.
LEMMA LockKept ==
  ASSUME Types, LockInv, UNCHANGED <<stopPc, mutex, cutting>>,
         \A d \in Conns : pc[d] \in InRelay => pc'[d] \in InRelay \/ mutex = Nobody
  PROVE  LockInv'
  BY Zenon DEF Types, LockInv

\* Every step keeps sessionsMutex_ with the stop() that cancels, and the relay
\* that is being stopped in its run().
LEMMA LockStep ==
  ASSUME Types, AcceptInv, SessionsInv, LockInv, [Next]_vars
  PROVE  LockInv'
<1>1. CASE AcceptLoop
  <2>1. UNCHANGED <<stopPc, mutex, cutting>>
    BY Zenon, <1>1 DEF AcceptLoop, Bind, Enter, Publish, LeaveLoop, AcceptFails,
       SpawnReap, SpawnRefuses, SpawnStarts, Accept, stopper
  <2>2. ASSUME NEW d \in Conns, pc[d] \in InRelay PROVE pc'[d] \in InRelay
    <3>1. CASE pc' = pc
      BY Zenon, <2>2, <3>1
    <3>2. ASSUME NEW c \in Conns, Accept(c) PROVE pc'[d] \in InRelay
      BY Zenon, <2>2, <3>2 DEF Accept, goto, Types, InRelay
    <3>3. CASE SpawnRefuses \/ SpawnStarts
      <4>1. accConn \in Conns /\ pc[accConn] = "accepted"
        BY Zenon, <3>3 DEF SpawnRefuses, SpawnStarts, inserting, AcceptInv,
           SessionsInv, SessionInv
      <4> QED
        BY Zenon, <2>2, <3>3, <4>1 DEF SpawnRefuses, SpawnStarts, goto, Types, InRelay
    <3> QED
      BY Zenon, <1>1, <3>1, <3>2, <3>3 DEF AcceptLoop, Bind, Enter, Publish,
         LeaveLoop, AcceptFails, SpawnReap
  <2> QED
    BY Zenon, <2>1, <2>2, LockKept
<1>2. ASSUME NEW c \in Conns,
             SessionStep(c) \/ Pump(c) \/ TunnelEnds(c) \/ RelayThrows(c)
      PROVE  LockInv'
  <2>1. UNCHANGED <<stopPc, mutex, cutting>>
    BY Zenon, <1>2 DEF SessionStep, Negotiate, Refuse, HandOver, RunRelay, Prepare,
       Deliver, Reconnect, OfferTunnel, DropTunnel, RelayReturns, Unregister,
       DestroyRelay, Leave, Notify, ThreadExits, Pump, TunnelEnds, RelayThrows, stopper
  <2>2. /\ \E place : goto(c, place)
        /\ pc[c] \in InRelay => pc'[c] \in InRelay \/ mutex = Nobody
    BY <1>2 DEF SessionStep, Negotiate, Refuse, HandOver, RunRelay, Prepare,
       Deliver, Reconnect, connected, undelivered, OfferTunnel, DropTunnel,
       RelayReturns, Unregister, DestroyRelay, Leave, Notify, ThreadExits, Pump,
       TunnelEnds, RelayThrows, goto, sessionsFree, Types, InRelay
  <2> QED
    BY Zenon, <2>1, <2>2, LockKept DEF goto, Types
<1>3. ASSUME NEW s \in Stoppers, StopRequest(s) \/ StopStep(s) \/ StopWakes(s)
      PROVE  LockInv'
  <2> USE ProxyConstants DEF Types, LockInv, step
  <2>1. CASE StopRequest(s)
    BY Zenon, <2>1 DEF StopRequest
  <2>2. CASE StopFlag(s)
    BY Zenon, <2>2 DEF StopFlag
  <2>3. CASE StopListener(s)
    BY Zenon, <2>3 DEF StopListener
  <2>4. CASE StopLock(s)
    BY Zenon, <2>4 DEF StopLock, sessionsFree
  <2>5. CASE StopWait(s)
    BY Zenon, <2>5 DEF StopWait, drained
  <2>6. CASE StopWakes(s)
    BY Zenon, <2>6 DEF StopWakes, Waiting, drained
  <2>7. CASE StopReap(s)
    BY Zenon, <2>7 DEF StopReap
  <2>8. CASE StopReturn(s)
    BY Zenon, <2>8 DEF StopReturn
  <2>9. ASSUME NEW c \in Conns, StopCancel(s, c) PROVE LockInv'
    BY Zenon, <2>9 DEF StopCancel, cancel, SessionsInv, SessionInv
  <2>10. CASE StopWaitsOn(s)
    BY Zenon, <2>10 DEF StopWaitsOn, drained
  <2>11. ASSUME NEW c \in Conns, StopSockets(s, c) PROVE LockInv'
    BY Zenon, <2>11 DEF StopSockets
  <2> QED
    BY Zenon, <1>3, <2>1, <2>2, <2>3, <2>4, <2>5, <2>6, <2>7, <2>8, <2>9,
       <2>10, <2>11 DEF StopStep
<1>4. ASSUME NEW a \in Agents, NEW c \in Conns, Join(a, c) PROVE LockInv'
  BY Zenon, <1>4, LockKept DEF Join, goto, stopper, Types, InRelay
<1>5. CASE UNCHANGED vars
  BY Zenon, <1>5, LockKept DEF vars, stopper
<1> QED
  BY Zenon, <1>1, <1>2, <1>3, <1>4, <1>5 DEF Next, Joins, Types

\* A step that takes and ends no thread, and starts no join, keeps the owners of
\* the threads that are ending.
LEMMA ThreadsKept ==
  ASSUME ThreadsInv,
         UNCHANGED <<joins, finished>>,
         \A d \in Conns : pc'[d] \in Ending => pc[d] \in Ending,
         \A d \in Conns : joins[d] # {} /\ pc[d] \in {"notify", "reap"}
                            => pc'[d] \in {"notify", "reap"},
         accPc = "insert" /\ joins[Acceptor] # {} => accPc' = "insert",
         \A p \in Stoppers : stopPc[p] = "join" /\ joins[p] # {} => stopPc'[p] = "join"
  PROVE  ThreadsInv'
<1>1. JoinersAre'
  BY Zenon DEF ThreadsInv, JoinersAre
<1>2. {d \in Conns : pc'[d] \in Ending} \subseteq {d \in Conns : pc[d] \in Ending}
  BY Zenon
<1>3. NoRingOfJoins'
  BY <1>2 DEF ThreadsInv, NoRingOfJoins
<1> QED
  BY Zenon, <1>1, <1>3 DEF ThreadsInv

\* Every step keeps each ending thread within reach of a join, and no ring of
\* threads that join each other.
LEMMA ThreadsStep ==
  ASSUME Types, AcceptInv, SessionsInv, ThreadsInv, [Next]_vars
  PROVE  ThreadsInv'
<1>1. CASE AcceptLoop
  <2>1. CASE Bind
    BY Zenon, <2>1, ThreadsKept DEF Bind, stopper, book, client, inner, Types, Ending
  <2>2. CASE Enter
    BY Zenon, <2>2, ThreadsKept DEF Enter, stopper, book, client, inner, Types,
       Ending
  <2>3. CASE Publish
    BY Zenon, <2>3, ThreadsKept DEF Publish, stopper, book, client, inner, Types,
       Ending
  <2>4. CASE LeaveLoop
    BY Zenon, <2>4, ThreadsKept DEF LeaveLoop, stopper, book, client, inner, Types,
       Ending
  <2>5. CASE AcceptFails
    BY Zenon, <2>5, ThreadsKept DEF AcceptFails, stopper, book, client, inner, Types,
       Ending
  <2>6. CASE SpawnReap
    <3>1. joins[Acceptor] = {}
      BY Zenon, <2>6 DEF SpawnReap, ThreadsInv, JoinersAre
    <3>2. JoinersAre'
      BY Zenon, <2>6, ProxyConstants
      DEF SpawnReap, takeFinished, stopper, ThreadsInv, JoinersAre, Types, Agents
    <3>3. ASSUME NEW T \in SUBSET {d \in Conns : pc'[d] \in Ending}, T # {}
          PROVE  \E d \in T : d \in finished' \/ \E b \in Agents \ T : d \in joins'[b]
      <4>1. T \in SUBSET {d \in Conns : pc[d] \in Ending} /\ Acceptor \in Agents \ T
        BY Zenon, <2>6, ProxyConstants DEF SpawnReap, Agents
      <4>2. PICK d \in T : d \in finished \/ \E b \in Agents \ T : d \in joins[b]
        BY Zenon, <3>3, <4>1 DEF ThreadsInv, NoRingOfJoins
      <4>3. CASE d \in finished
        BY Zenon, <2>6, <4>1, <4>3 DEF SpawnReap, takeFinished, Types
      <4>4. ASSUME NEW b \in Agents \ T, d \in joins[b] PROVE d \in joins'[b]
        BY Zenon, <2>6, <3>1, <4>4 DEF SpawnReap, takeFinished, Types
      <4> QED
        BY Zenon, <4>1, <4>2, <4>3, <4>4
    <3> QED
      BY Zenon, <3>2, <3>3 DEF ThreadsInv, NoRingOfJoins
  <2>7. CASE SpawnRefuses
    <3>1. accConn \in Conns /\ pc[accConn] = "accepted" /\ joins[Acceptor] = {}
      BY Zenon, <2>7 DEF SpawnRefuses, inserting, AcceptInv, SessionsInv, SessionInv
    <3> QED
      BY Zenon, <2>7, <3>1, ThreadsKept
      DEF SpawnRefuses, goto, stopper, book, Types, Ending
  <2>8. CASE SpawnStarts
    <3>1. accConn \in Conns /\ pc[accConn] = "accepted" /\ joins[Acceptor] = {}
      BY Zenon, <2>8 DEF SpawnStarts, inserting, AcceptInv, SessionsInv, SessionInv
    <3> QED
      BY Zenon, <2>8, <3>1, ThreadsKept DEF SpawnStarts, goto, stopper, Types, Ending
  <2>9. ASSUME NEW c \in Conns, Accept(c) PROVE ThreadsInv'
    BY Zenon, <2>9, ThreadsKept DEF Accept, goto, stopper, book, inner, Types, Ending
  <2> QED
    BY Zenon, <1>1, <2>1, <2>2, <2>3, <2>4, <2>5, <2>6, <2>7, <2>8, <2>9 DEF
       AcceptLoop
<1>2. ASSUME NEW c \in Conns, SessionStep(c) PROVE ThreadsInv'
  <2>1. CASE Negotiate(c)
    BY <2>1, ThreadsKept DEF Negotiate, goto, control, stopper, book, inner,
       Types, Ending
  <2>2. CASE Refuse(c)
    BY Zenon, <2>2, ThreadsKept DEF Refuse, goto, control, stopper, book, inner,
       Types, Ending
  <2>3. CASE HandOver(c)
    BY Zenon, <2>3, ThreadsKept DEF HandOver, goto, control, stopper, book, inner,
       Types, Ending
  <2>4. CASE RunRelay(c)
    BY Zenon, <2>4, ThreadsKept DEF RunRelay, goto, control, stopper, book, client,
       inner, Types, Ending
  <2>5. CASE Prepare(c)
    BY Zenon, <2>5, ThreadsKept DEF Prepare, connected, goto, control, stopper, book,
       Types, Ending
  <2>6. CASE Deliver(c)
    BY <2>6, ThreadsKept DEF Deliver, undelivered, goto, control, stopper,
       book, Types, Ending
  <2>7. CASE Reconnect(c)
    BY <2>7, ThreadsKept DEF Reconnect, connected, undelivered, goto, control,
       stopper, book, Types, Ending
  <2>8. CASE OfferTunnel(c)
    BY Zenon, <2>8, ThreadsKept DEF OfferTunnel, goto, control, stopper, book, Types,
       Ending
  <2>9. CASE DropTunnel(c)
    BY Zenon, <2>9, ThreadsKept DEF DropTunnel, goto, control, stopper, book, Types,
       Ending
  <2>10. CASE RelayReturns(c)
    BY Zenon, <2>10, ThreadsKept DEF RelayReturns, closeSockets, goto, control,
       stopper, book, Types, Ending
  <2>11. CASE Unregister(c)
    BY Zenon, <2>11, ThreadsKept DEF Unregister, goto, control, stopper, book,
       client, inner, Types, Ending
  <2>12. CASE DestroyRelay(c)
    BY Zenon, <2>12, ThreadsKept DEF DestroyRelay, closeSockets, goto, control,
       stopper, book, Types, Ending
  <2>13. CASE Leave(c)
    <3>1. joins[c] = {}
      BY Zenon, <2>13 DEF Leave, ThreadsInv, JoinersAre
    <3>2. JoinersAre'
      BY <2>13, ProxyConstants
      DEF Leave, goto, control, stopper, ThreadsInv, JoinersAre, Types, Agents
    <3>3. ASSUME NEW T \in SUBSET {d \in Conns : pc'[d] \in Ending}, T # {}
          PROVE  \E d \in T : d \in finished' \/ \E b \in Agents \ T : d \in joins'[b]
      <4>1. CASE c \in T
        BY Zenon, <2>13, <4>1 DEF Leave
      <4>2. CASE c \notin T
        <5>1. T \in SUBSET {d \in Conns : pc[d] \in Ending} /\ c \in Agents \ T
          BY Zenon, <2>13, <4>2 DEF Leave, goto, Agents, Types
        <5>2. PICK d \in T : d \in finished \/ \E b \in Agents \ T : d \in joins[b]
          BY Zenon, <3>3, <5>1 DEF ThreadsInv, NoRingOfJoins
        <5>3. CASE d \in finished
          BY Zenon, <2>13, <5>1, <5>3 DEF Leave, Types
        <5>4. ASSUME NEW b \in Agents \ T, d \in joins[b] PROVE d \in joins'[b]
          BY Zenon, <2>13, <3>1, <5>4 DEF Leave, Types
        <5> QED
          BY Zenon, <5>1, <5>2, <5>3, <5>4
      <4> QED
        BY Zenon, <4>1, <4>2
    <3> QED
      BY Zenon, <3>2, <3>3 DEF ThreadsInv, NoRingOfJoins
  <2>14. CASE ThreadExits(c)
    BY Zenon, <2>14, ThreadsKept DEF ThreadExits, goto, control, stopper, book, Types, Ending
  <2>15. CASE Notify(c)
    BY Zenon, <2>15, ThreadsKept DEF Notify, goto, control, book, client, inner, Types, Ending
  <2> QED
    BY Zenon, <1>2, <2>1, <2>2, <2>3, <2>4, <2>5, <2>6, <2>7, <2>8, <2>9, <2>10,
       <2>11, <2>12, <2>13, <2>14, <2>15 DEF SessionStep
<1>3. ASSUME NEW c \in Conns, Pump(c) \/ TunnelEnds(c) \/ RelayThrows(c) PROVE ThreadsInv'
  <2>1. CASE Pump(c)
    BY Zenon, <2>1, ThreadsKept DEF Pump, goto, control, stopper, book, client,
       inner, Types, Ending
  <2>2. CASE TunnelEnds(c)
    BY Zenon, <2>2, ThreadsKept DEF TunnelEnds, goto, control, stopper, book, client,
       Types, Ending
  <2>3. CASE RelayThrows(c)
    BY Zenon, <2>3, ThreadsKept DEF RelayThrows, goto, control, stopper, book,
       client, inner, Types, Ending
  <2> QED
    BY Zenon, <1>3, <2>1, <2>2, <2>3
<1>4. ASSUME NEW s \in Stoppers, StopRequest(s) \/ StopStep(s) \/ StopWakes(s)
      PROVE  ThreadsInv'
  <2>1. CASE StopRequest(s)
    BY Zenon, <2>1, ThreadsKept DEF StopRequest, step, book, client, inner, Types,
       Ending
  <2>2. CASE StopFlag(s)
    BY Zenon, <2>2, ThreadsKept DEF StopFlag, step, book, client, inner, Types,
       Ending
  <2>3. CASE StopListener(s)
    BY Zenon, <2>3, ThreadsKept DEF StopListener, step, book, client, inner, Types,
       Ending
  <2>4. CASE StopLock(s)
    BY Zenon, <2>4, ThreadsKept DEF StopLock, step, control, book, client, inner,
       Types, Ending
  <2>5. CASE StopWait(s)
    BY Zenon, <2>5, ThreadsKept DEF StopWait, step, drained, control, book, client,
       inner, Types, Ending
  <2>6. CASE StopWakes(s)
    BY Zenon, <2>6, ThreadsKept DEF StopWakes, Waiting, step, drained, control, book, client,
       inner, Types, Ending
  <2>7. CASE StopReap(s)
    <3>1. joins[s] = {}
      BY Zenon, <2>7 DEF StopReap, ThreadsInv, JoinersAre
    <3>2. JoinersAre'
      BY <2>7, ProxyConstants
      DEF StopReap, takeFinished, step, control, ThreadsInv, JoinersAre, Types, Agents
    <3>3. ASSUME NEW T \in SUBSET {d \in Conns : pc'[d] \in Ending}, T # {}
          PROVE  \E d \in T : d \in finished' \/ \E b \in Agents \ T : d \in joins'[b]
      <4>1. T \in SUBSET {d \in Conns : pc[d] \in Ending} /\ s \in Agents \ T
        BY Zenon, <2>7, ProxyConstants DEF StopReap, Agents
      <4>2. PICK d \in T : d \in finished \/ \E b \in Agents \ T : d \in joins[b]
        BY Zenon, <3>3, <4>1 DEF ThreadsInv, NoRingOfJoins
      <4>3. CASE d \in finished
        BY Zenon, <2>7, <4>1, <4>3 DEF StopReap, takeFinished, Types
      <4>4. ASSUME NEW b \in Agents \ T, d \in joins[b] PROVE d \in joins'[b]
        BY Zenon, <2>7, <3>1, <4>4 DEF StopReap, takeFinished, Types
      <4> QED
        BY Zenon, <4>1, <4>2, <4>3, <4>4
    <3> QED
      BY Zenon, <3>2, <3>3 DEF ThreadsInv, NoRingOfJoins
  <2>8. CASE StopReturn(s)
    BY Zenon, <2>8, ThreadsKept DEF StopReturn, step, control, book, client, inner,
       Types, Ending
  <2>9. ASSUME NEW c \in Conns, StopCancel(s, c) PROVE ThreadsInv'
    BY Zenon, <2>9, ThreadsKept DEF StopCancel, cancel, control, book, client, Types,
       Ending
  <2>10. CASE StopWaitsOn(s)
    BY Zenon, <2>10, ThreadsKept DEF StopWaitsOn, step, drained, control, book, client, inner, Types, Ending
  <2>11. ASSUME NEW c \in Conns, StopSockets(s, c) PROVE ThreadsInv'
    BY Zenon, <2>11, ThreadsKept DEF StopSockets, control, book, client, Types, Ending
  <2> QED
    BY Zenon, <1>4, <2>1, <2>2, <2>3, <2>4, <2>5, <2>6, <2>7, <2>8, <2>9,
       <2>10, <2>11 DEF StopStep
<1>5. ASSUME NEW a \in Agents, NEW c \in Conns, Join(a, c) PROVE ThreadsInv'
  <2>1. JoinersAre'
    BY Zenon, <1>5 DEF Join, goto, control, stopper, ThreadsInv, JoinersAre, Types, Agents
  <2>2. ASSUME NEW T \in SUBSET {d \in Conns : pc'[d] \in Ending}, T # {}
        PROVE  \E d \in T : d \in finished' \/ \E b \in Agents \ T : d \in joins'[b]
    <3>1. T \in SUBSET {d \in Conns : pc[d] \in Ending} /\ c \notin T
      BY Zenon, <1>5 DEF Join, goto, Types, Ending
    <3>2. PICK d \in T : d \in finished \/ \E b \in Agents \ T : d \in joins[b]
      BY Zenon, <2>2, <3>1 DEF ThreadsInv, NoRingOfJoins
    <3>3. finished' = finished
      BY Zenon, <1>5 DEF Join
    <3>4. ASSUME NEW b \in Agents \ T, d \in joins[b] PROVE d \in joins'[b]
      BY Zenon, <1>5, <3>1, <3>4 DEF Join, Types
    <3> QED
      BY Zenon, <3>2, <3>3, <3>4
  <2> QED
    BY Zenon, <2>1, <2>2 DEF ThreadsInv, NoRingOfJoins
<1>6. CASE UNCHANGED vars
  BY Zenon, <1>6, ThreadsKept DEF vars, control, stopper, book, client, inner, Types,
     Ending
<1> QED
  BY Zenon, <1>1, <1>2, <1>3, <1>4, <1>5, <1>6 DEF Next, Joins, Types

\* Once a stop() has begun, no step starts a session any more; one that found
\* the book empty finds no thread left to take either.
LEMMA DrainStep ==
  ASSUME StopsEarly = FALSE, Types, SessionsInv, DrainInv, [Next]_vars
  PROVE  DrainInv'
<1> USE DEF Types, DrainInv, Accepting
<1>1. CASE AcceptLoop
  <2>1. CASE Bind
    BY Zenon, <2>1 DEF Bind, stopper, book, client, inner
  <2>2. CASE Enter
    BY Zenon, <2>2 DEF Enter, stopper, book, client, inner
  <2>3. CASE Publish
    BY Zenon, <2>3 DEF Publish, stopper, book, client, inner
  <2>4. CASE LeaveLoop
    BY Zenon, <2>4 DEF LeaveLoop, stopper, book, client, inner
  <2>5. CASE AcceptFails
    BY Zenon, <2>5 DEF AcceptFails, stopper, book, client, inner
  <2>6. CASE SpawnReap
    BY Zenon, <2>6 DEF SpawnReap, takeFinished, sessionsFree, stopper, client, inner
  <2>7. CASE SpawnRefuses
    BY Zenon, <2>7 DEF SpawnRefuses, inserting, goto, stopper, book, inner
  <2>8. CASE SpawnStarts
    BY Zenon, <2>8 DEF SpawnStarts, inserting, refused, goto, stopper, inner
  <2>9. ASSUME NEW c \in Conns, Accept(c) PROVE DrainInv'
    BY Zenon, <2>9 DEF Accept, goto, stopper, book, inner
  <2> QED
    BY Zenon, <1>1, <2>1, <2>2, <2>3, <2>4, <2>5, <2>6, <2>7, <2>8, <2>9 DEF
       AcceptLoop
<1>2. ASSUME NEW c \in Conns, SessionStep(c) PROVE DrainInv'
  <2>1. CASE Negotiate(c)
    BY Zenon, <2>1 DEF Negotiate, goto, control, stopper, book, inner
  <2>2. CASE Refuse(c)
    BY Zenon, <2>2 DEF Refuse, goto, control, stopper, book, inner
  <2>3. CASE HandOver(c)
    BY Zenon, <2>3 DEF HandOver, goto, control, stopper, book, inner
  <2>4. CASE RunRelay(c)
    BY Zenon, <2>4 DEF RunRelay, goto, control, stopper, book, client, inner
  <2>5. CASE Prepare(c)
    BY Zenon, <2>5 DEF Prepare, connected, goto, control, stopper, book
  <2>6. CASE Deliver(c)
    BY Zenon, <2>6 DEF Deliver, undelivered, goto, control, stopper, book
  <2>7. CASE Reconnect(c)
    BY Zenon, <2>7 DEF Reconnect, connected, undelivered, goto, control, stopper,
       book
  <2>8. CASE OfferTunnel(c)
    BY Zenon, <2>8 DEF OfferTunnel, goto, control, stopper, book
  <2>9. CASE DropTunnel(c)
    BY Zenon, <2>9 DEF DropTunnel, goto, control, stopper, book
  <2>10. CASE RelayReturns(c)
    BY Zenon, <2>10 DEF RelayReturns, closeSockets, goto, control, stopper, book
  <2>11. CASE Unregister(c)
    BY Zenon, <2>11 DEF Unregister, goto, control, stopper, book, client, inner
  <2>12. CASE DestroyRelay(c)
    BY Zenon, <2>12 DEF DestroyRelay, closeSockets, goto, control, stopper, book
  <2>13. CASE Leave(c)
    <3>1. sessions # {}
      BY Zenon, <2>13 DEF Leave, SessionsInv, SessionInv, InBook
    <3> QED
      BY Zenon, <2>13, <3>1 DEF Leave, control, stopper
  <2>14. CASE ThreadExits(c)
    BY Zenon, <2>14 DEF ThreadExits, goto, control, stopper, book, client, inner
  <2>15. CASE Notify(c)
    BY Zenon, <2>15 DEF Notify, goto, control, book, client, inner
  <2> QED
    BY Zenon, <1>2, <2>1, <2>2, <2>3, <2>4, <2>5, <2>6, <2>7, <2>8, <2>9, <2>10,
       <2>11, <2>12, <2>13, <2>14, <2>15 DEF SessionStep
<1>3. ASSUME NEW c \in Conns, Pump(c) \/ TunnelEnds(c) \/ RelayThrows(c) PROVE DrainInv'
  <2>1. CASE Pump(c)
    BY Zenon, <2>1 DEF Pump, goto, control, stopper, book, client, inner
  <2>2. CASE TunnelEnds(c)
    BY Zenon, <2>2 DEF TunnelEnds, goto, control, stopper, book, client
  <2>3. CASE RelayThrows(c)
    BY Zenon, <2>3 DEF RelayThrows, goto, control, stopper, book, client, inner
  <2> QED
    BY Zenon, <1>3, <2>1, <2>2, <2>3
<1>4. ASSUME NEW s \in Stoppers, StopRequest(s) \/ StopStep(s) \/ StopWakes(s)
      PROVE  DrainInv'
  <2>1. CASE StopRequest(s)
    BY Zenon, <2>1 DEF StopRequest, step, book, client, inner
  <2>2. CASE StopFlag(s)
    BY Zenon, <2>2 DEF StopFlag, step, book, client, inner
  <2>3. CASE StopListener(s)
    BY Zenon, <2>3 DEF StopListener, step, book, client, inner
  <2>4. CASE StopLock(s)
    BY Zenon, <2>4 DEF StopLock, step, control, book, client, inner
  <2>5. CASE StopWait(s)
    BY Zenon, <2>5 DEF StopWait, step, drained, control, book, client, inner
  <2>6. CASE StopWakes(s)
    BY Zenon, <2>6 DEF StopWakes, Waiting, step, drained, control, book, client, inner
  <2>7. CASE StopReap(s)
    BY Zenon, <2>7 DEF StopReap, takeFinished, step, control, client, inner
  <2>8. CASE StopReturn(s)
    BY Zenon, <2>8 DEF StopReturn, step, control, book, client, inner
  <2>9. ASSUME NEW c \in Conns, StopCancel(s, c) PROVE DrainInv'
    BY Zenon, <2>9 DEF StopCancel, cancel, control, book, client
  <2>10. CASE StopWaitsOn(s)
    BY Zenon, <2>10 DEF StopWaitsOn, step, drained, control, book, client, inner
  <2>11. ASSUME NEW c \in Conns, StopSockets(s, c) PROVE DrainInv'
    BY Zenon, <2>11 DEF StopSockets, control, book, client
  <2> QED
    BY Zenon, <1>4, <2>1, <2>2, <2>3, <2>4, <2>5, <2>6, <2>7, <2>8, <2>9,
       <2>10, <2>11 DEF StopStep
<1>5. ASSUME NEW a \in Agents, NEW c \in Conns, Join(a, c) PROVE DrainInv'
  BY Zenon, <1>5 DEF Join, goto, control, stopper, client, inner
<1>6. CASE UNCHANGED vars
  BY Zenon, <1>6 DEF vars, control, stopper, book, client, inner
<1> QED
  BY Zenon, <1>1, <1>2, <1>3, <1>4, <1>5, <1>6 DEF Next, Joins

\* A proxy that has not begun to listen has no sessions, threads or handles.
LEMMA ProxyInit == Init => ProxyInv /\ DrainInv
<1> SUFFICES ASSUME Init PROVE ProxyInv /\ DrainInv
  BY Zenon
<1> USE ProxyConstants DEF Init
<1>1. Types
  BY Zenon DEF Types, Agents, Places, Over, AccPlaces, StopPlaces
<1>2. AcceptInv /\ SessionsInv
  BY Zenon DEF AcceptInv, SessionsInv, SessionInv, HandlesAre, InBook, InRelay, Over
<1>3. LockInv /\ ThreadsInv
  BY Zenon DEF LockInv, ThreadsInv, JoinersAre, NoRingOfJoins, Ending
<1>4. DrainInv
  BY Zenon DEF DrainInv, Accepting
<1> QED
  BY Zenon, <1>1, <1>2, <1>3, <1>4 DEF ProxyInv

\* The inductive invariant holds whenever and however often stop() is called.
LEMMA ProxyInvariant == Spec => []ProxyInv
<1>1. ProxyInv /\ [Next]_vars => ProxyInv'
  BY Zenon, TypesStep, SessionsStep, LockStep, ThreadsStep DEF ProxyInv
<1> QED
  BY <1>1, ProxyInit, PTL DEF Spec

\* SocksProxy::stop and the three owners of a client socket: whatever the
\* interleaving of run(), the sessions and any number of stop() calls, a stored
\* handle is an open socket and a registered relay or tunnel is running, so
\* cancel() only ever touches what is alive.
THEOREM ReachableStaysAlive == Spec => []ReachableIsAlive
<1>1. ProxyInv => ReachableIsAlive
  BY Zenon, ProxyConstants DEF ProxyInv, SessionsInv, SessionInv, LockInv, Types,
     ReachableIsAlive, InBook, InRelay
<1> QED
  BY <1>1, ProxyInvariant, PTL

\* SocksProxy::cancel, serve() and handOffToTunnel: a cancellation that meets a
\* hand-over, of the socket to the relay or from there to the tunnel, reaches
\* the new owner or keeps it from running.
THEOREM CancellationIsNeverLost == Spec => []CancelReaches
<1>1. ProxyInv => CancelReaches
  BY Zenon DEF ProxyInv, SessionsInv, SessionInv, CancelReaches
<1> QED
  BY <1>1, ProxyInvariant, PTL

\* Once run() and every stop() have returned, no thread is left: a thread that
\* had not been joined would be one of a set of threads that all wait for each
\* other's join.
LEMMA EveryThreadIsJoined ==
  ASSUME ProxyInv, DrainInv, Stoppers # {}, accPc = "ended",
         \A s \in Stoppers : stopPc[s] = "done"
  PROVE  \A c \in Conns : pc[c] = "free"
<1> DEFINE T == {c \in Conns : pc[c] \in Ending}
<1>1. sessions = {} /\ finished = {}
  BY Zenon DEF DrainInv
<1>2. \A c \in Conns : pc[c] \in Over
  BY Zenon, <1>1 DEF ProxyInv, SessionsInv, SessionInv, Types, Places
<1>3. ASSUME NEW a \in Agents \ T PROVE joins[a] = {}
  <2>1. CASE a = Acceptor
    BY Zenon, <2>1 DEF ProxyInv, ThreadsInv, JoinersAre
  <2>2. CASE a \in Stoppers
    BY Zenon, <2>2 DEF ProxyInv, ThreadsInv, JoinersAre
  <2>3. CASE a \in Conns
    BY Zenon, <1>3, <2>3 DEF ProxyInv, ThreadsInv, JoinersAre, Ending
  <2> QED
    BY Zenon, <2>1, <2>2, <2>3 DEF Agents
<1>4. T = {}
  BY Zenon, <1>1, <1>3 DEF ProxyInv, ThreadsInv, NoRingOfJoins
<1> QED
  BY Zenon, <1>2, <1>4 DEF Over, Ending

\* SocksProxy::stop: if no stop() is called before run() listens, a session
\* that left the book has closed its sockets, a stop() that has returned leaves
\* no session and none appears later, and once run() and every stop() have
\* returned every session thread has been joined.  The condition is needed:
\* with StopsEarly a stop() can return while a session is being accepted, and
\* somebody has to call stop(): the destructor does.
THEOREM NothingIsEverLeftBehind ==
  ASSUME StopsEarly = FALSE, Stoppers # {}
  PROVE  Spec => []NothingIsLeftBehind
<1>1. DrainedInv /\ [Next]_vars => DrainedInv'
  BY Zenon, TypesStep, SessionsStep, LockStep, ThreadsStep, DrainStep DEF DrainedInv, ProxyInv
<1>2. Init => DrainedInv
  BY Zenon, ProxyInit DEF DrainedInv
<1>3. DrainedInv => NothingIsLeftBehind
  <2> SUFFICES ASSUME DrainedInv PROVE NothingIsLeftBehind
    BY Zenon
  <2>1. ASSUME NEW c \in Conns, pc[c] \in {"leave"} \cup Over
        PROVE  ~open[c] /\ ~target[c]
    BY Zenon, <2>1 DEF DrainedInv, ProxyInv, SessionsInv, SessionInv, HandlesAre, InRelay, Over
  <2>2. DrainedAfterStop
    BY Zenon DEF DrainedInv, DrainInv, DrainedAfterStop
  <2> QED
    BY Zenon, <2>1, <2>2, EveryThreadIsJoined DEF DrainedInv, NothingIsLeftBehind
<1> QED
  BY <1>1, <1>2, <1>3, PTL DEF Spec
=============================================================================
