------------------------------- MODULE Tunnel -------------------------------
(***************************************************************************)
(* The Worker tunnel: Relay (src/src/Relay.cpp) over WsClient              *)
(* (src/src/WsClient.cpp) on this machine, handleTunnel of the Worker      *)
(* script (src/worker/src/index.js) at the other end.                      *)
(*                                                                         *)
(* Three threads use a Relay: run(), the pump it starts, and whoever stops *)
(* the DirectRelay that owns it.  Any of them may be the one that runs     *)
(* Relay::stop(), which closes the WebSocket under the mutex its senders   *)
(* hold.  Bytes are numbered; the first one is the data the client had     *)
(* sent before the tunnel was chosen (initialData_).                       *)
(***************************************************************************)
EXTENDS Integers, Sequences, FiniteSets

CONSTANTS
    MaxClientBytes,             \* bound: what the client sends, the first one included
    MaxTargetBytes,             \* bound: what the target sends
    TUNNEL_MAX_BYTES,
    TUNNEL_MAX_PENDING_BYTES

ASSUME TunnelConstants ==
    /\ {MaxTargetBytes, TUNNEL_MAX_BYTES, TUNNEL_MAX_PENDING_BYTES} \subseteq Nat
    /\ MaxClientBytes \in Nat \ {0}

VARIABLES
    at,         \* thread -> where it is
    carry,      \* thread -> the byte it is moving
    relay,      \* Relay: stopping_, and DirectRelay's stopping_ (asked)
    ws,         \* WsClient: stopping_, connected_, websocket_
    sendMutex,  \* the thread that holds sendMutex_, or "free"
    client,     \* the client's side of clientSock_
    upFrames,   \* WebSocket frames under way to the Worker
    downFrames, \* and back
    worker,     \* the variables of handleTunnel
    queue,      \* bytes given to targetWriter.write() and not yet written
    target,     \* the target's side of targetSocket
    taken       \* direction -> the bytes that came out

relayVars == <<at, carry, relay, ws, sendMutex, client>>
workerVars == <<worker, queue, target>>
tunnelVars == <<relayVars, upFrames, downFrames, workerVars, taken>>

TunnelThreads == {"run", "pump", "stopper"}
Frame(kind, byte) == [kind |-> kind, byte |-> byte]
Texts == {"command", "connected", "error"}

TunnelInit ==
    /\ at = [t \in TunnelThreads |-> IF t = "run" THEN "handOff" ELSE "idle"]
    /\ carry = [t \in TunnelThreads |-> 0]
    /\ relay = [stopping |-> FALSE, asked |-> FALSE]
    /\ ws = [stopping |-> FALSE, connected |-> FALSE, handle |-> "none"]
    /\ sendMutex = "free"
    /\ client = [sent |-> 1, unread |-> <<>>, fin |-> FALSE, shut |-> FALSE]
    /\ upFrames = <<>> /\ downFrames = <<>>
    /\ worker = [server |-> "none", peer |-> "open", opening |-> FALSE,
                 resolving |-> FALSE, writer |-> FALSE, reading |-> FALSE,
                 timer |-> FALSE, transferred |-> 0]
    /\ queue = <<>>
    /\ target = [sent |-> 0, unread |-> <<>>, done |-> FALSE]
    /\ taken = [d \in {"up", "down"} |-> <<>>]

---------------------------------------------------------------------------
(* The client                                                              *)

clientRest == <<at, carry, relay, ws, sendMutex, upFrames, downFrames, workerVars, taken>>

ClientSends ==
    /\ ~client.fin /\ ~client.shut /\ client.sent < MaxClientBytes
    /\ client' = [client EXCEPT !.sent = @ + 1, !.unread = Append(@, client.sent + 1)]
    /\ UNCHANGED clientRest

\* The client finishes or resets: recv() ends once the bytes are read.
ClientLeaves ==
    /\ ~client.fin /\ ~client.shut
    /\ client' = [client EXCEPT !.fin = TRUE]
    /\ UNCHANGED clientRest

---------------------------------------------------------------------------
(* Relay and WsClient                                                      *)

Go(t, place) == at' = [at EXCEPT ![t] = place]
onlyAt == <<carry, relay, ws, sendMutex, client, upFrames, downFrames, workerVars, taken>>

\* handOffToTunnel(): the tunnel is published to stop(), unless stop() came
\* first; Relay::run() checks its own flag.  A path that leaves run() goes to
\* "stop": run() or the destructor calls Relay::stop() there.
HandOff ==
    /\ at["run"] = "handOff"
    /\ Go("run", IF relay.asked THEN "stop" ELSE "start")
    /\ UNCHANGED onlyAt

RunStarts ==
    /\ at["run"] = "start"
    /\ Go("run", IF relay.stopping THEN "stop" ELSE "connect")
    /\ UNCHANGED onlyAt

\* WsClient::connect(): the latch, the handshake outside the mutex, and the
\* publication of the handle.
ConnectLatch ==
    /\ at["run"] = "connect" /\ sendMutex = "free"
    /\ Go("run", IF ws.stopping THEN "stop" ELSE "handshake")
    /\ UNCHANGED onlyAt

Handshake ==
    /\ at["run"] = "handshake"
    /\ \/ /\ Go("run", "publish")
          /\ worker' = [worker EXCEPT !.server = "open", !.timer = TRUE]
       \/ Go("run", "stop") /\ UNCHANGED worker
    /\ UNCHANGED <<carry, relay, ws, sendMutex, client, upFrames, downFrames,
                   queue, target, taken>>

Publish ==
    /\ at["run"] = "publish" /\ sendMutex = "free"
    /\ IF ws.stopping
       THEN /\ Go("run", "stop")
            /\ upFrames' = Append(upFrames, Frame("close", 0))
            /\ UNCHANGED ws
       ELSE /\ ws' = [ws EXCEPT !.handle = "open", !.connected = TRUE]
            /\ Go("run", "connected")
            /\ UNCHANGED upFrames
    /\ UNCHANGED <<carry, relay, sendMutex, client, downFrames, workerVars, taken>>

AfterConnect ==
    /\ at["run"] = "connected"
    /\ Go("run", IF relay.stopping THEN "stop" ELSE "sendCommand")
    /\ UNCHANGED onlyAt

\* sendText() and sendBinary(): the checks and the blocking send under the mutex.
Outgoing(t) ==
    CASE at[t] \in {"sendCommand", "sendingCommand"} -> Frame("command", 0)
      [] at[t] \in {"sendHello", "sendingHello"} -> Frame("data", 1)
      [] OTHER -> Frame("data", carry[t])

Sends == [sendCommand |-> "sendingCommand", sendHello |-> "sendingHello", send |-> "sending"]
NextOf == [sendingCommand |-> "await", sendingHello |-> "spawn", sending |-> "top"]

SendLocks(t) ==
    /\ at[t] \in DOMAIN Sends /\ sendMutex = "free"
    /\ IF ws.connected /\ ~ws.stopping /\ ws.handle # "none"
       THEN Go(t, Sends[at[t]]) /\ sendMutex' = t /\ UNCHANGED carry
       ELSE Go(t, "stop") /\ UNCHANGED sendMutex /\ carry' = [carry EXCEPT ![t] = 0]
    /\ UNCHANGED <<relay, ws, client, upFrames, downFrames, workerVars, taken>>

SendCompletes(t) ==
    /\ at[t] \in DOMAIN NextOf
    /\ sendMutex' = "free"
    /\ \/ /\ upFrames' = Append(upFrames, Outgoing(t))
          /\ Go(t, NextOf[at[t]])
          /\ UNCHANGED ws
       \/ /\ ws' = [ws EXCEPT !.connected = FALSE]
          /\ Go(t, "stop")
          /\ UNCHANGED upFrames
    /\ carry' = [carry EXCEPT ![t] = 0]
    /\ UNCHANGED <<relay, client, downFrames, workerVars, taken>>

\* receive(): refused on a closed connection, else it waits for a frame.
canReceive == ws.connected /\ ~ws.stopping
ReceiveStarts ==
    /\ \/ /\ at["run"] = "await"
          /\ Go("run", IF canReceive THEN "awaiting" ELSE "stop")
       \/ /\ at["run"] = "pumpTop"
          /\ Go("run", IF canReceive /\ ~relay.stopping THEN "receiving" ELSE "stop")
    /\ UNCHANGED onlyAt

receiveRest == <<relay, sendMutex, client, upFrames, workerVars, taken>>

\* A close frame, an error or the receive timeout ends both waits.
ReceiveFails ==
    /\ at["run"] \in {"awaiting", "receiving"}
    /\ \/ UNCHANGED downFrames
       \/ /\ downFrames # <<>> /\ Head(downFrames).kind = "close"
          /\ downFrames' = Tail(downFrames)
    /\ ws' = [ws EXCEPT !.connected = FALSE]
    /\ Go("run", "stop")
    /\ UNCHANGED <<carry, receiveRest>>

ReceiveResponse ==
    /\ at["run"] = "awaiting"
    /\ downFrames # <<>> /\ Head(downFrames).kind # "close"
    /\ downFrames' = Tail(downFrames)
    /\ Go("run", IF Head(downFrames).kind = "connected" THEN "sendHello" ELSE "stop")
    /\ UNCHANGED <<carry, ws, receiveRest>>

\* The thread that pumps the other direction, if it can be started.
Spawn ==
    /\ at["run"] = "spawn"
    /\ \/ at' = [at EXCEPT !["run"] = "pumpTop", !["pump"] = "top"]
       \/ Go("run", "stop")
    /\ UNCHANGED onlyAt

\* pumpWsToSock() that takes a text frame for payload.
ReceiveAnything ==
    /\ at["run"] = "receiving"
    /\ downFrames # <<>> /\ Head(downFrames).kind # "close"
    /\ downFrames' = Tail(downFrames)
    /\ carry' = [carry EXCEPT !["run"] = Head(downFrames).byte]
    /\ Go("run", "deliver")
    /\ UNCHANGED <<ws, receiveRest>>

\* pumpWsToSock(): text frames are control messages of the Worker, not payload.
ReceiveFrame ==
    /\ at["run"] = "receiving"
    /\ downFrames # <<>> /\ Head(downFrames).kind # "close"
    /\ downFrames' = Tail(downFrames)
    /\ IF Head(downFrames).kind \in Texts
       THEN Go("run", "pumpTop") /\ UNCHANGED carry
       ELSE /\ carry' = [carry EXCEPT !["run"] = Head(downFrames).byte]
            /\ Go("run", "deliver")
    /\ UNCHANGED <<ws, receiveRest>>

\* tcp::sendAll(): a socket that is gone, or a client that reads too slowly
\* for the send time-out, ends the pump.
ToClient ==
    /\ at["run"] = "deliver"
    /\ \/ /\ ~client.shut
          /\ taken' = [taken EXCEPT !["down"] = Append(@, carry["run"])]
          /\ Go("run", "pumpTop")
       \/ Go("run", "stop") /\ UNCHANGED taken
    /\ carry' = [carry EXCEPT !["run"] = 0]
    /\ UNCHANGED <<relay, ws, sendMutex, client, upFrames, downFrames, workerVars>>

\* pumpSockToWs().
PumpTop ==
    /\ at["pump"] = "top"
    /\ Go("pump", IF relay.stopping THEN "stop" ELSE "recv")
    /\ UNCHANGED onlyAt

PumpReads ==
    /\ at["pump"] = "recv"
    /\ \/ /\ ~client.shut /\ client.unread # <<>>
          /\ carry' = [carry EXCEPT !["pump"] = Head(client.unread)]
          /\ client' = [client EXCEPT !.unread = Tail(@)]
          /\ Go("pump", "send")
       \/ /\ client.shut \/ (client.fin /\ client.unread = <<>>)
          /\ Go("pump", "stop")
          /\ UNCHANGED <<carry, client>>
    /\ UNCHANGED <<relay, ws, sendMutex, upFrames, downFrames, workerVars, taken>>

\* Relay::stop() and the WsClient::close() in it, on any thread.
stopDone == [run |-> "join", pump |-> "ended", stopper |-> "ended"]

StopClaims(t) ==
    /\ at[t] = "stop"
    /\ relay' = [relay EXCEPT !.stopping = TRUE]
    /\ Go(t, IF relay.stopping THEN stopDone[t] ELSE "wsClose")
    /\ UNCHANGED <<carry, ws, sendMutex, client, upFrames, downFrames, workerVars, taken>>

CloseFlags(t) ==
    /\ at[t] = "wsClose"
    /\ ws' = [ws EXCEPT !.stopping = TRUE]
    /\ Go(t, "wsLock")
    /\ UNCHANGED <<carry, relay, sendMutex, client, upFrames, downFrames, workerVars, taken>>

CloseShuts(t) ==
    /\ at[t] = "wsLock" /\ sendMutex = "free"
    /\ ws' = [ws EXCEPT !.connected = FALSE,
                        !.handle = IF @ = "open" THEN "shut" ELSE @]
    /\ upFrames' = IF ws.handle = "open" THEN Append(upFrames, Frame("close", 0)) ELSE upFrames
    /\ Go(t, "shutClient")
    /\ UNCHANGED <<carry, relay, sendMutex, client, downFrames, workerVars, taken>>

\* A stop() that leaves the client's socket alone.
LeavesClient(t) ==
    /\ at[t] = "shutClient"
    /\ Go(t, stopDone[t])
    /\ UNCHANGED onlyAt

ShutsClient(t) ==
    /\ at[t] = "shutClient"
    /\ client' = [client EXCEPT !.shut = TRUE]
    /\ Go(t, stopDone[t])
    /\ UNCHANGED <<carry, relay, ws, sendMutex, upFrames, downFrames, workerVars, taken>>

\* The pump is joined; the tunnel is withdrawn under the mutex stop() holds,
\* so a stop() that reached it has returned; then it is destroyed, and what
\* nobody has read is gone.
Join ==
    /\ at["run"] = "join"
    /\ at["pump"] \in {"idle", "ended"} /\ at["stopper"] \in {"idle", "ended"}
    /\ Go("run", "closed")
    /\ client' = [client EXCEPT !.unread = <<>>]
    /\ downFrames' = <<>>
    /\ UNCHANGED <<carry, relay, ws, sendMutex, upFrames, workerVars, taken>>

\* DirectRelay::stop(): it reaches the tunnel once it is published.
StopAsked ==
    /\ at["stopper"] = "idle" /\ at["run"] # "closed"
    /\ relay' = [relay EXCEPT !.asked = TRUE]
    /\ Go("stopper", IF at["run"] = "handOff" THEN "ended" ELSE "stop")
    /\ UNCHANGED <<carry, ws, sendMutex, client, upFrames, downFrames, workerVars, taken>>

ThreadStep(t) ==
    \/ SendLocks(t) \/ SendCompletes(t)
    \/ StopClaims(t) \/ CloseFlags(t) \/ CloseShuts(t) \/ ShutsClient(t)

RunStep ==
    \/ HandOff \/ RunStarts \/ ConnectLatch \/ Handshake \/ Publish \/ AfterConnect
    \/ ReceiveStarts \/ ReceiveFails \/ ReceiveResponse \/ Spawn \/ ReceiveFrame
    \/ ToClient \/ Join \/ ThreadStep("run")

PumpThread == PumpTop \/ PumpReads \/ ThreadStep("pump")

---------------------------------------------------------------------------
(* handleTunnel of the Worker                                              *)

workerRest == <<relayVars, taken>>

\* server.send() and server.close() reach the tunnel until close() was called.
Sent(w, frames, frame) ==
    IF w.server = "open" /\ at["run"] # "closed" THEN Append(frames, frame) ELSE frames

closeTarget(w) == [w EXCEPT !.timer = FALSE, !.writer = FALSE]

failAndClose(w) ==
    /\ worker' = [closeTarget(w) EXCEPT !.server = "closed"]
    /\ downFrames' = Sent(w, Sent(w, downFrames, Frame("error", 0)), Frame("close", 0))

counted(w) == [w EXCEPT !.timer = TRUE, !.transferred = @ + 1]

\* The message event: the command, ignored data, data for the target, data
\* that comes after the target was given up (JSON.parse throws).
WorkerMessage ==
    /\ worker.server # "none"
    /\ upFrames # <<>> /\ Head(upFrames).kind # "close"
    /\ upFrames' = Tail(upFrames)
    /\ LET frame == Head(upFrames)
           w == counted(worker)
       IN  \/ /\ ~worker.writer /\ worker.opening
              /\ worker' = [worker EXCEPT !.timer = TRUE]
              /\ UNCHANGED <<queue, downFrames>>
           \/ /\ ~worker.writer /\ ~worker.opening /\ frame.kind = "command"
              /\ worker' = [worker EXCEPT !.timer = TRUE, !.opening = TRUE, !.resolving = TRUE]
              /\ UNCHANGED <<queue, downFrames>>
           \/ /\ ~worker.writer /\ ~worker.opening /\ frame.kind # "command"
              /\ failAndClose(worker) /\ UNCHANGED queue
           \/ /\ worker.writer
              /\ w.transferred > TUNNEL_MAX_BYTES \/ Len(queue) + 1 > TUNNEL_MAX_PENDING_BYTES
              /\ failAndClose(w) /\ UNCHANGED queue
           \/ /\ worker.writer
              /\ w.transferred <= TUNNEL_MAX_BYTES /\ Len(queue) + 1 <= TUNNEL_MAX_PENDING_BYTES
              /\ worker' = w
              /\ queue' = Append(queue, frame.byte)
              /\ UNCHANGED downFrames
    /\ UNCHANGED <<target, workerRest>>

\* resolveHost() returns: no address, or the target is opened and the answer
\* sent; to a peer that has left, or once this end has closed the WebSocket
\* itself, that may throw.
WorkerResolved ==
    /\ worker.resolving
    /\ LET w == [worker EXCEPT !.resolving = FALSE, !.opening = FALSE]
           opened == [w EXCEPT !.writer = TRUE, !.reading = TRUE]
       IN  \/ failAndClose(w)
           \/ /\ worker.peer = "closed" \/ worker.server = "closed"
              /\ failAndClose(opened)
           \/ /\ worker' = opened
              /\ downFrames' = Sent(w, downFrames, Frame("connected", 0))
    /\ UNCHANGED <<upFrames, queue, target, workerRest>>

\* A write() completes; what was given to the writer before it was closed is
\* still written.  After one that fails, the others fail too.
WorkerWrites ==
    /\ queue # <<>>
    /\ queue' = Tail(queue)
    /\ taken' = [taken EXCEPT !["up"] = Append(@, Head(queue))]
    /\ UNCHANGED <<upFrames, downFrames, worker, target, relayVars>>

WriteFails ==
    /\ queue # <<>>
    /\ queue' = <<>>
    /\ failAndClose(worker)
    /\ UNCHANGED <<upFrames, target, workerRest>>

\* The reader's loop: bytes go to the client while it is there and the
\* limit is kept; every way out of the loop closes the WebSocket.
readerEnds(w, frames) ==
    /\ worker' = [w EXCEPT !.reading = FALSE, !.server = "closed"]
    /\ downFrames' = Sent(w, frames, Frame("close", 0))

WorkerReads ==
    /\ worker.reading /\ target.unread # <<>>
    /\ target' = [target EXCEPT !.unread = Tail(@)]
    /\ LET w == counted(worker)
           there == worker.server = "open" /\ worker.peer = "open"
       IN  \/ ~there /\ readerEnds(worker, downFrames)
           \/ /\ there /\ w.transferred > TUNNEL_MAX_BYTES
              /\ failAndClose([w EXCEPT !.reading = FALSE])
           \/ /\ there /\ w.transferred <= TUNNEL_MAX_BYTES
              /\ worker' = w
              /\ downFrames' = Sent(w, downFrames, Frame("data", Head(target.unread)))
    /\ UNCHANGED <<upFrames, queue, workerRest>>

WorkerReadEnds ==
    /\ worker.reading /\ target.unread = <<>> /\ target.done
    /\ \/ readerEnds(worker, downFrames)
       \/ readerEnds(worker, Sent(worker, downFrames, Frame("error", 0)))
    /\ UNCHANGED <<upFrames, queue, target, workerRest>>

IdleTimeout ==
    /\ worker.timer
    /\ failAndClose(worker)
    /\ UNCHANGED <<upFrames, queue, target, workerRest>>

\* The close event: the peer's close frame, or its connection is gone.
WorkerClose ==
    /\ worker.server # "none" /\ worker.peer = "open"
    /\ upFrames # <<>> /\ Head(upFrames).kind = "close"
    /\ upFrames' = Tail(upFrames)
    /\ worker' = [closeTarget(worker) EXCEPT !.peer = "closed"]
    /\ UNCHANGED <<downFrames, queue, target, workerRest>>

TargetSends ==
    /\ worker.reading /\ ~target.done /\ target.sent < MaxTargetBytes
    /\ target' = [target EXCEPT !.sent = @ + 1, !.unread = Append(@, target.sent + 1)]
    /\ UNCHANGED <<upFrames, downFrames, worker, queue, workerRest>>

TargetCloses ==
    /\ worker.reading /\ ~target.done
    /\ target' = [target EXCEPT !.done = TRUE]
    /\ UNCHANGED <<upFrames, downFrames, worker, queue, workerRest>>

WorkerStep ==
    \/ WorkerMessage \/ WorkerResolved \/ WorkerWrites \/ WriteFails \/ WorkerReads
    \/ WorkerReadEnds \/ IdleTimeout \/ WorkerClose

TunnelThreadStep == RunStep \/ PumpThread \/ ThreadStep("stopper")

TunnelNext ==
    \/ ClientSends \/ ClientLeaves \/ StopAsked
    \/ TunnelThreadStep
    \/ WorkerStep \/ TargetSends \/ TargetCloses

\* The threads are scheduled and a blocking call comes back: the handshake and
\* a send have the timeouts connect() sets, and of a receive it is assumed,
\* as the comment there says, that the peer or its runtime ends it (the Worker
\* answers a close, and closes a tunnel that is idle).  One condition for the
\* three threads is enough: what a thread can do alone is finite.
TunnelFairness == WF_tunnelVars(TunnelThreadStep)

TunnelSpec == TunnelInit /\ [][TunnelNext]_tunnelVars /\ TunnelFairness

---------------------------------------------------------------------------
(* Properties                                                              *)

TunneledPipe == INSTANCE Pipe WITH
    sent <- [up |-> client.sent, down |-> target.sent],
    got <- taken,
    over <- [up |-> IF at["run"] = "closed" /\ upFrames = <<>> /\ queue = <<>>
                    THEN "cut" ELSE "open",
             down |-> IF at["run"] = "closed" THEN "cut" ELSE "open"]

\* Whatever the threads, the WebSocket and the Worker do, each side gets a
\* prefix of what the other one sent, in order and once: no byte of a control
\* message, none twice, none after a later one (pumpWsToSock, pumpSockToWs,
\* handleTunnel).
TunnelIsAPipe == TunneledPipe!PipeSpec

\* Nothing follows the close frame on the WebSocket, and a handle that was
\* published has been shut down by the time the tunnel is destroyed.
ShutdownIsLast ==
    /\ \A i \in 1..Len(upFrames) : upFrames[i].kind = "close" => i = Len(upFrames)
    /\ at["run"] = "closed" => ws.handle # "open" /\ sendMutex = "free"

\* A tunnel that was stopped, or whose client left, ends, whichever thread
\* runs stop() and whatever connect() or a sender is doing then: no thread
\* waits for ever for the mutex, in recv() or in the join, and the WebSocket
\* is shut down in order (Relay::stop, run, connect, sendBinary, close).
TunnelEnds ==
    /\ []ShutdownIsLast
    /\ (relay.asked \/ relay.stopping \/ client.fin) ~> at["run"] = "closed"

=============================================================================
