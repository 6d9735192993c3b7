# SplitHello verification project

SplitHello finds out how a network blocks a TLS connection, learns a way of
sending the first flight that gets through, and falls back to a tunnel over a
Cloudflare Worker.  It is a concurrent program: a packet loop, an accept loop,
one thread per session with a second one for the tunnel, a DNS receiver with
workers, a telemetry writer, and a tray process that supervises the engine
process.  What the threads share is guarded by about a dozen mutexes, most of
which are released and taken again inside one operation.

This directory holds TLA+ modules for those parts, TLC configurations that check
them on small instances, and TLAPS proofs for every value of the constants.
Paths like `src/src/Strategy.cpp` are relative to the parent of this directory.

    tlc -workers 2 -config MCRelay.cfg MCRelay
    tlapm SocksProxyProofs.tla

`PROJECT.json` lists the components, the runs, the mutants that show each
property can fail, the source lines of every definition, the hazards, the
findings and the theorems.

## 1. The system

### Parts, state and operations

| part | state it owns | operations that change it |
|---|---|---|
| strategy store (`Strategy.cpp`) | winners, candidates, healthy baselines per (network, host); the file; snapshot numbers | `remember`, `noteBaselineHealthy`, `recordFailure`, `forget`, `clear`, `load`, `commit` |
| diagnosis (`Diagnosis.cpp`) | none | `infer` |
| direct relay (`DirectRelay.cpp`) | the two sockets, the attempts of one connection, the pump's buffers | `run`, `deliverHello`, `handOffToTunnel`, `pump`, `stop` |
| relay listener (`SocksProxy.cpp`) | the listener, the book of sessions, `running_`, `stopRequested_` | `run`, `spawnSession`, `sessionMain`, `serve`, `stop` |
| worker tunnel (`Relay.cpp`, `WsClient.cpp`) | the WebSocket handle, two threads | `run`, two pumps, `stop`, `close` |
| worker health (`RecoveryPolicy.cpp`) | failure streak, back-off, the latch | `observe` |
| dns resolver (`Dns.cpp`) | two caches, lookups in flight, bootstrap addresses | `resolve`, `queryWire`, `prepareWorkerCall`, `clearCache` |
| dns proxy (`TransparentDnsProxy.cpp`) | the queue, the workers, the sockets | `start`, `receiveLoop`, `workerLoop`, `fail`, `stop` |
| flow tables (`TransparentFlow.cpp`) | live TCP tuples, pending flows and datagrams | `add`, `track`, `remove`, `observe`, `claim`, `clear` |
| packet loop (`WinDivertInterceptor.cpp`) | the driver handle, the batch | `start`, `run`, `stop` |
| packet policies (`PacketStrategy.cpp`) | the armed policy of a tuple, the path's hop count | `arm`, `observeHop`, `take`, `noteApplied`, `consumeApplied` |
| QUIC strategy (`QuicStrategy.cpp`) | flows that wait for an answer, blocked servers, a counter of each | `outbound`, `inbound`, `clear` |
| process filter (`ProcessFilter.cpp`) | the owner of each tuple, the image of each process | `shouldIntercept`, `forget`, `clear` |
| tray (`TrayApp.cpp`) | what is shown, the engine and setup processes, the restart budget | the menu commands, the timer, the settings |
| engine (`main.cpp`) | the order in which the parts start and stop | start-up, the wait, tear-down |
| telemetry (`Telemetry.cpp`) | a bounded queue, a writer thread | `record`, `writerLoop`, `stop` |
| system proxy (`SystemProxy.cpp`) | the user's proxy settings and their backup | `enable`, `disable`, `restoreLeftovers` |
| live statistics (`LiveStats.cpp`) | gauges in memory shared with the tray | a publisher's start and end, `flowOpened`, `flowProfileChanged`, `flowClosed` |
| TCP connect (`TcpConnect.cpp`) | sockets of the racing attempts | `connectAny` |
| network identity (`NetworkIdentity.cpp`) | a cached identity | `CachedIdentity::get` |
| Worker (`worker/src/index.js`) | one tunnel per request | the tunnel, DNS forwarding |
| configuration, setup, message formats, HTTP, dashboard | files, buffers, windows | sequential code, see section 7 |

### How they interact

* A packet of an application meets the **packet loop** first: the SYN of a flow to
  port 443 enters it into the flow table and the pending registry and the packet is
  turned around to the **listener**, which accepts it, *claims* the pending flow and
  starts a session.  The session connects to the real server through a private port
  that the packet loop rewrites again.
* A session hands its socket to a **direct relay**.  The relay asks the **strategy
  store** for the remembered profile, tries profiles one after the other, has each
  outcome classified by the **diagnosis** and reports to the store; for `packet-*`
  profiles it arms a **packet policy** that the packet loop takes when it sees the
  hello.  If nothing gets through and a Worker is set up it offers the socket to the
  **tunnel**.
* Datagrams to port 53 are turned around to the **DNS proxy**, whose workers call the
  **resolver**, which calls the Worker.  The system's own lookup of the Worker's name
  is captured as well and comes back to the receiver, which answers it from the
  bootstrap addresses kept in the resolver's cache.  Every answer of the Worker is
  reported to **worker health**.
* The **tray** starts the engine with two events, learns from one that it is ready
  and asks it through the other to stop; when the engine ends it decides from the exit
  code whether to restart it.  In the engine, `stop()` of each part must end its threads.

### What is hard about it

* Operations of several steps that release the lock in between: `commit()` (snapshot
  under one mutex, write under another), `resolve()` (claim, fetch, publish),
  the hand-over of a socket from session to relay to tunnel, `stop()` against all of them.
* Values read before a lock and used after it: the clock stamps of `WorkerHealth`,
  the due time of the bootstrap refresh, `stopRequested_` in `run()`.
* Bounded tables that evict under load, with time-outs of two lengths.
* Two clocks, one of which may be stepped; unsigned differences of stamps.
* Crashes between the change and its write; writes that fail and later succeed.
* Waiting in a circle: a worker calls the Worker, the call asks for an address, the
  question waits for a worker.
* A supervisor that must neither lose a user's stop nor restart without bound.

### What makes it correct

A profile is learned only from evidence of two connections and forgotten in time; the
file agrees with memory; one bad moment neither establishes nor evicts a winner; lookups
of a name never overlap and nobody waits for one that is over; a rewritten packet belongs
to a flow whose SYN was seen; an authorised connection was really observed; a cancellation
is never lost while a socket changes hands; `stop()` returns and leaves no thread; the
Worker is given up only after sustained failures; a stop of the user is final; automatic
restarts are bounded.  Whatever carries a connection, pump or tunnel, is a pipe: each end gets a
prefix of what the other sent, and a clean end only after all of it.  A profile is learned only
from a hello that was really transformed; no packet is lost with a batch that fails; packets are
diverted only to listeners that are up, and every failure ends with the network let go.

## 2. The modules

| module | models | run | proofs |
|---|---|---|---|
| `StrategyStore` | `strategy::Store` and its file | `store`, `store_savefail` | `StrategyStoreProofs` |
| `Diagnosis` | `diagnosis::infer` as an operator | `hello` | |
| `DeliverHello` | `DirectRelay::deliverHello` of several connections, on `StrategyStore` and `Diagnosis` | `hello` | |
| `DnsResolver` | `dns::Resolver` | `dns_resolver`, `dns_proxy` | `DnsProofs` |
| `DnsProxy` | `TransparentDnsProxy` on `DnsResolver` | `dns_proxy` | |
| `PacketLoop` | `WinDivertInterceptor::run` with `PolicyRegistry` and the relay threads that arm policies | `packets`, `packets_late` | `PacketLoopProofs`, `PacketRegistryProofs` |
| `PacketFlows` | `TcpFlowTable`, `FlowRegistry`, the TCP branch of the packet loop | `interceptor` | `InterceptorProofs` |
| `ProcessFilter` | the tuple and process caches of `process_filter::Filter` | `interceptor` | `InterceptorProofs` |
| `FilterRules` | `process_filter::Rules` and `wildcardMatch` as functions | `interceptor` | |
| `QuicStrategy` | `AdaptiveRegistry` and the QUIC branch of the packet loop | `interceptor` | `InterceptorProofs` |
| `DatagramRegistry` | `transparent::DatagramRegistry` between packet loop and DNS relay | `interceptor` | `DnsProofs` |
| `PacketCuts` | where the packet profiles cut a hello, as functions | `interceptor` | `InterceptorProofs` |
| `SocksProxy` | listener, sessions, hand-over to relay and tunnel, `stop()` | `relay`, `socks_early` | `SocksProxyProofs` |
| `TcpConnect` | `tcp::connectAny` | `relay` | `RelayProofs` |
| `NetworkIdentity` | `CachedIdentity::get` | `relay` | `RelayProofs` |
| `Pipe` | abstract: what a carried connection promises its two ends | | |
| `Pump` | `DirectRelay::pump`, `closeSockets`, `stop`; implements `Pipe` | `relay` | `RelayProofs` |
| `Tunnel` | `Relay`, `WsClient` and the Worker's `handleTunnel`; implements `Pipe` | `worker` | |
| `WorkerHealth` | `recovery::WorkerHealth` and its callers | `worker` | `RelayProofs` |
| `TrayApp` | the tray as supervisor, `RestartBudget` | `processes` | `ProcessesProofs` |
| `Engine` | `main()` of the engine, the shutdown monitor, the relay thread | `processes` | `ProcessesProofs` |
| `Telemetry` | queue, writer and pruning schedule of `telemetry::Store` | `processes` | `ProcessesProofs` |
| `LiveStats` | the gauges of `live_stats` between publisher, flows and reader | `processes` | |

An `MC...` module extends one or several of them and defines what a configuration cannot write
down (tables, sets of records, symmetry).  **Sum modules** (`MCInterceptor`, `MCRelay`,
`MCWorker`, `MCProcesses`) check components that share no state in one run: a variable `part`
picks one of them in the initial state, only that one steps, and the fairness conditions are
those of the part that runs.  The state space is the sum of theirs, not the product, and nothing
about how they interact is claimed.  Components that do interact are composed in the modules
themselves: `DeliverHello` runs on the store, `DnsProxy` on the resolver, `PacketLoop` holds the
relay threads, the driver's queue and the registry, `SocksProxy` listener, sessions, relays and
tunnels, `Tunnel` both machines.

A definition named after a mutated form of another one stands directly before it; nothing in a
specification uses it.

Conventions: a block of code under one mutex is one action; a step that crosses an unlock
is split there.  A variable named like a member of the class without the underscore is that
member.  Variables marked *history* are read by properties only.  Where the model says "time is
relative", an entry holds the ticks it has left (or its age, cut off where the code no longer
tells ages apart) instead of a stamp, so no clock bound cuts behaviours off.

### StrategyStore

`entries`, `candidates` and `healthyAt` are the three maps; `wall` and `mono` are
`system_clock` and `steady_clock`; `disk` is the file; `pending` holds the snapshots of
threads that have left `mutex_` and are not through `commit()`.  Every public operation is
an action; `commit` is a second one that skips a snapshot older than the newest one
written, writes it, or fails to.  `Restart` keeps the file only and loads it, filtering
entries the way `load` does.  The wall clock may be stepped, so entries saved "in the
future" occur.

### Diagnosis and DeliverHello

`infer` gives the verdict of one connection from the signals its profiles got: whether the
baseline passed, a bypass passed where the baseline failed, or nothing got through.  In
`DeliverHello` a connection reads the store (`Lookup`), probes the profiles of its plan
one by one (`Probe`, `WriteFails`, `ReconnectFails`) and reports to the store where the
code does (`Lost`, `WonBaseline`, `Retire`, `WonUnlearned`, `WonBypass`, `Remember`).  Each
report takes the store's mutex of its own, so other connections run in between.  The
condition of the path is chosen from `Paths` attempt by attempt, so it may change in the middle of a
connection: that is what a hiccup is.  An attempt lasts at most `kAttemptSeconds`.

### WorkerHealth

A thread reads the clock in one step and enters `observe` in a later one, so stamps reach
the lock out of order.  The differences are taken modulo `Word`, as on `uint64_t`: a stamp
older than the last one gives a huge gap and starts a new streak.

### DnsResolver and DnsProxy

`call` holds, per caller, where it is in `resolve` or `queryWire`; the wait on
`cacheReady_` is a state of the call that only a `notify_all` of a finished lookup, or a
spurious wake-up, leaves.  `DnsProxy` adds the queue, a receiver that pushes and notifies
one worker, workers that sleep in a wait set, and the owner's `start` and `stop`.  A worker
processes a question in one call of the resolver or, where a negative answer allows the wire
path, in two (`FallBack`).  Before
a worker's fetch it asks the system for the Worker's address; the question comes back to
the receiver, which replies at once if the address is in the cache.

### PacketFlows

A SYN of an application is diverted (`DivertedSyn`) or left alone by a process rule
(`BypassedSyn`), the relay's own SYN enters the upstream flow (`UpstreamSyn`), and any other
packet is a `Segment` with or without FIN or RST.  `Claim` is the listener's, `Stop` and
`Start` are those of the interceptor.  Entries hold the time they have left rather than the time they expire at, so the
clock need not be bounded.  Reading the clock and taking the lock is one step.  A packet to
the private connect port is rewritten whatever `track` says, as in the code.

### SocksProxy

`handles` says which of session, relay and tunnel own the client's socket and `open`
whether it is open.  The book's mutex has an explicit holder where a thread keeps it over
more than one step.  `stop()` sets the flags, closes the listener, cancels every session
in the book, waits until it is empty and joins.  `DirectRelay::stop()` is two steps, the flag and
what it does under `socketMutex_`; `cutting` is the session it is in the middle of.  A session
registers its relay, checks whether it was stopped, and the relay does the same with the tunnel:
the windows between these steps are where a cancellation could be lost.  The wait is
`sessionsChanged_` as the code uses it: first with a deadline, then without, each testing its
condition under the lock and woken by the `notify_all` a session sends after it has released it.

### TrayApp

`engine` is the process as the tray's handle shows it.  `menu` keeps the commands that were
enabled when the menu was opened, so a command may arrive after the state has moved on.
`stateAge`, `restartIn` and `attempts` are relative times cut off where the code no longer
tells them apart, so the state space is finite although time goes on for ever.

### PacketLoop and PacketCuts

Connections dial one target from a set of local ports that the system gives out again once a
connection is gone.  Their packets, the target's answers and copies TCP sends again pass the
driver's queue in order.  The loop reads a batch, handles each packet (a hello takes the policy
armed for its port, is cut, and the cut is noted as applied), and sends the batch; a send may
fail for one packet, for several, or for good, and a batch that was sent in part is resumed,
packet by packet, at the one the driver stopped at.  The connections share a target and so an address
family (`OverIPv6`): over IPv6 the profile that fragments falls back on reordered segments.  Reads are retried, failed sends are counted in a streak, and an
unusable handle makes the loop stop itself and let packets pass.  A relay thread arms a policy,
sends its hello, and after the answer asks `consumeApplied`.  `PacketCuts` holds the choice of
the cut and the pieces as functions; each is checked against what a receiver reassembles, and a
packet that is a fragment itself is an input too.

### QuicStrategy, DatagramRegistry, ProcessFilter, FilterRules

`QuicStrategy` has each method of the registry as a function from the registry it finds to the one
it leaves, with the two lock-free counters apart from the tables they count and changed where the
code changes them; the loop asks the counters before it calls.  `DatagramRegistry` has the packet loop as the one who observes and
the DNS relay as the one who claims; reflected datagrams may be lost or late.  In `ProcessFilter`
the owner table of a packet's port is an input (none, one or several processes) and process ids
are reused at any time; the filter resolves a tuple at its first packet and caches the decision,
and the name of the process.  `FilterRules` evaluates `wildcardMatch`, with
its backtracking over the last star, over every short pattern and path, against a definition of
what it means for a pattern to match.

### TcpConnect and NetworkIdentity

`TcpConnect` races the addresses of a host: attempts start a delay apart, at once after a failure,
at most `kMaxParallelAttempts` at a time.  The outcome of `select()` is nondeterministic.  In
`NetworkIdentity` threads find the cached name stale under the lock, fetch without it, and publish
under it again; the machine changes networks at any time.

### Pipe, Pump and Tunnel

`Pipe` has three variables: what was sent, what came out, and how each direction ended.  `Pump`
has one thread with a pending buffer per direction, two peers that send, finish or reset, and a
`stop()` on another thread.  An idle limit, a failing `select()` and a socket that cannot be made
non-blocking leave the loop with a direction unfinished and close without a reset: the one
end that `Pipe` sees as cut although the reader sees no error.  `Tunnel` has the relay's two
threads, whoever stops it, the WebSocket client with its send mutex and the moment its handle is
published, and the Worker script with its limits of bytes; frames, close frames and broken
connections travel between the two machines.  Both modules instantiate `Pipe` with a refinement
mapping and state `PipeSpec` as a property.

### Engine, Telemetry and LiveStats

`Engine` follows `main()` of the hidden engine from the monitor to the exit code: listeners,
interception, the poll loop that classifies a failure, the tear-down.  Any part may fail at
any point, and the tray may ask for a shutdown or die; the monitor hears of either only by the
handle it could open.  In `Telemetry` session threads record into the bounded queue, the writer
waits, takes a batch, commits it and prunes, and `stop()` sets the flag, notifies and joins.
`LiveStats` has the gauges in shared memory, changed by one interlocked operation at a time, an
engine that ends or dies and whose successor finds the memory if a reader has kept it, and a
reader that takes the gauges one after the other while they change.

## 3. Runs

| run | instance | checks | shows |
|---|---|---|---|
| `store` | 2 hosts for 1 slot, 2 threads in `commit`, a file of an older version, clock to 3 with a step, 1 crash | `NoWinnerOutlivesItsProof`, `FileMatchesMemory`, `LearnedNeedsTwoStrikes` | a winner needs two differentials a gap apart with no healthy baseline between them and lives at most one TTL from its last proof, through cache hits, restarts and clock steps; when nobody is left in `commit()` and the newest snapshot was not lost, file and memory agree |
| `hello` | 2 connections, 2 profiles, with and without a learned winner, with and without `--strategy`, fair | `LearnedNeedsTwoConnections`, `EvictionNeedsTwoConnections`, `DeliverHelloEnds` | no connection alone establishes a winner, or makes the store drop one while the baseline fails; every connection comes to a result |
| `dns_resolver` | 3 callers, 2 names, a wire question, the Worker host, caches of 1 | `SingleFlight`, `WaitersAreWoken`, `BootstrapKept` | lookups of a name never overlap; nobody waits for one that is over; the bootstrap entry stays |
| `dns_proxy` | 2 workers, 1 name, 1 wire question, a queue of 1, restarts, fair; each behaviour has one emphasis: time passes and only addresses are asked for, an address question may fall back on the wire path, or wire questions are asked directly, also before the Worker has an address | `QuestionsAreAnswered`, `StopReturns` | no wake-up is lost; the circle through the Worker's own address does not close; `stop()` returns |
| `packets` | 2 connections over IPv6, one after the other on one local port, 3 modes or none, batches of 2, 1 copy per hello, failing reads and sends, `stop()`, fair | `LearnedWasTransformed`, `EveryPacketIsSent`, `ProbesStayTreated`, `FailsOpen` | a profile is learned only from a hello that was transformed for this connection; a copy is treated like the original while the probe lasts; each packet of a failed batch is sent, and once; the loop gives up over a dead handle only, and however it ends the handle is closed |
| `interceptor` | sum of six parts: 2 client and 1 upstream tuples with tables of 2; 3 endpoints with a cache of 2, 2 processes with a cache of 1; rule lists up to 2 patterns and every pattern and path up to 3 characters; 2 servers and 2 ports; 3 askers; payloads up to 20 bytes | `RewritesAreExact`, `ClaimsAreExact`, `InterceptionIsOwned`, `RulesDecide`, `SkippedCallsChangeNoVerdict`, `BlocksAreExplained`, `DatagramGrantsAreBacked`, `CutsAreSound` | a rewritten flow had a SYN, a live one stays rewritten while there is room, and when there is none those closest to their end go; a claim was observed within the TTL and not used before; a tuple starts to be taken only at a packet whose owner's id belonged to an allowed program less than a name's lifetime ago, and the decision ends with a reset or a pause, not with the owner; the matcher decides what the rules mean; a call that is skipped would have changed no verdict of its moment (it may have kept a flow from being purged); a server is blocked only after silence towards the flow that asks; a datagram is served only if one was reflected; the pieces reassemble to the hello |
| `relay` | sum of four parts: 2 sessions and 1 stopper; 4 addresses, 2 at a time; 2 callers, 2 networks; 2 bytes each way, buffer of 2; the sessions fair | `ReachableIsAlive`, `NothingIsLeftBehind`, `CancelReaches`, `StopReturns`, `ConnectIsThorough`, `FreshIdentityIsRecent`, `PumpIsAPipe` | what `stop()` reaches is alive, no cancellation is lost, no socket, session or thread is left, `stop()` returns if the tunnels it stops do; a connect gives up only when all was tried and leaves no socket; a name taken for fresh is recent; the pump implements `Pipe` |
| `worker` | sum of two parts: 2 bytes up, 1 down, limits of 2 and 1; 2 threads with 4-bit words; the tunnel fair | `TunnelIsAPipe`, `TunnelEnds`, `LatchNeedsSustainedFailures` | the tunnel implements `Pipe` and ends once either side ended it (with one byte down, the order of what comes down is not exercised); stamps out of order do not latch the Worker early |
| `processes` | sum of four parts: one automatic restart in a window of 2 and an engine that may hang; `main()` with any subset of its shutdown handles; 3 records, a queue of 2; 2 flows, 2 profiles and a reader, over any number of engines; all but the last fair | `Supervision`, `StopWins`, `WishesComeTrue`, `ListenersOutliveInterception`, `EngineFailsOpen`, `StopSettles`, `LiveFiguresAreTrue` | what the tray shows is what there is, a stop is final, restarts are bounded, exit, stop and restart come true; packets go only to listeners that are up, and every failure, and every request the monitor can hear, lets the network go; `stop()` of the telemetry returns with everything accepted settled; no gauge is ever below zero, at rest they are the numbers of flows, and a reader shows no more flows than there were while it read |
| `store_savefail` | as `store`, without a file | `SuccessfulSaveRestoresFile` | **violated**, finding 1 |
| `socks_early` | 1 connection, `stop()` during start-up | `DrainedAfterStop` | **violated**, finding 2 |
| `packets_late` | as `packets` | `RetransmitsStayTreated` | **violated**, finding 3 |

Some properties are conjunctions that one hazard needs together: `QuestionsAreAnswered`
includes `JobsHaveTakers`, `WishesComeTrue` includes `RestartsAreBounded`, `FailsOpen` includes
`StopsOnDeadHandleOnly`, `NothingIsLeftBehind` includes `DrainedAfterStop`, `TunnelEnds` includes
`ShutdownIsLast`.

Every property of a passing run has a mutant in `PROJECT.json`: a plausible bug in one
definition under which TLC finds that property violated.

### Bounds

* The smallest sets in which the interesting case exists: two threads for a race, a third
  where a waiter must meet a finished and a running lookup; one more host, name or tuple
  than the table has room for; two profiles so that a winner can be replaced; one local port for
  two connections so that it is reused; buffers and byte counts such that a send can be cut
  short and a second read can follow it.
* Durations are small but keep the order they have in the code (the confirmation gap is
  shorter than the candidate's life, which is at most the TTL; a closing flow lives shorter
  than an idle one) and are exceeded by the clock bound, so every expiry happens.
* `packets` has one port for its two connections, which reuse it, so its policy table never has to
  evict; with two ports the run is out of reach (section 6), and eviction is left to the proofs,
  which are about any number of ports.  `hello` has two connections: a third that would profit from
  a stale reading of the second is beyond it.
* `relay` has one `stop()`: `main()` calls it from one thread.  The proofs are about any number.
* Where time is relative (`PacketFlows`, `PacketLoop`, `ProcessFilter`, `QuicStrategy`,
  `DatagramRegistry`, `NetworkIdentity`, `TrayApp`) there is no clock bound.
* `MaxClock`, `MaxMs`, `MaxSeq`, `MaxThreads`, `MaxConnections`, `MaxCrashes`, `MaxStreak`,
  `MaxResends`, `MaxLoad`, `ConnLoad`, `MaxBytes`, `MaxClientBytes`, `MaxTargetBytes`,
  `MaxRecords`, `MaxCallMs` bound counters in the guards of the actions that raise them;
  `MaxPayload` bounds an input.  A run that ends because of such a bound says
  `CHECK_DEADLOCK FALSE`; so do the runs of systems that really stop (`relay`, `worker`,
  `processes`).  The others are checked for deadlock.
* In `hello` a probe that fails times out.  With alerts instead, which `infer` tells apart, the
  three properties hold as well; both at once multiply the liveness check.
* `StopsEarly` in `SocksProxy` admits a `stop()` before `run()` has published its
  listener.  Finding 2 is about that case; the passing run excludes it to say what
  holds in all others.
* Symmetry is used in safety runs only, over hosts, threads, names, tuples and process ids, which
  no definition tells apart.

### Fairness

* A thread that can take a step eventually does (weak fairness of the steps of a session, a
  caller, a worker, a writer, the packet loop, an owner, `main()`): the system schedules every
  thread, and the calls that could block (probes, connects, fetches) carry deadlines in the code.
* Strong fairness of a worker that wants `queueMutex_` and of the receiver's read: others may
  take the mutex in between for ever otherwise, which a Windows mutex under contention
  does not do.
* A pump of `SocksProxy` is fair only once it is told to end; nothing makes an application close its
  connection.  A tunnel is not fair at all: that one which is told to stop returns at last is the
  assumption `TunnelsReturn` in front of `StopReturns`, since its receive may depend on the peer.
  A `stop()` is sure to wake only when it is notified, or at its deadline.
* In `Tunnel` the three threads of this machine are fair, the Worker and the target are not.
  Handshake and send have the time-outs `WsClient::connect()` sets.  Of a receive its comment says
  that completion "still depends on the peer/runtime after send-side shutdown": that the peer or
  its runtime ends a receive is an assumption of `TunnelEnds`, not a result.
* The tray's timer and its clock go on; a killed process ends.  No fairness of the user,
  and none of an engine as the tray sees it: it may hang for ever.

## 4. Refinement

`Pump` and `Tunnel` are two implementations of one abstract specification, `Pipe`.  The mapping
takes `sent` from what the sources did, `got` from what the destinations hold, and `over` from how
each destination saw its end.  TLC checks both refinements (`PumpIsAPipe`, `TunnelIsAPipe`); for
the pump it is also proved, for every number of bytes and every buffer size.  `Pipe` lets a direction
be cut at any time and end cleanly only when nothing is missing, so the refinement says that no
reset, failed send or stop is passed on as an end of file.

The ends of a tunnel do not say whether the other side had finished, so its directions map to
"cut".  What the refinement says of it is order, no loss or repetition before the cut and no byte
that is not data.

## 5. Findings

1. `store_savefail`: when the write of a newer snapshot fails and an older one that waited
   succeeds, the store counts the save as successful while the file misses the newer
   state (`Strategy.cpp:676`).
2. `socks_early`: a `stop()` between `run()`'s test of `stopRequested_` and its setting of
   `running_` is overwritten; a session may start after `stop()` has returned
   (`SocksProxy.cpp:223`).
3. `packets_late`: a copy of the hello that was on its way when the answer arrived reaches the
   packet loop after the relay has consumed the policy, and passes untouched
   (`PacketStrategy.cpp:382`).

Each is a place where the code and one of its own comments or documents disagree;
`PROJECT.json` quotes both.

Observations that no run states:

* The gap between two strikes is measured between reports, not between failures
  (`Strategy.cpp:404`), so parallel connections that met one hiccup can be a gap apart if their
  attempts take that long; and when nothing gets through, the remembered profile is charged
  whatever happened to the baseline (`DirectRelay.cpp:551`).
* Exit code 0, "clean shutdown" (`EngineExitCodes.hpp:7`), can also result without a request: the
  relay dies, and the packet loop dies between `main()`'s reading of `fatalErrorCode` and its
  test of the relay; or the relay comes up right after the wait of two seconds.  The tray treats
  an unexpected exit as a failure whatever the code, so nothing is lost.
* A call that `needsInbound()` skips is not quite the "no-op" its comment says
  (`QuicStrategy.hpp:40`): the answer does not refresh `touchedMs`, so its flow may be purged earlier.
  The next Initial is then primed and judged afresh; no verdict of the moment differs.
* A cached decision follows the tuple.  It is forgotten on a RST but not on a FIN
  (`WinDivertInterceptor.cpp`, the TCP branch), so a program that takes over a port, towards the same
  server, within ten minutes of the last SYN inherits the decision of the former one.
* "The hidden engine must always be stoppable by its tray" (`main.cpp:592`) is ensured for an engine
  that could open neither the event nor the tray's process.  One that could only open the
  process does not hear the event; the tray then ends it after its own timeout.
* "Gauges (active flows/profiles) can transiently dip below zero under races" (`LiveStats.cpp:44`): they
  cannot, since each flow counts itself out after it has counted itself in; the clamp is harmless.
* `SocksProxy::stop()` waits without a deadline once its first one is over (`SocksProxy.cpp:292`), and so
  does the tear-down of the engine, if a tunnel's receive is never completed.

## 6. Proofs

The theorems hold for every value of the constants that satisfies the named assumptions
of the modules, which ask little more than that limits are positive and durations
natural numbers; TLC evaluates the assumptions on every run.

A proof module may serve several components that share no names; each part of it speaks about the
specification of its component.  Leaves that need no arithmetic name `Zenon`: it is quick on them
where the SMT encoding of the whole context is not.

**StrategyStoreProofs.**  `TypeCorrect` is proved first and cited by the others.
* `TwoStrikesTheorem` (`LearnedNeedsTwoStrikes`, an action property).  That a candidate is
  there says nothing about when it was struck, so the invariant `StrikesRecorded`
  is needed: the first strike of every candidate is in the history of differentials since
  the last healthy baseline.  It is inductive with `TypeOK`, and the theorem follows for each
  step that turns a candidate into a winner.
* `NoWinnerOutlivesTheorem`.  A winner in memory is proven only because the file it was
  loaded from and every snapshot under way are; the induction runs over
  `NoWinnerOutlivesItsProof` and `PendingProven` together.
* `FileMatchesTheorem`.  `FileMatchesMemory` speaks about the moment when nobody is left in
  `commit()`; to be inductive it needs `NewestAgrees`: the snapshot with the highest number,
  wherever it is (waiting or written), is the state in memory.

**SocksProxyProofs.**  Three theorems about the sockets and threads of the relay, for any number of
sessions and of `stop()` calls.
* `ReachableStaysAlive` and `CancellationIsNeverLost`.  `SessionInv` says, place by place, who holds
  the client's handle, what is registered in the book, the relay and the tunnel, and which of them
  a cancellation has reached.  A hand-over registers first and looks for a cancellation after, and
  a cancellation marks first and looks for the next owner after; the invariant is what is true in
  the window between.  `LockInv` says that a relay whose `stop()` is under way belongs to the
  `stop()` that holds the book's mutex, so nobody can unregister it meanwhile.
* `NothingIsEverLeftBehind`, under `StopsEarly = FALSE` and at least one `stop()`.  The first is
  needed (finding 2), the second is the destructor's call.  `Accepting` says how far `run()` can be
  once a `stop()` has begun.  That every thread is joined needs `NoRingOfJoins`: among the threads
  that are ending, no set only waits for itself.

**DnsProofs.**  `SingleFlightTheorem` and `WaitersTheorem` are proved with `KeysFit`: only names
wait for a lookup and the Worker's own name is never looked up through the Worker.
`BootstrapTheorem` is an action property; it rests on `BootstrapIsForever`, since eviction spares
the bootstrap entry only while it has no expiry.  `DatagramTheorem` (`DatagramRegistry`): `PairBacked`
bounds what an entry can still grant by the queries unclaimed, and its life by their age.

**RelayProofs.**
* `FreshTheorem` (`NetworkIdentity`): a fetch that is published late stamps the cache with
  the time its call began, so the invariant relates three ages, those of the cached name, of the
  stamp and of each fetch under way: no name is older than the stamp it is or will be published with.
* `LatchTheorem` (`WorkerHealth`): `CountersDescribeStreak` says what the three
  counters mean in terms of the history of failures (the last `failures` stamps, without
  a gap that is too long), which needs that an unsigned difference of stamps is either the
  difference or larger than every gap (`UnsignedDifference`, from `WordAssumption`).
  `BackoffTheorem`: no `Retry-After` holds callers back for longer than the cap.
* `ConnectTheorem` (`TcpConnect`): in `RaceInv` the addresses not tried yet are those from
  `nextCandidate` on, so "nothing in flight and no candidate left" means that all were tried.
* `PumpImplementsPipe`, a refinement.  A stream is a run of consecutive numbers,
  and five lemmas say how runs join, split and grow.  The invariant `PumpInv` says that what came out,
  what is pending and what was not read yet are one run (unless the connection was aborted,
  after which nothing more comes out), that an end is taken only from a source that has nothing
  left and passed on only after everything pending, and why the loop was left.  Each step keeps it
  and is a `Send`, a `Deliver` or an `End` of `Pipe`, or a stutter.

**ProcessesProofs.**
* `SupervisionTheorem`, `StopWinsTheorem` (`TrayApp`).  `Control` (types, `Supervision`, `StopWins`) is
  inductive with one more fact, that nothing is polled once the window is gone.
* `ListenersTheorem` (`Engine`): open handles say nothing about where `main()` is, so the
  invariant ties them to a place between the start of the second listener and the stop of
  interception, and what the listeners may have become to that place.
* `DrainTheorem` (`Telemetry`) is the safety half of `StopSettles`: `QueueInv` says where a
  record can be until its transaction is over, and that the writer leaves only with all of these
  empty unless it gave up.

**InterceptorProofs.**
* `CutsTheorem` (`PacketCuts`): `CutInv` holds the policy and the inputs of the last cut; the rest is
  arithmetic on the pieces, for every length of a hello.
* `RewritesTheorem`, `ClaimsTheorem` (`PacketFlows`), action properties.  `EntryTells` relates an entry that
  has not expired to the history of its tuple: diverted or not, closing or not, and silent for
  exactly what is gone of its lifetime.
* `InterceptionTheorem` (`ProcessFilter`), an action property.  Decisions and process names are two
  caches with lifetimes of their own; `IdleOK` and `NamesOK` relate each to the time since the
  packet or the lookup it came from.
* `QuicCountersTheorem`, `QuicBlocksTheorem`: in `Registry` the counters are exact, and every block in
  force stands for an unanswered flow that no purge reaches before the block is over.

**PacketLoopProofs, PacketRegistryProofs.**  The run has two connections on one port; the theorems are
about any number of connections and ports.
* `BatchTheorem`.  `BatchInv` counts, for each packet of the batch, the sends it got: none beyond the
  index to resume at, and one before it when the driver's count was trusted.
* `DeadHandleTheorem`, the safety half of `FailsOpen`.  `StreakInv` relates the counters of `sendFailed`
  to the history of failures in a row.
* `LearnedTheorem`.  An entry of the registry is found by the local port, and ports are reused, so the
  order of the packets matters: `FlowInv` says that a connection on a port has nothing of
  an earlier one behind it in the queue or the batch.  From it `RegistryInv` follows: the entry of a
  connection that may still ask was taken for its own hello and is marked only
  if that hello was transformed.
* `TreatedTheorem`, an action property.  `TreatInv` adds that, for every copy of a transformed hello on
  its way, or that TCP may still send, the entry is still there, taken and not expired, or the promise was lifted: by the
  answer, an eviction, or the end of the entry's life.

The inductive invariants of `PacketLoop` were model-checked before they were proved, on the instance
of the run and with two ports (22 million states, too many for a run of this project).

Only model-checked: every liveness property, and the liveness halves of `StopSettles` and `FailsOpen`,
since TLAPS does not prove liveness under fairness here; `LiveFiguresAreTrue`, whose cardinalities of
changing sets of flows need an argument of their own; the properties of the compositions
`DeliverHello` and `DnsProxy`; the refinement of the tunnel, whose two machines and channels need an
invariant of another size; and `RulesDecide`, since what the recursive matcher of `FilterRules`
computes for every input needs an induction over data.

## 7. Not modelled, and why

* Byte formats (TLS, DNS, SOCKS5, HTTP, JSON, packet headers, checksums): parsers and builders over
  whole buffers, out of a model checker's reach; the repository tests and fuzzes them.  Of
  `PacketStrategy` the choice of a cut is modelled, the bytes of the fake hello are not.
* Configuration, Wrangler and the setup: sequential file and process handling; each step waits
  for the one before.
* System proxy settings: `main()` only calls `restoreLeftovers()`, once, before anything
  starts; nothing calls `enable()`.
* Of the live statistics the counters that only grow, from which nothing is computed.
* The dashboard's queries and `compactReport()`: they only read.  That the queries of one read
  transaction see one state of the database is a promise of SQLite, not of this code.
* Manual proxy mode and a console run of the engine: `Engine` is the hidden engine with its monitor.
* Two processes on one strategy file (`--forget-strategies` beside a running engine): the code makes
  no promise about it.
* Windows itself (sockets, WinHTTP, WinDivert, SQLite, processes) and the Worker's runtime are
  modelled by what the code relies on.  In particular a receive after `shutdown(SD_RECEIVE)` is
  taken to fail, a local port is given out again only when nothing of the earlier connection is
  left to be sent again, and what the Worker's script sees after an `await` is what its
  runtime lets it see.
* The text of logs, the dashboard's drawing, the icon, confidences of verdicts: nothing depends on
  them.

## 8. Hazards

`PROJECT.json` lists, at their lines, the places where this code can go wrong in a way a test
would hardly reach, with the properties that would catch it.  One has no property: two processes
on one strategy file.  A note says where a property covers a hazard only in part.
