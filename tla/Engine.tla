------------------------------- MODULE Engine -------------------------------
(***************************************************************************)
(* main() of the engine process (src/src/main.cpp): the listeners are      *)
(* started before interception and stopped after it, a poll loop watches   *)
(* their health, and the monitor thread turns the tray's event, or the     *)
(* death of the parent process, into a shutdown request.  Each of the two  *)
(* is a handle that may fail to open; the monitor makes do with one.       *)
(***************************************************************************)
EXTENDS Integers

VARIABLES
    main,           \* where the main thread is
    useWorkerDns,
    shutdown,       \* g_shutdownRequested
    monitor,        \* the handles the thread of ShutdownEventMonitor waits on
    told,           \* those that are signalled: the tray's event, its process
    relayThread,    \* the relay thread: "off", "starting", "running", "exited"
    relayStop,      \* main has called proxy.stop()
    relayResult,    \* proxyResult
    dnsRelay,       \* "off", "running", "dead", "stopped"
    divert,         \* the interceptor: handles, running_, whether fatalErrorCode_ is set
    fatal,          \* the value of fatalErrorCode() main has read
    workerDown,     \* resolver.workerUnavailable()
    engineExit

mainVars == <<main, useWorkerDns, shutdown, monitor, told, relayThread, relayStop,
                relayResult, dnsRelay, divert, fatal, workerDown, engineExit>>

EngineInit ==
    /\ main = "monitor" /\ useWorkerDns \in BOOLEAN
    /\ shutdown = FALSE /\ monitor = {} /\ told = {}
    /\ relayThread = "off" /\ relayStop = FALSE /\ relayResult = FALSE
    /\ dnsRelay = "off"
    /\ divert = [handles |-> {}, running |-> FALSE, failed |-> FALSE]
    /\ fatal = FALSE /\ workerDown = FALSE /\ engineExit = 0

Leave(place, code) == main' = place /\ engineExit' = code

---------------------------------------------------------------------------
(* The main thread                                                         *)

environment == <<useWorkerDns, shutdown, told, workerDown>>
theRelay == <<relayThread, relayStop, relayResult>>

\* ShutdownEventMonitor opens what it can of the event and the process.  Only
\* a console run, which names neither, goes on without a thread that waits.
Watchable == {"event", "parent"}

StartMonitor ==
    /\ main = "monitor"
    /\ \/ /\ monitor' \in SUBSET Watchable
          /\ main' = "configure" /\ UNCHANGED engineExit
       \/ Leave("exited", 15) /\ UNCHANGED monitor
    /\ UNCHANGED <<environment, theRelay, dnsRelay, divert, fatal>>

\* The configuration, the Worker setup and the process rules.
Configure ==
    /\ main = "configure"
    /\ \/ main' = "launch" /\ UNCHANGED engineExit
       \/ \E code \in {1, 16, 13} \union (IF useWorkerDns THEN {14} ELSE {}) : Leave("exited", code)
    /\ UNCHANGED <<environment, monitor, theRelay, dnsRelay, divert, fatal>>

LaunchRelay ==
    /\ main = "launch"
    /\ main' = "waitRelay"
    /\ relayThread' = "starting"
    /\ UNCHANGED <<environment, monitor, relayStop, relayResult, dnsRelay, divert, fatal,
                   engineExit>>

\* The wait of two seconds, and the look at running() after it.
RelayIsUp ==
    /\ main = "waitRelay" /\ relayThread = "running"
    /\ main' = "startDns"
    /\ UNCHANGED <<environment, monitor, theRelay, dnsRelay, divert, fatal, engineExit>>

RelayIsNotUp ==
    /\ main = "waitRelay" /\ relayThread # "running"
    /\ Leave("joinFailedRelay", 10)
    /\ relayStop' = TRUE
    /\ UNCHANGED <<environment, monitor, relayThread, relayResult, dnsRelay, divert, fatal>>

JoinFailedRelay ==
    /\ main = "joinFailedRelay" /\ relayThread = "exited"
    /\ Leave("exited", IF relayResult THEN 0 ELSE engineExit)
    /\ UNCHANGED <<environment, monitor, theRelay, dnsRelay, divert, fatal>>

StartDns ==
    /\ main = "startDns"
    /\ \/ /\ dnsRelay' = IF useWorkerDns THEN "running" ELSE "off"
          /\ main' = "startDivert"
          /\ UNCHANGED <<relayStop, engineExit>>
       \/ /\ useWorkerDns
          /\ Leave("join", 11)
          /\ relayStop' = TRUE
          /\ UNCHANGED dnsRelay
    /\ UNCHANGED <<environment, monitor, relayThread, relayResult, divert, fatal>>

\* Interception that is opened while the relay is still starting.
OpensEarly ==
    /\ main \in {"startDivert", "waitRelay"} /\ divert.handles = {}
    /\ divert' = [divert EXCEPT !.handles = {"packet"}]
    /\ main' = IF main = "startDivert" THEN "openQuic" ELSE main
    /\ UNCHANGED <<environment, monitor, theRelay, dnsRelay, fatal, engineExit>>

\* interceptor.start(): the packet handle, and then, when QUIC is blocked for
\* everybody, the handle that drops it; a failure leaves no handle open.
OpensPacketHandle ==
    /\ main = "startDivert"
    /\ \/ /\ divert' = [divert EXCEPT !.handles = {"packet"}]
          /\ main' = "openQuic"
          /\ UNCHANGED engineExit
       \/ Leave("stopDns", 12) /\ UNCHANGED divert
    /\ UNCHANGED <<environment, monitor, theRelay, dnsRelay, fatal>>

StartsPacketThread ==
    /\ main = "openQuic"
    /\ \/ /\ \E quic \in {{}, {"quicDrop"}} :
              divert' = [divert EXCEPT !.handles = @ \union quic, !.running = TRUE]
          /\ main' = "ready"
          /\ UNCHANGED engineExit
       \/ Leave("stopDns", 12) /\ divert' = [divert EXCEPT !.handles = {}]
    /\ UNCHANGED <<environment, monitor, theRelay, dnsRelay, fatal>>

SignalReady ==
    /\ main = "ready"
    /\ main' = "poll"
    /\ UNCHANGED <<environment, monitor, theRelay, dnsRelay, divert, fatal, engineExit>>

\* A loop that does not watch the receiver of the DNS relay.
healthyButDns ==
    /\ ~shutdown /\ relayThread # "exited" /\ divert.running
    /\ useWorkerDns => ~workerDown
healthy ==
    /\ ~shutdown /\ relayThread # "exited" /\ divert.running
    /\ useWorkerDns => dnsRelay = "running" /\ ~workerDown

\* The loop ends; first the error of the interceptor is read, then the rest.
PollEnds ==
    /\ main = "poll" /\ ~healthy
    /\ fatal' = divert.failed
    /\ main' = "classify"
    /\ UNCHANGED <<environment, monitor, theRelay, dnsRelay, divert, engineExit>>

Classify ==
    /\ main = "classify"
    /\ LET unexpected == relayThread = "exited" /\ divert.running
       IN  Leave("stopDivert",
              IF ~shutdown /\ useWorkerDns /\ workerDown THEN 3
              ELSE IF \/ ~shutdown /\ useWorkerDns /\ dnsRelay # "running"
                      \/ fatal \/ unexpected THEN 2
              ELSE 0)
    /\ UNCHANGED <<environment, monitor, theRelay, dnsRelay, divert, fatal>>

StopDivert ==
    /\ main = "stopDivert"
    /\ divert' = [divert EXCEPT !.handles = {}, !.running = FALSE]
    /\ main' = "stopDns"
    /\ UNCHANGED <<environment, monitor, theRelay, dnsRelay, fatal, engineExit>>

StopDns ==
    /\ main = "stopDns"
    /\ dnsRelay' = IF dnsRelay = "off" THEN "off" ELSE "stopped"
    /\ main' = "stopRelay"
    /\ UNCHANGED <<environment, monitor, theRelay, divert, fatal, engineExit>>

StopRelay ==
    /\ main = "stopRelay"
    /\ relayStop' = TRUE
    /\ main' = "join"
    /\ UNCHANGED <<environment, monitor, relayThread, relayResult, dnsRelay, divert, fatal,
                   engineExit>>

\* The relay thread is joined, and the process ends.
JoinRelay ==
    /\ main = "join" /\ relayThread = "exited"
    /\ main' = "exited"
    /\ UNCHANGED <<environment, monitor, theRelay, dnsRelay, divert, fatal, engineExit>>

MainStep ==
    \/ StartMonitor \/ Configure \/ LaunchRelay \/ RelayIsUp \/ RelayIsNotUp
    \/ JoinFailedRelay \/ StartDns \/ OpensPacketHandle \/ StartsPacketThread
    \/ SignalReady \/ PollEnds \/ Classify \/ StopDivert \/ StopDns \/ StopRelay \/ JoinRelay

---------------------------------------------------------------------------
(* The other threads and the outside                                       *)

relayRest == <<main, environment, monitor, relayStop, dnsRelay, divert, fatal, engineExit>>

\* SocksProxy::run() binds, unless it is already told to stop or cannot.
RelayBinds ==
    /\ relayThread = "starting" /\ ~relayStop
    /\ relayThread' = "running"
    /\ UNCHANGED <<relayResult, relayRest>>

RelayCannotStart ==
    /\ relayThread = "starting"
    /\ relayThread' = "exited"
    /\ UNCHANGED <<relayResult, relayRest>>

\* It ends when it is stopped, or on a fatal accept error.
RelayStops ==
    /\ relayThread = "running" /\ relayStop
    /\ relayThread' = "exited" /\ relayResult' = TRUE
    /\ UNCHANGED relayRest

RelayDies ==
    /\ relayThread = "running" /\ main # "exited"
    /\ relayThread' = "exited"
    /\ UNCHANGED <<relayResult, relayRest>>

RelayThread == RelayBinds \/ RelayCannotStart \/ RelayStops

DnsRelayDies ==
    /\ dnsRelay = "running"
    /\ dnsRelay' = "dead"
    /\ UNCHANGED <<main, environment, monitor, theRelay, divert, fatal, engineExit>>

\* The packet loop gives up: the error first, then running_; the handle stays
\* open until main closes it.
PacketLoopDies ==
    /\ divert.running
    /\ divert' = [divert EXCEPT !.running = FALSE, !.failed = TRUE]
    /\ UNCHANGED <<main, environment, monitor, theRelay, dnsRelay, fatal, engineExit>>

WorkerIsGivenUp ==
    /\ ~workerDown /\ useWorkerDns /\ main # "exited"
    /\ workerDown' = TRUE
    /\ UNCHANGED <<main, useWorkerDns, shutdown, told, monitor, theRelay, dnsRelay, divert,
                   fatal, engineExit>>

\* The tray sets the event, unless it is gone; or it goes.
TrayTells ==
    /\ "parent" \notin told /\ main # "exited"
    /\ \E h \in Watchable \ told : told' = told \union {h}
    /\ UNCHANGED <<main, useWorkerDns, shutdown, workerDown, monitor, theRelay, dnsRelay,
                   divert, fatal, engineExit>>

\* The monitor's thread calls cleanup() and ends.
MonitorFires ==
    /\ monitor \cap told # {} /\ main # "exited"
    /\ monitor' = {} /\ shutdown' = TRUE
    /\ UNCHANGED <<main, useWorkerDns, told, workerDown, theRelay,
                   dnsRelay, divert, fatal, engineExit>>

ConsoleEvent ==
    /\ ~shutdown /\ main # "exited"
    /\ shutdown' = TRUE
    /\ UNCHANGED <<main, useWorkerDns, told, workerDown, monitor, theRelay, dnsRelay,
                   divert, fatal, engineExit>>

EngineNext ==
    \/ MainStep \/ RelayThread \/ RelayDies \/ DnsRelayDies \/ PacketLoopDies
    \/ WorkerIsGivenUp \/ TrayTells \/ MonitorFires \/ ConsoleEvent

\* The threads of the process are scheduled.
EngineFairness ==
    WF_mainVars(MainStep) /\ WF_mainVars(RelayThread) /\ WF_mainVars(MonitorFires)

EngineSpec == EngineInit /\ [][EngineNext]_mainVars /\ EngineFairness

---------------------------------------------------------------------------
(* Properties                                                              *)

\* Packets are only diverted to listeners: interception opens after both of
\* them are up, and no listener is stopped while it is open (the start-up and
\* tear-down order of main).
ListenersOutliveInterception ==
    divert.handles # {} =>
        /\ relayThread \in {"running", "exited"} /\ ~relayStop
        /\ useWorkerDns => dnsRelay \in {"running", "dead"}

\* Whatever fails, and whoever asks, interception ends: a dead listener, a
\* dead packet loop, a lost Worker, a console event, and a tray that asks or
\* dies, by the handle the monitor could open, all lead to closed handles and
\* a finished process.  A tray that asks by an event the engine did not open
\* is not heard; it ends the process after its own timeout (the poll loop of
\* main and ShutdownEventMonitor).
EngineFailsOpen ==
    (\/ monitor \cap told # {} \/ shutdown \/ relayThread = "exited"
     \/ dnsRelay = "dead" \/ workerDown \/ divert.failed)
    ~> (main = "exited" /\ divert.handles = {})

=============================================================================
