-------------------------- MODULE ProcessesProofs ---------------------------
(***************************************************************************)
(* Proofs about the processes around the relay: the tray's supervision of  *)
(* the engine (TrayApp), the order in which the engine starts and stops its*)
(* parts (Engine), and the telemetry store (Telemetry), for every value of *)
(* their constants.                                                        *)
(***************************************************************************)
EXTENDS TrayApp, Engine, Telemetry, TLAPS

-----------------------------------------------------------------------------
(* TrayApp                                                                 *)

\* The part of the types the two properties need.
ControlTypeOK ==
    /\ state \in States /\ engine \in {"none", "alive", "dead"}
    /\ restartPending \in BOOLEAN /\ configurationRestartPending \in BOOLEAN
    /\ exiting \in BOOLEAN /\ window \in BOOLEAN /\ userStopped \in BOOLEAN

\* The inductive invariant.
Control == ControlTypeOK /\ Supervision /\ StopWins

\* The first state of run() satisfies it.
LEMMA ControlInit == Init => Control
BY Zenon DEF Init, Control, ControlTypeOK, Supervision, StopWins, States

\* startEngine() creates a process that is starting, or none and has failed.
LEMMA LaunchControls ==
    ASSUME NEW automatic \in BOOLEAN, Launch(automatic)
    PROVE  /\ restartPending' = FALSE
           /\ \/ state' = "Starting" /\ engine' = "alive"
              \/ state' = "Failed" /\ engine' = "none"
BY Zenon DEF Launch, setState

\* requestStop() with a process leaves it stopping.
LEMMA StopControls ==
    ASSUME Control, window, requestStop
    PROVE  /\ engine' = engine
           /\ restartPending' = FALSE
           /\ restartPending => state' = "Stopped"
           /\ engine # "none" => state' = "Stopping"
           /\ ~restartPending /\ engine = "none" => state' = state
BY Zenon DEF Control, ControlTypeOK, Supervision, requestStop, setState, States

\* restartEngineForConfiguration() never touches an engine the user stopped.
LEMMA ConfigurationControls ==
    ASSUME Control, window, restartEngineForConfiguration,
           exiting' = exiting, window' = window
    PROVE  Control'
<1> USE DEF Control, ControlTypeOK, Supervision, StopWins, States
<1>1. CASE UNCHANGED <<engineVars, configurationRestartPending>>
  BY Zenon, <1>1 DEF engineVars
<1>2. CASE /\ state \in {"Starting", "Running"} /\ ~exiting
           /\ configurationRestartPending' = TRUE
           /\ requestStop
           /\ UNCHANGED userStopped
  BY Zenon, <1>2, StopControls
<1>3. CASE /\ state = "Failed" /\ engine = "none" /\ ~exiting
           /\ Launch(FALSE) /\ userStopped' = FALSE
           /\ UNCHANGED configurationRestartPending
  BY Zenon, <1>3, LaunchControls
<1> QED
  BY Zenon, <1>1, <1>2, <1>3 DEF restartEngineForConfiguration

\* The timer: the setup, a due restart, a living engine, a dead one.
LEMMA PollControls ==
    ASSUME Control, window, Poll
    PROVE  Control'
<1> USE DEF Control, ControlTypeOK, Supervision, StopWins, States
<1>1. CASE PollSetup
  <2>1. exiting' = exiting /\ window' = window
    BY Zenon, <1>1 DEF PollSetup
  <2>2. CASE UNCHANGED <<engineVars, configurationRestartPending>>
    BY Zenon, <2>1, <2>2 DEF engineVars
  <2>3. CASE /\ ~exiting /\ engine = "none" /\ Launch(FALSE) /\ userStopped' = FALSE
             /\ UNCHANGED configurationRestartPending
    BY Zenon, <2>1, <2>3, LaunchControls
  <2>4. CASE restartEngineForConfiguration
    BY Zenon, <2>1, <2>4, ConfigurationControls
  <2> QED
    BY Zenon, <1>1, <2>2, <2>3, <2>4 DEF PollSetup, SetupSucceeded
<1>2. CASE PollRestart
  <2>1. UNCHANGED <<exiting, window, configurationRestartPending>> /\ engine = "none"
    BY Zenon, <1>2 DEF PollRestart, polled
  <2>2. CASE UNCHANGED engineVars
    BY Zenon, <2>1, <2>2 DEF engineVars
  <2>3. CASE /\ restartPending /\ Launch(TRUE) /\ userStopped' = (TRUE /\ userStopped)
    BY Zenon, <2>1, <2>3, LaunchControls
  <2> QED
    BY Zenon, <1>2, <2>2, <2>3 DEF PollRestart, startEngine
<1>3. CASE PollAlive
  BY Zenon, <1>3 DEF PollAlive, polled, setState, becomesRunning
<1>4. CASE PollDead
  <2>1. exiting' = exiting /\ engine = "dead"
    BY Zenon, <1>4 DEF PollDead, polled
  <2>2. CASE exiting
    BY Zenon, <1>4, <2>1, <2>2 DEF PollDead, handleEngineExit
  <2>3. CASE ~exiting /\ RestartConfigured /\ state = "Stopping"
             /\ configurationRestartPending
    <3>1. CASE canStart
      BY Zenon, <2>1, <2>3, <3>1, LaunchControls DEF RestartConfigured
    <3>2. CASE ~canStart
      BY Zenon, <2>1, <2>3, <3>2 DEF RestartConfigured
    <3> QED
      BY Zenon, <3>1, <3>2
  <2>4. CASE ~exiting /\ Settle("Stopped") /\ state = "Stopping"
             /\ ~configurationRestartPending
    BY Zenon, <2>1, <2>4 DEF Settle, setState
  <2>5. CASE ~exiting /\ Settle("Failed") /\ state # "Stopping"
    BY Zenon, <2>1, <2>5 DEF Settle, setState
  <2>6. CASE ~exiting /\ scheduleAutomaticRestart /\ state # "Stopping"
    BY Zenon, <2>1, <2>6 DEF scheduleAutomaticRestart, setState
  <2> QED
    BY Zenon, <1>4, <2>2, <2>3, <2>4, <2>5, <2>6 DEF PollDead, handleEngineExit
<1> QED
  BY Zenon, <1>1, <1>2, <1>3, <1>4 DEF Poll

\* The menu, the dashboard and the end of the session.
LEMMA CommandControls ==
    ASSUME Control, window,
           \/ ShowMenu \/ CommandStart \/ CommandStop \/ CommandDns \/ CommandSetup
           \/ DashboardSaved \/ Exit
    PROVE  Control'
<1> USE DEF Control, ControlTypeOK, Supervision, StopWins, States
<1>1. CASE ShowMenu \/ CommandSetup
  <2>1. UNCHANGED <<engineVars, configurationRestartPending, exiting, window>>
    BY Zenon, <1>1 DEF ShowMenu, CommandSetup
  <2> QED
    BY Zenon, <2>1 DEF engineVars
<1>2. CASE CommandStart
  <2>1. UNCHANGED <<exiting, window, configurationRestartPending>>
    BY Zenon, <1>2 DEF CommandStart
  <2>2. CASE UNCHANGED engineVars
    BY Zenon, <2>1, <2>2 DEF engineVars
  <2>3. CASE engine = "none" /\ Launch(FALSE) /\ userStopped' = FALSE
    BY Zenon, <2>1, <2>3, LaunchControls
  <2> QED
    BY Zenon, <1>2, <2>2, <2>3 DEF CommandStart, startEngine
<1>3. CASE CommandStop
  <2>1. /\ configurationRestartPending' = FALSE /\ UNCHANGED <<exiting, window>>
        /\ requestStop
        /\ userStopped' = (userStopped \/ restartPending \/ engine # "none")
    BY Zenon, <1>3 DEF CommandStop
  <2> QED
    BY Zenon, <2>1, StopControls
<1>4. CASE CommandDns \/ DashboardSaved
  BY Zenon, <1>4, ConfigurationControls DEF CommandDns, DashboardSaved
<1>5. CASE Exit
  BY Zenon, <1>5 DEF Exit, requestExit, setState
<1> QED
  BY Zenon, <1>1, <1>2, <1>3, <1>4, <1>5

\* The other processes and the clock change nothing the invariant is about.
LEMMA EnvironmentControls ==
    ASSUME Control,
           \/ EngineReady \/ SetupExits \/ Tick \/ UNCHANGED vars
           \/ \E code \in ExitCodes : EngineExits(code)
    PROVE  Control'
<1>1. CASE EngineReady \/ SetupExits \/ Tick \/ UNCHANGED vars
  <2>1. UNCHANGED <<state, engine, restartPending, configurationRestartPending, exiting,
                    window, userStopped>>
    BY Zenon, <1>1 DEF EngineReady, SetupExits, Tick, vars, engineVars
  <2> QED
    BY Zenon, <2>1 DEF Control, ControlTypeOK, Supervision, StopWins
<1>2. ASSUME NEW code \in ExitCodes, EngineExits(code) PROVE Control'
  BY Zenon, <1>2 DEF EngineExits, Control, ControlTypeOK, Supervision, StopWins, States
<1> QED
  BY Zenon, <1>1, <1>2

\* A handler runs only while the window exists.
LEMMA HandlersNeedWindow ==
    ASSUME ShowMenu \/ CommandStart \/ CommandStop \/ CommandDns \/ CommandSetup
           \/ DashboardSaved \/ Exit \/ PollSetup
    PROVE  window
BY Zenon DEF ShowMenu, CommandStart, CommandStop, CommandDns, CommandSetup,
       DashboardSaved, Exit, PollSetup, Idle, chosen

\* The second half of a poll runs right after the first: the window exists.
PollNeedsWindow == polling => window

\* It is kept by every step.
LEMMA PollNeedsWindowStep ==
    ASSUME PollNeedsWindow, [Next]_vars
    PROVE  PollNeedsWindow'
<1> USE DEF PollNeedsWindow
<1>1. CASE Poll
  BY Zenon, <1>1 DEF Poll, PollSetup, PollRestart, PollAlive, PollDead, polled, Idle
<1>2. CASE Exit
  BY Zenon, <1>2 DEF Exit, requestExit, Idle
<1>3. CASE ShowMenu \/ CommandStart \/ CommandStop \/ CommandDns \/ CommandSetup
           \/ DashboardSaved \/ EngineReady \/ SetupExits \/ Tick \/ UNCHANGED vars
  BY Zenon, <1>3 DEF ShowMenu, CommandStart, CommandStop, CommandDns, CommandSetup,
     DashboardSaved, EngineReady, SetupExits, Tick, vars
<1>4. ASSUME NEW code \in ExitCodes, EngineExits(code) PROVE PollNeedsWindow'
  BY Zenon, <1>4 DEF EngineExits
<1> QED
  BY Zenon, <1>1, <1>2, <1>3, <1>4 DEF Next

\* Every step keeps the invariant.
LEMMA ControlStep ==
    ASSUME Control, PollNeedsWindow, [Next]_vars
    PROVE  Control'
<1>1. CASE Poll
  <2>1. window
    BY Zenon, <1>1, HandlersNeedWindow
       DEF Poll, PollRestart, PollAlive, PollDead, polled, PollNeedsWindow
  <2> QED
    BY Zenon, <1>1, <2>1, PollControls
<1>2. CASE ShowMenu \/ CommandStart \/ CommandStop \/ CommandDns \/ CommandSetup
           \/ DashboardSaved \/ Exit
  BY Zenon, <1>2, HandlersNeedWindow, CommandControls
<1>3. CASE \/ EngineReady \/ SetupExits \/ Tick \/ UNCHANGED vars
           \/ \E code \in ExitCodes : EngineExits(code)
  BY Zenon, <1>3, EnvironmentControls
<1> QED
  BY Zenon, <1>1, <1>2, <1>3 DEF Next

\* The first state.
LEMMA PollNeedsWindowInit == Init => PollNeedsWindow
BY Zenon DEF Init, PollNeedsWindow

\* What the tray shows is what there is (TrayApp, all handlers).
THEOREM SupervisionTheorem == Spec => []Supervision
<1>1. Control => Supervision
  BY Zenon DEF Control
<1> QED
  BY <1>1, ControlInit, ControlStep, PollNeedsWindowInit, PollNeedsWindowStep, PTL
     DEF Spec

\* A stop is final until the user starts the engine or finishes a setup
\* (requestStop, restartEngineForConfiguration, scheduleAutomaticRestart).
THEOREM StopWinsTheorem == Spec => []StopWins
<1>1. Control => StopWins
  BY Zenon DEF Control
<1> QED
  BY <1>1, ControlInit, ControlStep, PollNeedsWindowInit, PollNeedsWindowStep, PTL
     DEF Spec

-----------------------------------------------------------------------------
(* Engine                                                                  *)

\* Where main() is while both listeners are up and none has been stopped.
Serving == {"startDivert", "openQuic", "ready", "poll", "classify", "stopDivert"}

\* Where it is before that.
Starting == {"monitor", "configure", "launch", "waitRelay", "startDns"}

\* The inductive invariant: open handles are tied to a place of main(), and
\* that place to the listeners.
Diverting ==
    /\ divert = [handles |-> divert.handles, running |-> divert.running, failed |-> divert.failed]
    /\ useWorkerDns \in BOOLEAN
    /\ divert.handles # {} => main \in Serving \ {"startDivert"}
    /\ main \in Starting \union Serving => relayStop = FALSE
    /\ main \in Serving \union {"startDns"} => relayThread \in {"running", "exited"}
    /\ main \in Serving => useWorkerDns = FALSE \/ dnsRelay \in {"running", "dead"}

\* The parts are off when main() has built them.
LEMMA DivertingInit == EngineInit => Diverting
BY DEF EngineInit, Diverting, Starting, Serving

\* The steps of main() before interception: each listener is up before the
\* next thing is started.
LEMMA StartUpKeeps ==
    ASSUME Diverting,
           \/ StartMonitor \/ Configure \/ LaunchRelay \/ RelayIsUp \/ RelayIsNotUp
           \/ JoinFailedRelay \/ StartDns
    PROVE  Diverting'
<1> USE DEF Diverting, Starting, Serving, environment, theRelay, Leave
<1>1. CASE StartMonitor
  BY Zenon, <1>1 DEF StartMonitor
<1>2. CASE Configure
  BY Zenon, <1>2 DEF Configure
<1>3. CASE LaunchRelay
  BY Zenon, <1>3 DEF LaunchRelay
<1>4. CASE RelayIsUp \/ RelayIsNotUp
  BY Zenon, <1>4 DEF RelayIsUp, RelayIsNotUp
<1>5. CASE JoinFailedRelay
  BY Zenon, <1>5 DEF JoinFailedRelay
<1>6. CASE StartDns
  BY Zenon, <1>6 DEF StartDns
<1> QED
  BY Zenon, <1>1, <1>2, <1>3, <1>4, <1>5, <1>6

\* interceptor.start(), the poll loop and interceptor.stop().
LEMMA InterceptionKeeps ==
    ASSUME Diverting,
           \/ OpensPacketHandle \/ StartsPacketThread \/ SignalReady \/ PollEnds
           \/ Classify \/ StopDivert
    PROVE  Diverting'
<1> USE DEF Diverting, Starting, Serving, environment, theRelay, Leave
<1>1. CASE OpensPacketHandle
  BY Zenon, <1>1 DEF OpensPacketHandle
<1>2. CASE StartsPacketThread
  BY Zenon, <1>2 DEF StartsPacketThread
<1>3. CASE SignalReady
  BY Zenon, <1>3 DEF SignalReady
<1>4. CASE PollEnds
  BY Zenon, <1>4 DEF PollEnds
<1>5. CASE Classify
  BY Zenon, <1>5 DEF Classify
<1>6. CASE StopDivert
  BY Zenon, <1>6 DEF StopDivert
<1> QED
  BY Zenon, <1>1, <1>2, <1>3, <1>4, <1>5, <1>6

\* The listeners are stopped after interception.
LEMMA TearDownKeeps ==
    ASSUME Diverting, StopDns \/ StopRelay \/ JoinRelay
    PROVE  Diverting'
BY Zenon DEF Diverting, Starting, Serving, environment, theRelay, StopDns, StopRelay, JoinRelay

\* The relay thread, the failures and the requests from outside.
LEMMA OthersKeep ==
    ASSUME Diverting,
           \/ RelayThread \/ RelayDies \/ DnsRelayDies \/ PacketLoopDies
           \/ WorkerIsGivenUp \/ TrayTells \/ MonitorFires \/ ConsoleEvent
    PROVE  Diverting'
<1> USE DEF Diverting, Starting, Serving, environment, theRelay
<1>1. CASE RelayThread \/ RelayDies
  BY Zenon, <1>1 DEF RelayThread, RelayBinds, RelayCannotStart, RelayStops, RelayDies, relayRest
<1>2. CASE DnsRelayDies \/ PacketLoopDies
  BY Zenon, <1>2 DEF DnsRelayDies, PacketLoopDies
<1>3. CASE WorkerIsGivenUp \/ TrayTells
  BY Zenon, <1>3 DEF WorkerIsGivenUp, TrayTells
<1>4. CASE MonitorFires \/ ConsoleEvent
  BY Zenon, <1>4 DEF MonitorFires, ConsoleEvent
<1> QED
  BY Zenon, <1>1, <1>2, <1>3, <1>4

\* Interception opens after both listeners are up, and no listener is stopped
\* while a handle is open (the start-up and tear-down order of main()).
THEOREM ListenersTheorem == EngineSpec => []ListenersOutliveInterception
<1>1. EngineInit => Diverting
  BY Zenon, DivertingInit
<1>2. Diverting /\ [EngineNext]_mainVars => Diverting'
  <2>1. ASSUME Diverting, EngineNext PROVE Diverting'
    BY Zenon, <2>1, StartUpKeeps, InterceptionKeeps, TearDownKeeps, OthersKeep DEF EngineNext, MainStep
  <2>2. ASSUME Diverting, UNCHANGED mainVars PROVE Diverting'
    BY Zenon, <2>2 DEF Diverting, mainVars
  <2> QED
    BY Zenon, <2>1, <2>2
<1>3. Diverting => ListenersOutliveInterception
  BY Zenon DEF Diverting, Starting, Serving, ListenersOutliveInterception
<1> QED
  BY <1>1, <1>2, <1>3, PTL DEF EngineSpec

-----------------------------------------------------------------------------
(* Telemetry: the queue and its writer                                     *)

\* A sequence with one more element.
LEMMA AppendedSequence ==
    ASSUME NEW S, NEW s \in Seq(S), NEW x \in S
    PROVE  /\ Append(s, x) \in Seq(S) /\ Len(Append(s, x)) = Len(s) + 1
           /\ \A i \in 1..Len(s) : Append(s, x)[i] = s[i]
           /\ Append(s, x)[Len(s) + 1] = x
OBVIOUS

\* Some consecutive elements.
LEMMA PartOfSequence ==
    ASSUME NEW S, NEW s, NEW m \in Int, NEW n \in Int, \A i \in m..n : s[i] \in S
    PROVE  /\ SubSeq(s, m, n) \in Seq(S)
           /\ Len(SubSeq(s, m, n)) = IF m <= n THEN n - m + 1 ELSE 0
           /\ \A i \in 1..(n - m + 1) : SubSeq(s, m, n)[i] = s[m + i - 1]
OBVIOUS

EventLists ==
    /\ recorded \in Nat
    /\ records \in Seq(Nat)
    /\ batch \in Seq(Nat)

\* The two parts a batch is cut off at.
LEMMA TakenAreLists ==
    ASSUME records \in Seq(Nat)
    PROVE  /\ batchSize \in Nat /\ batchSize <= Len(records)
           /\ batchSize = 0 => Len(records) = 0
           /\ SubSeq(records, 1, batchSize) \in Seq(Nat)
           /\ Len(SubSeq(records, 1, batchSize)) = batchSize
           /\ SubSeq(records, batchSize + 1, Len(records)) \in Seq(Nat)
<1> DEFINE b == batchSize
<1>1. b \in Nat /\ b <= Len(records) /\ (b = 0 => Len(records) = 0)
    BY TelemetryConstants DEF batchSize
<1> HIDE DEF b
<1>2. SubSeq(records, 1, b) \in Seq(Nat) /\ Len(SubSeq(records, 1, b)) = b
    BY <1>1, PartOfSequence
<1>3. SubSeq(records, b + 1, Len(records)) \in Seq(Nat)
    BY <1>1, PartOfSequence
<1> QED
    BY Zenon, <1>1, <1>2, <1>3 DEF b

\* The threads that record, the writer and stop() keep lists of events.
LEMMA ListsKept ==
    ASSUME EventLists, TelemetryNext
    PROVE  EventLists'
<1> USE DEF EventLists, storeVars, history
<1>0. <<>> \in Seq(Nat)
    OBVIOUS
<1>1. CASE record
    <2>1. recorded + 1 \in Nat /\ Append(records, recorded + 1) \in Seq(Nat)
        BY AppendedSequence
    <2> QED
        BY Zenon, <1>1, <2>1 DEF record
<1>2. CASE recordNotifies \/ stopFlags \/ stopNotifies \/ stopJoins
    BY Zenon, <1>2 DEF recordNotifies, stopFlags, stopNotifies, stopJoins
<1>3. CASE startAgain
    BY Zenon, <1>0, <1>3 DEF startAgain
<1>4. CASE OpenDatabase \/ OpenFails \/ ClearQueue \/ Test \/ Block \/ LingerEnds
    BY Zenon, <1>0, <1>4 DEF OpenDatabase, OpenFails, ClearQueue, Test, Block, LingerEnds
<1>5. CASE Take
    BY Zenon, <1>5, TakenAreLists DEF Take
<1>6. CASE Commit \/ Prune \/ CloseDatabase
    BY Zenon, <1>0, <1>6 DEF Commit, Prune, CloseDatabase
<1> QED
    BY Zenon, <1>1, <1>2, <1>3, <1>4, <1>5, <1>6
       DEF TelemetryNext, StoreStep, WriterStep

\* Where a record that was taken into the queue can be until its transaction
\* is over: in the queue or in the writer's batch.  The writer leaves its loop
\* only with both empty and no record() to come, unless it gave up.
QueueInv ==
    /\ EventLists
    /\ \/ stopper = "no" /\ stopping = FALSE
       \/ stopper \in {"notify", "join", "returned"} /\ stopping = TRUE /\ accepting = FALSE
    /\ stopper = "returned" => writer = "exited"
    /\ \/ gaveUp = TRUE /\ writer \in {"clear", "exited"} /\ batch = <<>>
       \/ /\ gaveUp = FALSE /\ writer # "clear"
          /\ writer # "commit" => batch = <<>>
          /\ writer \in {"close", "exited"} => stopping = TRUE /\ records = <<>>
          /\ accepted \subseteq settled \union Range(batch) \union Range(records)

\* stop() has returned: what was taken into the queue was committed or its
\* transaction failed.
StoppedIsSettled ==
    stopper = "returned" => gaveUp \/ accepted \subseteq settled

\* A record that is appended is in the queue beside the ones before it.
LEMMA AppendedRange ==
    ASSUME NEW s \in Seq(Nat), NEW x \in Nat
    PROVE  Range(s) \union {x} \subseteq Range(Append(s, x))
<1> DEFINE t == Append(s, x)
<1>1. /\ t \in Seq(Nat) /\ Len(t) = Len(s) + 1 /\ t[Len(s) + 1] = x
      /\ \A i \in 1..Len(s) : t[i] = s[i]
    BY AppendedSequence
<1> HIDE DEF t
<1>2. DOMAIN t = 1..(Len(s) + 1) /\ DOMAIN s = 1..Len(s) /\ Len(s) \in Nat
    BY <1>1
<1>3. x \in Range(t)
    BY <1>1, <1>2 DEF Range
<1>4. \A i \in 1..Len(s) : s[i] \in Range(t)
    BY <1>1, <1>2 DEF Range
<1>5. Range(s) \subseteq Range(t)
    BY Zenon, <1>2, <1>4 DEF Range
<1> QED
    BY Zenon, <1>3, <1>5 DEF t

\* Taking a batch off the queue loses no record.
LEMMA TakenRange ==
    ASSUME NEW s \in Seq(Nat), NEW n \in Nat, n <= Len(s)
    PROVE  Range(s) \subseteq Range(SubSeq(s, 1, n)) \union Range(SubSeq(s, n + 1, Len(s)))
<1> DEFINE a == SubSeq(s, 1, n)
           b == SubSeq(s, n + 1, Len(s))
<1>0. Len(s) \in Nat /\ \A i \in 1..Len(s) : s[i] \in Nat
    OBVIOUS
<1>1. a \in Seq(Nat) /\ Len(a) = n /\ \A i \in 1..n : a[i] = s[i]
    BY <1>0, PartOfSequence
<1>2. /\ b \in Seq(Nat) /\ Len(b) = Len(s) - n
      /\ \A i \in 1..(Len(s) - n) : b[i] = s[n + i]
    <2>1. \A i \in (n + 1)..Len(s) : s[i] \in Nat
        BY <1>0
    <2> QED
        BY <1>0, <2>1, PartOfSequence
<1> HIDE DEF a, b
<1>3. \A i \in 1..n : s[i] \in Range(a)
    BY <1>1 DEF Range
<1>4. \A i \in (n + 1)..Len(s) : s[i] \in Range(b)
    <2> TAKE i \in (n + 1)..Len(s)
    <2>1. i - n \in 1..(Len(s) - n) /\ n + (i - n) = i
        BY <1>0
    <2>2. b[i - n] = s[i] /\ i - n \in DOMAIN b
        BY <1>0, <1>2, <2>1
    <2> QED
        BY Zenon, <2>2 DEF Range
<1>5. \A i \in 1..Len(s) : s[i] \in Range(a) \union Range(b)
    BY <1>0, <1>3, <1>4
<1>6. DOMAIN s = 1..Len(s)
    OBVIOUS
<1> QED
    BY Zenon, <1>5, <1>6 DEF Range, a, b

\* The writer's steps keep the invariant.
LEMMA WriterKeepsQueue ==
    ASSUME QueueInv, WriterStep, EventLists'
    PROVE  QueueInv'
<1> USE DEF storeVars, history
<1>0. Range(<<>>) = {}
    BY DEF Range
<1>1. CASE OpenDatabase
    BY Zenon, <1>1 DEF OpenDatabase, QueueInv
<1>2. CASE OpenFails
    BY Zenon, <1>2 DEF OpenFails, QueueInv
<1>3. CASE ClearQueue
    BY Zenon, <1>3 DEF ClearQueue, QueueInv
<1>4. CASE Test \/ Block \/ LingerEnds
    BY Zenon, <1>4 DEF Test, Block, LingerEnds, QueueInv
<1>5. CASE Take
    <2>1. /\ gaveUp = FALSE /\ batch = <<>>
          /\ accepted \subseteq settled \union Range(records)
        BY Zenon, <1>0, <1>5 DEF Take, QueueInv
    <2>2. /\ batch' = SubSeq(records, 1, batchSize)
          /\ records' = SubSeq(records, batchSize + 1, Len(records))
          /\ UNCHANGED <<accepting, stopping, stopper, accepted, settled, gaveUp>>
        BY Zenon, <1>5 DEF Take
    <2>3. batchSize \in Nat /\ batchSize <= Len(records) /\ records \in Seq(Nat)
        BY Zenon, TakenAreLists DEF QueueInv, EventLists
    <2>4. accepted' \subseteq settled' \union Range(batch') \union Range(records')
        BY Zenon, <2>1, <2>2, <2>3, TakenRange
    <2>5. stopper # "returned"
        BY Zenon, <1>5 DEF Take, QueueInv
    <2>6. CASE batch' = <<>> /\ stopping
        <3>1. batchSize = 0 /\ Len(records) = 0
            <4>1. Len(batch') = 0
                BY Zenon, <2>6
            <4> QED
                BY Zenon, <2>2, <2>3, <4>1, TakenAreLists
        <3>2. records' = <<>>
            BY <2>2, <3>1
        <3>3. writer' = "close" /\ stopping = TRUE
            BY Zenon, <1>5, <2>6 DEF Take, QueueInv
        <3> QED
            BY Zenon, <2>1, <2>2, <2>4, <2>5, <2>6, <3>2, <3>3 DEF QueueInv
    <2>7. CASE ~(batch' = <<>> /\ stopping)
        <3>1. writer' = "commit"
            BY Zenon, <1>5, <2>7 DEF Take
        <3> QED
            BY Zenon, <2>1, <2>2, <2>4, <2>5, <3>1 DEF QueueInv
    <2> QED
        BY Zenon, <2>6, <2>7
<1>6. CASE Commit
    <2>1. /\ gaveUp = FALSE /\ writer = "commit" /\ stopper # "returned"
          /\ accepted \subseteq settled \union Range(batch) \union Range(records)
        BY Zenon, <1>6 DEF Commit, QueueInv
    <2>2. accepted' \subseteq settled' \union Range(batch') \union Range(records')
        BY Zenon, <1>6, <2>1 DEF Commit
    <2> QED
        BY Zenon, <1>6, <2>1, <2>2 DEF Commit, QueueInv
<1>7. CASE Prune
    BY Zenon, <1>7 DEF Prune, QueueInv
<1>8. CASE CloseDatabase
    BY Zenon, <1>8 DEF CloseDatabase, QueueInv
<1> QED
    BY Zenon, <1>1, <1>2, <1>3, <1>4, <1>5, <1>6, <1>7, <1>8 DEF WriterStep

\* So do record(), stop() and a second start().
LEMMA StoreKeepsQueue ==
    ASSUME QueueInv, StoreStep, EventLists'
    PROVE  QueueInv'
<1>1. CASE record
    <2>1. /\ accepting # FALSE /\ stopper = "no" /\ stopping = FALSE
          /\ UNCHANGED <<accepting, stopping, stopper, writer, batch, settled, gaveUp>>
        BY Zenon, <1>1 DEF record, QueueInv
    <2>2. CASE records' = records /\ accepted' = accepted
        BY Zenon, <2>1, <2>2 DEF QueueInv
    <2>3. CASE /\ records' = Append(records, recorded + 1)
               /\ accepted' = accepted \union {recorded + 1}
        <3>1. records \in Seq(Nat) /\ recorded + 1 \in Nat
            BY DEF QueueInv, EventLists
        <3>2. Range(records) \union {recorded + 1} \subseteq Range(records')
            BY Zenon, <2>3, <3>1, AppendedRange
        <3>3. accepted \subseteq settled \union Range(batch) \union Range(records)
              => accepted' \subseteq settled' \union Range(batch') \union Range(records')
            BY Zenon, <2>1, <2>3, <3>2
        <3> QED
            BY Zenon, <2>1, <3>3 DEF QueueInv
    <2> QED
        BY Zenon, <1>1, <2>2, <2>3 DEF record
<1>2. CASE recordNotifies
    BY Zenon, <1>2 DEF recordNotifies, notified, history, QueueInv
<1>3. CASE stopFlags
    BY Zenon, <1>3 DEF stopFlags, history, QueueInv
<1>4. CASE stopNotifies
    BY Zenon, <1>4 DEF stopNotifies, notified, history, QueueInv
<1>5. CASE stopJoins
    BY Zenon, <1>5 DEF stopJoins, history, QueueInv
<1>6. CASE startAgain
    <2>1. gaveUp = TRUE /\ batch = <<>> /\ stopper = "no" /\ stopping = FALSE
        BY Zenon, <1>6 DEF startAgain, QueueInv
    <2> QED
        BY Zenon, <1>6, <2>1 DEF startAgain, QueueInv
<1> QED
    BY Zenon, <1>1, <1>2, <1>3, <1>4, <1>5, <1>6 DEF StoreStep

\* The queue is drained: once stop() has returned, no record that was taken
\* in is still waiting, unless the database could not be opened (stop and
\* writerLoop).  It is the safety half of StopSettles.
THEOREM DrainTheorem == TelemetrySpec => []StoppedIsSettled
<1>1. TelemetryInit => QueueInv
    <2> SUFFICES ASSUME TelemetryInit PROVE QueueInv
        BY Zenon
    <2>1. <<>> \in Seq(Nat)
        OBVIOUS
    <2> QED
        BY Zenon, <2>1 DEF TelemetryInit, QueueInv, EventLists
<1>2. ASSUME QueueInv, [TelemetryNext]_telemetryVars
      PROVE  QueueInv'
    <2>1. CASE TelemetryNext
        <3>1. EventLists'
            BY Zenon, <1>2, <2>1, ListsKept DEF QueueInv
        <3> QED
            BY Zenon, <1>2, <2>1, <3>1, WriterKeepsQueue, StoreKeepsQueue DEF TelemetryNext
    <2>2. CASE UNCHANGED telemetryVars
        BY Zenon, <1>2, <2>2 DEF telemetryVars, storeVars, history, QueueInv, EventLists
    <2> QED
        BY Zenon, <1>2, <2>1, <2>2
<1>3. QueueInv => StoppedIsSettled
    <2>1. Range(<<>>) = {}
        BY DEF Range
    <2> QED
        BY Zenon, <2>1 DEF QueueInv, StoppedIsSettled
<1> QED
    BY <1>1, <1>2, <1>3, PTL DEF TelemetrySpec

=============================================================================
