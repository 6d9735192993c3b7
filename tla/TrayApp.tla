------------------------------ MODULE TrayApp ------------------------------
(***************************************************************************)
(* The tray (src/src/TrayApp.cpp) as supervisor of the engine process: it  *)
(* starts, stops, kills and restarts the engine, reacts to the menu and to *)
(* changed settings, and bounds automatic restarts with RestartBudget      *)
(* (src/src/RecoveryPolicy.cpp).  Times are ages and countdowns, cut off   *)
(* where the code no longer tells them apart, so the clock never ends.     *)
(***************************************************************************)
EXTENDS Integers, Sequences, FiniteSets

CONSTANTS
    kEngineTransitionTimeout,      \* a hung engine is killed after it
    kRestartWindow, kMaxAutomaticRestarts,
    kRestartDelay, kMaxRestartDelay

VARIABLES
    state,                         \* state_: what the tray shows
    engine,                        \* engineProcess_: "none", "alive", "dead"
    exitCode,                      \* of a dead engine
    shutdownSet, readySet,         \* the two events shared with the engine
    engineKilled, restartPending, configurationRestartPending, exiting, canStart,
    setup, setupWantsWorker,       \* setupProcess_ and what it is for
    attempts,                      \* RestartBudget: the ages of the restarts
    stateAge,                      \* now - stateSinceMs_
    restartIn,                     \* restartAtMs_ - now
    menu,                          \* commands enabled when the menu was opened
    polling,                       \* pollSetup() is done, pollEngine() is not
    window,                        \* FALSE: the window is destroyed
    userStopped,                   \* history: the user's last word was "stop"
    granted                        \* history: the ages of the automatic
                                   \* restarts since the last other start

engineVars == <<state, engine, exitCode, shutdownSet, readySet, engineKilled,
                restartPending, attempts, stateAge, restartIn, userStopped, granted>>
vars == <<engineVars, configurationRestartPending, exiting, canStart, setup,
          setupWantsWorker, menu, polling, window>>

ASSUME TimesAssumption ==
    /\ kEngineTransitionTimeout \in Nat \ {0} /\ kRestartWindow \in Nat \ {0}
    /\ kMaxAutomaticRestarts \in Nat \ {0}
    /\ kRestartDelay \in Nat \ {0} /\ kMaxRestartDelay \in Nat \ {0}

States == {"Stopped", "Starting", "Running", "Stopping", "Failed"}
ExitCodes == {"clean", "failOpen", "workerUnavailable", "userAction", "killed"}

\* run(): with a configuration the engine is started at once, else the setup.
Init ==
    /\ engineKilled = FALSE /\ restartPending = FALSE /\ restartIn = 0
    /\ configurationRestartPending = FALSE /\ exiting = FALSE
    /\ attempts = <<>> /\ granted = <<>> /\ stateAge = 0
    /\ exitCode = "clean" /\ shutdownSet = FALSE /\ readySet = FALSE
    /\ menu = {} /\ polling = FALSE /\ window = TRUE /\ userStopped = FALSE
    /\ \/ /\ canStart = TRUE /\ state = "Starting" /\ engine = "alive"
          /\ setup = "none" /\ setupWantsWorker = FALSE
       \/ /\ canStart = FALSE /\ state = "Stopped" /\ engine = "none"
          /\ setup = "running" /\ setupWantsWorker = TRUE

smaller(a, b) == IF a < b THEN a ELSE b

\* setState(): the age starts again only when the state changes.
setState(s) == state' = s /\ stateAge' = IF state = s THEN stateAge ELSE 0

-----------------------------------------------------------------------------
(* RestartBudget                                                           *)

\* purge(): entries leave from the front, as far as they are old enough.
purge(s) ==
    LET young == {i \in 1..Len(s) : s[i] < kRestartWindow}
    IN  IF young = {} THEN <<>>
        ELSE SubSeq(s, CHOOSE i \in young : \A j \in young : i <= j, Len(s))

mayRestart == Len(purge(attempts)) < kMaxAutomaticRestarts

automaticRestartDelayMs(n) ==
    IF n = 0 THEN 0
    ELSE smaller(kRestartDelay * 2 ^ smaller(n - 1, 3), kMaxRestartDelay)

-----------------------------------------------------------------------------
(* startEngine(), requestStop(), handleEngineExit()                        *)

\* Mutated Launch: a pending restart stays pending.
LaunchKeepsPending(automatic) ==
    /\ restartIn' = 0 /\ engineKilled' = FALSE
    /\ attempts' = IF automatic THEN attempts ELSE <<>>
    /\ granted' = IF automatic THEN granted ELSE <<>>
    /\ shutdownSet' = FALSE /\ readySet' = FALSE
    /\ engine' = "alive" /\ setState("Starting")
    /\ UNCHANGED <<exitCode, restartPending>>

\* The part of startEngine() after its guard: the process is created or not.
Launch(automatic) ==
    /\ restartPending' = FALSE /\ restartIn' = 0 /\ engineKilled' = FALSE
    /\ attempts' = IF automatic THEN attempts ELSE <<>>
    /\ granted' = IF automatic THEN granted ELSE <<>>
    /\ shutdownSet' = FALSE /\ readySet' = FALSE
    /\ \/ engine' = "alive" /\ setState("Starting")
       \/ engine' = "none" /\ setState("Failed")
    /\ UNCHANGED exitCode

startEngine(automatic) ==
    IF canStart /\ engine = "none"
      THEN Launch(automatic) /\ userStopped' = (automatic /\ userStopped)
      ELSE UNCHANGED engineVars

requestStop ==
    IF restartPending
      THEN /\ restartPending' = FALSE /\ restartIn' = 0
           /\ setState("Stopped")
           /\ UNCHANGED <<engine, exitCode, shutdownSet, readySet, engineKilled,
                          attempts, granted>>
    ELSE IF engine # "none"
      THEN /\ setState("Stopping")
           /\ shutdownSet' = TRUE
           /\ UNCHANGED <<engine, exitCode, readySet, engineKilled, restartPending,
                          restartIn, attempts, granted>>
    ELSE UNCHANGED <<state, stateAge, engine, exitCode, shutdownSet, readySet,
                     engineKilled, restartPending, restartIn, attempts, granted>>

requestExit ==
    /\ exiting' = TRUE
    /\ configurationRestartPending' = FALSE
    /\ restartPending' = FALSE /\ restartIn' = 0
    /\ IF engine # "none"
         THEN setState("Stopping") /\ shutdownSet' = TRUE /\ UNCHANGED window
         ELSE window' = FALSE /\ UNCHANGED <<state, stateAge, shutdownSet>>
    /\ UNCHANGED <<engine, exitCode, readySet, engineKilled, attempts, granted,
                   userStopped, canStart, setup, setupWantsWorker, polling>>

\* The engine died on its own: a restart is scheduled as the budget allows.
scheduleAutomaticRestart ==
    /\ setState("Failed")
    /\ attempts' = IF mayRestart THEN Append(purge(attempts), 0) ELSE purge(attempts)
    /\ granted' = IF mayRestart THEN Append(granted, 0) ELSE granted
    /\ restartPending' = IF mayRestart THEN TRUE ELSE restartPending
    /\ restartIn' = IF mayRestart THEN automaticRestartDelayMs(Len(attempts'))
                                  ELSE restartIn
    /\ engine' = "none" /\ engineKilled' = FALSE
    /\ shutdownSet' = FALSE /\ readySet' = FALSE
    /\ UNCHANGED <<exitCode, userStopped, configurationRestartPending, window>>

\* The engine stopped as asked, and a setting changed in the meantime: start.
RestartConfigured ==
    /\ configurationRestartPending' = FALSE
    /\ UNCHANGED <<window, userStopped>>
    /\ IF canStart THEN Launch(FALSE)
       ELSE /\ state' = "Stopped" /\ stateAge' = 0
            /\ engine' = "none" /\ engineKilled' = FALSE
            /\ shutdownSet' = FALSE /\ readySet' = FALSE
            /\ UNCHANGED <<exitCode, restartPending, restartIn, attempts, granted>>

\* closeEngineHandles() and the state the tray ends up in.
Settle(s) ==
    /\ setState(s)
    /\ engine' = "none" /\ engineKilled' = FALSE
    /\ shutdownSet' = FALSE /\ readySet' = FALSE
    /\ restartPending' = IF s = "Failed" THEN FALSE ELSE restartPending
    /\ restartIn' = IF s = "Failed" THEN 0 ELSE restartIn
    /\ UNCHANGED <<exitCode, attempts, granted, userStopped,
                   configurationRestartPending, window>>

\* handleEngineExit(): what the exit means depends on what was asked for.
handleEngineExit ==
    IF exiting
      THEN /\ window' = FALSE
           /\ engine' = "none" /\ engineKilled' = FALSE
           /\ shutdownSet' = FALSE /\ readySet' = FALSE
           /\ UNCHANGED <<state, stateAge, exitCode, restartPending, restartIn,
                          attempts, granted, userStopped, configurationRestartPending>>
    ELSE IF state = "Stopping" /\ configurationRestartPending THEN RestartConfigured
    ELSE IF state = "Stopping" THEN Settle("Stopped")
    ELSE IF exitCode \in {"workerUnavailable", "userAction"} THEN Settle("Failed")
    ELSE scheduleAutomaticRestart

-----------------------------------------------------------------------------
(* The timer: pollSetup(), then pollEngine()                               *)

\* A running engine is stopped and started again, one that failed is started,
\* one that was stopped stays so.
restartEngineForConfiguration ==
    IF exiting \/ ~canStart' \/ state \in {"Stopped", "Stopping"}
      THEN UNCHANGED <<engineVars, configurationRestartPending>>
    ELSE IF state \in {"Starting", "Running"}
      THEN /\ configurationRestartPending' = TRUE
           /\ requestStop
           /\ UNCHANGED userStopped
    ELSE /\ IF engine = "none" THEN Launch(FALSE) /\ userStopped' = FALSE
            ELSE /\ restartPending' = FALSE /\ restartIn' = 0
                 /\ UNCHANGED <<state, engine, exitCode, shutdownSet, readySet,
                                engineKilled, attempts, stateAge, userStopped, granted>>
         /\ UNCHANGED configurationRestartPending

Idle == window /\ ~polling

\* The setup ended well and left a configuration: start, or start again.
SetupSucceeded ==
    /\ setup = "ok" /\ ~exiting
    /\ canStart' \in BOOLEAN
    /\ IF canStart' /\ engine = "none" /\ state \in {"Stopped", "Failed"}
         THEN /\ Launch(FALSE) /\ userStopped' = FALSE
              /\ UNCHANGED configurationRestartPending
         ELSE restartEngineForConfiguration

\* Without a finished setup, on exit, or when the configuration cannot be read
\* or saved, nothing else happens.
PollSetup ==
    /\ Idle
    /\ polling' = TRUE
    /\ setup' = IF setup \in {"ok", "failed"} THEN "none" ELSE setup
    /\ \/ SetupSucceeded
       \/ UNCHANGED <<engineVars, configurationRestartPending, canStart>>
    /\ UNCHANGED <<setupWantsWorker, exiting, menu, window>>

polled == /\ polling /\ polling' = FALSE
          /\ UNCHANGED <<canStart, setup, setupWantsWorker, exiting, menu>>

\* No engine: a restart that is due.
PollRestart ==
    /\ polled
    /\ engine = "none"
    /\ IF restartPending /\ restartIn = 0 THEN startEngine(TRUE)
                                          ELSE UNCHANGED engineVars
    /\ UNCHANGED <<configurationRestartPending, window>>

becomesRunning == state = "Starting" /\ readySet

\* Mutated hung: a tray that exits waits for the engine.
hungUnlessExiting == /\ ~engineKilled /\ engine = "alive" /\ ~exiting
                     /\ state = "Stopping" \/ (state = "Starting" /\ ~readySet)
                     /\ stateAge >= kEngineTransitionTimeout

hung == /\ ~engineKilled /\ engine = "alive"
        /\ state = "Stopping" \/ (state = "Starting" /\ ~readySet)
        /\ stateAge >= kEngineTransitionTimeout

\* The engine lives: it may have become ready, or be killed.
PollAlive ==
    /\ polled
    /\ engine = "alive"
    /\ IF becomesRunning THEN setState("Running") ELSE UNCHANGED <<state, stateAge>>
    /\ engineKilled' = (engineKilled \/ hung)
    /\ UNCHANGED <<engine, exitCode, shutdownSet, readySet, restartPending, restartIn,
                   attempts, granted, userStopped, configurationRestartPending, window>>

PollDead ==
    /\ polled
    /\ engine = "dead"
    /\ handleEngineExit

-----------------------------------------------------------------------------
(* The menu and the other windows                                          *)

\* The commands that are enabled now may be chosen later.
ShowMenu ==
    /\ Idle /\ menu = {}
    /\ menu' = {"dns", "exit"}
               \cup (IF state \in {"Stopped", "Failed"}
                       THEN (IF canStart THEN {"start"} ELSE {}) ELSE {"stop"})
               \cup (IF setup = "none" THEN {"setup"} ELSE {})
    /\ UNCHANGED <<engineVars, configurationRestartPending, exiting, canStart, setup,
                   setupWantsWorker, polling, window>>

chosen(c) == Idle /\ c \in menu /\ menu' = {}

CommandStart ==
    /\ chosen("start")
    /\ startEngine(FALSE)
    /\ UNCHANGED <<configurationRestartPending, exiting, canStart, setup,
                   setupWantsWorker, polling, window>>

\* Mutated CommandStop: the pending restart is forgotten about.
CommandStopOnly ==
    /\ chosen("stop")
    /\ requestStop
    /\ userStopped' = (userStopped \/ restartPending \/ engine # "none")
    /\ UNCHANGED <<configurationRestartPending, exiting, canStart, setup,
                   setupWantsWorker, polling, window>>

\* An explicit stop wins over a restart for new settings.
CommandStop ==
    /\ chosen("stop")
    /\ configurationRestartPending' = FALSE
    /\ requestStop
    /\ userStopped' = (userStopped \/ restartPending \/ engine # "none")
    /\ UNCHANGED <<exiting, canStart, setup, setupWantsWorker, polling, window>>

\* setDnsMode() saved another mode; the configuration is valid or not.
CommandDns ==
    /\ chosen("dns")
    /\ canStart' \in BOOLEAN
    /\ restartEngineForConfiguration
    /\ UNCHANGED <<exiting, setup, setupWantsWorker, polling, window>>

\* launchSetup(), from the menu or because the Worker mode needs a Worker.
CommandSetup ==
    /\ chosen("setup") \/ chosen("dns")
    /\ setup = "none"
    /\ setup' = "running" /\ setupWantsWorker' = TRUE
    /\ UNCHANGED <<engineVars, configurationRestartPending, exiting, canStart,
                   polling, window>>

\* The dashboard saved other settings.
DashboardSaved ==
    /\ Idle
    /\ UNCHANGED canStart
    /\ restartEngineForConfiguration
    /\ UNCHANGED <<menu, exiting, setup, setupWantsWorker, polling, window>>

\* From the menu, when the window is closed, or when the session ends.
Exit == Idle /\ requestExit /\ menu' = {}

-----------------------------------------------------------------------------
(* The other processes, and time                                           *)

EngineReady ==
    /\ engine = "alive" /\ ~readySet
    /\ readySet' = TRUE
    /\ UNCHANGED <<state, engine, exitCode, shutdownSet, engineKilled, restartPending,
                   attempts, stateAge, restartIn, userStopped, granted>>
    /\ UNCHANGED <<configurationRestartPending, exiting, canStart, setup,
                   setupWantsWorker, menu, polling, window>>

EngineExits(code) ==
    /\ engine = "alive"
    /\ code = "clean" => shutdownSet
    /\ code = "killed" => engineKilled
    /\ engine' = "dead" /\ exitCode' = code
    /\ UNCHANGED <<state, shutdownSet, readySet, engineKilled, restartPending,
                   attempts, stateAge, restartIn, userStopped, granted>>
    /\ UNCHANGED <<configurationRestartPending, exiting, canStart, setup,
                   setupWantsWorker, menu, polling, window>>

SetupExits ==
    /\ setup = "running"
    /\ setup' \in {"ok", "failed"}
    /\ UNCHANGED <<engineVars, configurationRestartPending, exiting, canStart,
                   setupWantsWorker, menu, polling, window>>

older(s) == [i \in 1..Len(s) |-> smaller(s[i] + 1, kRestartWindow)]

Tick ==
    /\ window
    /\ stateAge' = smaller(stateAge + 1, kEngineTransitionTimeout)
    /\ restartIn' = IF restartIn = 0 THEN 0 ELSE restartIn - 1
    /\ attempts' = older(attempts)
    /\ granted' = SelectSeq(older(granted), LAMBDA a : a < kRestartWindow)
    /\ UNCHANGED <<state, engine, exitCode, shutdownSet, readySet, engineKilled,
                   restartPending, userStopped>>
    /\ UNCHANGED <<configurationRestartPending, exiting, canStart, setup,
                   setupWantsWorker, menu, polling, window>>

Poll == PollSetup \/ PollRestart \/ PollAlive \/ PollDead

Next ==
    \/ Poll
    \/ ShowMenu \/ CommandStart \/ CommandStop \/ CommandDns \/ CommandSetup
    \/ DashboardSaved \/ Exit
    \/ EngineReady \/ SetupExits \/ Tick
    \/ \E code \in ExitCodes : EngineExits(code)

Spec == Init /\ [][Next]_vars

\* The timer fires, time passes, and a killed process ends.
FairSpec == /\ Spec
            /\ WF_vars(Poll) /\ WF_vars(Tick)
            /\ WF_vars(EngineExits("killed"))

-----------------------------------------------------------------------------
(* Properties.                                                             *)

\* What the tray shows is what there is: a process exactly while it starts,
\* runs or stops; a restart is only pending for a failed engine, one for new
\* settings only for an engine that is stopping; nothing is pending on exit.
Supervision ==
    window =>
      /\ engine # "none" <=> state \in {"Starting", "Running", "Stopping"}
      /\ restartPending => state = "Failed" /\ ~exiting
      /\ configurationRestartPending => state = "Stopping" /\ ~exiting
      /\ exiting => state = "Stopping"

\* After the user stopped the engine nothing but the user, or the end of a
\* setup, starts it again: neither new settings nor an automatic restart.
StopWins ==
    userStopped =>
      /\ state \in {"Stopping", "Stopped"}
      /\ ~restartPending /\ ~configurationRestartPending

\* No more automatic restarts are granted within the window than the budget
\* has, whatever starts and stops come in between (RestartBudget::consume).
RestartsAreBounded == Len(granted) <= kMaxAutomaticRestarts

\* What the user or the supervisor set out to do is done even when the engine
\* hangs: an exit ends the process, an engine that was asked to stop is gone,
\* and a pending restart happens unless something else comes first, yet an
\* engine that keeps failing is not restarted for ever (pollEngine,
\* requestEngineStop, RestartBudget).
WishesComeTrue ==
    /\ []RestartsAreBounded
    /\ exiting ~> ~window
    /\ state = "Stopping" ~> state # "Stopping" \/ ~window
    /\ restartPending /\ canStart ~> ~restartPending \/ ~canStart

=============================================================================
