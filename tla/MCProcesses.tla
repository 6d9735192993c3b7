---------------------------- MODULE MCProcesses -----------------------------
(* Small instances of the tray, the engine process, its telemetry and its  *)
(* live figures.  They share no state, so each behaviour exercises one of  *)
(* them and leaves the others as they are.                                 *)
EXTENDS TrayApp, Engine, Telemetry, LiveStats

VARIABLE part

allVars == <<part, vars, mainVars, telemetryVars, liveVars>>

AloneInit ==
    /\ part \in {"tray", "engine", "telemetry", "live"}
    /\ Init /\ EngineInit /\ TelemetryInit /\ LiveInit
    /\ part # "tray" => canStart
    /\ part # "engine" => useWorkerDns

InTray == part = "tray" /\ UNCHANGED <<part, mainVars, telemetryVars, liveVars>>
InEngine == part = "engine" /\ UNCHANGED <<part, vars, telemetryVars, liveVars>>
InTelemetry == part = "telemetry" /\ UNCHANGED <<part, vars, mainVars, liveVars>>
InLive == part = "live" /\ UNCHANGED <<part, vars, mainVars, telemetryVars>>

AloneNext ==
    \/ InTray /\ Next
    \/ InEngine /\ EngineNext
    \/ InTelemetry /\ TelemetryNext
    \/ InLive /\ LiveNext

\* FairSpec, EngineFairness or TelemetryFairness, for the part that is
\* exercised: each of the three has three conditions.  LiveStats has none.
AloneFairness ==
    /\ WF_allVars(\/ InTray /\ Poll
                  \/ InEngine /\ MainStep
                  \/ InTelemetry /\ WriterStep)
    /\ WF_allVars(\/ InTray /\ Tick
                  \/ InEngine /\ RelayThread
                  \/ InTelemetry /\ (stopNotifies \/ stopJoins))
    /\ WF_allVars(\/ InTray /\ EngineExits("killed")
                  \/ InEngine /\ MonitorFires
                  \/ InTelemetry /\ recordNotifies)

AloneSpec == AloneInit /\ [][AloneNext]_allVars /\ AloneFairness
=============================================================================
