------------------------------ MODULE MCRelay -------------------------------
(* Small instances of the relay: its sessions, and what each of them goes  *)
(* through: the name of the network, the race of its connects and the pump.*)
(* They share no state, so each behaviour exercises one of them and leaves *)
(* the others as they are.                                                 *)
EXTENDS SocksProxy, NetworkIdentity, TcpConnect, Pump

VARIABLE part

allVars == <<part, vars, identityVars, connectVars, pumpVars>>

AloneInit ==
    /\ part \in {"sessions", "identity", "connect", "pump"}
    /\ Init /\ IdentityInit /\ ConnectInit /\ PumpInit

AloneNext ==
    \/ part = "sessions" /\ Next
          /\ UNCHANGED <<part, identityVars, connectVars, pumpVars>>
    \/ part = "identity" /\ IdentityNext
          /\ UNCHANGED <<part, vars, connectVars, pumpVars>>
    \/ part = "connect" /\ ConnectNext
          /\ UNCHANGED <<part, vars, identityVars, pumpVars>>
    \/ part = "pump" /\ PumpNext
          /\ UNCHANGED <<part, vars, identityVars, connectVars>>

\* The fairness of FairSpec, for the behaviours that exercise the sessions.
InSessions == part = "sessions"
AloneFairness ==
    /\ WF_vars(InSessions /\ AcceptLoop) /\ WF_vars(InSessions /\ Joins)
    /\ \A s \in Stoppers : /\ WF_vars(InSessions /\ StopStep(s))
                           /\ WF_vars(InSessions /\ s \in woken /\ StopWakes(s))
    /\ \A c \in Conns : /\ WF_vars(InSessions /\ SessionStep(c))
                        /\ WF_vars(InSessions /\ stopping[c] /\ Pump(c))

AloneSpec == AloneInit /\ [][AloneNext]_allVars /\ AloneFairness
=============================================================================
