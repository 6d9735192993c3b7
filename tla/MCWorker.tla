------------------------------ MODULE MCWorker ------------------------------
(* Small instances of the two uses of the Worker that can fail under way:  *)
(* the tunnel through it, and the calls whose failures are counted.  They  *)
(* share no state, so each behaviour exercises one of them and leaves the  *)
(* other as it is.                                                         *)
EXTENDS Tunnel, WorkerHealth

VARIABLE part

allVars == <<part, tunnelVars, vars>>

AloneInit == part \in {"tunnel", "health"} /\ TunnelInit /\ Init

AloneNext ==
    \/ part = "tunnel" /\ TunnelNext /\ UNCHANGED <<part, vars>>
    \/ part = "health" /\ Next /\ UNCHANGED <<part, tunnelVars>>

\* The fairness of TunnelSpec, for the behaviours that exercise the tunnel.
AloneSpec ==
    AloneInit /\ [][AloneNext]_allVars /\ WF_tunnelVars(part = "tunnel" /\ TunnelThreadStep)
=============================================================================
