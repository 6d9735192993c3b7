----------------------------- MODULE MCDnsProxy -----------------------------
(* A small instance of DnsProxy.  What the clock changes and what the wire *)
(* path adds multiply each other's states, so each behaviour has one of    *)
(* them: time passes and applications ask for addresses only, or time      *)
(* stands still and they ask for a name whose lookup may fall back on the  *)
(* wire path, or ask a wire question directly, possibly before the Worker  *)
(* has an address.                                                         *)
EXTENDS DnsProxy, TLC

CONSTANTS w1, w2, k1, q1, workerName

VARIABLE emphasis

Lifetimes == [addresses |-> 1, negative |-> 1, transient |-> 1]

MCInit ==
    /\ ProxyInit
    /\ emphasis \in {"clock", "fallback", "direct"}
    /\ emphasis # "direct" => hasBootstrap

MCNext ==
    /\ ProxyNext
    /\ UNCHANGED emphasis
    /\ emphasis # "clock" => now' = now
    /\ emphasis = "clock" => \A t \in Callers : call'[t].key \notin WireKeys
    /\ received'.at = "push" => (received'.job.key \in WireKeys <=> emphasis = "direct")

MCSpec == MCInit /\ [][MCNext]_<<allVars, emphasis>> /\ ProxyFairness
=============================================================================
