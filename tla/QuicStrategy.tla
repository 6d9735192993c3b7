---------------------------- MODULE QuicStrategy ----------------------------
(***************************************************************************)
(* quic_strategy::AdaptiveRegistry (src/src/QuicStrategy.cpp) and the QUIC *)
(* part of the UDP branch of WinDivertInterceptor::run, which calls it.    *)
(* The first Initial of a flow is primed; a server that lets a second one  *)
(* go unanswered for the response timeout is blocked for a while, so that  *)
(* the client falls back to TCP.                                           *)
(*                                                                         *)
(* The loop asks two lock-free counters whether a call is needed at all.   *)
(* Time is relative.  A datagram the process filter bypasses does nothing  *)
(* here.                                                                   *)
(***************************************************************************)
EXTENDS Integers, FiniteSets, FiniteSetsExt, Functions

CONSTANTS
    Servers, LocalPorts,
    responseTimeoutMs,  \* 900 ms
    fallbackMs,         \* 5 min
    kQuicPurgeMs        \* min(responseTimeoutMs_, 1000)

\* The constructor raises a shorter fallback to the timeout.
ASSUME QuicConstants ==
    /\ {responseTimeoutMs, fallbackMs, kQuicPurgeMs} \subseteq Nat \ {0}
    /\ kQuicPurgeMs <= responseTimeoutMs /\ responseTimeoutMs <= fallbackMs

VARIABLES
    quicFlows,          \* flows_: ages of the start and of the last touch
    blocked,            \* blockedUntil_: server -> ticks left
    quicPurgeIn,        \* ticks until nextPurgeAtMs_
    unansweredFlows,    \* the two published counters
    blockedServers,
    silentFor           \* history: flow -> ticks its Initials went unanswered

registryVars == <<quicFlows, blocked, quicPurgeIn, unansweredFlows, blockedServers>>
quicVars == <<registryVars, silentFor>>

Flows == Servers \X LocalPorts
Answered == -1

QuicInit ==
    /\ quicFlows = <<>> /\ blocked = <<>> /\ quicPurgeIn = 0
    /\ unansweredFlows = 0 /\ blockedServers = 0
    /\ silentFor = [f \in Flows |-> Answered]

put(f, k, v) == [x \in DOMAIN f \cup {k} |-> IF x = k THEN v ELSE f[x]]
drop(f, k) == Restrict(f, DOMAIN f \ {k})
unanswered(fl) == {f \in DOMAIN fl : ~fl[f].answered}

---------------------------------------------------------------------------
(* AdaptiveRegistry: each method as the registry it leaves                 *)

registry ==
    [flows |-> quicFlows, blocked |-> blocked, unanswered |-> unansweredFlows,
     published |-> blockedServers, purgeIn |-> quicPurgeIn]

\* The port left out of the key.
flowKeyOfServer(server, localPort) == <<server>>

flowKey(server, localPort) == <<server, localPort>>

publishBlockedLocked(r) == [r EXCEPT !.published = Cardinality(DOMAIN r.blocked)]

purgeIfDue(r) ==
    LET old == {k \in DOMAIN r.flows : r.flows[k].touched > fallbackMs}
        inForce == {s \in DOMAIN r.blocked : r.blocked[s] > 0}
    IN  IF r.purgeIn > 0 THEN r
        ELSE publishBlockedLocked(
               [flows |-> Restrict(r.flows, DOMAIN r.flows \ old),
                blocked |-> Restrict(r.blocked, inForce),
                unanswered |-> r.unanswered - Cardinality(old \cap unanswered(r.flows)),
                published |-> r.published,
                purgeIn |-> kQuicPurgeMs])

lift(r, s) == publishBlockedLocked([r EXCEPT !.blocked = drop(@, s)])

\* A block that is not published.
blockUnpublished(r, s) == [r EXCEPT !.blocked = put(@, s, fallbackMs)]

block(r, s) == publishBlockedLocked([r EXCEPT !.blocked = put(@, s, fallbackMs)])

isBlocked(r, s) == s \in DOMAIN r.blocked /\ r.blocked[s] > 0

\* An Initial to a server that is not blocked.
learn(r, k) ==
    LET touched == [r EXCEPT !.flows = [@ EXCEPT ![k].touched = 0]]
        new == [started |-> 0, touched |-> 0, answered |-> FALSE]
    IN  CASE k \notin DOMAIN r.flows ->
               [decision |-> "PrimeAndPass",
                left |-> [r EXCEPT !.flows = put(@, k, new), !.unanswered = @ + 1]]
          [] k \in DOMAIN r.flows /\ (r.flows[k].answered
                                      \/ r.flows[k].started < responseTimeoutMs) ->
               [decision |-> "Pass", left |-> touched]
          [] OTHER ->
               [decision |-> "Drop", left |-> block(touched, k[1])]

outbound(r, f, initial) ==
    LET due == purgeIfDue(r)
        lifted == IF f[1] \in DOMAIN due.blocked THEN lift(due, f[1]) ELSE due
    IN  IF isBlocked(due, f[1]) THEN [decision |-> "Drop", left |-> due]
        ELSE IF ~initial THEN [decision |-> "Pass", left |-> lifted]
        ELSE learn(lifted, flowKey(f[1], f[2]))

inbound(r, f) ==
    LET due == purgeIfDue(r)
        k == flowKey(f[1], f[2])
        heard == [due EXCEPT
                    !.flows = [@ EXCEPT ![k].answered = TRUE, ![k].touched = 0],
                    !.unanswered = IF due.flows[k].answered THEN @ ELSE @ - 1]
    IN  IF k \notin DOMAIN due.flows THEN due ELSE lift(heard, f[1])

needsOutbound(initial) == initial \/ blockedServers # 0

needsInbound == unansweredFlows # 0

---------------------------------------------------------------------------
(* The packet loop                                                         *)

Leave(r) ==
    /\ quicFlows' = r.flows /\ blocked' = r.blocked /\ quicPurgeIn' = r.purgeIn
    /\ unansweredFlows' = r.unanswered /\ blockedServers' = r.published

\* A datagram to port 443 of a program the rules let the engine touch.
SendQuic(f, initial) ==
    LET asked == outbound(registry, f, initial)
    IN  IF needsOutbound(initial)
        THEN /\ Leave(asked.left)
             /\ silentFor' = IF asked.decision = "PrimeAndPass"
                             THEN [silentFor EXCEPT ![f] = 0] ELSE silentFor
        ELSE UNCHANGED quicVars

\* A datagram from port 443.
ReceiveQuic(f) ==
    /\ IF needsInbound THEN Leave(inbound(registry, f)) ELSE UNCHANGED registryVars
    /\ silentFor' = [silentFor EXCEPT ![f] = Answered]

\* WinDivertInterceptor::stop().
quicClear ==
    /\ quicFlows' = <<>> /\ blocked' = <<>> /\ quicPurgeIn' = 0
    /\ unansweredFlows' = 0 /\ blockedServers' = 0
    /\ silentFor' = [f \in Flows |-> Answered]

older(n, most) == Min({most, n + 1})
sooner(n) == Max({0, n - 1})

quicTick ==
    /\ quicFlows' = [f \in DOMAIN quicFlows |->
                       [quicFlows[f] EXCEPT !.started = older(@, responseTimeoutMs),
                                            !.touched = older(@, fallbackMs + 1)]]
    /\ blocked' = [s \in DOMAIN blocked |-> sooner(blocked[s])]
    /\ quicPurgeIn' = sooner(quicPurgeIn)
    /\ silentFor' = [f \in Flows |-> IF silentFor[f] = Answered THEN Answered
                                     ELSE older(silentFor[f], responseTimeoutMs)]
    /\ UNCHANGED <<unansweredFlows, blockedServers>>

QuicNext ==
    \/ \E f \in Flows, initial \in BOOLEAN : SendQuic(f, initial)
    \/ \E f \in Flows : ReceiveQuic(f)
    \/ quicClear \/ quicTick

QuicSpec == QuicInit /\ [][QuicNext]_quicVars

---------------------------------------------------------------------------
(* Properties                                                              *)

\* Where a counter lets the packet loop skip a call, the verdict on every
\* datagram of that moment is the one it would be after the call: an answer
\* that is skipped would have answered no flow and lifted no block, and an
\* outgoing datagram that is let through unasked would have passed.  A block
\* always leaves an unanswered flow behind it, whatever purges do, so the
\* answer that lifts it is seen (needsOutbound and needsInbound; both counters
\* are kept by hand in every method).  It says "of that moment" because a
\* skipped answer does not refresh touchedMs: its flow is forgotten sooner,
\* and is then primed and judged afresh.
SkippedCallsChangeNoVerdict ==
    LET verdict(r, g, initial) == outbound(r, g, initial).decision
        changesNone(r) == \A g \in Flows, initial \in BOOLEAN :
                             verdict(r, g, initial) = verdict(registry, g, initial)
    IN  \A f \in Flows :
          /\ ~needsInbound => changesNone(inbound(registry, f))
          /\ ~needsOutbound(FALSE) =>
                /\ verdict(registry, f, FALSE) = "Pass"
                /\ changesNone(outbound(registry, f, FALSE).left)

Blocks(s) ==
    /\ s \in DOMAIN blocked' /\ blocked'[s] = fallbackMs
    /\ ~(s \in DOMAIN blocked /\ blocked[s] = fallbackMs)

\* A server gets blocked only by an Initial of a flow whose own earlier
\* Initial has gone unanswered for the response timeout, however purges, other
\* flows and earlier blocks come and go: neither the silence of another flow
\* of that server nor one that an answer has ended since is ever the reason
\* (outbound, inbound, flowKey, purgeIfDue).
BlocksAreExplained ==
    [][\A s \in Servers : Blocks(s) =>
          /\ \E f \in Flows : f[1] = s /\ SendQuic(f, TRUE)
          /\ \A f \in Flows : f[1] = s /\ SendQuic(f, TRUE)
                => silentFor[f] >= responseTimeoutMs]_quicVars

=============================================================================
