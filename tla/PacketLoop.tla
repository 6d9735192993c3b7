----------------------------- MODULE PacketLoop -----------------------------
(***************************************************************************)
(* WinDivertInterceptor::run (src/src/WinDivertInterceptor.cpp) with the   *)
(* packet_strategy::PolicyRegistry it shares with the relay threads        *)
(* (src/src/PacketStrategy.cpp, DirectRelay::deliverHello).                *)
(*                                                                         *)
(* Connections of the relay dial one target through the private connect    *)
(* port; their packets and the target's answers pass the driver's queue in *)
(* order, and one loop reads them in batches, transforms the hellos that   *)
(* have a policy armed, and sends the batch.  A registry key is the local  *)
(* port, which the system gives to a later connection once the earlier     *)
(* one is gone.  Each block under mutex_ is one step.  Time is relative:   *)
(* an entry holds the ticks it has left, 0 being expired but still there.  *)
(***************************************************************************)
EXTENDS Integers, Sequences, FiniteSets

CONSTANTS
    NConns, Ports, None,
    Attempts,           \* what each connection tries: the packet mode of a
                        \* profile, and what its cut does to the hello
    OverIPv6,           \* the target's address family
    PathHops,           \* hop counts a SYN-ACK may show; 0 is "no sample"
    kPolicyTtlMs, kAppliedTtlMs, kPruneIntervalMs, kMaxEntries,
    kBatchSize, kMaxWinDivertReadRetries,
    kFatalSendFailures, kFatalSendWindowMs, kSendStreakGapMs,
    MaxResends,         \* bound on the retransmissions of one hello
    MaxLoad, ConnLoad   \* bound on a behaviour: driver errors count 1 and
                        \* connections count ConnLoad

ASSUME PacketConstants ==
    /\ None \notin Ports /\ None \notin BOOLEAN
    /\ \A c \in 1..NConns : Attempts[c] \subseteq
         [mode : {None, "ReverseOrder", "SequenceOverlap", "IpFragment",
                  "FakeBadSequence", "FakeBadChecksum", "FakeAutoTtl"},
          shape : {"cuts", "misses", "whole"}]
    /\ OverIPv6 \in BOOLEAN
    /\ PathHops \subseteq Nat
    /\ {NConns, kPolicyTtlMs, kPruneIntervalMs, kMaxEntries, kBatchSize,
        kFatalSendFailures} \subseteq Nat \ {0}
    /\ {kAppliedTtlMs, kMaxWinDivertReadRetries, kFatalSendWindowMs,
        kSendStreakGapMs, MaxResends, MaxLoad, ConnLoad} \subseteq Nat
    /\ kPolicyTtlMs <= kAppliedTtlMs

\* Connections are numbered in the order they dial.
Conns == 1..NConns

VARIABLES
    conn,        \* per connection: its socket and the relay thread behind it
    queue,       \* the driver's queue
    policies,    \* PolicyRegistry::policies_: port -> entry
    hops,        \* PolicyRegistry::hops_: port -> sample
    pruneIn,     \* ticks until nextPruneMs_
    loop,        \* where the loop is, and its batch
    running, fatal, handle,
    retries,     \* completedReadRetries
    streak,      \* failedSends and the ages of its first and last failure
    errors,      \* driver errors so far
    wire,        \* per connection: the forms of its hello that left
    treated,     \* history: ticks for which a hello that was transformed is
                 \* still to be treated alike, by the entry that was there then
    own,         \* history: the hello was transformed under its own policy
    claimed,     \* history: what consumeApplied() returned, if it was called
    row          \* history: sends that failed since the last one that did
                 \* not, capped, and the age of the first of them

relayVars == <<conn, claimed>>
registryVars == <<policies, hops, pruneIn>>
driverVars == <<running, fatal, handle>>
sendVars == <<streak, row>>
vars == <<relayVars, queue, registryVars, loop, driverVars, retries, sendVars,
          errors, wire, treated, own>>

Output(c, kind, form) == [conn |-> c, kind |-> kind, form |-> form]
Under(c, kind) ==
    \/ \E i \in 1..Len(queue) : queue[i].conn = c /\ queue[i].kind = kind
    \/ \E i \in 1..Len(loop.in) : loop.in[i].conn = c /\ loop.in[i].kind = kind
    \/ \E i \in 1..Len(loop.out) : loop.out[i].conn = c /\ loop.out[i].kind = kind
Idle == [st |-> "idle", port |-> None, mode |-> None, shape |-> None, copies |-> 0]
AtRead == [at |-> "read", in |-> <<>>, out |-> <<>>, next |-> 0,
           policy |-> None, tries |-> <<>>, exact |-> TRUE]
NoStreak == [failed |-> 0, start |-> 0, last |-> 0]
NoRow == [failed |-> 0, age |-> 0]

Init ==
    /\ conn = [c \in Conns |-> Idle]
    /\ queue = <<>>
    /\ policies = <<>> /\ hops = <<>> /\ pruneIn = 0
    /\ loop = AtRead
    /\ running = TRUE /\ fatal = FALSE /\ handle = "open"
    /\ retries = 0 /\ streak = NoStreak /\ row = NoRow
    /\ errors = 0
    /\ wire = [c \in Conns |-> {}]
    /\ treated = [c \in Conns |-> 0]
    /\ own = [c \in Conns |-> FALSE]
    /\ claimed = [c \in Conns |-> None]

dialled == {c \in Conns : conn[c].st # "idle"}
Affordable(n, m) == n + ConnLoad * m <= MaxLoad
Error == /\ Affordable(errors + 1, Cardinality(dialled))
         /\ errors' = errors + 1

with(f, k, e) == [x \in DOMAIN f \cup {k} |-> IF x = k THEN e ELSE f[x]]
without(f, S) == [x \in DOMAIN f \ S |-> f[x]]
live(f) == without(f, {k \in DOMAIN f : f[k].left = 0})

-----------------------------------------------------------------------------
(* PolicyRegistry                                                          *)

pruneIfDue(f) == IF pruneIn = 0 THEN live(f) ELSE f
pruned == pruneIn' = IF pruneIn = 0 THEN kPruneIntervalMs ELSE pruneIn

\* The tables that may be left to store k: a full table loses what is expired,
\* and if that is nothing, an entry closest to expiry.
makeRoom(f, k) ==
    LET full(g) == k \notin DOMAIN g /\ Cardinality(DOMAIN g) >= kMaxEntries
    IN  IF ~full(f) THEN {f}
        ELSE IF ~full(live(f)) THEN {live(f)}
        ELSE {without(live(f), {x}) :
                x \in {y \in DOMAIN live(f) :
                         \A z \in DOMAIN live(f) : f[y].left <= f[z].left}}

armedEntry(c) == [mode |-> conn[c].mode, left |-> kPolicyTtlMs, taken |-> FALSE,
                  seq |-> None, applied |-> FALSE, owner |-> c]

\* An entry that is lost takes with it what was promised for the hello that
\* it was taken for.
Lost(room) ==
    treated' = [c \in Conns |->
                  IF \E k \in DOMAIN policies \ DOMAIN room :
                        policies[k].taken /\ policies[k].seq.conn = c
                  THEN 0 ELSE treated[c]]

arm(c) ==
    /\ \E room \in makeRoom(pruneIfDue(policies), conn[c].port) :
         /\ policies' = with(room, conn[c].port, armedEntry(c))
         /\ Lost(room)
    /\ hops' = pruneIfDue(hops)
    /\ pruned

observeHop(k, n) ==
    IF n = 0 THEN UNCHANGED <<registryVars, treated>>
    ELSE /\ \E room \in makeRoom(pruneIfDue(hops), k) :
              hops' = with(room, k, [pathHops |-> n, left |-> kPolicyTtlMs])
         /\ policies' = pruneIfDue(policies)
         /\ Lost(policies')
         /\ pruned

\* What take() hands out for packet p: a policy, or None.
current(k) == k \in DOMAIN policies /\ policies[k].left > 0

\* Mutated grantedFor: a policy is handed out once.
grantedOnce(k, p) == current(k) /\ ~policies[k].taken

grantedFor(k, p) == current(k) /\ (policies[k].taken => policies[k].seq = p)

\* The mode the first take() fixes: FakeAutoTtl needs a sample of the path.
fixedMode(k) ==
    IF policies[k].mode = "FakeAutoTtl" /\ ~policies[k].taken
       /\ ~(k \in DOMAIN hops /\ hops[k].left > 0 /\ hops[k].pathHops >= 3)
    THEN "FakeBadSequence" ELSE policies[k].mode

take(k, p) ==
    /\ loop' = [loop EXCEPT !.at = "transform", !.policy =
                  [mode |-> fixedMode(k), owner |-> policies[k].owner]]
    /\ policies' = [policies EXCEPT ![k] =
                      [@ EXCEPT !.taken = TRUE, !.seq = p, !.mode = fixedMode(k)]]

\* noteApplied() marks whatever entry the key has now.
noteApplied(k) ==
    policies' = IF k \notin DOMAIN policies THEN policies
                ELSE [policies EXCEPT ![k] = [@ EXCEPT !.applied = TRUE,
                                                       !.left = kAppliedTtlMs]]

-----------------------------------------------------------------------------
(* The relay: one attempt of deliverHello per connection.                  *)

St(c, st) == conn' = [conn EXCEPT ![c].st = st]
\* A packet carries its connection's port, and what a cut would do to it.
Enqueue(c, kind) ==
    queue' = Append(queue, [conn |-> c, kind |-> kind, port |-> conn'[c].port,
                            shape |-> IF kind = "hello" THEN conn[c].shape ELSE "whole"])
Holds(c, k) == conn[c].port = k /\ conn[c].st \notin {"idle", "gone"}

\* connectTarget() or reconnect(): the system picks a port that is free.
Dial(c) ==
    \E k \in Ports, a \in Attempts[c] :
        /\ conn[c].st = "idle" /\ dialled = 1..(c - 1) /\ handle = "open"
        /\ Affordable(errors, Cardinality(dialled) + 1)
        /\ \A d \in Conns : ~Holds(d, k)
        /\ conn' = [conn EXCEPT ![c] = [st |-> "dialing", port |-> k, mode |-> a.mode,
                                        shape |-> a.shape, copies |-> 0]]
        /\ Enqueue(c, "syn")
        /\ UNCHANGED <<claimed, registryVars, loop, driverVars, retries, sendVars,
                       errors, wire, treated, own>>

\* The target answers a SYN that has left.
SynAck(c) ==
    /\ conn[c].st = "syn" /\ handle = "open"
    /\ St(c, "synack")
    /\ Enqueue(c, "synack")
    /\ UNCHANGED <<claimed, registryVars, loop, driverVars, retries, sendVars,
                   errors, wire, treated, own>>

\* deliverHello arms the policy of a packet profile before it writes.
Arm(c) ==
    /\ conn[c].st = "connected"
    /\ IF conn[c].mode # None THEN arm(c) ELSE UNCHANGED <<registryVars, treated>>
    /\ St(c, "armed")
    /\ UNCHANGED <<claimed, queue, loop, driverVars, retries, sendVars, errors, wire, own>>

\* writePlan().  It may fail instead: the relay goes on to Close.
Write(c) ==
    /\ conn[c].st = "armed" /\ handle = "open"
    /\ conn' = [conn EXCEPT ![c] = [@ EXCEPT !.st = "sent", !.copies = 1]]
    /\ Enqueue(c, "hello")
    /\ UNCHANGED <<claimed, registryVars, loop, driverVars, retries, sendVars,
                   errors, wire, treated, own>>

\* TCP sends the hello again while it is not acknowledged, also for a socket
\* that was closed with the hello still under way.
Retransmit(c) ==
    /\ conn[c].st \in {"sent", "closing"} /\ handle = "open"
    /\ conn[c].copies \in 1..MaxResends
    /\ conn' = [conn EXCEPT ![c].copies = @ + 1]
    /\ Enqueue(c, "hello")
    /\ UNCHANGED <<claimed, registryVars, loop, driverVars, retries, sendVars,
                   errors, wire, treated, own>>

Whole(c) == "plain" \in wire[c] \/ {"first", "second"} \subseteq wire[c]

\* The target answers a hello that has left in full.
ServerHello(c) ==
    /\ conn[c].st = "sent" /\ handle = "open"
    /\ Whole(c)
    /\ ~Under(c, "reply")
    /\ St(c, "sent")
    /\ Enqueue(c, "reply")
    /\ UNCHANGED <<claimed, registryVars, loop, driverVars, retries, sendVars,
                   errors, wire, treated, own>>

\* packetPolicyApplied(): asked once, after the answer.
consumeApplied(c) ==
    LET k == conn[c].port
    IN  /\ claimed' = [claimed EXCEPT ![c] = current(k) /\ policies[k].applied]
        /\ policies' = without(policies, {k})

Consume(c) ==
    /\ conn[c].st = "answered"
    /\ IF conn[c].mode # None THEN consumeApplied(c) ELSE UNCHANGED <<claimed, policies>>
    /\ St(c, "done")
    /\ UNCHANGED <<queue, hops, pruneIn, loop, driverVars, retries, sendVars,
                   errors, wire, treated, own>>

\* The relay gives the attempt up, or the connection is over.
Close(c) ==
    /\ conn[c].st \notin {"idle", "closing", "gone"}
    /\ St(c, "closing")
    /\ UNCHANGED <<claimed, queue, registryVars, loop, driverVars, retries, sendVars,
                   errors, wire, treated, own>>

\* The system frees the port: everything is acknowledged, or a reset came.
Release(c) ==
    /\ conn[c].st = "closing"
    /\ conn' = [conn EXCEPT ![c] = [Idle EXCEPT !.st = "gone"]]
    /\ UNCHANGED <<claimed, queue, registryVars, loop, driverVars, retries, sendVars,
                   errors, wire, treated, own>>

Relay(c) == \/ Dial(c) \/ SynAck(c) \/ Arm(c) \/ Write(c) \/ Retransmit(c)
            \/ ServerHello(c) \/ Consume(c) \/ Close(c) \/ Release(c)

-----------------------------------------------------------------------------
(* The packet loop                                                         *)

\* A batch of one goes straight to the one-by-one sends.
Processed(forms) ==
    LET p == Head(loop.in)
        outs == loop.out \o [i \in 1..Len(forms) |-> Output(p.conn, p.kind, forms[i])]
    IN  loop' = [loop EXCEPT !.in = Tail(@), !.out = outs, !.policy = None,
                             !.tries = [i \in 1..Len(outs) |-> 0],
                             !.next = 1,
                             !.at = IF Len(loop.in) > 1 THEN "process"
                                    ELSE IF Len(outs) > 1 THEN "send" ELSE "each"]

\* while (running_)
Loop ==
    /\ loop.at = "read"
    /\ loop' = [AtRead EXCEPT !.at = IF running THEN "recv" ELSE "exited"]
    /\ UNCHANGED <<relayVars, queue, registryVars, driverVars, retries, sendVars,
                   errors, wire, treated, own>>

Recv ==
    /\ loop.at = "recv" /\ handle = "open" /\ queue # <<>>
    /\ LET n == IF Len(queue) < kBatchSize THEN Len(queue) ELSE kBatchSize
       IN  /\ loop' = [AtRead EXCEPT !.at = "process", !.in = SubSeq(queue, 1, n)]
           /\ queue' = SubSeq(queue, n + 1, Len(queue))
    /\ retries' = 0
    /\ UNCHANGED <<relayVars, registryVars, driverVars, sendVars, errors, wire,
                   treated, own>>

RecvFails ==
    /\ loop.at = "recv" /\ handle = "open"
    /\ Error
    /\ \/ /\ ~running
          /\ loop' = [loop EXCEPT !.at = "exited"]
          /\ UNCHANGED <<running, fatal, retries>>
       \/ /\ running /\ retries < kMaxWinDivertReadRetries
          /\ retries' = retries + 1
          /\ loop' = [loop EXCEPT !.at = "read"]
          /\ UNCHANGED <<running, fatal>>
       \/ /\ running
          /\ fatal' = TRUE /\ running' = FALSE
          /\ loop' = [loop EXCEPT !.at = "exited"]
          /\ UNCHANGED retries
    /\ UNCHANGED <<relayVars, queue, registryVars, handle, sendVars, wire, treated, own>>

\* The driver refuses a receive on a handle that was shut down.
RecvShut ==
    /\ loop.at = "recv" /\ handle = "shut"
    /\ loop' = [loop EXCEPT !.at = "exited"]
    /\ UNCHANGED <<relayVars, queue, registryVars, driverVars, retries, sendVars,
                   errors, wire, treated, own>>

\* A packet that is forwarded as it is: no TLS record, or no policy for it.
Forward ==
    LET p == Head(loop.in)
        k == p.port
    IN  /\ loop.at = "process"
        /\ \/ /\ p.kind \in {"syn", "reply"}
              /\ UNCHANGED <<registryVars, treated>>
           \/ /\ p.kind = "synack"
              /\ \E n \in PathHops : observeHop(k, n)
           \/ /\ p.kind = "hello"
              /\ ~grantedFor(k, p)
              /\ policies' = IF current(k) THEN policies ELSE without(policies, {k})
              /\ UNCHANGED <<hops, pruneIn, treated>>
        /\ Processed(<<"plain">>)
        /\ UNCHANGED <<relayVars, queue, driverVars, retries, sendVars, errors, wire, own>>

Take ==
    LET p == Head(loop.in)
    IN  /\ loop.at = "process"
        /\ p.kind = "hello"
        /\ grantedFor(p.port, p)
        /\ take(p.port, p)
        /\ UNCHANGED <<relayVars, queue, hops, pruneIn, driverVars, retries, sendVars,
                       errors, wire, treated, own>>

\* What becomes of the packet under the policy taken for it, by mode and by
\* where the cut falls: inside the hostname, beside it, or nowhere at all.
\* Fragments are made only where they cut the name; over IPv6 IpFragment falls
\* back on reordered segments, which are made anyway.
Segmenting == {"ReverseOrder", "SequenceOverlap", "IpFragment"}
rewrites(mode, shape) ==
    shape # "whole" /\ (mode = "IpFragment" /\ ~OverIPv6 => shape = "cuts")
hides(mode, shape) == rewrites(mode, shape) /\ (mode \in Segmenting => shape = "cuts")
forms(mode, shape) ==
    IF ~rewrites(mode, shape) THEN <<"plain">>
    ELSE IF mode \in Segmenting THEN <<"second", "first">> ELSE <<"fake", "plain">>

\* Mutated noted: a hello that was cut counts, wherever the cut fell.
notedWhenCut(mode, shape) == rewrites(mode, shape)

\* Whether the loop reports the policy as applied.
noted(mode, shape) == hides(mode, shape)

Transform ==
    LET p == Head(loop.in)
        c == p.conn
        mode == loop.policy.mode
    IN  /\ loop.at = "transform"
        /\ IF noted(mode, p.shape)
           THEN noteApplied(p.port) ELSE UNCHANGED policies
        /\ own' = [own EXCEPT ![c] = @ \/ (hides(mode, p.shape)
                                           /\ loop.policy.owner = c)]
        /\ treated' = IF hides(mode, p.shape) /\ p.port \in DOMAIN policies
                      THEN [treated EXCEPT ![c] = kAppliedTtlMs] ELSE treated
        /\ Processed(forms(mode, p.shape))
        /\ UNCHANGED <<relayVars, queue, hops, pruneIn, driverVars, retries, sendVars,
                       errors, wire>>

\* What the outputs I of the batch do once they are on their way.
Delivered(I) ==
    LET out == {loop.out[i] : i \in I}
        arrives(c, kind) == Output(c, kind, "plain") \in out
        moved(c) == CASE conn[c].st = "dialing" /\ arrives(c, "syn") -> "syn"
                      [] conn[c].st = "synack" /\ arrives(c, "synack") -> "connected"
                      [] conn[c].st = "sent" /\ arrives(c, "reply") -> "answered"
                      [] OTHER -> conn[c].st
    IN  /\ conn' = [c \in Conns |-> [conn[c] EXCEPT !.st = moved(c)]]
        /\ wire' = [c \in Conns |-> wire[c] \cup
                      {o.form : o \in {x \in out : x.conn = c /\ x.kind = "hello"}}]

\* Packets I were handed to the driver; packet n is next, if there is one.
Handed(I, n, exact) ==
    loop' = [loop EXCEPT !.exact = exact,
                         !.at = IF n > Len(loop.out) THEN "read" ELSE "each", !.next = n,
                         !.tries = [i \in DOMAIN @ |-> IF i \in I THEN @[i] + 1 ELSE @[i]]]

sendSucceeded == streak' = NoStreak

\* The streak after one more failure; a long gap opens a new one.
extended ==
    IF streak.failed = 0 \/ streak.last > kSendStreakGapMs
    THEN [failed |-> 1, start |-> 0, last |-> 0]
    ELSE [streak EXCEPT !.failed = IF @ < kFatalSendFailures THEN @ + 1 ELSE @, !.last = 0]

gone == /\ extended.failed >= kFatalSendFailures
        /\ extended.start >= kFatalSendWindowMs

RowGrows == row' = [failed |-> IF row.failed < kFatalSendFailures
                               THEN row.failed + 1 ELSE row.failed,
                    age |-> IF row.failed = 0 THEN 0 ELSE row.age]

\* One send for the whole batch.
SendBatch ==
    /\ loop.at = "send"
    /\ Delivered(1..Len(loop.out))
    /\ Handed(1..Len(loop.out), Len(loop.out) + 1, TRUE)
    /\ sendSucceeded
    /\ row' = NoRow
    /\ UNCHANGED <<claimed, queue, registryVars, driverVars, errors, retries, treated, own>>

\* Mutated resumeAt: the packet the driver stopped at is taken for sent.
resumeAfter(n, exact) == IF exact THEN n + 2 ELSE 1

\* Where the one-by-one sends begin after a batch send that failed with the
\* first n packets out; a byte count that ends inside a packet is not trusted.
resumeAt(n, exact) == IF exact THEN n + 1 ELSE 1

SendBatchFails ==
    \E n \in 0..(Len(loop.out) - 1), exact \in BOOLEAN :
        /\ loop.at = "send"
        /\ Error
        /\ Delivered(1..n)
        /\ IF running THEN Handed(1..n, resumeAt(n, exact), exact)
                      ELSE loop' = [AtRead EXCEPT !.at = "exited"]
        /\ UNCHANGED <<claimed, queue, registryVars, driverVars, retries, sendVars,
                       treated, own>>

SendOne ==
    /\ loop.at = "each" /\ running
    /\ Delivered({loop.next})
    /\ Handed({loop.next}, loop.next + 1, loop.exact)
    /\ sendSucceeded
    /\ row' = NoRow
    /\ UNCHANGED <<claimed, queue, registryVars, driverVars, errors, retries, treated, own>>

\* The packet's own failure, resource exhaustion having been retried.
SendOneFails ==
    /\ loop.at = "each" /\ running
    /\ Error
    /\ streak' = extended
    /\ RowGrows
    /\ running' = ~gone /\ fatal' = gone
    /\ Handed({loop.next}, loop.next + 1, loop.exact)
    /\ UNCHANGED <<relayVars, queue, registryVars, handle, retries, wire, treated, own>>

BatchBroken ==
    /\ loop.at = "each" /\ ~running
    /\ loop' = [loop EXCEPT !.at = "read"]
    /\ UNCHANGED <<relayVars, queue, registryVars, driverVars, retries, sendVars,
                   errors, wire, treated, own>>

LoopStep == \/ Loop \/ Recv \/ RecvShut \/ Forward \/ Take \/ Transform
            \/ SendBatch \/ SendOne \/ BatchBroken
LoopError == RecvFails \/ SendBatchFails \/ SendOneFails

-----------------------------------------------------------------------------
(* The owner and the clock                                                 *)

\* stop(): the flag, the shutdown that wakes a blocked receive, the join.
Stop ==
    /\ handle = "open"
    /\ handle' = IF running THEN "shutting" ELSE "joining"
    /\ running' = FALSE
    /\ UNCHANGED <<relayVars, queue, registryVars, loop, fatal, retries, sendVars,
                   errors, wire, treated, own>>

\* Mutated Shutdown: the handle is left as it is.
ShutdownSkipped ==
    /\ handle = "shutting"
    /\ handle' = "joining"
    /\ UNCHANGED <<relayVars, queue, registryVars, loop, running, fatal, retries,
                   sendVars, errors, wire, treated, own>>

Shutdown ==
    /\ handle = "shutting"
    /\ handle' = "shut"
    /\ UNCHANGED <<relayVars, queue, registryVars, loop, running, fatal, retries,
                   sendVars, errors, wire, treated, own>>

Join ==
    /\ handle \in {"shut", "joining"} /\ loop.at = "exited"
    /\ handle' = "closed"
    /\ queue' = <<>> /\ policies' = <<>> /\ hops' = <<>> /\ pruneIn' = 0
    /\ Lost(<<>>)
    /\ UNCHANGED <<relayVars, loop, running, fatal, retries, sendVars, errors, wire, own>>

\* main() sees the loop end by itself within 50 ms and calls stop().
OwnerStep == (~running /\ Stop) \/ Shutdown \/ Join

before(n) == IF n = 0 THEN 0 ELSE n - 1
upTo(n, max) == IF n < max THEN n + 1 ELSE n

Tick ==
    /\ policies' = [k \in DOMAIN policies |-> [policies[k] EXCEPT !.left = before(@)]]
    /\ hops' = [k \in DOMAIN hops |-> [hops[k] EXCEPT !.left = before(@)]]
    /\ pruneIn' = before(pruneIn)
    /\ treated' = [c \in Conns |-> before(treated[c])]
    /\ streak' = IF streak.failed = 0 THEN streak
                 ELSE [streak EXCEPT !.start = upTo(@, kFatalSendWindowMs),
                                     !.last = upTo(@, kSendStreakGapMs + 1)]
    /\ row' = IF row.failed = 0 THEN row
              ELSE [row EXCEPT !.age = upTo(@, kFatalSendWindowMs)]
    /\ UNCHANGED <<relayVars, queue, loop, driverVars, errors, retries, wire, own>>

Next ==
    \/ \E c \in Conns : Relay(c)
    \/ LoopStep \/ LoopError
    \/ Stop \/ Shutdown \/ Join
    \/ Tick

Spec == Init /\ [][Next]_vars

\* Both threads run; the relays, the errors and the clock owe nothing.
FairSpec == Spec /\ WF_vars(LoopStep) /\ WF_vars(OwnerStep)

-----------------------------------------------------------------------------
(* Properties                                                              *)

\* consumeApplied() is true only for a connection whose own hello the loop
\* transformed under the policy that connection armed.  A policy left behind
\* by a connection that died, or a report that arrives for a port that has
\* changed hands, never makes a plain hello look like a profile that worked:
\* the queue is in order and a port is free only once nothing of it is left
\* to be retransmitted (arm, take, noteApplied, consumeApplied).
LearnedWasTransformed == \A c \in Conns : claimed[c] = TRUE => own[c]

\* A hello that passes the loop as it is.
PassesClear(c) ==
    /\ loop.at = "process" /\ Head(loop.in).conn = c /\ Head(loop.in).kind = "hello"
    /\ loop'.in = Tail(loop.in)

\* Until the relay has its answer, no copy of a hello that was transformed
\* passes in the clear, unless the entry ran out or the table was full
\* (take() keeps the entry for retransmissions, noteApplied() extends it).
ProbesStayTreated ==
    [][\A c \in Conns :
          PassesClear(c) /\ claimed[c] = None => treated[c] = 0]_vars

\* The same without the exception: a retransmitted hello always gets the
\* treatment of the original (the comment in take()).
RetransmitsStayTreated ==
    [][\A c \in Conns : PassesClear(c) => treated[c] = 0]_vars

\* Every packet of a batch gets a send whatever became of its neighbours, and
\* none is sent twice unless the driver's count could not be trusted (the
\* resumption in run()).
EveryPacketIsSent ==
    loop.at = "read" /\ running => \A i \in DOMAIN loop.tries :
        loop.tries[i] >= 1 /\ (loop.exact => loop.tries[i] = 1)

\* Sends stop the engine only after kFatalSendFailures of them failed with
\* none succeeding in between, over at least kFatalSendWindowMs (sendFailed).
StopsOnDeadHandleOnly ==
    [][running /\ ~running' /\ streak' # streak
         => row'.failed >= kFatalSendFailures /\ row'.age >= kFatalSendWindowMs]_vars

\* The loop gives up over sends only on a dead handle, and however it ends
\* the handle is closed and the network is on its normal path again: a
\* receive that blocks is woken, and a loop that died is joined without one
\* (sendFailed, stop() and run()).
FailsOpen ==
    /\ StopsOnDeadHandleOnly
    /\ (~running) ~> (handle = "closed")

=============================================================================
