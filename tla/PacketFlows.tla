---------------------------- MODULE PacketFlows -----------------------------
(***************************************************************************)
(* The TCP side of transparent interception: transparent::TcpFlowTable     *)
(* (which tuples the packet loop rewrites), transparent::FlowRegistry      *)
(* (which accepted connections the relay may serve) and the TCP branch of  *)
(* WinDivertInterceptor::run, which feeds both.                            *)
(*                                                                         *)
(* A client tuple is an (original server, application port) pair, an       *)
(* upstream tuple an (original server, relay port) pair; the table keeps   *)
(* the two kinds apart by the kind in its key.  Time is relative: an entry *)
(* holds the ticks it has left, 0 being expired but not yet erased, so the *)
(* model runs for ever on finitely many states.                            *)
(***************************************************************************)
EXTENDS Integers, FiniteSets, FiniteSetsExt, Functions

CONSTANTS
    Client,             \* tuples of Kind::Client
    Upstream,           \* tuples of Kind::Upstream
    kPendingFlowTtl,    \* 15 s
    kMaxPendingFlows,   \* 8192
    kPruneInterval,     \* 1 s
    kTcpFlowIdle,       \* 4 h
    kTcpFlowClosing,    \* 2 min
    kMaxTcpFlows,       \* 65536
    kEvictShare         \* 16: makeRoomLocked evicts one of so many

ASSUME FlowConstants ==
    /\ Client \cap Upstream = {}
    /\ IsFiniteSet(Client) /\ IsFiniteSet(Upstream)
    /\ {kPendingFlowTtl, kMaxPendingFlows, kPruneInterval, kTcpFlowIdle,
        kTcpFlowClosing, kMaxTcpFlows, kEvictShare} \subseteq Nat \ {0}
    /\ kTcpFlowClosing <= kTcpFlowIdle

VARIABLES
    running,    \* the packet handle is open
    tcpFlows,   \* TcpFlowTable::entries_: tuple -> ticks left and closing
    sweepIn,    \* ticks until nextSweepMs_
    flows,      \* FlowRegistry::entries_: client tuple -> ticks left
    pruneIn,    \* ticks until FlowRegistry::nextPruneMs_
    seen,       \* history: the packets of each tuple since its SYN, if it lives
    sinceSyn,   \* history: ticks since the last diverted SYN, capped
    grants      \* history: claims since that SYN while it was recent, capped

vars == <<running, tcpFlows, sweepIn, flows, pruneIn, seen, sinceSyn, grants>>

Tuples == Client \cup Upstream

lifetime(closing) == IF closing THEN kTcpFlowClosing ELSE kTcpFlowIdle
NeverSeen == [syn |-> FALSE, fin |-> FALSE, quiet |-> 0]
FreshSyn == [syn |-> TRUE, fin |-> FALSE, quiet |-> 0]

Init ==
    /\ running = TRUE
    /\ tcpFlows = <<>>
    /\ sweepIn = 0
    /\ flows = <<>>
    /\ pruneIn = 0
    /\ seen = [k \in Tuples |-> NeverSeen]
    /\ sinceSyn = [p \in Client |-> kPendingFlowTtl]
    /\ grants = [p \in Client |-> 0]

without(f, S) == Restrict(f, DOMAIN f \ S)
with(f, k, e) == [x \in DOMAIN f \cup {k} |-> IF x = k THEN e ELSE f[x]]

---------------------------------------------------------------------------
(* TcpFlowTable                                                            *)

expired == {k \in DOMAIN tcpFlows : tcpFlows[k].left = 0}

\* The entries makeRoomLocked evicts once the sweep did not help: the ones
\* closest to expiry, in any order among equals.
evictable(table) ==
    {E \in kSubset(Max({1, Cardinality(DOMAIN table) \div kEvictShare}),
                   DOMAIN table) :
        \A e \in E, k \in DOMAIN table \ E : table[e].left <= table[k].left}

evictedBy(swept) ==
    IF Cardinality(DOMAIN swept) < kMaxTcpFlows
    THEN {swept}
    ELSE {without(swept, E) : E \in evictable(swept)}

\* The tables makeRoomLocked may leave; it sweeps at most once a second.
makeRoomLocked ==
    IF sweepIn = 0
    THEN evictedBy(without(tcpFlows, expired))
    ELSE {without(tcpFlows, E) : E \in evictable(tcpFlows)}

sweeps(k) == k \notin DOMAIN tcpFlows /\ Cardinality(DOMAIN tcpFlows) >= kMaxTcpFlows

add(k) ==
    LET entry == [left |-> kTcpFlowIdle, closing |-> FALSE]
        rooms == IF sweeps(k) THEN makeRoomLocked ELSE {tcpFlows}
    IN  /\ \E room \in rooms : tcpFlows' = with(room, k, entry)
        /\ sweepIn' = IF sweeps(k) /\ sweepIn = 0 THEN kPruneInterval ELSE sweepIn

tracked(k) == k \in DOMAIN tcpFlows /\ tcpFlows[k].left > 0

track(k, fin, rst) ==
    LET closing == fin \/ tcpFlows[k].closing
    IN  tcpFlows' = IF k \notin DOMAIN tcpFlows THEN tcpFlows
                    ELSE IF tcpFlows[k].left = 0 \/ rst THEN without(tcpFlows, {k})
                    ELSE with(tcpFlows, k,
                              [left |-> lifetime(closing), closing |-> closing])

\* A remove left out.
removeNothing(k) == UNCHANGED <<tcpFlows, sweepIn>>

remove(k) == tcpFlows' = without(tcpFlows, {k}) /\ UNCHANGED sweepIn

---------------------------------------------------------------------------
(* FlowRegistry                                                            *)

livePending == Restrict(flows, {p \in DOMAIN flows : flows[p] > 0})

closestToExpiry(registry) ==
    {p \in DOMAIN registry : \A q \in DOMAIN registry : registry[p] <= registry[q]}

\* The sweep is due every second; a registry that is still full is swept at
\* once, and if that frees nothing one entry goes.
observe(p) ==
    LET pruned == IF pruneIn = 0 THEN livePending ELSE flows
        full == Cardinality(DOMAIN pruned) >= kMaxPendingFlows
        room == IF full THEN livePending ELSE pruned
        rooms == IF Cardinality(DOMAIN room) >= kMaxPendingFlows
                 THEN {without(room, {o}) : o \in closestToExpiry(room)}
                 ELSE {room}
    IN  /\ \E r \in rooms : flows' = with(r, p, kPendingFlowTtl)
        /\ pruneIn' = IF pruneIn = 0 THEN kPruneInterval ELSE pruneIn

\* A claim that does not look at the entry's own expiry.
authorizedStale(p) == p \in DOMAIN flows

authorized(p) == p \in DOMAIN flows /\ flows[p] > 0

claim(p) == flows' = without(flows, {p})

---------------------------------------------------------------------------
(* The packet loop and its callers                                         *)

\* What the loop should still rewrite: a tuple whose own SYN was diverted,
\* with no RST since and no silence longer than its lifetime.
Alive(k) == seen[k].syn

Seen(k, fin, rst) ==
    seen' = [seen EXCEPT ![k] =
                IF ~Alive(k) \/ rst THEN NeverSeen
                ELSE [syn |-> TRUE, fin |-> fin \/ @.fin, quiet |-> 0]]

\* ReflectClientToProxy, SYN of a program the process rules leave alone.
BypassedSyn(p) ==
    /\ running
    /\ remove(p)
    /\ seen' = [seen EXCEPT ![p] = NeverSeen]
    /\ UNCHANGED <<running, flows, pruneIn, sinceSyn, grants>>

\* ReflectClientToProxy, SYN that is diverted to the relay.
DivertedSyn(p) ==
    /\ running
    /\ add(p)
    /\ observe(p)
    /\ seen' = [seen EXCEPT ![p] = FreshSyn]
    /\ sinceSyn' = [sinceSyn EXCEPT ![p] = 0]
    /\ grants' = [grants EXCEPT ![p] = 0]
    /\ UNCHANGED running

\* RedirectProxyToTarget, SYN of the relay's own connection.
UpstreamSyn(u) ==
    /\ running
    /\ add(u)
    /\ seen' = [seen EXCEPT ![u] = FreshSyn]
    /\ UNCHANGED <<running, flows, pruneIn, sinceSyn, grants>>

\* Any other packet of a tuple, in either direction; a RST with FIN is a RST.
Segment(k, fin, rst) ==
    /\ ~(fin /\ rst)
    /\ running
    /\ track(k, fin, rst)
    /\ Seen(k, fin, rst)
    /\ UNCHANGED <<running, sweepIn, flows, pruneIn, sinceSyn, grants>>

\* SocksProxy::negotiate on an accepted connection whose peer is p.
Claim(p) ==
    /\ claim(p)
    /\ grants' = IF authorized(p) THEN [grants EXCEPT ![p] = Min({2, @ + 1})] ELSE grants
    /\ UNCHANGED <<running, tcpFlows, sweepIn, pruneIn, seen, sinceSyn>>

\* stop() clears both tables once the loop has ended.
Stop ==
    /\ running
    /\ running' = FALSE
    /\ tcpFlows' = <<>>
    /\ sweepIn' = 0
    /\ flows' = <<>>
    /\ seen' = [k \in Tuples |-> NeverSeen]
    /\ sinceSyn' = [p \in Client |-> kPendingFlowTtl]
    /\ grants' = [p \in Client |-> 0]
    /\ UNCHANGED pruneIn

Start ==
    /\ ~running
    /\ running' = TRUE
    /\ tcpFlows' = <<>>
    /\ sweepIn' = 0
    /\ UNCHANGED <<flows, pruneIn, seen, sinceSyn, grants>>

before(n) == Max({0, n - 1})

Tick ==
    /\ tcpFlows' = [k \in DOMAIN tcpFlows |-> [tcpFlows[k] EXCEPT !.left = before(@)]]
    /\ sweepIn' = before(sweepIn)
    /\ flows' = [p \in DOMAIN flows |-> before(flows[p])]
    /\ pruneIn' = before(pruneIn)
    /\ seen' = [k \in Tuples |->
                  IF ~seen[k].syn \/ seen[k].quiet + 1 >= lifetime(seen[k].fin)
                  THEN NeverSeen ELSE [seen[k] EXCEPT !.quiet = @ + 1]]
    /\ sinceSyn' = [p \in Client |-> Min({kPendingFlowTtl, sinceSyn[p] + 1})]
    /\ grants' = [p \in Client |-> IF sinceSyn'[p] = kPendingFlowTtl THEN 0 ELSE grants[p]]
    /\ UNCHANGED running

Next ==
    \/ \E p \in Client : BypassedSyn(p) \/ DivertedSyn(p) \/ Claim(p)
    \/ \E u \in Upstream : UpstreamSyn(u)
    \/ \E k \in Tuples, fin, rst \in BOOLEAN : Segment(k, fin, rst)
    \/ Stop \/ Start \/ Tick

Spec == Init /\ [][Next]_vars

---------------------------------------------------------------------------
(* Properties                                                              *)

\* The ticks the packets of a tuple leave it to live.
remaining(k) == IF Alive(k) THEN lifetime(seen[k].fin) - seen[k].quiet ELSE 0

\* The loop rewrites a later packet of a tuple only if the tuple's last SYN
\* was diverted (not one a process rule left alone, not one from before the
\* engine started), no RST followed, and no silence outlasted the entry: the
\* port alone never decides.  And a flow that is alive keeps being rewritten
\* whatever other flows, sweeps and expiries do, as long as the table is not
\* full: losing the entry would turn its next packet into an unexplained RST.
\* A full table gives up a live flow only if its own packets leave every entry
\* that is kept at least as long to live, so one that has expired goes first
\* (TcpFlowTable::add, track, makeRoomLocked and their callers).  The one
\* exception is a packet to the private connect port: the loop rewrites it
\* whatever track says, as the comment there admits.
RewritesAreExact ==
    [][\A k \in Tuples :
          /\ tracked(k)' => Alive(k)'
          /\ (tracked(k) /\ Alive(k)' /\ Cardinality(DOMAIN tcpFlows) < kMaxTcpFlows)
                => tracked(k)'
          /\ tracked(k) /\ Alive(k)' /\ ~tracked(k)'
                => \A j \in DOMAIN tcpFlows \cap DOMAIN tcpFlows' :
                      remaining(k) <= remaining(j)]_vars

\* One diverted SYN authorises at most one relay session, and only within the
\* lifetime of a pending flow: a late claim is never authorised by an entry
\* the sweep has not reached yet.  And while the registry has room, a pending
\* flow stays claimable until it is claimed or its lifetime is over, whatever
\* other SYNs arrive (FlowRegistry::observe, claim and their sweeps).
ClaimsAreExact ==
    [][\A p \in Client :
          /\ grants'[p] > grants[p] => grants[p] = 0 /\ sinceSyn[p] < kPendingFlowTtl
          /\ /\ authorized(p)
             /\ (sinceSyn[p] < kPendingFlowTtl)'
             /\ grants'[p] = grants[p]
             /\ Cardinality(DOMAIN flows) < kMaxPendingFlows
             => authorized(p)']_vars

=============================================================================
