-------------------------- MODULE DatagramRegistry --------------------------
(***************************************************************************)
(* transparent::DatagramRegistry (src/src/TransparentFlow.cpp): the packet *)
(* loop observes each DNS query it reflects to the DNS relay, and the      *)
(* relay serves a datagram only if it can claim one that was observed.  A  *)
(* reflected query may be lost or arrive late; other datagrams reach the   *)
(* relay's socket too.  Time is relative.                                  *)
(***************************************************************************)
EXTENDS Integers, FiniteSets, FiniteSetsExt, Functions

CONSTANTS
    Askers,                         \* (DNS server, client port) pairs
    kDatagramTtl,                   \* kPendingFlowTtlMs
    kMaxDatagramTuples,             \* kMaxPendingFlows
    kDatagramPrune,                 \* kPruneIntervalMs
    kMaxPendingDatagramsPerTuple    \* 32

ASSUME DatagramConstants ==
    {kDatagramTtl, kMaxDatagramTuples, kDatagramPrune, kMaxPendingDatagramsPerTuple}
        \subseteq Nat \ {0}

VARIABLES
    pendings,       \* entries_: pair -> queries pending, ticks left
    datagramPruneIn,\* ticks until nextPruneMs_
    unclaimed,      \* history: queries observed and not claimed, capped
    sinceQuery      \* history: ticks since the last query, capped

datagramVars == <<pendings, datagramPruneIn, unclaimed, sinceQuery>>

DatagramInit ==
    /\ pendings = <<>> /\ datagramPruneIn = 0
    /\ unclaimed = [a \in Askers |-> 0]
    /\ sinceQuery = [a \in Askers |-> kDatagramTtl]

unexpired(f) == Restrict(f, {a \in DOMAIN f : f[a].left > 0})

\* What may be left to enter a new pair: a full registry is swept, and if
\* that frees nothing the entry closest to expiry goes.
datagramRoom(f) ==
    LET swept == unexpired(f)
        crowded(g) == Cardinality(DOMAIN g) >= kMaxDatagramTuples
    IN  IF ~crowded(f) THEN {f}
        ELSE IF ~crowded(swept) THEN {swept}
        ELSE {Restrict(swept, DOMAIN swept \ {o}) :
                 o \in {o \in DOMAIN swept : \A a \in DOMAIN swept :
                            swept[o].left <= swept[a].left}}

\* What was pending when the entry expired is void.
stillPending(f, a) == IF f[a].left = 0 THEN 0 ELSE f[a].pending

observeDatagram(a) ==
    LET f == IF datagramPruneIn = 0 THEN unexpired(pendings) ELSE pendings
        one == [pending |-> 1, left |-> kDatagramTtl]
        more == [pending |-> Min({stillPending(f, a) + 1, kMaxPendingDatagramsPerTuple}),
                 left |-> kDatagramTtl]
    IN  /\ IF a \in DOMAIN f
           THEN pendings' = [f EXCEPT ![a] = more]
           ELSE \E room \in datagramRoom(f) :
                  pendings' = [x \in DOMAIN room \cup {a} |-> IF x = a THEN one ELSE room[x]]
        /\ datagramPruneIn' = IF datagramPruneIn = 0 THEN kDatagramPrune
                              ELSE datagramPruneIn

claimable(a) == a \in DOMAIN pendings /\ pendings[a].left > 0 /\ pendings[a].pending > 0

\* A claim that leaves the count alone.
claimDatagramUncounted(a) ==
    pendings' = IF claimable(a) THEN pendings ELSE Restrict(pendings, DOMAIN pendings \ {a})

claimDatagram(a) ==
    pendings' = IF claimable(a) /\ pendings[a].pending > 1
                THEN [pendings EXCEPT ![a].pending = @ - 1]
                ELSE Restrict(pendings, DOMAIN pendings \ {a})

\* ReflectDnsToProxy in the packet loop.
Reflect(a) ==
    /\ observeDatagram(a)
    /\ unclaimed' = [unclaimed EXCEPT ![a] =
                       Min({@ + 1, kMaxPendingDatagramsPerTuple + 1})]
    /\ sinceQuery' = [sinceQuery EXCEPT ![a] = 0]

\* The relay receives a datagram, reflected or not.
ReceiveDatagram(a) ==
    /\ claimDatagram(a)
    /\ unclaimed' = IF claimable(a) THEN [unclaimed EXCEPT ![a] = Max({0, @ - 1})]
                                    ELSE unclaimed
    /\ UNCHANGED <<datagramPruneIn, sinceQuery>>

\* stop(), of the loop or of the relay.
datagramClear ==
    /\ pendings # <<>>
    /\ pendings' = <<>>
    /\ unclaimed' = [a \in Askers |-> 0]
    /\ UNCHANGED <<datagramPruneIn, sinceQuery>>

\* The history of a pair is over once its queries are too old to claim.
datagramTick ==
    /\ pendings' = [a \in DOMAIN pendings |->
                      [pendings[a] EXCEPT !.left = Max({0, @ - 1})]]
    /\ datagramPruneIn' = Max({0, datagramPruneIn - 1})
    /\ sinceQuery' = [a \in Askers |-> Min({kDatagramTtl, sinceQuery[a] + 1})]
    /\ unclaimed' = [a \in Askers |-> IF sinceQuery'[a] = kDatagramTtl THEN 0
                                      ELSE unclaimed[a]]

DatagramNext ==
    \/ \E a \in Askers : Reflect(a) \/ ReceiveDatagram(a)
    \/ datagramClear \/ datagramTick

DatagramSpec == DatagramInit /\ [][DatagramNext]_datagramVars

\* The relay answers no more datagrams of a pair than queries were reflected
\* from it, and none once its last query is older than the lifetime of an
\* entry: expired entries that no sweep has reached, the cap and evictions
\* never add up to an answer nobody asked for (DatagramRegistry::observe and
\* claim).
DatagramGrantsAreBacked ==
    \A a \in Askers : claimable(a) =>
        pendings[a].pending <= unclaimed[a] /\ sinceQuery[a] < kDatagramTtl

=============================================================================
