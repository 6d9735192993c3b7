--------------------------- MODULE ProcessFilter ----------------------------
(***************************************************************************)
(* process_filter::Filter (src/src/ProcessFilter.cpp): which tuples belong *)
(* to programs the rules let the engine touch.  A tuple is resolved at its *)
(* first outbound packet, through the owner table of the system and a      *)
(* cache of process names, and the decision is then cached.                *)
(*                                                                         *)
(* The system binds ports and reuses process ids at will: a packet finds   *)
(* any owner table, and a process any image.  Of an image the model keeps  *)
(* what the rules make of it; FilterRules models the rules.  Time is       *)
(* relative: an entry holds the ticks it has left.                         *)
(***************************************************************************)
EXTENDS Integers, FiniteSets, FiniteSetsExt, Functions

CONSTANTS
    TcpEndpoints, UdpEndpoints, \* tuples, by protocol
    Pids,                       \* process ids
    kMaximumCachedEndpoints,    \* 8192
    kMaximumCachedNames,        \* 8192, the same limit
    kTcpCacheTtlMs,             \* 10 min
    kUdpCacheTtlMs,             \* 2 min
    kUnknownCacheTtlMs,         \* 1 s
    kProcessNameTtlMs,          \* 30 s
    kFilterSweepMs              \* 1 s

ASSUME FilterConstants ==
    /\ TcpEndpoints \cap UdpEndpoints = {}
    /\ {kMaximumCachedEndpoints, kMaximumCachedNames, kTcpCacheTtlMs, kUdpCacheTtlMs,
        kUnknownCacheTtlMs, kProcessNameTtlMs, kFilterSweepMs} \subseteq Nat \ {0}

VARIABLES
    image,          \* the system: process -> what the rules make of its image
    endpoints,      \* Impl::endpoints_
    processNames,   \* Impl::processNames_
    filterSweepIn,  \* ticks until nextSweepMs_
    owned,          \* TCP tuples the flow table holds (PacketFlows)
    idle,           \* history: ticks since the last packet of a tuple, capped;
                    \* a tuple that was reset or cleared has had none
    refusedFor,     \* history: ticks since the image was an allowed one, capped
    backed          \* history: this step found an owner of its tuple that was
                    \* allowed less than the lifetime of a name ago

cacheVars == <<endpoints, processNames, filterSweepIn>>
filterVars == <<image, cacheVars, owned, idle, refusedFor, backed>>

Endpoints == TcpEndpoints \cup UdpEndpoints
Images == {"allowed", "refused", "unreadable"}

cacheTtl(e) == IF e \in TcpEndpoints THEN kTcpCacheTtlMs ELSE kUdpCacheTtlMs
longAgo(p) == IF image[p] = "allowed" THEN 0 ELSE kProcessNameTtlMs

FilterInit ==
    /\ image \in [Pids -> Images]
    /\ endpoints = <<>> /\ processNames = <<>> /\ filterSweepIn = 0
    /\ owned = {}
    /\ idle = [e \in Endpoints |-> cacheTtl(e)]
    /\ refusedFor = [p \in Pids |-> longAgo(p)]
    /\ backed = FALSE

entered(f, k, v) == [x \in DOMAIN f \cup {k} |-> IF x = k THEN v ELSE f[x]]
live(f) == Restrict(f, {k \in DOMAIN f : f[k].left > 0})
isFull(f) == Cardinality(DOMAIN f) >= kMaximumCachedEndpoints

cached(e) == e \in DOMAIN endpoints /\ endpoints[e].left > 0
intercepted(e) == cached(e) /\ endpoints[e].intercept

---------------------------------------------------------------------------
(* The caches                                                              *)

\* Traffic keeps a resolved decision alive.
refreshed(e) ==
    IF endpoints[e].resolved
    THEN [endpoints EXCEPT ![e].left = Max({@, cacheTtl(e)})] ELSE endpoints

\* Bypassed tuples go before intercepted ones, old before new.
goesBefore(a, b) ==
    IF endpoints[a].intercept # endpoints[b].intercept
    THEN ~endpoints[a].intercept
    ELSE endpoints[a].left < endpoints[b].left

evicted(f) == Max({1, Cardinality(DOMAIN f) \div 16})

smallestOf(f) ==
    {Restrict(f, DOMAIN f \ S) :
        S \in {S \in kSubset(evicted(f), DOMAIN f) :
                  \A a \in S, b \in DOMAIN f \ S : ~goesBefore(b, a)}}

\* makeRoomLocked(): what it may leave of a full cache.
filterRoom ==
    LET swept == IF filterSweepIn = 0 THEN live(endpoints) ELSE endpoints
    IN  IF isFull(swept) THEN smallestOf(swept) ELSE {swept}

\* The new decision of a tuple.
enter(e, intercept, ttl, resolved) ==
    LET evicts == isFull(endpoints) /\ e \notin DOMAIN endpoints
    IN  /\ \E room \in IF evicts THEN filterRoom ELSE {endpoints} :
             endpoints' = entered(room, e, [intercept |-> intercept, left |-> ttl,
                                            resolved |-> resolved])
        /\ filterSweepIn' = IF evicts /\ filterSweepIn = 0 THEN kFilterSweepMs
                            ELSE filterSweepIn

\* The names evict what has expired, or else any entry.
nameRoom ==
    LET isFullOfNames(f) == Cardinality(DOMAIN f) >= kMaximumCachedNames
    IN  IF ~isFullOfNames(processNames) THEN {processNames}
        ELSE IF ~isFullOfNames(live(processNames)) THEN {live(processNames)}
        ELSE {Restrict(processNames, DOMAIN processNames \ {p}) : p \in DOMAIN processNames}

\* A name that is kept for as long as it is asked for.
cachedProcessImageKept(p, name) ==
    IF p \in DOMAIN processNames
    THEN name = processNames[p].image /\ UNCHANGED processNames
    ELSE /\ name = image[p]
         /\ \E room \in nameRoom : processNames' =
              entered(room, p, [image |-> name, left |-> kProcessNameTtlMs])

\* An image that cannot be read is remembered like any other.
cachedProcessImage(p, name) ==
    IF p \in DOMAIN processNames /\ processNames[p].left > 0
    THEN name = processNames[p].image /\ UNCHANGED processNames
    ELSE /\ name = image[p]
         /\ \E room \in nameRoom : processNames' =
              entered(room, p, [image |-> name, left |-> kProcessNameTtlMs])

\* users are the processes the owner table lists for the port of the tuple,
\* none if it is not read: the row of exactly this connection; of a datagram
\* port, the only process with a socket on it.
tcpOwner(e, users, p) == e \in TcpEndpoints /\ p \in users
udpOwner(e, users, p) == e \in UdpEndpoints /\ users = {p}
owner(e, users, p) == tcpOwner(e, users, p) \/ udpOwner(e, users, p)

\* shouldIntercept() for a tuple, first being "a packet that may be its
\* first".  The owner table may fail to be read or the owner be unknown: the
\* tuple is then left alone for a moment.
shouldIntercept(e, first, users, intercept) ==
    \/ /\ cached(e) /\ users = {}
       /\ intercept = endpoints[e].intercept
       /\ endpoints' = refreshed(e)
       /\ UNCHANGED <<processNames, filterSweepIn>>
    \/ /\ ~cached(e) /\ ~first /\ users = {}
       /\ intercept = FALSE
       /\ UNCHANGED cacheVars
    \/ /\ ~cached(e) /\ first
       /\ intercept = FALSE
       /\ enter(e, FALSE, kUnknownCacheTtlMs, FALSE)
       /\ UNCHANGED processNames
    \/ /\ ~cached(e) /\ first
       /\ \E p \in Pids, name \in Images :
            /\ owner(e, users, p)
            /\ cachedProcessImage(p, name)
            /\ intercept = (name = "allowed")
            /\ IF name = "unreadable"
               THEN enter(e, FALSE, kUnknownCacheTtlMs, FALSE)
               ELSE enter(e, intercept, cacheTtl(e), TRUE)

---------------------------------------------------------------------------
(* The packet loop                                                         *)

PacketSeen(e, users) ==
    /\ idle' = [idle EXCEPT ![e] = 0]
    /\ backed' = \E p \in Pids : owner(e, users, p) /\ refusedFor[p] < kProcessNameTtlMs

\* A datagram to or from port 443 or 53.
Datagram(e, users) ==
    /\ e \in UdpEndpoints
    /\ \E outbound, intercept \in BOOLEAN : shouldIntercept(e, outbound, users, intercept)
    /\ PacketSeen(e, users)
    /\ UNCHANGED <<image, owned, refusedFor>>

\* The SYN of a client.
ClientSyn(e, users) ==
    /\ e \in TcpEndpoints
    /\ \E intercept \in BOOLEAN :
         /\ shouldIntercept(e, TRUE, users, intercept)
         /\ owned' = IF intercept THEN owned \cup {e} ELSE owned \ {e}
    /\ PacketSeen(e, users)
    /\ UNCHANGED <<image, refusedFor>>

\* forget(), on the RST of a flow that is diverted.
ClientRst(e) ==
    /\ e \in owned
    /\ owned' = owned \ {e}
    /\ endpoints' = Restrict(endpoints, DOMAIN endpoints \ {e})
    /\ idle' = [idle EXCEPT ![e] = cacheTtl(e)]
    /\ backed' = FALSE
    /\ UNCHANGED <<image, processNames, filterSweepIn, refusedFor>>

\* The flow table loses a flow that ends another way.
FlowEnds(e) ==
    /\ e \in owned
    /\ owned' = owned \ {e}
    /\ backed' = FALSE
    /\ UNCHANGED <<image, cacheVars, idle, refusedFor>>

\* WinDivertInterceptor::stop().
filterClear ==
    /\ endpoints' = <<>> /\ processNames' = <<>> /\ owned' = {}
    /\ idle' = [e \in Endpoints |-> cacheTtl(e)]
    /\ backed' = FALSE
    /\ UNCHANGED <<image, filterSweepIn, refusedFor>>

\* A process ends and its id is given to another.
ReusePid(p) ==
    /\ \E name \in Images : image' = [image EXCEPT ![p] = name]
    /\ refusedFor' = [refusedFor EXCEPT ![p] =
                        IF "allowed" \in {image[p], image'[p]} THEN 0 ELSE @]
    /\ backed' = FALSE
    /\ UNCHANGED <<cacheVars, owned, idle>>

ticked(n) == Max({0, n - 1})
aged(f) == [k \in DOMAIN f |-> [f[k] EXCEPT !.left = ticked(@)]]

filterTick ==
    /\ endpoints' = aged(endpoints)
    /\ processNames' = aged(processNames)
    /\ filterSweepIn' = ticked(filterSweepIn)
    /\ idle' = [e \in Endpoints |-> Min({cacheTtl(e), idle[e] + 1})]
    /\ refusedFor' = [p \in Pids |-> IF image[p] = "allowed" THEN 0
                                     ELSE Min({kProcessNameTtlMs, refusedFor[p] + 1})]
    /\ backed' = FALSE
    /\ UNCHANGED <<image, owned>>

FilterNext ==
    \/ \E e \in Endpoints :
         \/ \E users \in SUBSET Pids : Datagram(e, users) \/ ClientSyn(e, users)
         \/ ClientRst(e) \/ FlowEnds(e)
    \/ \E p \in Pids : ReusePid(p)
    \/ filterClear \/ filterTick

FilterSpec == FilterInit /\ [][FilterNext]_filterVars

---------------------------------------------------------------------------
(* Properties                                                              *)

\* Bypassed or expired entries can make room.
RoomToSpare ==
    \/ ~isFull(endpoints)
    \/ Cardinality({x \in DOMAIN endpoints : ~intercepted(x)}) >= evicted(endpoints)

\* A tuple starts to be intercepted only at a packet for which the system
\* names an owner whose process id was the id of an allowed program less than
\* the lifetime of a cached name ago: however ids and ports are reused and
\* whatever the two caches hold, a program the rules refuse is not taken for a
\* former owner of its id for longer.  The decision then follows the tuple, not
\* the owner: it is over once the tuple was reset or has had no packet (of TCP:
\* no SYN) for the lifetime of a decision, so a later owner of the port is
\* judged by its own name; only one that takes the port over without such a
\* pause inherits it.
\* And without such a pause an intercepted tuple stays intercepted whatever
\* other tuples do, as long as bypassed or expired entries can make room: a
\* flow that fell back to its own path in the middle would be reset
\* (shouldIntercept and its refresh, forget, cachedProcessImage, the order of
\* eviction in makeRoomLocked).
InterceptionIsOwned ==
    [][\A e \in Endpoints :
          /\ ~intercepted(e) /\ intercepted(e)' => backed'
          /\ intercepted(e)' => idle'[e] < cacheTtl(e)
          /\ intercepted(e) /\ idle'[e] < cacheTtl(e) /\ RoomToSpare
             => intercepted(e)']_filterVars

=============================================================================
