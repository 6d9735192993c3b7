---------------------------- MODULE DnsResolver ----------------------------
(***************************************************************************)
(* dns::Resolver (src/src/Dns.cpp): the answer cache with one lookup in    *)
(* flight per name, the addresses of the Worker host that are kept in the  *)
(* same cache and refreshed out of band, and the cache of wire answers.    *)
(* A block under mutex_ is one step; cacheReady_ has an explicit wait set. *)
(***************************************************************************)
EXTENDS Integers, FiniteSets

CONSTANTS
    Callers,                       \* threads that call the resolver
    Keys, workerHost,              \* names, and the Worker's own name
    NoKey,                         \* a caller that is not in a call
    WireKeys,                      \* questions of the wire path
    kMaxCacheEntries, kMaxWireCacheEntries,
    Lifetime,                      \* how long each kind of answer is kept
    kBootstrapTtlMs, kBootstrapRetryMs, kNeverExpires,
    MayClear,                      \* whether clearCache() is called
    MaxMs                          \* bound on the clock

VARIABLES
    cache,                         \* name -> when the entry expires
    wireCache,                     \* wire question -> when the entry expires
    inFlight,                      \* names being looked up
    bootstrapNextMs, bootstrapBusy,
    call,                          \* per caller: where it is in its call
    now

resolverVars == <<cache, wireCache, inFlight, bootstrapNextMs, bootstrapBusy, call>>
vars == <<resolverVars, now>>

Names == Keys \cup {workerHost}
Results == {"addresses", "negative", "transient"}

ASSUME LimitsAssumption ==
    /\ kMaxCacheEntries \in Nat \ {0} /\ kMaxWireCacheEntries \in Nat \ {0}
    /\ kBootstrapTtlMs \in Nat /\ kBootstrapRetryMs \in Nat
    /\ Lifetime \in [Results -> Nat]
    /\ MaxMs \in Nat /\ kNeverExpires \in Nat /\ kNeverExpires > MaxMs
ASSUME NamesAssumption == workerHost \notin Keys /\ WireKeys \cap Names = {}
                          /\ NoKey \notin Names \cup WireKeys

Idle == [at |-> "idle", key |-> NoKey, result |-> "transient"]
At(t, step) == call[t].at = step
Goto(t, step) == call' = [call EXCEPT ![t].at = step]
Return(t) == call' = [call EXCEPT ![t] = Idle]
Conclude(t, result) ==
    call' = [call EXCEPT ![t] = [@ EXCEPT !.at = "publish", !.result = result]]

\* The constructor looked the Worker host up, or was offline.
Init ==
    /\ \/ /\ cache = [k \in {workerHost} |-> kNeverExpires]
          /\ bootstrapNextMs = kBootstrapTtlMs
       \/ /\ cache = <<>>
          /\ bootstrapNextMs = 0
    /\ wireCache = <<>>
    /\ inFlight = {}
    /\ bootstrapBusy = FALSE
    /\ call = [t \in Callers |-> Idle]
    /\ now = 0

live(c, k) == k \in DOMAIN c /\ c[k] > now
put(c, k, expires) == [x \in DOMAIN c \cup {k} |-> IF x = k THEN expires ELSE c[x]]
drop(c, S) == [x \in DOMAIN c \ S |-> c[x]]

\* The entries that expire first, the bootstrap entry left out.
oldest(c) ==
    {k \in DOMAIN c \ {workerHost} :
        \A x \in DOMAIN c \ {workerHost} : c[k] <= c[x]}

\* Mutated victims: the bootstrap entry is an entry like any other.
victimsAny(c, k, max) ==
    IF k \notin DOMAIN c /\ Cardinality(DOMAIN c) >= max
      THEN {{x} : x \in DOMAIN c} ELSE {{}}

\* The sets of entries that may be evicted to store k: one of the oldest when
\* the cache is full and k is new, none otherwise.
victims(c, k, max) ==
    IF k \notin DOMAIN c /\ Cardinality(DOMAIN c) >= max /\ oldest(c) # {}
      THEN {{x} : x \in oldest(c)} ELSE {{}}

-----------------------------------------------------------------------------
(* resolve()                                                               *)

Resolve(t, k) ==
    /\ At(t, "idle")
    /\ call' = [call EXCEPT ![t] = [@ EXCEPT !.at = "enter", !.key = k]]
    /\ UNCHANGED <<cache, wireCache, inFlight, bootstrapNextMs, bootstrapBusy, now>>

\* One turn of the loop under mutex_: entered for the first time, or woken with
\* the name no longer in flight.
MayLook(t) ==
    /\ call[t].key \in Names
    /\ \/ At(t, "enter")
       \/ At(t, "woken") /\ call[t].key \notin inFlight

CacheHit(t) ==
    /\ MayLook(t)
    /\ live(cache, call[t].key) \/ call[t].key = workerHost
    /\ Return(t)
    /\ UNCHANGED <<cache, wireCache, inFlight, bootstrapNextMs, bootstrapBusy, now>>

MayMiss(t) ==
    MayLook(t) /\ ~live(cache, call[t].key) /\ call[t].key # workerHost

Claim(t) ==
    /\ MayMiss(t)
    /\ call[t].key \notin inFlight
    /\ inFlight' = inFlight \cup {call[t].key}
    /\ Goto(t, "prepare")
    /\ UNCHANGED <<cache, wireCache, bootstrapNextMs, bootstrapBusy, now>>

Wait(t) ==
    /\ \/ MayMiss(t) /\ call[t].key \in inFlight
       \/ At(t, "woken") /\ call[t].key \in inFlight
    /\ Goto(t, "waiting")
    /\ UNCHANGED <<cache, wireCache, inFlight, bootstrapNextMs, bootstrapBusy, now>>

\* Mutated Publish: the name is left in flight when the lookup failed.
PublishLeaks(t) ==
    LET k == call[t].key
    IN  /\ At(t, "publish") /\ k \in Names
        /\ \E V \in victims(cache, k, kMaxCacheEntries) :
             cache' = put(drop(cache, V), k, now + Lifetime[call[t].result])
        /\ inFlight' = IF call[t].result = "transient" THEN inFlight ELSE inFlight \ {k}
        /\ Goto(t, "notify")
        /\ UNCHANGED <<wireCache, bootstrapNextMs, bootstrapBusy, now>>

\* The second block under mutex_: make room, store, release the name.
Publish(t) ==
    LET k == call[t].key
    IN  /\ At(t, "publish") /\ k \in Names
        /\ \E V \in victims(cache, k, kMaxCacheEntries) :
             cache' = put(drop(cache, V), k, now + Lifetime[call[t].result])
        /\ inFlight' = inFlight \ {k}
        /\ Goto(t, "notify")
        /\ UNCHANGED <<wireCache, bootstrapNextMs, bootstrapBusy, now>>

\* Mutated NotifyAll: nobody is told.
NotifyNobody(t) ==
    /\ At(t, "notify")
    /\ Return(t)
    /\ UNCHANGED <<cache, wireCache, inFlight, bootstrapNextMs, bootstrapBusy, now>>

\* cacheReady_.notify_all() after the lock is released.
NotifyAll(t) ==
    /\ At(t, "notify")
    /\ call' = [u \in Callers |->
                  IF u = t THEN Idle
                  ELSE IF At(u, "waiting") THEN [call[u] EXCEPT !.at = "woken"]
                  ELSE call[u]]
    /\ UNCHANGED <<cache, wireCache, inFlight, bootstrapNextMs, bootstrapBusy, now>>

-----------------------------------------------------------------------------
(* prepareWorkerCall() with refreshBootstrap(), and the call itself         *)

\* The caller's deadline is over, the name is not for /resolve, or the clock
\* says that the bootstrap entry is fresh.
SkipRefresh(t) ==
    /\ At(t, "prepare")
    /\ \/ now < bootstrapNextMs /\ Goto(t, "mayCall")
       \/ Conclude(t, "transient")
       \/ call[t].key \in Names /\ Conclude(t, "negative")
    /\ UNCHANGED <<cache, wireCache, inFlight, bootstrapNextMs, bootstrapBusy, now>>

\* The clock was read; bootstrapBusy_ is exchanged in a step of its own.
RefreshDue(t) ==
    /\ At(t, "prepare")
    /\ now >= bootstrapNextMs
    /\ Goto(t, "due")
    /\ UNCHANGED <<cache, wireCache, inFlight, bootstrapNextMs, bootstrapBusy, now>>

RefreshBegin(t) ==
    /\ At(t, "due")
    /\ bootstrapBusy' = TRUE
    /\ Goto(t, IF bootstrapBusy THEN "mayCall" ELSE "refreshing")
    /\ UNCHANGED <<cache, wireCache, inFlight, bootstrapNextMs, now>>

\* lookupViaDohByAddress() found addresses; they replace the entry.
RefreshStore(t) ==
    /\ At(t, "refreshing")
    /\ cache' = put(cache, workerHost, kNeverExpires)
    /\ Goto(t, "refreshed")
    /\ UNCHANGED <<wireCache, inFlight, bootstrapNextMs, bootstrapBusy, now>>

\* bootstrapNextMs_ is set before bootstrapBusy_ is cleared; a thread that
\* runs in between only sees the new time.
RefreshEnd(t) ==
    /\ At(t, "refreshing") \/ At(t, "refreshed")
    /\ bootstrapNextMs' = now + (IF At(t, "refreshed") THEN kBootstrapTtlMs
                                                       ELSE kBootstrapRetryMs)
    /\ bootstrapBusy' = FALSE
    /\ Goto(t, "mayCall")
    /\ UNCHANGED <<cache, wireCache, inFlight, now>>

hasBootstrap == workerHost \in DOMAIN cache

\* No address to connect to, or WorkerHealth is backing off: no call.
Refused(t) ==
    /\ At(t, "mayCall")
    /\ Conclude(t, "transient")
    /\ UNCHANGED <<cache, wireCache, inFlight, bootstrapNextMs, bootstrapBusy, now>>

Fetch(t) ==
    /\ At(t, "mayCall") /\ hasBootstrap
    /\ Goto(t, "fetching")
    /\ UNCHANGED <<cache, wireCache, inFlight, bootstrapNextMs, bootstrapBusy, now>>

\* An answer, a failure, a time-out or an exception.
Fetched(t) ==
    /\ At(t, "fetching")
    /\ \E result \in Results : Conclude(t, result)
    /\ UNCHANGED <<cache, wireCache, inFlight, bootstrapNextMs, bootstrapBusy, now>>

-----------------------------------------------------------------------------
(* queryWire(): no single flight, its own cache                            *)

\* An expired entry is erased before the Worker is asked.
QueryWire(t, k) ==
    /\ At(t, "idle")
    /\ call' = [call EXCEPT ![t] =
                  IF live(wireCache, k) THEN @
                  ELSE [@ EXCEPT !.at = "prepare", !.key = k]]
    /\ wireCache' = IF live(wireCache, k) THEN wireCache ELSE drop(wireCache, {k})
    /\ UNCHANGED <<cache, inFlight, bootstrapNextMs, bootstrapBusy, now>>

\* Failures and answers without a lifetime are not stored.
WireAnswer(t) ==
    LET k == call[t].key
    IN  /\ At(t, "publish") /\ k \in WireKeys
        /\ IF call[t].result = "transient" THEN wireCache' = wireCache
           ELSE \E V \in victims(wireCache, k, kMaxWireCacheEntries) :
                  wireCache' = put(drop(wireCache, V), k,
                                   now + Lifetime[call[t].result])
        /\ Return(t)
        /\ UNCHANGED <<cache, inFlight, bootstrapNextMs, bootstrapBusy, now>>

\* clearCache() keeps the bootstrap entry.  Only the tests call it.
clearCache ==
    /\ MayClear
    /\ cache' = drop(cache, Keys)
    /\ wireCache' = <<>>
    /\ UNCHANGED <<inFlight, bootstrapNextMs, bootstrapBusy, call, now>>

Tick == now < MaxMs /\ now' = now + 1 /\ UNCHANGED resolverVars

\* What a caller does once it is in a call.
InCall(t) ==
    \/ CacheHit(t) \/ Claim(t) \/ Wait(t) \/ Publish(t) \/ NotifyAll(t)
    \/ SkipRefresh(t) \/ RefreshDue(t) \/ RefreshBegin(t) \/ RefreshStore(t)
    \/ RefreshEnd(t) \/ Refused(t) \/ Fetch(t) \/ Fetched(t) \/ WireAnswer(t)

Next ==
    \/ \E t \in Callers :
         \/ InCall(t)
         \/ \E k \in Names : Resolve(t, k)
         \/ \E k \in WireKeys : QueryWire(t, k)
    \/ clearCache
    \/ Tick

Spec == Init /\ [][Next]_vars

-----------------------------------------------------------------------------
(* Properties.                                                             *)

InFlight(t) ==
    /\ call[t].key \in Keys
    /\ call[t].at \in {"prepare", "due", "refreshing", "refreshed", "mayCall",
                       "fetching", "publish"}

\* A name is in flight exactly while one caller looks it up: two lookups of a
\* name never overlap, and none is left in flight by an error (resolve).
SingleFlight ==
    /\ inFlight = {call[t].key : t \in {u \in Callers : InFlight(u)}}
    /\ \A t, u \in Callers :
         InFlight(t) /\ InFlight(u) /\ call[t].key = call[u].key => t = u

\* A caller that waits for a lookup is going to be woken: the lookup is still
\* running, or its thread has the notification left to send (resolve).
WaitersAreWoken ==
    \A t \in Callers : At(t, "waiting") =>
        call[t].key \in inFlight \/ \E u \in Callers : At(u, "notify")

\* The addresses of the Worker host, once known, are never evicted, cleared or
\* left to expire: the Worker could not be reached to find them (resolve,
\* refreshBootstrap, clearCache).
BootstrapKept ==
    [][hasBootstrap => hasBootstrap' /\ cache'[workerHost] = kNeverExpires]_vars

=============================================================================
