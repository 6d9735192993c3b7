----------------------------- MODULE DnsProofs ------------------------------
(***************************************************************************)
(* Proofs about the two ends of a captured DNS question.  The resolver     *)
(* (DnsResolver), for any number of callers and names, whatever the sizes  *)
(* and lifetimes: one lookup in flight per name, no waiter that nobody is  *)
(* going to wake, and the Worker's addresses kept for ever.  The registry  *)
(* between packet loop and DNS relay (DatagramRegistry), for every size,   *)
(* lifetime and cap: no answer without a query.                            *)
(***************************************************************************)
EXTENDS DnsResolver, DatagramRegistry, TLAPS

-----------------------------------------------------------------------------
(* DnsResolver                                                             *)

Looking == {"prepare", "due", "refreshing", "refreshed", "mayCall", "fetching",
            "publish"}
Asking == {"enter", "waiting", "woken"}
CallSteps == {"idle", "notify"} \cup Asking \cup Looking

CallTypeOK ==
    call \in [Callers -> [at : CallSteps, key : Names \cup WireKeys \cup {NoKey},
                          result : Results]]

\* Only names wait for a lookup, and the Worker's own name is never looked up
\* through the Worker.
KeysFit ==
    \A t \in Callers :
        /\ call[t].at \in Asking => call[t].key \in Names
        /\ call[t].at \in Looking => call[t].key \in Keys \cup WireKeys

\* The Worker's addresses never expire.
BootstrapIsForever == hasBootstrap => cache[workerHost] = kNeverExpires

ResolverInv ==
    CallTypeOK /\ KeysFit /\ SingleFlight /\ WaitersAreWoken /\ BootstrapIsForever

-----------------------------------------------------------------------------
(* Proofs                                                                  *)

\* What Conclude leaves of a call.
LEMMA ConcludeLeaves ==
  ASSUME CallTypeOK, NEW t \in Callers, NEW r \in Results, Conclude(t, r)
  PROVE  call' = [call EXCEPT ![t] = [at |-> "publish", key |-> call[t].key,
                                      result |-> r]]
<1> DEFINE d == [call[t] EXCEPT !.at = "publish"]
<1>1. call[t] \in [at : CallSteps, key : Names \cup WireKeys \cup {NoKey},
                  result : Results]
  BY DEF CallTypeOK
<1>2. d = [at |-> "publish", key |-> call[t].key, result |-> call[t].result]
  BY <1>1
<1>3. [call[t] EXCEPT !.at = "publish", !.result = r] = [d EXCEPT !.result = r]
  BY <1>1
<1> HIDE DEF d
<1>4. [d EXCEPT !.result = r] = [at |-> "publish", key |-> call[t].key, result |-> r]
  BY <1>2
<1> QED
  BY Zenon, <1>3, <1>4 DEF Conclude

\* Where a call begins.
LEMMA EnterLeaves ==
  ASSUME CallTypeOK, NEW t \in Callers, NEW p, NEW k
  PROVE  [call[t] EXCEPT !.at = p, !.key = k]
           = [at |-> p, key |-> k, result |-> call[t].result]
<1> DEFINE d == [call[t] EXCEPT !.at = p]
<1>1. call[t] \in [at : CallSteps, key : Names \cup WireKeys \cup {NoKey},
                  result : Results]
  BY DEF CallTypeOK
<1>2. d = [at |-> p, key |-> call[t].key, result |-> call[t].result]
  BY <1>1
<1>3. [call[t] EXCEPT !.at = p, !.key = k] = [d EXCEPT !.key = k]
  BY <1>1
<1> HIDE DEF d
<1>4. [d EXCEPT !.key = k] = [at |-> p, key |-> k, result |-> call[t].result]
  BY <1>2
<1> QED
  BY <1>3, <1>4

\* A step that starts and ends no lookup.
LEMMA FlightsKept ==
  ASSUME SingleFlight, inFlight' = inFlight,
         \A u \in Callers : InFlight(u)' <=> InFlight(u),
         \A u \in Callers : InFlight(u) => call'[u].key = call[u].key
  PROVE  SingleFlight'
<1>1. {u \in Callers : InFlight(u)'} = {u \in Callers : InFlight(u)}
  OBVIOUS
<1>2. {call'[t].key : t \in {u \in Callers : InFlight(u)'}}
        = {call[t].key : t \in {u \in Callers : InFlight(u)}}
  BY <1>1
<1> QED
  BY <1>2 DEF SingleFlight

\* Every step of a caller leaves it at a place of its call, with a key that
\* belongs there.
LEMMA CallsStep ==
  ASSUME CallTypeOK, KeysFit, [Next]_vars PROVE CallTypeOK' /\ KeysFit'
<1> DEFINE Goal == CallTypeOK' /\ KeysFit'
<1> USE NamesAssumption
    DEF CallTypeOK, KeysFit, CallSteps, Asking, Looking, Names, Results
<1>1. ASSUME NEW t \in Callers, InCall(t) PROVE Goal
  <2>1. CASE CacheHit(t)
    BY <2>1 DEF CacheHit, MayLook, At, Return, Idle
  <2>2. CASE Claim(t)
    BY <2>2 DEF Claim, MayMiss, MayLook, At, Goto
  <2>3. CASE Wait(t)
    BY <2>3 DEF Wait, MayMiss, MayLook, At, Goto
  <2>4. CASE Publish(t)
    BY <2>4 DEF Publish, At, Goto
  <2>5. CASE NotifyAll(t)
    BY <2>5 DEF NotifyAll, At, Idle
  <2>6. CASE SkipRefresh(t)
    <3>1. CASE Goto(t, "mayCall")
      BY <2>6, <3>1 DEF SkipRefresh, At, Goto
    <3>2. ASSUME NEW r \in Results, Conclude(t, r) PROVE Goal
      BY <2>6, <3>2, ConcludeLeaves DEF SkipRefresh, At
    <3> QED
      BY <2>6, <3>1, <3>2 DEF SkipRefresh
  <2>7. CASE RefreshDue(t)
    BY <2>7 DEF RefreshDue, At, Goto
  <2>8. CASE RefreshBegin(t)
    BY <2>8 DEF RefreshBegin, At, Goto
  <2>9. CASE RefreshStore(t)
    BY <2>9 DEF RefreshStore, At, Goto
  <2>10. CASE RefreshEnd(t)
    BY <2>10 DEF RefreshEnd, At, Goto
  <2>11. CASE Refused(t)
    BY <2>11, ConcludeLeaves DEF Refused, At
  <2>12. CASE Fetch(t)
    BY <2>12 DEF Fetch, At, Goto
  <2>13. CASE Fetched(t)
    BY <2>13, ConcludeLeaves DEF Fetched, At
  <2>14. CASE WireAnswer(t)
    BY <2>14 DEF WireAnswer, At, Return, Idle
  <2> QED
    BY <1>1, <2>1, <2>2, <2>3, <2>4, <2>5, <2>6, <2>7, <2>8, <2>9, <2>10,
       <2>11, <2>12, <2>13, <2>14 DEF InCall
<1>2. ASSUME NEW t \in Callers, NEW k \in Names, Resolve(t, k) PROVE Goal
  <2>1. call' = [call EXCEPT ![t] = [at |-> "enter", key |-> k,
                                     result |-> call[t].result]]
    BY Zenon, <1>2, EnterLeaves DEF Resolve
  <2> QED
    BY <2>1
<1>3. ASSUME NEW t \in Callers, NEW k \in WireKeys, QueryWire(t, k) PROVE Goal
  <2>1. call' = [call EXCEPT ![t] = IF live(wireCache, k) THEN call[t]
                                    ELSE [at |-> "prepare", key |-> k,
                                          result |-> call[t].result]]
    BY Zenon, <1>3, EnterLeaves DEF QueryWire
  <2>2. CASE live(wireCache, k)
    BY <2>1, <2>2
  <2>3. CASE ~live(wireCache, k)
    BY <2>1, <2>3
  <2> QED
    BY <2>2, <2>3
<1>4. CASE clearCache
  BY <1>4 DEF clearCache
<1>5. CASE Tick \/ UNCHANGED vars
  BY SMTT(30), <1>5 DEF Tick, vars, resolverVars
<1> QED
  BY <1>1, <1>2, <1>3, <1>4, <1>5 DEF Next

\* Claim is the only way into a lookup and Publish the only way out, both under
\* mutex_: no step makes two lookups of a name overlap or leaves one behind.
LEMMA SingleFlightStep ==
  ASSUME CallTypeOK, KeysFit, SingleFlight, [Next]_vars PROVE SingleFlight'
<1> USE NamesAssumption
    DEF CallTypeOK, KeysFit, CallSteps, Asking, Looking, Names, InFlight, SingleFlight
<1>1. ASSUME NEW t \in Callers, InCall(t) PROVE SingleFlight'
  <2>1. CASE CacheHit(t)
    BY SMTT(30), <2>1 DEF CacheHit, MayLook, At, Return, Idle
  <2>2. CASE Claim(t)
    BY <2>2 DEF Claim, MayMiss, MayLook, At, Goto
  <2>3. CASE Wait(t)
    <3>1. inFlight' = inFlight /\ \A u \in Callers : call'[u].key = call[u].key
      BY SMTT(30), <2>3 DEF Wait, Goto
    <3>2. \A u \in Callers : InFlight(u)' <=> InFlight(u)
      BY <2>3 DEF Wait, MayMiss, MayLook, At, Goto
    <3> HIDE DEF SingleFlight, InFlight
    <3> QED
      BY <3>1, <3>2, FlightsKept
  <2>4. CASE Publish(t)
    BY <2>4 DEF Publish, At, Goto
  <2>5. CASE NotifyAll(t)
    <3>1. \A u \in Callers : InFlight(u)' <=> InFlight(u)
      BY <2>5 DEF NotifyAll, At, Idle
    <3>2. inFlight' = inFlight /\ \A u \in Callers : InFlight(u) => call'[u].key = call[u].key
      BY SMTT(30), <2>5 DEF NotifyAll, At, Idle
    <3> HIDE DEF SingleFlight, InFlight
    <3> QED
      BY <3>1, <3>2, FlightsKept
  <2>6. CASE SkipRefresh(t)
    <3>1. CASE Goto(t, "mayCall")
      BY <2>6, <3>1, FlightsKept DEF SkipRefresh, At, Goto
    <3>2. ASSUME NEW r \in Results, Conclude(t, r) PROVE SingleFlight'
      BY <2>6, <3>2, ConcludeLeaves, FlightsKept DEF SkipRefresh, At
    <3> QED
      BY Zenon, <2>6, <3>1, <3>2 DEF SkipRefresh, Results
  <2>7. CASE RefreshDue(t)
    BY <2>7 DEF RefreshDue, At, Goto
  <2>8. CASE RefreshBegin(t)
    BY <2>8 DEF RefreshBegin, At, Goto
  <2>9. CASE RefreshStore(t)
    BY <2>9 DEF RefreshStore, At, Goto
  <2>10. CASE RefreshEnd(t)
    BY <2>10 DEF RefreshEnd, At, Goto
  <2>11. CASE Refused(t)
    BY <2>11 DEF Refused, At, Conclude
  <2>12. CASE Fetch(t)
    BY <2>12 DEF Fetch, At, Goto
  <2>13. CASE Fetched(t)
    BY <2>13 DEF Fetched, At, Conclude
  <2>14. CASE WireAnswer(t)
    BY <2>14 DEF WireAnswer, At, Return, Idle
  <2> QED
    BY Zenon, <1>1, <2>1, <2>2, <2>3, <2>4, <2>5, <2>6, <2>7, <2>8, <2>9, <2>10,
       <2>11, <2>12, <2>13, <2>14 DEF InCall
<1>2. ASSUME NEW t \in Callers, NEW k \in Names, Resolve(t, k) PROVE SingleFlight'
  BY <1>2 DEF Resolve, At
<1>3. ASSUME NEW t \in Callers, NEW k \in WireKeys, QueryWire(t, k) PROVE SingleFlight'
  BY <1>3 DEF QueryWire, At
<1>4. CASE clearCache
  BY <1>4 DEF clearCache
<1>5. CASE Tick \/ UNCHANGED vars
  BY <1>5 DEF Tick, vars, resolverVars
<1> QED
  BY SMTT(30), <1>1, <1>2, <1>3, <1>4, <1>5 DEF Next

\* A lookup that ends has its notification left to send before its name may be
\* claimed again, so no waiter is stranded.
LEMMA WaitersStep ==
  ASSUME CallTypeOK, KeysFit, WaitersAreWoken, [Next]_vars PROVE WaitersAreWoken'
<1> USE DEF CallTypeOK, WaitersAreWoken, At
<1>1. ASSUME NEW t \in Callers, InCall(t) PROVE WaitersAreWoken'
  <2>1. CASE CacheHit(t)
    BY <2>1 DEF CacheHit, MayLook, Return, Idle
  <2>2. CASE Claim(t)
    BY <2>2 DEF Claim, MayMiss, MayLook, Goto
  <2>3. CASE Wait(t)
    BY <2>3 DEF Wait, MayMiss, MayLook, Goto
  <2>4. CASE Publish(t)
    BY <2>4 DEF Publish, Goto
  <2>5. CASE NotifyAll(t)
    BY <2>5 DEF NotifyAll, Idle
  <2>6. CASE SkipRefresh(t)
    BY Zenon, <2>6 DEF SkipRefresh, Goto, Conclude
  <2>7. CASE RefreshDue(t)
    BY <2>7 DEF RefreshDue, Goto
  <2>8. CASE RefreshBegin(t)
    BY <2>8 DEF RefreshBegin, Goto
  <2>9. CASE RefreshStore(t)
    BY <2>9 DEF RefreshStore, Goto
  <2>10. CASE RefreshEnd(t)
    BY <2>10 DEF RefreshEnd, Goto
  <2>11. CASE Refused(t)
    BY <2>11 DEF Refused, Conclude
  <2>12. CASE Fetch(t)
    BY <2>12 DEF Fetch, Goto
  <2>13. CASE Fetched(t)
    BY <2>13 DEF Fetched, Conclude
  <2>14. CASE WireAnswer(t)
    BY <2>14 DEF WireAnswer, Return, Idle
  <2> QED
    BY <1>1, <2>1, <2>2, <2>3, <2>4, <2>5, <2>6, <2>7, <2>8, <2>9, <2>10,
       <2>11, <2>12, <2>13, <2>14 DEF InCall
<1>2. ASSUME NEW t \in Callers, NEW k \in Names, Resolve(t, k) PROVE WaitersAreWoken'
  BY <1>2 DEF Resolve
<1>3. ASSUME NEW t \in Callers, NEW k \in WireKeys, QueryWire(t, k) PROVE WaitersAreWoken'
  BY <1>3 DEF QueryWire
<1>4. CASE clearCache
  BY <1>4 DEF clearCache
<1>5. CASE Tick \/ UNCHANGED vars
  BY <1>5 DEF Tick, vars, resolverVars
<1> QED
  BY SMTT(30), <1>1, <1>2, <1>3, <1>4, <1>5 DEF Next

\* The Worker's entry is never a victim of make-room, never dropped by
\* clearCache() and only ever replaced by one that does not expire.
LEMMA BootstrapStep ==
  ASSUME CallTypeOK, KeysFit, BootstrapIsForever, [Next]_vars
  PROVE  /\ BootstrapIsForever'
         /\ hasBootstrap => hasBootstrap' /\ cache'[workerHost] = kNeverExpires
<1> DEFINE Goal ==
      /\ BootstrapIsForever'
      /\ hasBootstrap => hasBootstrap' /\ cache'[workerHost] = kNeverExpires
<1> USE DEF BootstrapIsForever, hasBootstrap
<1>1. CASE cache' = cache
  BY <1>1
<1>2. ASSUME NEW t \in Callers, Publish(t) PROVE Goal
  <2> DEFINE k == call[t].key
  <2>1. k \in Keys /\ k # workerHost
    BY <1>2, NamesAssumption DEF Publish, At, KeysFit, Looking
  <2>2. PICK V \in victims(cache, k, kMaxCacheEntries) :
          cache' = put(drop(cache, V), k, now + Lifetime[call[t].result])
    BY <1>2 DEF Publish
  <2>3. workerHost \notin V
    BY <2>2 DEF victims, oldest
  <2> HIDE DEF k
  <2> QED
    BY <2>1, <2>2, <2>3 DEF put, drop
<1>3. ASSUME NEW t \in Callers, RefreshStore(t) PROVE Goal
  BY <1>3 DEF RefreshStore, put
<1>4. CASE clearCache
  BY <1>4, NamesAssumption DEF clearCache, drop
<1>5. ASSUME NEW t \in Callers, InCall(t), ~Publish(t), ~RefreshStore(t) PROVE cache' = cache
  BY SMTT(30), <1>5 DEF InCall, CacheHit, Claim, Wait, NotifyAll, SkipRefresh, RefreshDue,
              RefreshBegin, RefreshEnd, Refused, Fetch, Fetched, WireAnswer
<1>6. ASSUME NEW t \in Callers, \/ \E k \in Names : Resolve(t, k)
                                \/ \E k \in WireKeys : QueryWire(t, k)
      PROVE  cache' = cache
  BY Zenon, <1>6 DEF Resolve, QueryWire
<1>7. CASE Tick \/ UNCHANGED vars
  BY <1>1, <1>7 DEF Tick, vars, resolverVars
<1> QED
  BY <1>1, <1>2, <1>3, <1>4, <1>5, <1>6, <1>7 DEF Next

\* The constructor leaves no call and no lookup, and the Worker's addresses
\* without an expiry if it found them.
LEMMA ResolverInit == Init => ResolverInv
<1> SUFFICES ASSUME Init PROVE ResolverInv
  OBVIOUS
<1>1. CallTypeOK /\ KeysFit
  BY DEF Init, Idle, CallTypeOK, KeysFit, CallSteps, Asking, Looking, Results
<1>2. \A t \in Callers : call[t].at = "idle"
  BY DEF Init, Idle
<1>3. SingleFlight /\ WaitersAreWoken
  BY <1>2 DEF Init, SingleFlight, InFlight, WaitersAreWoken, At
<1>4. BootstrapIsForever
  BY DEF Init, BootstrapIsForever, hasBootstrap
<1> QED
  BY <1>1, <1>3, <1>4 DEF ResolverInv

\* The inductive invariant of the resolver.
LEMMA ResolverInvariant == Spec => []ResolverInv
<1>1. ResolverInv /\ [Next]_vars => ResolverInv'
  BY CallsStep, SingleFlightStep, WaitersStep, BootstrapStep DEF ResolverInv
<1> QED
  BY <1>1, ResolverInit, PTL DEF Spec

\* Resolver::resolve: inFlight_ holds exactly the names that a caller is looking
\* up, and each name has one such caller, whatever fails on the way.
THEOREM SingleFlightTheorem == Spec => []SingleFlight
  BY ResolverInvariant, PTL DEF ResolverInv

\* Resolver::resolve: a caller asleep on cacheReady_ has a lookup in flight to
\* wait for or a notify_all() that is still to come; no wake-up is lost although
\* the notification is sent after the lock is released.
THEOREM WaitersTheorem == Spec => []WaitersAreWoken
  BY ResolverInvariant, PTL DEF ResolverInv

\* resolve's eviction, refreshBootstrap and clearCache: the Worker's addresses,
\* once in the cache, stay there without an expiry, at every cache size.
THEOREM BootstrapTheorem == Spec => BootstrapKept
<1>1. ResolverInv /\ [Next]_vars
        => [hasBootstrap => hasBootstrap' /\ cache'[workerHost] = kNeverExpires]_vars
  BY BootstrapStep DEF ResolverInv
<1> QED
  BY <1>1, ResolverInvariant, PTL DEF Spec, BootstrapKept

-----------------------------------------------------------------------------
(* Operators                                                               *)

\* The larger of two numbers, as the count of open queries needs it.
LEMMA MaxOfTwo ==
  ASSUME NEW a \in Int, NEW b \in Int
  PROVE  Max({a, b}) = IF a >= b THEN a ELSE b
<1>1. \E x \in {a, b} : \A y \in {a, b} : x >= y
  OBVIOUS
<1>2. Max({a, b}) \in {a, b} /\ \A y \in {a, b} : Max({a, b}) >= y
  BY Zenon, <1>1 DEF Max
<1> QED
  BY <1>2

\* The smaller of two numbers, as the counters with a cap need it.
LEMMA MinOfTwo ==
  ASSUME NEW a \in Int, NEW b \in Int
  PROVE  Min({a, b}) = IF a <= b THEN a ELSE b
<1>1. \E x \in {a, b} : \A y \in {a, b} : x <= y
  OBVIOUS
<1>2. Min({a, b}) \in {a, b} /\ \A y \in {a, b} : Min({a, b}) <= y
  BY Zenon, <1>1 DEF Min
<1> QED
  BY <1>2

\* What a sweep or an eviction leaves of a table is a part of it.
LEMMA RestrictIsPart ==
  ASSUME NEW f, NEW S \in SUBSET (DOMAIN f)
  PROVE  IsRestriction(Restrict(f, S), f) /\ DOMAIN Restrict(f, S) = S
  BY Zenon DEF IsRestriction, Restrict

\* A part of a part is a part.
LEMMA PartOfPart ==
  ASSUME NEW f, NEW g, NEW h, IsRestriction(f, g), IsRestriction(g, h)
  PROVE  IsRestriction(f, h)
  BY Zenon DEF IsRestriction

-----------------------------------------------------------------------------
(* DatagramRegistry                                                        *)

\* An entry of the registry that is alive is as young as the last query of its
\* pair, and counts no more queries than are unclaimed.
PairBacked(entry, queries, age) ==
    /\ entry \in [pending : 1..kMaxPendingDatagramsPerTuple, left : Nat]
    /\ entry.left > 0 => entry.pending <= queries /\ entry.left + age <= kDatagramTtl

DatagramInv ==
    /\ unclaimed \in [Askers -> Nat] /\ sinceQuery \in [Askers -> 0..kDatagramTtl]
    /\ DOMAIN pendings \subseteq Askers
    /\ \A a \in DOMAIN pendings : PairBacked(pendings[a], unclaimed[a], sinceQuery[a])

\* Making room only takes entries away.
LEMMA DatagramRoomIsPart ==
  ASSUME NEW f, NEW room \in datagramRoom(f)
  PROVE  IsRestriction(room, f)
<1> DEFINE swept == unexpired(f)
<1>1. IsRestriction(swept, f)
  BY Zenon, RestrictIsPart DEF unexpired
<1>2. IsRestriction(f, f)
  BY Zenon DEF IsRestriction
<1>3. ASSUME NEW o PROVE IsRestriction(Restrict(swept, DOMAIN swept \ {o}), f)
  BY Zenon, <1>1, RestrictIsPart, PartOfPart
<1> QED
  BY Zenon, <1>1, <1>2, <1>3 DEF datagramRoom

\* A reflected query: the entry it leaves counts at most the queries that are
\* unclaimed now, the others are as they were or gone.
LEMMA ReflectKeeps ==
  ASSUME DatagramInv, NEW a \in Askers, Reflect(a) PROVE DatagramInv'
<1> DEFINE K == kMaxPendingDatagramsPerTuple
           f == IF datagramPruneIn = 0 THEN unexpired(pendings) ELSE pendings
           one == [pending |-> 1, left |-> kDatagramTtl]
           more == [pending |-> Min({stillPending(f, a) + 1, K}), left |-> kDatagramTtl]
<1>1. K \in Nat \ {0} /\ kDatagramTtl \in Nat \ {0}
  BY Zenon, DatagramConstants
<1>2. IsRestriction(f, pendings)
  BY Zenon, RestrictIsPart DEF unexpired, IsRestriction
<1>3. unclaimed[a] \in Nat /\ Min({unclaimed[a] + 1, K + 1})
        = IF unclaimed[a] <= K THEN unclaimed[a] + 1 ELSE K + 1
  BY <1>1, MinOfTwo DEF DatagramInv
<1>4. /\ unclaimed' = [unclaimed EXCEPT ![a] = Min({unclaimed[a] + 1, K + 1})]
      /\ sinceQuery' = [sinceQuery EXCEPT ![a] = 0]
  BY Zenon DEF Reflect
<1>5. unclaimed' \in [Askers -> Nat] /\ sinceQuery' \in [Askers -> 0..kDatagramTtl]
  BY <1>1, <1>3, <1>4 DEF DatagramInv
<1>6. ASSUME NEW x \in DOMAIN f, x # a
      PROVE  x \in Askers /\ PairBacked(f[x], unclaimed'[x], sinceQuery'[x])
  BY Zenon, <1>2, <1>4, <1>6 DEF DatagramInv, PairBacked, IsRestriction
<1>7. PairBacked(one, unclaimed'[a], sinceQuery'[a])
  BY <1>1, <1>3, <1>4 DEF PairBacked, DatagramInv
<1>8. CASE a \in DOMAIN f
  <2>1. pendings' = [f EXCEPT ![a] = more]
    BY Zenon, <1>8 DEF Reflect, observeDatagram
  <2>2. stillPending(f, a) \in 0..K /\ stillPending(f, a) <= unclaimed[a]
    BY <1>1, <1>2, <1>3, <1>8 DEF stillPending, DatagramInv, PairBacked, IsRestriction
  <2>3. Min({stillPending(f, a) + 1, K})
          = IF stillPending(f, a) + 1 <= K THEN stillPending(f, a) + 1 ELSE K
    BY SMTT(30), <1>1, <2>2, MinOfTwo
  <2> HIDE DEF f, K
  <2>4. PairBacked(more, unclaimed'[a], sinceQuery'[a])
    BY <1>1, <1>3, <1>4, <2>2, <2>3 DEF PairBacked, DatagramInv, K
  <2> HIDE DEF more
  <2> QED
    BY Zenon, <1>2, <1>5, <1>6, <2>1, <2>4 DEF DatagramInv, IsRestriction
<1>9. CASE a \notin DOMAIN f
  <2>1. PICK room \in datagramRoom(f) :
          pendings' = [x \in DOMAIN room \cup {a} |-> IF x = a THEN one ELSE room[x]]
    BY Zenon, <1>9 DEF Reflect, observeDatagram
  <2>2. IsRestriction(room, f)
    BY Zenon, DatagramRoomIsPart
  <2> HIDE DEF f, one
  <2> QED
    BY Zenon, <1>5, <1>6, <1>7, <2>1, <2>2 DEF DatagramInv, IsRestriction
<1> QED
  BY Zenon, <1>8, <1>9

\* A datagram at the relay: a claim takes one query off both counts.
LEMMA ReceiveKeeps ==
  ASSUME DatagramInv, NEW a \in Askers, ReceiveDatagram(a) PROVE DatagramInv'
<1>1. sinceQuery' = sinceQuery
  BY Zenon DEF ReceiveDatagram
<1>2. CASE claimable(a) /\ pendings[a].pending > 1
  <2>1. unclaimed[a] \in Nat /\ unclaimed[a] > 1
    BY <1>2 DEF claimable, DatagramInv, PairBacked
  <2>2. unclaimed' = [unclaimed EXCEPT ![a] = unclaimed[a] - 1]
    <3>1. Max({0, unclaimed[a] - 1}) = unclaimed[a] - 1
      BY <2>1, MaxOfTwo
    <3> QED
      BY Zenon, <1>2, <3>1 DEF ReceiveDatagram
  <2>3. pendings' = [pendings EXCEPT ![a].pending = pendings[a].pending - 1]
    BY Zenon, <1>2 DEF ReceiveDatagram, claimDatagram
  <2>4. PairBacked(pendings'[a], unclaimed'[a], sinceQuery'[a])
    <3>1. PairBacked(pendings[a], unclaimed[a], sinceQuery[a]) /\ pendings[a].left > 0
      BY Zenon, <1>2 DEF claimable, DatagramInv
    <3>2. pendings'[a] = [pendings[a] EXCEPT !.pending = pendings[a].pending - 1]
      BY Zenon, <1>2, <2>3 DEF claimable
    <3>3. /\ pendings'[a] \in [pending : 1..kMaxPendingDatagramsPerTuple, left : Nat]
          /\ pendings'[a].left = pendings[a].left
          /\ pendings'[a].pending = pendings[a].pending - 1
      BY <1>2, <3>1, <3>2, DatagramConstants DEF PairBacked
    <3> QED
      BY <1>1, <2>1, <2>2, <3>1, <3>3 DEF PairBacked, DatagramInv
  <2> QED
    BY SMTT(30), <1>1, <2>1, <2>2, <2>3, <2>4 DEF DatagramInv, PairBacked
<1>3. CASE ~(claimable(a) /\ pendings[a].pending > 1)
  <2>1. pendings' = Restrict(pendings, DOMAIN pendings \ {a})
    BY Zenon, <1>3 DEF ReceiveDatagram, claimDatagram
  <2>2. \/ unclaimed' = unclaimed
        \/ unclaimed' = [unclaimed EXCEPT ![a] = Max({0, unclaimed[a] - 1})]
    BY Zenon DEF ReceiveDatagram
  <2>3. Max({0, unclaimed[a] - 1}) \in Nat
    BY MaxOfTwo DEF DatagramInv
  <2>4. unclaimed' \in [Askers -> Nat] /\ \A x \in Askers \ {a} : unclaimed'[x] = unclaimed[x]
    BY Zenon, <2>2, <2>3 DEF DatagramInv
  <2> QED
    BY Zenon, <1>1, <2>1, <2>4 DEF DatagramInv, PairBacked, Restrict
<1> QED
  BY Zenon, <1>2, <1>3

\* Time: an entry dies no later than the history of its pair.
LEMMA DatagramTickKeeps ==
  ASSUME DatagramInv, datagramTick PROVE DatagramInv'
<1>1. kDatagramTtl \in Nat \ {0}
  BY Zenon, DatagramConstants
<1>2. ASSUME NEW a \in Askers
      PROVE  /\ sinceQuery'[a] = IF sinceQuery[a] < kDatagramTtl THEN sinceQuery[a] + 1
                                                                 ELSE kDatagramTtl
             /\ unclaimed'[a] = IF sinceQuery'[a] = kDatagramTtl THEN 0 ELSE unclaimed[a]
  <2>1. sinceQuery[a] \in Nat /\ sinceQuery[a] <= kDatagramTtl
    BY DEF DatagramInv
  <2>2. Min({kDatagramTtl, sinceQuery[a] + 1})
          = IF kDatagramTtl <= sinceQuery[a] + 1 THEN kDatagramTtl ELSE sinceQuery[a] + 1
    BY <1>1, <2>1, MinOfTwo
  <2>3. /\ sinceQuery'[a] = Min({kDatagramTtl, sinceQuery[a] + 1})
        /\ unclaimed'[a] = IF sinceQuery'[a] = kDatagramTtl THEN 0 ELSE unclaimed[a]
    BY Zenon DEF datagramTick
  <2>4. (IF kDatagramTtl <= sinceQuery[a] + 1 THEN kDatagramTtl ELSE sinceQuery[a] + 1)
          = IF sinceQuery[a] < kDatagramTtl THEN sinceQuery[a] + 1 ELSE kDatagramTtl
    BY <1>1, <2>1
  <2> QED
    BY Zenon, <2>2, <2>3, <2>4
<1>3. unclaimed' \in [Askers -> Nat] /\ sinceQuery' \in [Askers -> 0..kDatagramTtl]
  BY <1>1, <1>2 DEF datagramTick, DatagramInv
<1>4. DOMAIN pendings' = DOMAIN pendings
  BY Zenon DEF datagramTick
<1>5. ASSUME NEW a \in DOMAIN pendings PROVE PairBacked(pendings'[a], unclaimed'[a], sinceQuery'[a])
  <2>1. a \in Askers /\ PairBacked(pendings[a], unclaimed[a], sinceQuery[a])
    BY Zenon DEF DatagramInv
  <2>2. pendings[a].left \in Nat
    BY Zenon, <2>1 DEF PairBacked
  <2>3. Max({0, pendings[a].left - 1})
          = IF pendings[a].left > 0 THEN pendings[a].left - 1 ELSE 0
    BY <2>2, MaxOfTwo
  <2>4. pendings'[a] = [pendings[a] EXCEPT !.left =
                          IF pendings[a].left > 0 THEN pendings[a].left - 1 ELSE 0]
    BY Zenon, <2>3 DEF datagramTick
  <2>5. /\ pendings'[a] \in [pending : 1..kMaxPendingDatagramsPerTuple, left : Nat]
        /\ pendings'[a].pending = pendings[a].pending
        /\ pendings'[a].left = IF pendings[a].left > 0 THEN pendings[a].left - 1 ELSE 0
    BY <2>1, <2>2, <2>4 DEF PairBacked
  <2>6. unclaimed[a] \in Nat /\ sinceQuery[a] \in Nat
    BY <2>1 DEF DatagramInv
  <2> QED
    BY <1>1, <1>2, <2>1, <2>2, <2>5, <2>6 DEF PairBacked
<1> QED
  BY Zenon, <1>3, <1>4, <1>5 DEF DatagramInv

\* DatagramRegistry::observe and claim: whatever sweeps, evictions, caps and
\* late datagrams do, a pair is never granted more answers than queries of it
\* were reflected, and none when its last query is too old, for any registry
\* size, lifetime and cap.
THEOREM DatagramTheorem == DatagramSpec => []DatagramGrantsAreBacked
<1>1. DatagramInit => DatagramInv
  BY DatagramConstants DEF DatagramInit, DatagramInv
<1>2. DatagramInv /\ [DatagramNext]_datagramVars => DatagramInv'
  <2> SUFFICES ASSUME DatagramInv, [DatagramNext]_datagramVars PROVE DatagramInv'
    BY Zenon
  <2>1. CASE datagramClear
    BY <2>1 DEF datagramClear, DatagramInv
  <2>2. CASE UNCHANGED datagramVars
    BY Zenon, <2>2 DEF datagramVars, DatagramInv, PairBacked
  <2> QED
    BY Zenon, <2>1, <2>2, ReflectKeeps, ReceiveKeeps, DatagramTickKeeps DEF DatagramNext
<1>3. DatagramInv => DatagramGrantsAreBacked
  BY DatagramConstants DEF DatagramInv, PairBacked, DatagramGrantsAreBacked, claimable
<1> QED
  BY <1>1, <1>2, <1>3, PTL DEF DatagramSpec

=============================================================================
