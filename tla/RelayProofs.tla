---------------------------- MODULE RelayProofs -----------------------------
(***************************************************************************)
(* Proofs about what a session of the relay goes through: the name of the  *)
(* network (NetworkIdentity), the race of the connects (TcpConnect), the   *)
(* pump (Pump) and the health of the Worker (WorkerHealth), for any number *)
(* of callers, addresses and threads and every size of the buffers.        *)
(***************************************************************************)
EXTENDS NetworkIdentity, TcpConnect, Pump, WorkerHealth, FiniteSetTheorems,
        WellFoundedInduction, TLAPS

-----------------------------------------------------------------------------
(* NetworkIdentity                                                         *)

Calls == [at : {"idle", "look", "fetch", "publish"}, age : 0 .. MaxCallMs,
          fetched : Identities \union {Nothing}, seenAge : Nat]

\* The part of the types the property needs.
AgesOK ==
    /\ fetchedAge \in Ages /\ seenAge \in Ages
    /\ caller \in [Callers -> Calls]

\* The inductive invariant: a name is read after the time it is stamped with,
\* both once it is published and while a thread carries it to the lock.
StampedBeforeRead ==
    /\ AgesOK
    /\ seenAge <= fetchedAge \/ couldNotTell = TRUE
    /\ \A c \in Callers : caller[c].at = "publish" => caller[c].seenAge <= caller[c].age

\* The durations are natural numbers, and an old age is past every life time.
LEMMA AgesAreNumbers == ttl \in Nat /\ MaxCallMs \in Nat /\ OldAge \in Nat /\ MaxCallMs < OldAge
BY IdentityAssumption DEF OldAge

\* A call that starts or ends carries nothing.
LEMMA IdleIsACall == Idle \in Calls
BY AgesAreNumbers DEF Idle, Calls

\* Nothing is cached before the first call.
LEMMA StampedInit == IdentityInit => StampedBeforeRead
BY AgesAreNumbers, IdleIsACall DEF IdentityInit, StampedBeforeRead, AgesOK, Ages, Idle

\* A thread that enters, answers, or goes off to fetch changes no stamp.
LEMMA LooksKeep ==
    ASSUME StampedBeforeRead, NEW c \in Callers, Enters(c) \/ Answers(c) \/ Refreshes(c)
    PROVE  StampedBeforeRead'
<1> USE DEF StampedBeforeRead, AgesOK
<1>1. caller' \in [Callers -> Calls]
  BY IdleIsACall, AgesAreNumbers DEF Enters, Answers, Refreshes, Calls, Idle
<1>2. \A d \in Callers : caller'[d].at = "publish" => caller'[d] = caller[d]
  BY DEF Enters, Answers, Refreshes, Calls, Idle
<1>3. fetchedAge' = fetchedAge /\ seenAge' = seenAge /\ couldNotTell' = couldNotTell
  BY Zenon DEF Enters, Answers, Refreshes
<1> QED
  BY Zenon, <1>1, <1>2, <1>3

\* A name is read at this moment, and the call began before it.
LEMMA FetchesKeep ==
    ASSUME StampedBeforeRead, NEW c \in Callers, Fetches(c)
    PROVE  StampedBeforeRead'
<1> USE DEF StampedBeforeRead, AgesOK
<1> PICK id \in Identities :
        caller' = [caller EXCEPT ![c].at = "publish", ![c].fetched = id, ![c].seenAge = 0]
  BY Zenon DEF Fetches
<1>0. [caller[c] EXCEPT !.at = "publish", !.fetched = id, !.seenAge = 0] \in Calls
  BY Zenon, AgesAreNumbers DEF Calls
<1>1. caller' \in [Callers -> Calls]
  BY Zenon, <1>0
<1>2. caller'[c].seenAge = 0 /\ caller'[c].age = caller[c].age /\ caller[c].age \in Nat
  BY AgesAreNumbers DEF Calls
<1>3. \A d \in Callers \ {c} : caller'[d] = caller[d]
  BY Zenon
<1>4. fetchedAge' = fetchedAge /\ seenAge' = seenAge /\ couldNotTell' = couldNotTell
  BY Zenon DEF Fetches
<1> QED
  BY <1>1, <1>2, <1>3, <1>4

\* The stamp that is published is the one taken before the fetch.
LEMMA PublishesKeep ==
    ASSUME StampedBeforeRead, NEW c \in Callers, Publishes(c)
    PROVE  StampedBeforeRead'
<1> USE DEF StampedBeforeRead, AgesOK
<1>1. caller' = [caller EXCEPT ![c] = Idle] /\ fetchedAge' = caller[c].age
  BY Zenon DEF Publishes
<1>2. caller' \in [Callers -> Calls]
  BY Zenon, <1>1, IdleIsACall
<1>3. /\ caller[c].age \in 0 .. MaxCallMs /\ caller[c].seenAge \in Nat
      /\ caller[c].seenAge <= caller[c].age
  BY Zenon DEF Publishes, Calls
<1>4. fetchedAge' \in Ages
  BY <1>1, <1>3, AgesAreNumbers DEF Ages
<1>5. \/ seenAge' = caller[c].seenAge /\ couldNotTell' = FALSE
      \/ seenAge' = seenAge /\ couldNotTell' = TRUE
  BY Zenon DEF Publishes
<1>6. seenAge' \in Ages
  BY <1>3, <1>5, AgesAreNumbers DEF Ages
<1>7. seenAge' <= fetchedAge' \/ couldNotTell' = TRUE
  BY Zenon, <1>1, <1>3, <1>5
<1>8. \A d \in Callers : caller'[d].at = "publish" => caller'[d] = caller[d]
  BY Zenon, <1>1 DEF Idle
<1> QED
  BY Zenon, <1>2, <1>4, <1>6, <1>7, <1>8

\* Time makes both ages older, and cuts both off at the same age.
LEMMA TickKeeps ==
    ASSUME StampedBeforeRead, IdentityTick
    PROVE  StampedBeforeRead'
<1> USE DEF StampedBeforeRead, AgesOK
<1>0. /\ fetchedAge' = older(fetchedAge) /\ seenAge' = older(seenAge)
      /\ couldNotTell' = couldNotTell
  BY Zenon DEF IdentityTick
<1>1. fetchedAge' \in Ages /\ seenAge' \in Ages
  BY <1>0, AgesAreNumbers DEF older, Ages
<1>2. seenAge' <= fetchedAge' \/ couldNotTell' = TRUE
  BY <1>0, AgesAreNumbers DEF older, Ages
<1>3. ASSUME NEW d \in Callers
      PROVE  /\ caller'[d] \in Calls
             /\ caller'[d].at = "publish" => caller'[d].seenAge <= caller'[d].age
  <2>1. caller[d] \in Calls /\ (caller[d].at # "idle" => caller[d].age < MaxCallMs)
    BY Zenon DEF IdentityTick
  <2>2. caller'[d] =
          [caller[d] EXCEPT !.age = IF caller[d].at = "idle" THEN 0 ELSE @ + 1,
                            !.seenAge = IF caller[d].at = "publish" THEN @ + 1 ELSE 0]
    BY Zenon DEF IdentityTick
  <2>3. /\ caller'[d].at = caller[d].at /\ caller'[d].fetched = caller[d].fetched
        /\ caller'[d].age \in 0 .. MaxCallMs /\ caller'[d].seenAge \in Nat
    BY <2>1, <2>2, AgesAreNumbers DEF Calls
  <2>4. caller'[d] \in Calls
    BY Zenon, <2>1, <2>2, <2>3 DEF Calls
  <2>5. caller'[d].at = "publish" => caller'[d].seenAge <= caller'[d].age
    BY <2>1, <2>2, <2>3, AgesAreNumbers DEF Calls
  <2> QED
    BY Zenon, <2>4, <2>5
<1>4. caller' \in [Callers -> Calls]
  BY Zenon, <1>3 DEF IdentityTick
<1> QED
  BY Zenon, <1>1, <1>2, <1>3, <1>4

\* However late a slow fetch is published, and in whichever order, the name a
\* caller takes for fresh was read less than ttl_ before its call, or the last
\* fetch could not tell (CachedIdentity::get).
THEOREM FreshTheorem == IdentitySpec => []FreshIdentityIsRecent
<1>1. IdentityInit => StampedBeforeRead
  BY Zenon, StampedInit
<1>2. StampedBeforeRead /\ [IdentityNext]_identityVars => StampedBeforeRead'
  <2>1. ASSUME StampedBeforeRead, IdentityNext PROVE StampedBeforeRead'
    BY Zenon, <2>1, LooksKeep, FetchesKeep, PublishesKeep, TickKeeps DEF IdentityNext
  <2>2. ASSUME StampedBeforeRead, UNCHANGED identityVars PROVE StampedBeforeRead'
    BY Zenon, <2>2 DEF StampedBeforeRead, AgesOK, identityVars
  <2> QED
    BY Zenon, <2>1, <2>2
<1>3. StampedBeforeRead => FreshIdentityIsRecent
  BY AgesAreNumbers
  DEF StampedBeforeRead, AgesOK, Calls, Ages, FreshIdentityIsRecent, fresh
<1> QED
  BY <1>1, <1>2, <1>3, PTL DEF IdentitySpec

-----------------------------------------------------------------------------
(* WorkerHealth                                                            *)

\* What makes LatchNeedsSustainedFailures inductive: the counters describe the
\* last failures of the history.
CountersDescribeStreak ==
    /\ failures <= Len(streak)
    /\ failures > 0 =>
         /\ lastFailureMs = streak[Len(streak)]
         /\ streakStartMs = streak[Len(streak) - failures + 1]
         /\ streakStartMs <= lastFailureMs
         /\ Sustained(Len(streak) - failures + 1)
    /\ unavailable => /\ failures >= kWorkerFailureThreshold
                      /\ lastFailureMs - streakStartMs >= kWorkerMinStreakMs


\* The unsigned difference of two stamps is the difference when the first is
\* not older, and exceeds every gap when it is.
LEMMA UnsignedDifference ==
    ASSUME NEW a \in 0..MaxMs, NEW b \in 0..MaxMs
    PROVE  /\ a >= b => minus(a, b) = a - b
           /\ a < b => minus(a, b) > kWorkerFailureGapMs
<1>1. CASE a >= b
  <2>1. a - b \in 0..(Word - 1)
    BY <1>1, WordAssumption, MsAssumption
  <2>2. (a - b) % Word = a - b
    BY <2>1, WordAssumption
  <2> QED
    BY <1>1, <2>2 DEF minus
<1>2. CASE a < b
  <2>1. a - b + Word \in 0..(Word - 1) /\ a - b + Word > kWorkerFailureGapMs
    BY <1>2, WordAssumption, MsAssumption
  <2>2. (a - b) % Word = a - b + Word
    BY <2>1, WordAssumption
  <2> QED
    BY <1>2, <2>1, <2>2 DEF minus
<1> QED
  BY Zenon, <1>1, <1>2

\* A stamp taken before the clock moved on is still a stamp.
LEMMA SeqWidens ==
    ASSUME NEW a \in Nat, NEW b \in Nat, a <= b, NEW s \in Seq(0..a)
    PROVE  s \in Seq(0..b)
<1>1. 0..a \subseteq 0..b
  OBVIOUS
<1> QED
  BY <1>1

\* Every step keeps the types (all of observe, the callers and the clock).
LEMMA TypeStep == TypeOK /\ [Next]_vars => TypeOK'
<1> SUFFICES ASSUME TypeOK, [Next]_vars PROVE TypeOK'
  BY Zenon
<1> USE DEF TypeOK
<1>1. CASE Tick
  <2>1. streak' \in Seq(0..now')
    BY <1>1, SeqWidens, MsAssumption, WordAssumption DEF Tick
  <2>2. stamp' \in [Threads -> 0..now']
    <3>1. 0..now \subseteq 0..now'
      BY <1>1 DEF Tick
    <3> QED
      BY Zenon, <1>1, <3>1 DEF Tick
  <2> QED
    BY <1>1, <2>1, <2>2, WordAssumption DEF Tick, healthVars
<1>2. ASSUME NEW t \in Threads, Call(t) PROVE TypeOK'
  BY Zenon, <1>2 DEF Call, healthVars
<1>3. ASSUME NEW t \in Threads, Answered(t) PROVE TypeOK'
  BY <1>3 DEF Answered, healthVars
<1>4. ASSUME NEW t \in Threads, observe(t) PROVE TypeOK'
  <2>0. /\ now' = now /\ stamp' = stamp /\ stamp[t] \in 0..now
        /\ calls' \in [Threads -> {"idle", "calling", "stamped"}]
    BY Zenon, <1>4 DEF observe
  <2>1. CASE ObserveLatched(t)
    BY Zenon, <2>0, <2>1 DEF ObserveLatched, healthVars
  <2>2. ASSUME NEW r \in RetryAfters, ObserveRateLimit(t, r) PROVE TypeOK'
    BY <2>0, <2>2, MsAssumption DEF ObserveRateLimit
  <2>3. CASE ObserveSuccess(t)
    BY <2>0, <2>3 DEF ObserveSuccess
  <2>4. CASE ObserveFailure(t)
    <3>1. streak' \in Seq(0..now')
      BY <2>0, <2>4 DEF ObserveFailure
    <3>2. failures' \in Nat /\ streakStartMs' \in 0..now'
      BY <2>0, <2>4 DEF ObserveFailure
    <3>3. unavailable' \in BOOLEAN
      BY Zenon, <2>4 DEF ObserveFailure
    <3> QED
      BY Zenon, <2>0, <2>4, <3>1, <3>2, <3>3 DEF ObserveFailure
  <2> QED
    BY Zenon, <1>4, <2>1, <2>2, <2>3, <2>4 DEF observe
<1>5. CASE UNCHANGED vars
  BY Zenon, <1>5 DEF vars, healthVars
<1> QED
  BY Zenon, <1>1, <1>2, <1>3, <1>4, <1>5 DEF Next

\* A failure extends the run it belongs to, or opens a new one.
LEMMA FailureExtendsStreak ==
    ASSUME TypeOK, CountersDescribeStreak, ~unavailable,
           NEW t \in Threads, ObserveFailure(t)
    PROVE  CountersDescribeStreak'
<1> DEFINE n == Len(streak)
           f == n - failures + 1
<1> USE DEF TypeOK
<1>1. /\ stamp[t] \in 0..now /\ stamp[t] \in 0..MaxMs
      /\ lastFailureMs \in 0..MaxMs /\ streakStartMs \in 0..MaxMs
  BY WordAssumption
<1>2. /\ n \in Nat /\ Len(streak') = n + 1
      /\ streak'[n + 1] = stamp[t]
      /\ \A j \in 1..n : streak'[j] = streak[j] /\ streak[j] \in 0..now
  BY <1>1 DEF ObserveFailure
<1>3. CASE startsStreak(t)
  <2>1. /\ failures' = 1 /\ streakStartMs' = stamp[t] /\ lastFailureMs' = stamp[t]
    BY Zenon, <1>3 DEF ObserveFailure
  <2>2. unavailable' => /\ failures' >= kWorkerFailureThreshold
                        /\ lastFailureMs' - streakStartMs' >= kWorkerMinStreakMs
    <3>1. unavailable' => /\ failures' >= kWorkerFailureThreshold
                          /\ minus(stamp[t], streakStartMs') >= kWorkerMinStreakMs
      BY Zenon DEF ObserveFailure
    <3>2. minus(stamp[t], streakStartMs') = stamp[t] - streakStartMs'
      BY <1>1, <2>1, UnsignedDifference
    <3> QED
      BY Zenon, <2>1, <3>1, <3>2
  <2> QED
    BY <1>1, <1>2, <2>1, <2>2 DEF CountersDescribeStreak, Sustained
<1>4. CASE ~startsStreak(t)
  <2>1. /\ failures > 0 /\ failures' = failures + 1
        /\ streakStartMs' = streakStartMs /\ lastFailureMs' = stamp[t]
    BY <1>4 DEF ObserveFailure, startsStreak
  <2>2. /\ stamp[t] >= lastFailureMs
        /\ stamp[t] - lastFailureMs <= kWorkerFailureGapMs
    BY <1>1, <1>4, UnsignedDifference, MsAssumption DEF startsStreak
  <2>3. /\ lastFailureMs = streak[n] /\ streakStartMs = streak[f]
        /\ streakStartMs <= lastFailureMs /\ f \in 1..n
        /\ \A j \in f..(n - 1) : /\ streak[j] <= streak[j + 1]
                                 /\ streak[j + 1] - streak[j] <= kWorkerFailureGapMs
    BY <1>2, <2>1 DEF CountersDescribeStreak, Sustained
  <2>4. \A j \in f..n : /\ streak'[j] <= streak'[j + 1]
                        /\ streak'[j + 1] - streak'[j] <= kWorkerFailureGapMs
    <3> SUFFICES ASSUME NEW j \in f..n
                 PROVE  /\ streak'[j] <= streak'[j + 1]
                        /\ streak'[j + 1] - streak'[j] <= kWorkerFailureGapMs
      BY Zenon
    <3>1. CASE j = n
      BY SMTT(30), <1>2, <2>2, <2>3, <3>1
    <3>2. CASE j # n
      <4>1. j \in f..(n - 1) /\ j \in 1..n /\ j + 1 \in 1..n
        BY <1>2, <2>1, <2>3, <3>2
      <4> QED
        BY Zenon, <1>2, <2>3, <4>1
    <3> QED
      BY Zenon, <3>1, <3>2
  <2>5. Len(streak') - failures' + 1 = f
    BY <1>2, <2>1
  <2>6. Sustained(Len(streak) - failures + 1)'
    BY <1>2, <2>4, <2>5 DEF Sustained
  <2>7. unavailable' => /\ failures' >= kWorkerFailureThreshold
                        /\ lastFailureMs' - streakStartMs' >= kWorkerMinStreakMs
    <3>1. unavailable' => /\ failures' >= kWorkerFailureThreshold
                          /\ minus(stamp[t], streakStartMs') >= kWorkerMinStreakMs
      BY Zenon DEF ObserveFailure
    <3>2. minus(stamp[t], streakStartMs') = stamp[t] - streakStartMs'
      <4>1. stamp[t] >= streakStartMs
        BY SMTT(30), <1>1, <2>2, <2>3
      <4> QED
        BY Zenon, <1>1, <2>1, <4>1, UnsignedDifference
    <3> QED
      BY Zenon, <2>1, <3>1, <3>2
  <2>8. streakStartMs' = streak'[f] /\ lastFailureMs' = streak'[n + 1]
    BY Zenon, <1>2, <2>1, <2>3
  <2> QED
    BY SMTT(30), <1>1, <1>2, <2>1, <2>2, <2>3, <2>5, <2>6, <2>7, <2>8 DEF CountersDescribeStreak
<1> QED
  BY Zenon, <1>3, <1>4

\* Every step keeps the counters in step with the history.
LEMMA CountersStep ==
    TypeOK /\ CountersDescribeStreak /\ [Next]_vars => CountersDescribeStreak'
<1> SUFFICES ASSUME TypeOK, CountersDescribeStreak, [Next]_vars
             PROVE  CountersDescribeStreak'
  BY Zenon
<1>1. CASE UNCHANGED <<healthVars, streak>>
  BY Zenon, <1>1 DEF healthVars, CountersDescribeStreak, Sustained
<1>2. ASSUME NEW t \in Threads, observe(t) PROVE CountersDescribeStreak'
  <2>1. CASE ObserveLatched(t)
    BY Zenon, <1>1, <2>1 DEF ObserveLatched
  <2>2. ASSUME NEW r \in RetryAfters, ObserveRateLimit(t, r)
        PROVE  CountersDescribeStreak'
    BY Zenon, <2>2 DEF ObserveRateLimit, CountersDescribeStreak, Sustained
  <2>3. CASE ObserveSuccess(t)
    BY <2>3 DEF ObserveSuccess, CountersDescribeStreak
  <2>4. CASE ObserveFailure(t)
    <3>1. ~unavailable
      BY Zenon, <2>4 DEF ObserveFailure
    <3> QED
      BY Zenon, <2>4, <3>1, FailureExtendsStreak
  <2> QED
    BY Zenon, <1>2, <2>1, <2>2, <2>3, <2>4 DEF observe
<1> QED
  BY Zenon, <1>1, <1>2 DEF Next, Tick, Call, Answered, vars

\* The initial state satisfies the types, the counters and the bound.
LEMMA InitHolds == Init => TypeOK /\ CountersDescribeStreak /\ BackoffBounded
<1> SUFFICES ASSUME Init PROVE TypeOK /\ CountersDescribeStreak /\ BackoffBounded
  BY Zenon
<1>1. TypeOK
  <2>1. stamp \in [Threads -> 0..now] /\ streak \in Seq(0..now)
    BY DEF Init
  <2>2. calls \in [Threads -> {"idle", "calling", "stamped"}] /\ unavailable \in BOOLEAN
    BY Zenon DEF Init
  <2> QED
    BY <2>1, <2>2, WordAssumption DEF Init, TypeOK
<1>2. CountersDescribeStreak
  BY DEF Init, CountersDescribeStreak
<1>3. BackoffBounded
  BY MsAssumption DEF Init, BackoffBounded
<1> QED
  BY Zenon, <1>1, <1>2, <1>3

\* The types hold in every reachable state.
THEOREM TypeCorrect == Spec => []TypeOK
BY InitHolds, TypeStep, PTL DEF Spec

\* The Worker is given up only after a sustained run of failures, for any
\* number of threads whose reports arrive in any order (observe).
THEOREM LatchTheorem == Spec => []LatchNeedsSustainedFailures
<1>1. TypeOK /\ CountersDescribeStreak => LatchNeedsSustainedFailures
  <2> SUFFICES ASSUME TypeOK, CountersDescribeStreak, unavailable
               PROVE  LatchNeedsSustainedFailures
    BY Zenon DEF LatchNeedsSustainedFailures
  <2> DEFINE i == Len(streak) - failures + 1
  <2>1. /\ failures >= kWorkerFailureThreshold /\ failures <= Len(streak)
        /\ lastFailureMs - streakStartMs >= kWorkerMinStreakMs
    BY Zenon DEF CountersDescribeStreak
  <2>2. failures > 0 /\ i \in 1..Len(streak) /\ Len(streak) - i + 1 = failures
    BY <2>1, ThresholdAssumption DEF TypeOK
  <2>3. /\ Sustained(i) /\ lastFailureMs = streak[Len(streak)]
        /\ streakStartMs = streak[i]
    BY Zenon, <2>2 DEF CountersDescribeStreak
  <2> QED
    BY Zenon, <2>1, <2>2, <2>3 DEF LatchNeedsSustainedFailures
<1> QED
  BY <1>1, InitHolds, TypeStep, CountersStep, PTL DEF Spec

\* A deadline within a distance of the clock stays within it as time passes.
LEMMA LaterIsWider ==
    ASSUME NEW a \in Nat, NEW b \in Nat, NEW d \in Nat, NEW k \in Nat,
           d <= a + k, b >= a
    PROVE  d <= b + k
OBVIOUS

\* No answer of the Worker holds the callers back for longer than the cap.
THEOREM BackoffTheorem == Spec => []BackoffBounded
<1>1. TypeOK /\ BackoffBounded /\ [Next]_vars => BackoffBounded'
  <2> SUFFICES ASSUME TypeOK, BackoffBounded, [Next]_vars PROVE BackoffBounded'
    OBVIOUS
  <2> USE MsAssumption DEF TypeOK, BackoffBounded
  <2>1. ASSUME now' \in Nat, now' >= now, backoffUntilMs' = backoffUntilMs
        PROVE  BackoffBounded'
    BY Zenon, <2>1, LaterIsWider
  <2>2. CASE Tick
    BY <2>2 DEF Tick, healthVars
  <2>3. ASSUME NEW t \in Threads, observe(t) PROVE BackoffBounded'
    <3>1. now' = now /\ stamp[t] \in 0..now
      BY Zenon, <2>3 DEF observe
    <3>2. ASSUME NEW r \in RetryAfters, ObserveRateLimit(t, r)
          PROVE  BackoffBounded'
      BY <3>1, <3>2 DEF ObserveRateLimit
    <3>3. CASE ObserveLatched(t) \/ ObserveSuccess(t) \/ ObserveFailure(t)
      BY Zenon, <2>1, <3>1, <3>3
         DEF ObserveLatched, ObserveSuccess, ObserveFailure, healthVars
    <3> QED
      BY Zenon, <2>3, <3>2, <3>3 DEF observe
  <2>4. ASSUME NEW t \in Threads, Call(t) \/ Answered(t) PROVE BackoffBounded'
    BY Zenon, <2>1, <2>4 DEF Call, Answered, healthVars
  <2>5. CASE UNCHANGED vars
    BY Zenon, <2>1, <2>5 DEF vars, healthVars
  <2> QED
    BY <2>2, <2>3, <2>4, <2>5 DEF Next
<1> QED
  BY <1>1, InitHolds, TypeStep, PTL DEF Spec

-----------------------------------------------------------------------------
(* TcpConnect: the race of connectAny                                      *)

Fates == {"untried", "pending", "up", "refused", "unusable", "closed", "won"}

\* While the race is on nothing has won and nothing was dropped, and the
\* addresses that were not tried are those from nextCandidate on; once it is
\* over, what was found is what ConnectIsThorough says.
RaceInv ==
    /\ attempt \in [Candidates -> Fates]
    /\ nextCandidate \in Nat
    /\ \/ /\ racing = TRUE
          /\ dropped = {}
          /\ \A a \in Candidates : attempt[a] # "won"
          /\ \A a \in Candidates : attempt[a] = "untried" => a >= nextCandidate
       \/ /\ racing = FALSE
          /\ ConnectIsThorough

\* A nonempty set of addresses has a first one: the socket the pass over the
\* ready sockets settles on.
LEMMA FirstOfSome ==
    ASSUME NEW S \in SUBSET Candidates, S # {}
    PROVE  Min(S) \in S
<1>1. S \subseteq Nat
    BY TcpConnectConstants DEF Candidates
<1>2. \E x \in S : \A y \in S : ~(<<y, x>> \in OpToRel(<, Nat))
    BY Zenon, <1>1, NatLessThanWellFounded, WFMin
<1>3. PICK x \in S : \A y \in S : ~(<<y, x>> \in OpToRel(<, Nat))
    BY Zenon, <1>2
<1>4. \A y \in S : <<y, x>> \in Nat \X Nat /\ <<y, x>>[1] = y /\ <<y, x>>[2] = x
    BY Zenon, <1>1
<1>5. \A y \in S : ~(y < x)
    BY Zenon, <1>3, <1>4 DEF OpToRel
<1>6. \A y \in S : x <= y
    BY <1>1, <1>5
<1> QED
    BY Zenon, <1>6 DEF Min

\* At most one address can be marked as the winner when every mark is on w.
LEMMA AtMostOne ==
    ASSUME NEW S, NEW w, S \subseteq {w}
    PROVE  Cardinality(S) <= 1
<1>1. IsFiniteSet({w}) /\ Cardinality({w}) = 1
    BY Zenon, FS_Singleton
<1> QED
    BY <1>1, FS_Subset, FS_CardinalityType

\* What connectAny leaves when it returns with the fates of its attempts:
\* nothing in flight, the winner if fates has one, and nothing else changed.
LEMMA ReturnsClose ==
    ASSUME NEW fates \in [Candidates -> Fates], NEW failure, Returns(fates, failure)
    PROVE  /\ attempt' \in [Candidates -> Fates]
           /\ inFlight' = {}
           /\ \A a \in Candidates : attempt'[a] = "won" <=> fates[a] = "won"
           /\ \A a \in Candidates : attempt'[a] = "untried" <=> fates[a] = "untried"
BY Zenon DEF Returns, Closed, Fates, inFlight

\* Init establishes the invariant.
LEMMA RaceStarts == ConnectInit => RaceInv
BY DEF ConnectInit, RaceInv, Fates, Candidates

\* A return that no socket was won by: nothing is left open, and either it
\* failed, or the time was up, or everything was tried and nothing answered.
LEMMA ReturnsEmpty ==
    ASSUME RaceInv, racing = TRUE,
           NEW fates \in [Candidates -> Fates], NEW failure, Returns(fates, failure),
           \A a \in Candidates : fates[a] # "won",
           \/ failure = TRUE
           \/ ~(deadline > 0)
           \/ \A a \in Candidates : fates[a] \notin {"up", "untried"}
    PROVE  RaceInv'
<1>1. /\ attempt' \in [Candidates -> Fates]
      /\ inFlight' = {}
      /\ \A a \in Candidates : attempt'[a] # "won"
      /\ \A a \in Candidates : attempt'[a] = "untried" <=> fates[a] = "untried"
    BY Zenon, ReturnsClose
<1>2. /\ racing' = FALSE /\ nextCandidate' = nextCandidate /\ deadline' = deadline
      /\ broken' = failure
      /\ dropped' = {a \in Candidates : fates[a] = "up"}
    BY Zenon DEF Returns, RaceInv
<1>3. Cardinality({a \in Candidates : attempt'[a] = "won"}) <= 1
    <2>1. {a \in Candidates : attempt'[a] = "won"} \subseteq {0}
        BY Zenon, <1>1
    <2> QED
        BY Zenon, <2>1, AtMostOne
<1>4. deadline' > 0 /\ ~broken' => dropped' = {} /\ \A a \in Candidates : attempt'[a] # "untried"
    BY Zenon, <1>1, <1>2
<1>5. ConnectIsThorough'
    BY Zenon, <1>1, <1>3, <1>4 DEF ConnectIsThorough, Candidates
<1> QED
    BY Zenon, <1>1, <1>2, <1>5 DEF RaceInv

\* One pass over the sockets that select() reported keeps it.
LEMMA SelectKeeps ==
    ASSUME RaceInv, SelectReady
    PROVE  RaceInv'
<1> DEFINE up == {a \in inFlight : attempt[a] = "up"}
           failedOnes == {a \in inFlight : attempt[a] = "refused" /\ \A w \in up : a < w}
           left == [a \in Candidates |-> IF a \in failedOnes THEN "closed" ELSE attempt[a]]
<1>1. /\ racing = TRUE /\ attempt \in [Candidates -> Fates] /\ nextCandidate \in Nat
      /\ dropped = {}
      /\ \A a \in Candidates : attempt[a] # "won"
      /\ \A a \in Candidates : attempt[a] = "untried" => a >= nextCandidate
    BY Zenon DEF RaceInv, SelectReady
<1>2. \/ up # {} /\ Returns([left EXCEPT ![Min(up)] = "won"], FALSE)
      \/ up # {} /\ Returns(left, TRUE)
      \/ /\ attempt' = left
         /\ UNCHANGED <<racing, nextCandidate, deadline, dropped, broken>>
    BY Zenon DEF SelectReady
<1>3. /\ left \in [Candidates -> Fates]
      /\ \A a \in Candidates : left[a] # "won"
      /\ \A a \in Candidates : left[a] = "untried" => attempt[a] = "untried"
    BY Zenon, <1>1 DEF Fates
<1>4. up \in SUBSET Candidates
    BY Zenon DEF inFlight
<1> HIDE DEF up, failedOnes, left
<1>5. CASE up # {} /\ Returns([left EXCEPT ![Min(up)] = "won"], FALSE)
    <2> DEFINE w == Min(up)
               fates == [left EXCEPT ![w] = "won"]
    <2>1. w \in Candidates
        BY Zenon, <1>4, <1>5, FirstOfSome
    <2> HIDE DEF w
    <2>2. /\ fates \in [Candidates -> Fates]
          /\ fates[w] = "won"
          /\ \A a \in Candidates : a # w => fates[a] # "won"
        BY Zenon, <1>3, <2>1 DEF Fates
    <2>3. Returns(fates, FALSE)
        BY Zenon, <1>5 DEF w
    <2> HIDE DEF fates
    <2>4. /\ attempt' \in [Candidates -> Fates]
          /\ inFlight' = {}
          /\ \A a \in Candidates : attempt'[a] = "won" <=> fates[a] = "won"
        BY Zenon, <2>2, <2>3, ReturnsClose
    <2>5. racing' = FALSE /\ nextCandidate' = nextCandidate
        BY Zenon, <2>3 DEF Returns
    <2>6. Cardinality({a \in Candidates : attempt'[a] = "won"}) <= 1
        <3>1. {a \in Candidates : attempt'[a] = "won"} \subseteq {w}
            BY Zenon, <2>2, <2>4
        <3> QED
            BY Zenon, <3>1, AtMostOne
    <2>7. ConnectIsThorough'
        BY Zenon, <2>1, <2>2, <2>4, <2>6 DEF ConnectIsThorough, Candidates
    <2> QED
        BY Zenon, <1>1, <2>4, <2>5, <2>7 DEF RaceInv
<1>6. CASE up # {} /\ Returns(left, TRUE)
    BY Zenon, <1>1, <1>3, <1>6, ReturnsEmpty
<1>7. CASE /\ attempt' = left
           /\ UNCHANGED <<racing, nextCandidate, deadline, dropped, broken>>
    BY Zenon, <1>1, <1>3, <1>7 DEF RaceInv, Candidates
<1> QED
    BY Zenon, <1>2, <1>5, <1>6, <1>7

\* Every step of the race keeps the invariant.
LEMMA RaceStep ==
    ASSUME RaceInv, [ConnectNext]_connectVars
    PROVE  RaceInv'
<1>1. attempt \in [Candidates -> Fates] /\ nextCandidate \in Nat
    BY Zenon DEF RaceInv
<1>2. ASSUME racing = TRUE
      PROVE  /\ dropped = {}
             /\ \A a \in Candidates : attempt[a] # "won"
             /\ \A a \in Candidates : attempt[a] = "untried" => a >= nextCandidate
    BY Zenon, <1>2 DEF RaceInv
<1>3. CASE StartAttempt
    <2>1. racing = TRUE /\ racing' = racing /\ dropped' = dropped /\ nextCandidate' = nextCandidate + 1
        BY Zenon, <1>3 DEF StartAttempt, RaceInv
    <2>2. PICK fate \in {"pending", "unusable"} :
              attempt' = [attempt EXCEPT ![nextCandidate] = fate]
        BY Zenon, <1>3 DEF StartAttempt
    <2>3. attempt' \in [Candidates -> Fates]
        BY Zenon, <1>1, <2>2 DEF Fates
    <2>4. \A a \in Candidates : attempt'[a] = IF a = nextCandidate THEN fate ELSE attempt[a]
        BY Zenon, <1>1, <2>2
    <2>5. \A a \in Candidates : a \in Nat
        BY DEF Candidates
    <2>6. \A a \in Candidates : attempt'[a] # "won"
        BY Zenon, <1>2, <2>1, <2>4
    <2>7. \A a \in Candidates : attempt'[a] = "untried" => a >= nextCandidate + 1
        BY <1>1, <1>2, <2>1, <2>2, <2>4, <2>5
    <2> QED
        BY <1>1, <1>2, <2>1, <2>3, <2>6, <2>7 DEF RaceInv, Candidates
<1>4. CASE SelectReady
    BY Zenon, <1>4, SelectKeeps
<1>5. CASE SelectFails
    <2>1. racing = TRUE /\ Returns(attempt, TRUE)
        BY Zenon, <1>5 DEF SelectFails, RaceInv
    <2> QED
        BY Zenon, <1>1, <1>2, <2>1, ReturnsEmpty
<1>6. CASE NothingLeft
    <2>1. racing = TRUE /\ Returns(attempt, FALSE) /\ inFlight = {} /\ ~candidatesLeft
        BY Zenon, <1>6 DEF NothingLeft, RaceInv
    <2>2. \A a \in Candidates : attempt[a] # "up"
        BY Zenon, <2>1 DEF inFlight
    <2>3. \A a \in Candidates : attempt[a] # "untried"
        BY <1>1, <1>2, <2>1, TcpConnectConstants DEF candidatesLeft, Candidates
    <2> QED
        BY Zenon, <1>1, <1>2, <2>1, <2>2, <2>3, ReturnsEmpty
<1>7. CASE DeadlinePassed
    <2>1. racing = TRUE /\ Returns(attempt, FALSE) /\ deadline = 0
        BY Zenon, <1>7 DEF DeadlinePassed, RaceInv
    <2>2. ~(deadline > 0)
        BY <2>1
    <2> QED
        BY Zenon, <1>1, <1>2, <2>1, <2>2, ReturnsEmpty
<1>8. CASE connectTick
    BY Zenon, <1>8 DEF connectTick, RaceInv, Candidates
<1>9. ASSUME NEW b \in Candidates, AttemptAnswers(b)
      PROVE  RaceInv'
    <2>1. racing = TRUE /\ racing' = racing /\ dropped' = dropped
          /\ nextCandidate' = nextCandidate
        BY Zenon, <1>9 DEF AttemptAnswers, RaceInv
    <2>2. PICK fate \in {"up", "refused"} : attempt' = [attempt EXCEPT ![b] = fate]
        BY Zenon, <1>9 DEF AttemptAnswers
    <2>3. /\ attempt' \in [Candidates -> Fates]
          /\ \A a \in Candidates : attempt'[a] = IF a = b THEN fate ELSE attempt[a]
        BY Zenon, <1>1, <2>2 DEF Fates
    <2>4. \A a \in Candidates : attempt'[a] # "won" /\ (attempt'[a] = "untried" => a >= nextCandidate)
        BY Zenon, <1>2, <2>1, <2>3
    <2> QED
        BY Zenon, <1>1, <1>2, <2>1, <2>3, <2>4 DEF RaceInv, Candidates
<1>10. CASE UNCHANGED connectVars
    BY Zenon, <1>10 DEF connectVars, RaceInv, ConnectIsThorough, inFlight, Candidates
<1> QED
    BY <1>3, <1>4, <1>5, <1>6, <1>7, <1>8, <1>9, <1>10 DEF ConnectNext

\* connectAny gives up before its deadline only when every address was tried
\* and none had answered; it keeps at most one socket and closes every other,
\* whatever the number of addresses, the delays and the parallel attempts.
THEOREM ConnectTheorem == ConnectSpec => []ConnectIsThorough
<1>1. RaceInv => ConnectIsThorough
    BY Zenon DEF RaceInv, ConnectIsThorough
<1> QED
    BY <1>1, RaceStarts, RaceStep, PTL DEF ConnectSpec

---------------------------------------------------------------------------
(* Pump: runs of a stream                                                  *)

\* n consecutive bytes of a stream, after the first a.
Run(a, n) == [i \in 1..n |-> a + i]

\* A run is a sequence of its length.
LEMMA RunLength ==
    ASSUME NEW a \in Nat, NEW n \in Nat
    PROVE  Run(a, n) \in Seq(Nat) /\ Len(Run(a, n)) = n
BY DEF Run

\* Only the run of no byte is empty.
LEMMA RunEmpty ==
    ASSUME NEW a \in Nat, NEW n \in Nat
    PROVE  Run(a, n) = <<>> <=> n = 0
BY RunLength DEF Run

\* Two runs that follow each other are one.
LEMMA RunJoins ==
    ASSUME NEW a \in Nat, NEW n \in Nat, NEW m \in Nat
    PROVE  Run(a, n) \o Run(a + n, m) = Run(a, n + m)
<1>1. Run(a, n) \in Seq(Nat) /\ Len(Run(a, n)) = n
  BY Zenon, RunLength
<1>2. Run(a + n, m) \in Seq(Nat) /\ Len(Run(a + n, m)) = m
  <2>1. a + n \in Nat
    OBVIOUS
  <2> QED
    BY Zenon, <2>1, RunLength
<1> QED
  BY <1>1, <1>2 DEF Run

\* The first k bytes of a run, and the others.
LEMMA RunSplits ==
    ASSUME NEW a \in Nat, NEW n \in Nat, NEW k \in 0..n
    PROVE  /\ SubSeq(Run(a, n), 1, k) = Run(a, k)
           /\ SubSeq(Run(a, n), k + 1, Len(Run(a, n))) = Run(a + k, n - k)
<1>1. Run(a, n) \in Seq(Nat) /\ Len(Run(a, n)) = n
  BY Zenon, RunLength
<1>2. SubSeq(Run(a, n), 1, k) = Run(a, k)
  BY <1>1 DEF Run
<1>3. SubSeq(Run(a, n), k + 1, n) = Run(a + k, n - k)
  BY <1>1 DEF Run
<1> QED
  BY Zenon, <1>1, <1>2, <1>3

\* A run grows by its next byte.
LEMMA RunGrows ==
    ASSUME NEW a \in Nat, NEW n \in Nat
    PROVE  Append(Run(a, n), a + n + 1) = Run(a, n + 1)
<1>1. Run(a, n) \in Seq(Nat) /\ Len(Run(a, n)) = n
  BY Zenon, RunLength
<1> QED
  BY <1>1 DEF Run

---------------------------------------------------------------------------
(* The inductive invariant                                                 *)

Sources == [sent : Nat, unread : Seq(Nat), fin : BOOLEAN, reset : BOOLEAN]

PumpTypeOK ==
    /\ pumpAt \in {"top", "up", "down", "returned", "closed"}
    /\ direction \in [Ways -> [pending : Seq(Nat), eof : BOOLEAN]]
    /\ source \in [Ways -> Sources]
    /\ dest \in [Ways -> [got : Seq(Nat), end : {"open", "clean", "short", "reset"}]]

\* What has come out, what waits and what was not read yet are one run of the
\* stream; only an abort drops bytes.
Carries(d) ==
    LET g == Len(dest[d].got)
        p == Len(direction[d].pending)
        u == Len(source[d].unread)
    IN  /\ dest[d].got = Run(0, g)
        /\ direction[d].pending = Run(g, p)
        /\ ~abortive => source[d].unread = Run(g + p, u) /\ source[d].sent = g + p + u

\* An end is taken from a source that has nothing left, and passed on after
\* everything that waited.
EndsInOrder(d) ==
    /\ direction[d].eof => source[d].fin /\ (~abortive => source[d].unread = <<>>)
    /\ dest[d].end = "clean" => directionDone(d)
    /\ pumpAt # "closed" => dest[d].end \in {"open", "clean"}

\* Why the loop was left.
LeftFor ==
    /\ abortive => pumpAt \in {"returned", "closed"}
    /\ pumpAt = "returned" /\ ~abortive /\ stop = "no" /\ ~cutShort
         => \A d \in Ways : directionDone(d)

PumpInv == PumpTypeOK /\ LeftFor /\ \A d \in Ways : Carries(d) /\ EndsInOrder(d)

\* Both directions start empty.
LEMMA PumpInvInit == PumpInit => PumpInv
<1> SUFFICES ASSUME PumpInit PROVE PumpInv
  BY Zenon
<1>1. PumpTypeOK
  BY DEF PumpInit, PumpTypeOK, Sources
<1>2. LeftFor
  BY Zenon DEF PumpInit, LeftFor
<1>3. ASSUME NEW d \in Ways PROVE Carries(d)
  <2>1. Run(0, 0) = <<>>
    BY Zenon, RunEmpty
  <2>2. /\ dest[d].got = <<>> /\ direction[d].pending = <<>>
        /\ source[d].unread = <<>> /\ source[d].sent = 0
    BY Zenon DEF PumpInit
  <2> QED
    BY <2>1, <2>2 DEF Carries
<1>4. ASSUME NEW d \in Ways PROVE EndsInOrder(d)
  BY Zenon, <1>4 DEF PumpInit, EndsInOrder, directionDone
<1> QED
  BY Zenon, <1>1, <1>2, <1>3, <1>4 DEF PumpInv

---------------------------------------------------------------------------
(* The steps                                                               *)

\* What an action leaves alone keeps its part of the invariant.
LEMMA CarriesKept ==
    ASSUME NEW d \in Ways, Carries(d), abortive' = abortive,
           dest'[d].got = dest[d].got, direction'[d].pending = direction[d].pending,
           source'[d].unread = source[d].unread, source'[d].sent = source[d].sent
    PROVE  Carries(d)'
BY Zenon DEF Carries

\* The lengths are numbers.
LEMMA Lengths ==
    ASSUME PumpInv, NEW d \in Ways
    PROVE  /\ Len(dest[d].got) \in Nat
           /\ Len(direction[d].pending) \in Nat
           /\ Len(source[d].unread) \in Nat /\ source[d].unread \in Seq(Nat)
           /\ source[d].sent \in Nat
BY DEF PumpInv, PumpTypeOK, Sources

\* sendSome() moves the first n waiting bytes.
LEMMA SendSomeMoves ==
    ASSUME PumpInv, NEW d \in Ways, NEW k \in Nat, NEW n \in 0..k, k # 0,
           sendSome(d, Run(Len(dest[d].got), k), n)
    PROVE  LET g == Len(dest[d].got)
           IN  /\ dest'[d].got = Run(0, g + n) /\ Len(dest'[d].got) = g + n
               /\ direction'[d].pending = Run(g + n, k - n)
               /\ Len(direction'[d].pending) = k - n
               /\ direction'[d].eof = direction[d].eof
               /\ dest'[d].end = IF direction[d].eof /\ n = k THEN "clean" ELSE dest[d].end
               /\ \A e \in Ways \ {d} : dest'[e] = dest[e] /\ direction'[e] = direction[e]
               /\ dest' \in [Ways -> [got : Seq(Nat), end : {"open", "clean", "short", "reset"}]]
               /\ direction' \in [Ways -> [pending : Seq(Nat), eof : BOOLEAN]]
<1> DEFINE g == Len(dest[d].got)
           bytes == Run(g, k)
           left == SubSeq(bytes, n + 1, Len(bytes))
<1>1. g \in Nat /\ k - n \in Nat /\ g + n \in Nat /\ n \in Nat
  BY DEF PumpInv, PumpTypeOK
<1>2. SubSeq(bytes, 1, n) = Run(g, n) /\ left = Run(g + n, k - n)
  BY Zenon, <1>1, RunSplits
<1>3. /\ direction' = [direction EXCEPT ![d].pending = left]
      /\ dest' = [dest EXCEPT ![d].got = @ \o SubSeq(bytes, 1, n),
                              ![d].end = IF direction[d].eof /\ left = <<>> THEN "clean" ELSE @]
  BY Zenon DEF sendSome
<1> HIDE DEF bytes, left, g
<1>4. dest[d].got \o SubSeq(bytes, 1, n) = Run(0, g + n)
  <2>1. dest[d].got = Run(0, g)
    BY Zenon DEF PumpInv, Carries, g
  <2>2. Run(0, g) \o Run(0 + g, n) = Run(0, g + n)
    BY Zenon, <1>1, RunJoins
  <2>3. 0 + g = g
    BY <1>1
  <2> QED
    BY Zenon, <1>2, <2>1, <2>2, <2>3
<1>5. /\ Run(0, g + n) \in Seq(Nat) /\ Len(Run(0, g + n)) = g + n
      /\ Run(g + n, k - n) \in Seq(Nat) /\ Len(Run(g + n, k - n)) = k - n
  BY Zenon, <1>1, RunLength
<1>6. left = <<>> <=> n = k
  <2>1. Run(g + n, k - n) = <<>> <=> k - n = 0
    BY Zenon, <1>1, RunEmpty
  <2>2. k - n = 0 <=> n = k
    BY <1>1
  <2> QED
    BY Zenon, <1>2, <2>1, <2>2
<1>7. direction' \in [Ways -> [pending : Seq(Nat), eof : BOOLEAN]]
  BY Zenon, <1>2, <1>5, <1>3 DEF PumpInv, PumpTypeOK
<1>8. dest' \in [Ways -> [got : Seq(Nat), end : {"open", "clean", "short", "reset"}]]
  BY Zenon, <1>4, <1>5, <1>3 DEF PumpInv, PumpTypeOK
<1>9. /\ direction'[d].pending = left /\ direction'[d].eof = direction[d].eof
      /\ \A e \in Ways \ {d} : dest'[e] = dest[e] /\ direction'[e] = direction[e]
  BY Zenon, <1>3 DEF PumpInv, PumpTypeOK
<1>10. /\ dest'[d].got = dest[d].got \o SubSeq(bytes, 1, n)
      /\ dest'[d].end = IF direction[d].eof /\ left = <<>> THEN "clean" ELSE dest[d].end
  BY Zenon, <1>3 DEF PumpInv, PumpTypeOK
<1> QED
  BY Zenon, <1>2, <1>4, <1>5, <1>6, <1>7, <1>8, <1>9, <1>10 DEF g

\* An abort is remembered, and nothing is promised about what was not read.
LEMMA AbortKeeps ==
    ASSUME PumpInv, pumpAt \in Ways, Abort,
           source' \in [Ways -> Sources],
           \A d \in Ways : source'[d].fin = source[d].fin
    PROVE  PumpInv'
<1>1. PumpTypeOK'
  BY Zenon DEF PumpInv, PumpTypeOK, Abort
<1>2. LeftFor'
  BY Zenon DEF Abort, LeftFor
<1>3. ASSUME NEW d \in Ways PROVE Carries(d)'
  BY Zenon, <1>3 DEF PumpInv, Carries, Abort
<1>4. ASSUME NEW d \in Ways PROVE EndsInOrder(d)'
  <2>1. EndsInOrder(d) /\ abortive' /\ pumpAt' = "returned" /\ pumpAt # "closed"
    BY Zenon, <1>4 DEF PumpInv, Abort, Ways
  <2> QED
    BY Zenon, <1>4, <2>1 DEF EndsInOrder, directionDone, Abort
<1> QED
  BY Zenon, <1>1, <1>2, <1>3, <1>4 DEF PumpInv

\* n of the next k bytes, which waited or were just read, are taken; the rest
\* of what was sent is still to be read.
Takes(d, k, n, rest) ==
    /\ pumpAt = d /\ ~directionDone(d) /\ k # 0
    /\ sendSome(d, Run(Len(dest[d].got), k), n)
    /\ source' \in [Ways -> Sources]
    /\ source'[d].unread = Run(Len(dest[d].got) + k, rest)
    /\ source'[d].sent = Len(dest[d].got) + k + rest
    /\ source'[d].sent = source[d].sent
    /\ source'[d].fin = source[d].fin
    /\ direction[d].eof => rest = 0
    /\ \A e \in Ways \ {d} : source'[e] = source[e]

\* Bytes that are taken leave one run of the stream.
LEMMA TakesKeeps ==
    ASSUME PumpInv, NEW d \in Ways, NEW k \in Nat, NEW n \in 0..k, NEW rest \in Nat,
           Takes(d, k, n, rest)
    PROVE  PumpInv'
<1> USE DEF Takes
<1> DEFINE g == Len(dest[d].got)
<1>0. g \in Nat /\ n \in Nat /\ k - n \in Nat
  BY DEF PumpInv, PumpTypeOK
<1>1. /\ dest'[d].got = Run(0, g + n) /\ Len(dest'[d].got) = g + n
      /\ direction'[d].pending = Run(g + n, k - n) /\ Len(direction'[d].pending) = k - n
      /\ direction'[d].eof = direction[d].eof
      /\ dest'[d].end = IF direction[d].eof /\ n = k THEN "clean" ELSE dest[d].end
      /\ \A e \in Ways \ {d} : dest'[e] = dest[e] /\ direction'[e] = direction[e]
      /\ dest' \in [Ways -> [got : Seq(Nat), end : {"open", "clean", "short", "reset"}]]
      /\ direction' \in [Ways -> [pending : Seq(Nat), eof : BOOLEAN]]
  BY SMTT(30), SendSomeMoves
<1>2. pumpAt' = after(d) /\ abortive' = abortive /\ UNCHANGED <<stop, cutShort>>
  BY Zenon DEF sendSome
<1>3. pumpAt' \in {"down", "top"} /\ ~abortive
  BY Zenon, <1>2 DEF after, PumpInv, LeftFor, Ways
<1>4. Len(source'[d].unread) = rest
  <2>1. g + k \in Nat
    BY SMTT(30), <1>0
  <2>2. Len(Run(g + k, rest)) = rest
    BY Zenon, <2>1, RunLength
  <2> QED
    BY Zenon, <2>2
<1> HIDE DEF g
<1>5. PumpTypeOK'
  BY Zenon, <1>1, <1>3 DEF PumpTypeOK
<1>6. LeftFor'
  BY Zenon, <1>2, <1>3 DEF LeftFor
<1>7. Carries(d)'
  <2>1. g + n + (k - n) = g + k /\ g + n + (k - n) + rest = g + k + rest
    BY <1>0
  <2> QED
    BY Zenon, <1>1, <1>4, <2>1 DEF Carries, g
<1>8. EndsInOrder(d)'
  <2>1. direction'[d].eof => source'[d].fin /\ source'[d].unread = <<>>
    <3>1. direction[d].eof => source[d].fin
      BY Zenon DEF PumpInv, EndsInOrder
    <3>2. rest = 0 => source'[d].unread = <<>>
      <4>1. g + k \in Nat
        BY SMTT(30), <1>0
      <4>2. Run(g + k, rest) = <<>> <=> rest = 0
        BY Zenon, <4>1, RunEmpty
      <4> QED
        BY Zenon, <4>2 DEF g
    <3> QED
      BY Zenon, <1>1, <3>1, <3>2
  <2>2. Run(g + n, k - n) = <<>> <=> n = k
    BY <1>0, RunEmpty
  <2>3. dest[d].end = "open"
    <3>1. dest[d].end \in {"open", "clean"} /\ (dest[d].end = "clean" => directionDone(d))
      BY Zenon DEF PumpInv, EndsInOrder, Ways
    <3> QED
      BY Zenon, <3>1
  <2> QED
    BY Zenon, <1>1, <1>3, <2>1, <2>2, <2>3 DEF EndsInOrder, directionDone
<1>9. ASSUME NEW e \in Ways \ {d} PROVE Carries(e)' /\ EndsInOrder(e)'
  <2>1. Carries(e) /\ EndsInOrder(e)
    BY Zenon DEF PumpInv
  <2>2. dest'[e] = dest[e] /\ direction'[e] = direction[e] /\ source'[e] = source[e]
    BY Zenon, <1>1
  <2>3. pumpAt # "closed"
    BY Zenon DEF Ways
  <2> QED
    BY Zenon, <1>2, <2>1, <2>2, <2>3, CarriesKept DEF EndsInOrder, directionDone
<1> QED
  BY Zenon, <1>5, <1>6, <1>7, <1>8, <1>9 DEF PumpInv

\* A peer sends, finishes or resets.
LEMMA PeersKeep ==
    ASSUME PumpInv, NEW d \in Ways, PeerSends(d) \/ PeerFinishes(d) \/ PeerResets(d)
    PROVE  PumpInv'
<1> DEFINE Others == \A e \in Ways \ {d} : source'[e] = source[e]
<1>0. /\ UNCHANGED <<pumpAt, direction, dest, abortive, stop, cutShort>>
      /\ pumpAt # "closed"
  BY Zenon DEF PeerSends, PeerFinishes, PeerResets, peerVars, Speaks
<1>1. PumpTypeOK' /\ Others
  <2>0. source \in [Ways -> Sources]
    BY Zenon DEF PumpInv, PumpTypeOK, Sources
  <2>1. CASE PeerSends(d)
    <3>1. [source[d] EXCEPT !.sent = @ + 1, !.unread = Append(@, source[d].sent + 1)] \in Sources
      <4>1. source[d].sent + 1 \in Nat /\ source[d].unread \in Seq(Nat)
        BY Lengths
      <4>2. Append(source[d].unread, source[d].sent + 1) \in Seq(Nat)
        BY <4>1
      <4> QED
        BY Zenon, <2>0, <4>1, <4>2 DEF Sources
    <3> QED
      BY Zenon, <1>0, <2>0, <2>1, <3>1 DEF PumpInv, PumpTypeOK, Sources, PeerSends
  <2>2. CASE PeerFinishes(d)
    <3>1. [source[d] EXCEPT !.fin = TRUE] \in Sources
      BY Zenon, <2>0 DEF Sources
    <3> QED
      BY Zenon, <1>0, <2>0, <2>2, <3>1 DEF PumpInv, PumpTypeOK, Sources, PeerFinishes
  <2>3. CASE PeerResets(d)
    <3>1. [source[d] EXCEPT !.reset = TRUE] \in Sources
      BY Zenon, <2>0 DEF Sources
    <3> QED
      BY Zenon, <1>0, <2>0, <2>3, <3>1 DEF PumpInv, PumpTypeOK, Sources, PeerResets
  <2> QED
    BY Zenon, <2>1, <2>2, <2>3
<1>2. LeftFor'
  BY Zenon, <1>0 DEF PumpInv, LeftFor, directionDone
<1>3. ASSUME NEW e \in Ways \ {d} PROVE Carries(e)' /\ EndsInOrder(e)'
  <2>1. Carries(e) /\ EndsInOrder(e) /\ source'[e] = source[e]
    BY Zenon, <1>1 DEF PumpInv
  <2> QED
    BY Zenon, <1>0, <2>1, CarriesKept DEF EndsInOrder, directionDone
<1>4. Carries(d)' /\ EndsInOrder(d)'
  <2>0. Carries(d) /\ EndsInOrder(d) /\ source[d] \in
          Sources
    BY Zenon DEF PumpInv, PumpTypeOK
  <2>1. CASE PeerSends(d)
    <3> DEFINE g == Len(dest[d].got)
               p == Len(direction[d].pending)
               u == Len(source[d].unread)
    <3>1. /\ source'[d].sent = source[d].sent + 1
          /\ source'[d].unread = Append(source[d].unread, source[d].sent + 1)
          /\ source'[d].fin = source[d].fin /\ ~source[d].fin
      BY <2>0, <2>1 DEF PeerSends, Speaks, PumpInv, PumpTypeOK
    <3>a. g \in Nat /\ p \in Nat /\ u \in Nat
      BY Zenon, Lengths
    <3> HIDE DEF g, p, u
    <3>2. g \in Nat /\ p \in Nat /\ u \in Nat /\ g + p \in Nat
      BY <3>a
    <3>3. ~abortive => source[d].unread = Run(g + p, u) /\ source[d].sent = g + p + u
      BY Zenon, <2>0 DEF Carries, g, p, u
    <3>4. Len(source'[d].unread) = u + 1
      BY <3>1, Lengths DEF u
    <3>5. Append(Run(g + p, u), g + p + u + 1) = Run(g + p, u + 1)
      BY Zenon, <3>2, RunGrows
    <3>6. ~abortive => /\ source'[d].unread = Run(g + p, u + 1)
                       /\ source'[d].sent = g + p + (u + 1)
      <4>1. g + p + u + 1 = g + p + (u + 1)
        BY <3>2
      <4> QED
        BY Zenon, <3>1, <3>3, <3>5, <4>1
    <3>7. Carries(d)'
      BY Zenon, <1>0, <2>0, <3>4, <3>6 DEF Carries, g, p
    <3>8. EndsInOrder(d)'
      BY Zenon, <1>0, <2>0, <3>1 DEF EndsInOrder, directionDone
    <3> QED
      BY Zenon, <3>7, <3>8
  <2>2. CASE PeerFinishes(d) \/ PeerResets(d)
    <3>1. /\ source'[d].sent = source[d].sent /\ source'[d].unread = source[d].unread
          /\ source'[d].fin = source[d].fin \/ source'[d].fin = TRUE
      BY <2>0, <2>2 DEF PeerFinishes, PeerResets, PumpInv, PumpTypeOK, Sources
    <3>2. Carries(d)'
      BY Zenon, <1>0, <2>0, <3>1, CarriesKept
    <3>3. EndsInOrder(d)'
      BY Zenon, <1>0, <2>0, <3>1 DEF EndsInOrder, directionDone
    <3> QED
      BY <3>2, <3>3
  <2> QED
    BY Zenon, <2>1, <2>2
<1> QED
  BY Zenon, <1>1, <1>2, <1>3, <1>4 DEF PumpInv

\* Leaving the loop, waking up, skipping a direction, and stop().
LEMMA ControlKeeps ==
    ASSUME PumpInv,
           \/ ReturnStopped \/ ReturnFinished \/ ReturnIdle \/ Wake
           \/ (\E d \in Ways : Skip(d)) \/ PumpStopFlag \/ PumpStopShuts
    PROVE  PumpInv' /\ UNCHANGED <<direction, source, dest>>
<1>1. UNCHANGED <<direction, source, dest, abortive>>
  BY Zenon DEF ReturnStopped, ReturnFinished, ReturnIdle, Return, Wake, Skip, PumpStopFlag, PumpStopShuts
<1>2. /\ pumpAt' \in {"top", "up", "down", "returned", "closed"}
      /\ pumpAt' # "closed" /\ pumpAt # "closed"
  BY Zenon DEF ReturnStopped, ReturnFinished, ReturnIdle, Return, Wake, Skip, after, PumpStopFlag,
         PumpStopShuts, PumpInv, PumpTypeOK, Ways
<1>3. LeftFor'
  <2>1. CASE ReturnStopped \/ ReturnFinished \/ ReturnIdle
    BY Zenon, <1>1, <2>1 DEF ReturnStopped, ReturnFinished, ReturnIdle, Return, LeftFor, directionDone,
                      PumpInv
  <2>2. CASE Wake \/ \E d \in Ways : Skip(d)
    BY Zenon, <1>1, <2>2 DEF Wake, Skip, after, LeftFor, PumpInv, Ways
  <2>3. CASE PumpStopFlag \/ PumpStopShuts
    BY Zenon, <1>1, <2>3 DEF PumpStopFlag, PumpStopShuts, LeftFor, PumpInv
  <2> QED
    BY Zenon, <2>1, <2>2, <2>3
<1>4. PumpTypeOK'
  BY Zenon, <1>1, <1>2 DEF PumpInv, PumpTypeOK
<1>5. ASSUME NEW d \in Ways PROVE Carries(d)' /\ EndsInOrder(d)'
  <2>1. Carries(d) /\ EndsInOrder(d)
    BY Zenon DEF PumpInv
  <2> QED
    BY Zenon, <1>1, <1>2, <2>1, CarriesKept DEF EndsInOrder, directionDone
<1> QED
  BY Zenon, <1>1, <1>3, <1>4, <1>5 DEF PumpInv

\* The end of the source is passed on.
LEMMA ReceiveEndKeeps ==
    ASSUME PumpInv, NEW d \in Ways, ReceiveEnd(d)
    PROVE  PumpInv'
<1>1. /\ UNCHANGED <<source, abortive, stop, cutShort>> /\ pumpAt = d /\ pumpAt' = after(d)
      /\ direction[d].pending = <<>> /\ source[d].unread = <<>> /\ source[d].fin
  BY Zenon DEF ReceiveEnd, Reads
<1>2. /\ direction'[d].pending = direction[d].pending /\ direction'[d].eof = TRUE
      /\ dest'[d].got = dest[d].got /\ dest'[d].end = "clean"
      /\ \A e \in Ways \ {d} : dest'[e] = dest[e] /\ direction'[e] = direction[e]
  BY Zenon DEF ReceiveEnd, PumpInv, PumpTypeOK
<1>3. pumpAt' \in {"down", "top"} /\ pumpAt # "closed" /\ ~abortive
  BY Zenon, <1>1 DEF after, PumpInv, LeftFor, Ways
<1>4. PumpTypeOK'
  <2>1. [direction[d] EXCEPT !.eof = TRUE] \in [pending : Seq(Nat), eof : BOOLEAN]
    BY Zenon DEF PumpInv, PumpTypeOK
  <2>2. [dest[d] EXCEPT !.end = "clean"] \in
          [got : Seq(Nat), end : {"open", "clean", "short", "reset"}]
    BY Zenon DEF PumpInv, PumpTypeOK
  <2> QED
    BY Zenon, <1>1, <1>3, <2>1, <2>2 DEF ReceiveEnd, PumpInv, PumpTypeOK
<1>5. LeftFor'
  BY Zenon, <1>1, <1>3 DEF LeftFor
<1>6. Carries(d)' /\ EndsInOrder(d)'
  <2>1. Carries(d)
    BY Zenon DEF PumpInv
  <2> QED
    BY Zenon, <1>1, <1>2, <1>3, <2>1, CarriesKept DEF EndsInOrder, directionDone
<1>7. ASSUME NEW e \in Ways \ {d} PROVE Carries(e)' /\ EndsInOrder(e)'
  <2>1. Carries(e) /\ EndsInOrder(e)
    BY Zenon DEF PumpInv
  <2> QED
    BY Zenon, <1>1, <1>2, <1>3, <2>1, CarriesKept DEF EndsInOrder, directionDone
<1> QED
  BY Zenon, <1>4, <1>5, <1>6, <1>7 DEF PumpInv

\* closeSockets(): a side that sees a clean end has a finished direction.
LEMMA ClosesKeeps ==
    ASSUME PumpInv, PumpCloses
    PROVE  /\ PumpInv'
           /\ \A d \in Ways :
                dest'[d].got = dest[d].got /\ (dest'[d].end = "clean" => directionDone(d))
<1>1. UNCHANGED <<direction, source, abortive, stop, cutShort>> /\ pumpAt' = "closed"
  BY Zenon DEF PumpCloses
<1>2. ASSUME NEW d \in Ways
      PROVE  /\ dest'[d].got = dest[d].got
             /\ dest'[d] \in [got : Seq(Nat), end : {"open", "clean", "short", "reset"}]
             /\ dest'[d].end = IF dest[d].end = "clean" THEN dest[d].end
                               ELSE IF abortive \/ stop # "no" THEN "reset"
                               ELSE IF cutShort THEN "short" ELSE "clean"
  BY Zenon, <1>2 DEF PumpCloses, PumpInv, PumpTypeOK
<1>3. ASSUME NEW d \in Ways, dest'[d].end = "clean" PROVE directionDone(d)
  <2>1. CASE dest[d].end = "clean"
    BY Zenon, <2>1 DEF PumpInv, EndsInOrder
  <2>2. CASE dest[d].end # "clean"
    <3>1. ~abortive /\ stop = "no" /\ ~cutShort
      BY Zenon, <1>2, <1>3, <2>2
    <3> QED
      BY Zenon, <3>1 DEF PumpInv, LeftFor, PumpCloses
  <2> QED
    BY Zenon, <2>1, <2>2
<1>4. PumpTypeOK'
  BY Zenon, <1>1, <1>2 DEF PumpInv, PumpTypeOK, PumpCloses
<1>5. LeftFor'
  BY Zenon, <1>1 DEF LeftFor
<1>6. ASSUME NEW d \in Ways PROVE Carries(d)' /\ EndsInOrder(d)'
  <2>1. Carries(d) /\ EndsInOrder(d)
    BY Zenon DEF PumpInv
  <2>2. dest'[d].end = "clean" => directionDone(d)'
    BY Zenon, <1>1, <1>3 DEF directionDone
  <2> QED
    BY Zenon, <1>1, <1>2, <2>1, <2>2, CarriesKept DEF EndsInOrder
<1> QED
  BY Zenon, <1>2, <1>3, <1>4, <1>5, <1>6 DEF PumpInv

\* A waiting direction either takes bytes or aborts.
LEMMA FlushTakes ==
    ASSUME PumpInv, NEW d \in Ways, FlushPending(d)
    PROVE  \/ pumpAt = d /\ Abort /\ source' = source
           \/ \E k \in Nat, rest \in Nat : \E n \in 0..k : Takes(d, k, n, rest)
<1> DEFINE g == Len(dest[d].got)
           p == Len(direction[d].pending)
           u == Len(source[d].unread)
<1>1. CASE Abort
  BY Zenon, <1>1 DEF FlushPending
<1>2. ASSUME NEW n \in 0..p, sendSome(d, direction[d].pending, n)
      PROVE  Takes(d, p, n, u)
  <2>1. g \in Nat /\ p \in Nat /\ u \in Nat
    BY Zenon, Lengths
  <2>2. pumpAt = d /\ direction[d].pending # <<>> /\ source' = source
    BY Zenon DEF FlushPending
  <2>3. ~abortive
    BY Zenon, <2>2 DEF PumpInv, LeftFor, Ways
  <2>4. /\ direction[d].pending = Run(g, p)
        /\ source[d].unread = Run(g + p, u) /\ source[d].sent = g + p + u
    BY Zenon, <2>3 DEF PumpInv, Carries
  <2>5. p # 0 /\ ~directionDone(d)
    BY Zenon, <2>1, <2>2, <2>4, RunEmpty DEF directionDone
  <2>6. direction[d].eof => u = 0
    BY <2>3 DEF PumpInv, EndsInOrder
  <2>7. source \in [Ways -> Sources]
    BY Zenon DEF PumpInv, PumpTypeOK
  <2> QED
    BY Zenon, <1>2, <2>2, <2>4, <2>5, <2>6, <2>7 DEF Takes
<1>3. p \in Nat /\ u \in Nat
  BY Zenon, Lengths
<1> QED
  BY Zenon, <1>1, <1>2, <1>3 DEF FlushPending

\* So does a direction that reads.
LEMMA ForwardTakes ==
    ASSUME PumpInv, NEW d \in Ways, Forward(d)
    PROVE  \/ /\ pumpAt = d /\ Abort /\ source' \in [Ways -> Sources]
              /\ \A e \in Ways : source'[e].fin = source[e].fin /\ source'[e].sent = source[e].sent
           \/ \E k \in Nat, rest \in Nat : \E n \in 0..k : Takes(d, k, n, rest)
<1> DEFINE g == Len(dest[d].got)
           u == Len(source[d].unread)
<1>1. PICK k \in 1..kPumpBufferSize :
        /\ k <= u
        /\ source' = [source EXCEPT ![d].unread = SubSeq(@, k + 1, Len(@))]
        /\ \/ \E n \in 0..k : sendSome(d, SubSeq(source[d].unread, 1, k), n)
           \/ Abort
  BY Zenon DEF Forward
<1>a. g \in Nat /\ u \in Nat
  BY Zenon, Lengths
<1> HIDE DEF g, u
<1>2. /\ g \in Nat /\ u \in Nat /\ k \in Nat /\ k # 0 /\ k \in 0..u
      /\ u - k \in Nat /\ g + k \in Nat
  BY <1>a, <1>1, PumpConstants
<1>3. /\ pumpAt = d /\ direction[d].pending = <<>> /\ ~direction[d].eof
      /\ source \in [Ways -> Sources]
  BY Zenon DEF Forward, Reads, PumpInv, PumpTypeOK
<1>4. ~abortive
  BY Zenon, <1>3 DEF PumpInv, LeftFor, Ways
<1>5. source[d].unread = Run(g, u) /\ source[d].sent = g + u
  <2>1. Len(direction[d].pending) = 0
    BY <1>3
  <2>2. source[d].unread = Run(g + 0, u) /\ source[d].sent = g + 0 + u
    BY Zenon, <1>4, <2>1 DEF PumpInv, Carries, g, u
  <2>3. g + 0 = g
    BY <1>2
  <2> QED
    BY Zenon, <2>2, <2>3
<1>6. /\ SubSeq(source[d].unread, 1, k) = Run(g, k)
      /\ SubSeq(source[d].unread, k + 1, u) = Run(g + k, u - k)
  <2>1. Len(Run(g, u)) = u
    BY Zenon, <1>2, RunLength
  <2>2. /\ SubSeq(Run(g, u), 1, k) = Run(g, k)
        /\ SubSeq(Run(g, u), k + 1, Len(Run(g, u))) = Run(g + k, u - k)
    BY Zenon, <1>2, RunSplits
  <2> QED
    BY Zenon, <1>5, <2>1, <2>2
<1>7. Run(g + k, u - k) \in Seq(Nat)
  BY Zenon, <1>2, RunLength
<1>8. [source[d] EXCEPT !.unread = Run(g + k, u - k)] \in Sources
  BY Zenon, <1>3, <1>7 DEF Sources
<1>9. source' = [source EXCEPT ![d] = [source[d] EXCEPT !.unread = Run(g + k, u - k)]]
  BY Zenon, <1>1, <1>6 DEF u
<1>10. /\ source' \in [Ways -> Sources]
       /\ source'[d].unread = Run(g + k, u - k)
       /\ \A e \in Ways : source'[e].fin = source[e].fin /\ source'[e].sent = source[e].sent
       /\ \A e \in Ways \ {d} : source'[e] = source[e]
  BY Zenon, <1>3, <1>8, <1>9 DEF Sources
<1>11. ASSUME NEW n \in 0..k, sendSome(d, SubSeq(source[d].unread, 1, k), n)
       PROVE  Takes(d, k, n, u - k)
  <2>1. g + u = g + k + (u - k)
    BY <1>2
  <2> QED
    BY Zenon, <1>2, <1>3, <1>5, <1>6, <1>10, <1>11, <2>1 DEF Takes, directionDone, g
<1> QED
  BY Zenon, <1>1, <1>2, <1>3, <1>10, <1>11

---------------------------------------------------------------------------
(* The pump implements Pipe                                                *)

\* How the end of a direction looks to Pipe.
ending(d) == IF dest[d].end \in {"short", "reset"} THEN "cut" ELSE dest[d].end

\* A step that only concerns the pump itself.
LEMMA Stutters ==
    ASSUME \A d \in Ways : /\ source'[d].sent = source[d].sent
                           /\ dest'[d].got = dest[d].got /\ dest'[d].end = dest[d].end
    PROVE  UNCHANGED PumpedPipe!pipeVars
BY Zenon DEF PumpedPipe!pipeVars

\* Bytes that are taken are delivered, with the end that follows the last one.
LEMMA TakesDelivers ==
    ASSUME PumpInv, NEW d \in Ways, NEW k \in Nat, NEW n \in 0..k, NEW rest \in Nat,
           Takes(d, k, n, rest)
    PROVE  [PumpedPipe!PipeNext]_PumpedPipe!pipeVars
<1> DEFINE g == Len(dest[d].got)
<1>a. g \in Nat
  BY Zenon, Lengths
<1>1. /\ dest'[d].got = Run(0, g + n) /\ Len(dest'[d].got) = g + n
      /\ dest'[d].end = IF direction[d].eof /\ n = k THEN "clean" ELSE dest[d].end
      /\ \A e \in Ways \ {d} : dest'[e] = dest[e]
      /\ dest' \in [Ways -> [got : Seq(Nat), end : {"open", "clean", "short", "reset"}]]
  BY SMTT(30), SendSomeMoves DEF Takes
<1>2. \A e \in Ways : source'[e].sent = source[e].sent
  BY Zenon DEF Takes
<1>3. dest[d].got = Run(0, g)
  BY Zenon DEF PumpInv, Carries
<1>4. dest[d].end = "open"
  <2>1. EndsInOrder(d) /\ pumpAt # "closed"
    BY Zenon DEF PumpInv, Takes, Ways
  <2> QED
    BY Zenon, <2>1 DEF EndsInOrder, Takes
<1>5. source[d].sent = g + k + rest /\ (direction[d].eof => rest = 0) /\ k # 0
  BY Zenon DEF Takes
<1> HIDE DEF g
<1>6. CASE n = 0
  <2>1. g + n = g /\ n # k
    BY <1>a, <1>5, <1>6
  <2>2. dest'[d].got = dest[d].got /\ dest'[d].end = dest[d].end
    BY Zenon, <1>1, <1>3, <2>1
  <2> QED
    BY Zenon, <1>1, <1>2, <2>2, Stutters
<1>7. CASE n # 0
  <2>1. n \in 1..(source[d].sent - Len(dest[d].got))
    BY <1>a, <1>5, <1>7 DEF g
  <2>2. Run(0, g) \o Run(g, n) = Run(0, g + n)
    <3>1. n \in Nat
      OBVIOUS
    <3>2. Run(0, g) \o Run(0 + g, n) = Run(0, g + n)
      BY Zenon, <1>a, <3>1, RunJoins
    <3>3. 0 + g = g
      BY <1>a
    <3> QED
      BY Zenon, <3>2, <3>3
  <2>3. dest'[d].got = dest[d].got \o [i \in 1..n |-> Len(dest[d].got) + i]
    BY Zenon, <1>1, <1>3, <2>2 DEF Run, g
  <2>4. PumpedPipe!MayEnd({d})
    <3>1. \A e \in Ways \ {d} : ending(e)' = ending(e)
      BY Zenon, <1>1 DEF ending
    <3>2. ending(d)' \in {"open", "clean"} /\ ending(d) = "open"
      BY Zenon, <1>1, <1>4 DEF ending
    <3>3. ending(d)' = "clean" => Len(dest'[d].got) = source[d].sent
      <4>1. ending(d)' = "clean" => direction[d].eof /\ n = k
        BY Zenon, <1>1, <1>4 DEF ending
      <4>2. rest = 0 /\ n = k => g + n = source[d].sent
        BY <1>a, <1>5
      <4> QED
        BY Zenon, <1>1, <1>5, <4>1, <4>2
    <3>4. \A e \in Ways : ending(e)' \in {"open", "clean", "cut"}
      BY Zenon, <1>1 DEF ending
    <3> QED
      BY Zenon, <3>1, <3>2, <3>3, <3>4 DEF PumpedPipe!MayEnd, PumpedPipe!Directions, Ways, ending
  <2>5. PumpedPipe!Deliver(d)
    <3> DEFINE out == [e \in Ways |-> dest[e].got]
    <3>1. out' = [out EXCEPT ![d] = dest[d].got \o [i \in 1..n |-> Len(dest[d].got) + i]]
      BY Zenon, <1>1, <2>3
    <3>2. [e \in Ways |-> source[e].sent]' = [e \in Ways |-> source[e].sent]
      BY Zenon, <1>2
    <3>3. out[d] = dest[d].got /\ [e \in Ways |-> source[e].sent][d] = source[d].sent
      BY Zenon
    <3>4. [e \in Ways |-> IF dest[e].end \in {"short", "reset"} THEN "cut" ELSE dest[e].end][d]
            = "open"
      BY Zenon, <1>4
    <3>5. \E m \in 1..([e \in Ways |-> source[e].sent][d] - Len(out[d])) :
            out' = [out EXCEPT ![d] = out[d] \o [i \in 1..m |-> Len(out[d]) + i]]
      <4>1. n \in 1..([e \in Ways |-> source[e].sent][d] - Len(out[d]))
        BY Zenon, <2>1, <3>3
      <4>2. out' = [out EXCEPT ![d] = out[d] \o [i \in 1..n |-> Len(out[d]) + i]]
        BY Zenon, <3>1, <3>3
      <4> HIDE DEF out
      <4> QED
        BY Zenon, <4>1, <4>2
    <3> QED
      BY Zenon, <2>4, <3>2, <3>4, <3>5 DEF PumpedPipe!Deliver
  <2> QED
    BY Zenon, <2>5 DEF PumpedPipe!PipeNext, PumpedPipe!Directions, Ways
<1> QED
  BY Zenon, <1>6, <1>7

\* A peer that sends has not finished, so Pipe has not seen a clean end.
LEMMA PeersSend ==
    ASSUME PumpInv, NEW d \in Ways, PeerSends(d) \/ PeerFinishes(d) \/ PeerResets(d)
    PROVE  [PumpedPipe!PipeNext]_PumpedPipe!pipeVars
<1>0. UNCHANGED dest /\ source \in [Ways -> Sources]
  BY Zenon DEF PeerSends, PeerFinishes, PeerResets, peerVars, PumpInv, PumpTypeOK
<1>1. CASE PeerSends(d)
  <2>1. dest[d].end # "clean"
    BY Zenon, <1>1 DEF PumpInv, EndsInOrder, directionDone, PeerSends, Speaks
  <2>2. [e \in Ways |-> source[e].sent]'
          = [[e \in Ways |-> source[e].sent] EXCEPT ![d] = source[d].sent + 1]
    BY Zenon, <1>0, <1>1 DEF PeerSends, Sources
  <2>3. /\ [e \in Ways |-> source[e].sent][d] = source[d].sent
        /\ [e \in Ways |-> IF dest[e].end \in {"short", "reset"} THEN "cut" ELSE dest[e].end][d]
             # "clean"
    BY Zenon, <2>1
  <2>4. PumpedPipe!Send(d)
    BY Zenon, <1>0, <2>2, <2>3 DEF PumpedPipe!Send
  <2> QED
    BY Zenon, <2>4 DEF PumpedPipe!PipeNext, PumpedPipe!Directions, Ways
<1>2. CASE PeerFinishes(d) \/ PeerResets(d)
  <2>1. \A e \in Ways : source'[e].sent = source[e].sent
    <3>1. \/ source' = [source EXCEPT ![d].fin = TRUE]
          \/ source' = [source EXCEPT ![d].reset = TRUE]
      BY Zenon, <1>2 DEF PeerFinishes, PeerResets
    <3>2. CASE source' = [source EXCEPT ![d].fin = TRUE]
      BY Zenon, <1>0, <3>2 DEF Sources
    <3>3. CASE source' = [source EXCEPT ![d].reset = TRUE]
      BY Zenon, <1>0, <3>3 DEF Sources
    <3> QED
      BY Zenon, <3>1, <3>2, <3>3
  <2>2. UNCHANGED PumpedPipe!pipeVars
    BY Zenon, <1>0, <2>1, Stutters
  <2> QED
    BY Zenon, <2>2
<1> QED
  BY Zenon, <1>1, <1>2

\* Directions that end with nothing missing, or are cut.
LEMMA EndsArePipes ==
    ASSUME PumpInv, PumpInv', source' = source,
           \A d \in Ways :
              /\ dest'[d].got = dest[d].got
              /\ dest'[d].end = dest[d].end \/ dest[d].end = "open"
              /\ dest'[d].end = "clean" /\ dest[d].end = "open" =>
                   Len(dest[d].got) = source[d].sent
    PROVE  PumpedPipe!End
<1>1. \A d \in Ways : ending(d)' \in {"open", "clean", "cut"}
  BY Zenon DEF ending, PumpInv, PumpTypeOK
<1>2. ASSUME NEW d \in Ways, ending(d)' # ending(d)
      PROVE  ending(d) = "open" /\ (ending(d)' = "clean" => Len(dest'[d].got) = source[d].sent)
  BY Zenon, <1>2 DEF ending
<1>3. PumpedPipe!MayEnd(PumpedPipe!Directions)
  BY Zenon, <1>1, <1>2 DEF PumpedPipe!MayEnd, PumpedPipe!Directions, Ways, ending
<1> QED
  BY Zenon, <1>3 DEF PumpedPipe!End

\* Every step keeps the invariant and is a step of Pipe, or none.
LEMMA PumpStepIsAPipeStep ==
    ASSUME PumpInv, [PumpNext]_pumpVars
    PROVE  PumpInv' /\ [PumpedPipe!PipeNext]_PumpedPipe!pipeVars
<1> DEFINE Goal == PumpInv' /\ [PumpedPipe!PipeNext]_PumpedPipe!pipeVars
<1>1. ASSUME NEW d \in Ways, PeerSends(d) \/ PeerFinishes(d) \/ PeerResets(d) PROVE Goal
  BY Zenon, <1>1, PeersKeep, PeersSend
<1>2. CASE \/ ReturnStopped \/ ReturnFinished \/ ReturnIdle \/ Wake
           \/ (\E d \in Ways : Skip(d)) \/ PumpStopFlag \/ PumpStopShuts
  <2>1. PumpInv' /\ UNCHANGED <<direction, source, dest>>
    BY Zenon, <1>2, ControlKeeps
  <2>2. UNCHANGED PumpedPipe!pipeVars
    BY Zenon, <2>1, Stutters
  <2> QED
    BY Zenon, <2>1, <2>2
<1>3. ASSUME pumpAt \in Ways, Abort, source' \in [Ways -> Sources],
             \A d \in Ways : source'[d].fin = source[d].fin /\ source'[d].sent = source[d].sent
      PROVE  Goal
  <2>1. PumpInv'
    BY Zenon, <1>3, AbortKeeps
  <2>2. UNCHANGED PumpedPipe!pipeVars
    BY Zenon, <1>3, Stutters DEF Abort
  <2> QED
    BY Zenon, <2>1, <2>2
<1>4. ASSUME NEW d \in Ways, NEW k \in Nat, NEW rest \in Nat, NEW n \in 0..k,
             Takes(d, k, n, rest)
      PROVE  Goal
  BY Zenon, <1>4, TakesKeeps, TakesDelivers
<1>5. source \in [Ways -> Sources]
  BY Zenon DEF PumpInv, PumpTypeOK
<1>6. ASSUME NEW d \in Ways, FlushPending(d) PROVE Goal
  BY Zenon, <1>3, <1>4, <1>5, <1>6, FlushTakes
<1>7. ASSUME NEW d \in Ways, Forward(d) PROVE Goal
  BY Zenon, <1>3, <1>4, <1>7, ForwardTakes
<1>8. ASSUME NEW d \in Ways, PumpReceiveFails(d) PROVE Goal
  BY Zenon, <1>3, <1>5, <1>8 DEF PumpReceiveFails, Reads
<1>9. ASSUME NEW d \in Ways, ReceiveEnd(d) PROVE Goal
  <2>1. PumpInv'
    BY Zenon, <1>9, ReceiveEndKeeps
  <2>2. /\ UNCHANGED source /\ pumpAt = d /\ source[d].unread = <<>>
        /\ direction[d].pending = <<>> /\ ~direction[d].eof
    BY Zenon, <1>9 DEF ReceiveEnd, Reads
  <2>3. /\ \A e \in Ways : dest'[e].got = dest[e].got
        /\ \A e \in Ways \ {d} : dest'[e].end = dest[e].end
    BY Zenon, <1>9 DEF ReceiveEnd, PumpInv, PumpTypeOK
  <2>4. dest[d].end = "open"
    BY Zenon, <2>2 DEF PumpInv, EndsInOrder, directionDone, Ways
  <2>5. Len(dest[d].got) = source[d].sent
    <3>1. ~abortive
      BY Zenon, <2>2 DEF PumpInv, LeftFor, Ways
    <3>2. source[d].sent = Len(dest[d].got) + 0 + 0
      BY Zenon, <2>2, <3>1 DEF PumpInv, Carries
    <3> QED
      BY <3>2, Lengths
  <2>6. PumpedPipe!End
    BY Zenon, <2>1, <2>2, <2>3, <2>4, <2>5, EndsArePipes
  <2> QED
    BY Zenon, <2>1, <2>6 DEF PumpedPipe!PipeNext
<1>10. CASE PumpCloses
  <2>1. /\ PumpInv'
        /\ \A d \in Ways :
             dest'[d].got = dest[d].got /\ (dest'[d].end = "clean" => directionDone(d))
    BY Zenon, <1>10, ClosesKeeps
  <2>2. UNCHANGED <<source, direction>> /\ pumpAt = "returned"
    BY Zenon, <1>10 DEF PumpCloses
  <2>3. ASSUME NEW d \in Ways PROVE dest'[d].end = dest[d].end \/ dest[d].end = "open"
    <3>1. dest[d].end \in {"open", "clean"}
      BY Zenon, <2>2 DEF PumpInv, EndsInOrder
    <3>2. dest[d].end = "clean" => dest'[d].end = "clean"
      BY Zenon, <1>10 DEF PumpCloses, PumpInv, PumpTypeOK
    <3> QED
      BY Zenon, <3>1, <3>2
  <2>4. ASSUME NEW d \in Ways, dest'[d].end = "clean", dest[d].end = "open"
        PROVE  Len(dest[d].got) = source[d].sent
    <3>1. ~abortive
      BY Zenon, <1>10, <2>4 DEF PumpCloses, PumpInv, PumpTypeOK
    <3>2. direction[d].eof /\ direction[d].pending = <<>>
      BY Zenon, <2>1, <2>4 DEF directionDone
    <3>3. source[d].unread = <<>>
      BY Zenon, <3>1, <3>2 DEF PumpInv, EndsInOrder
    <3>4. source[d].sent = Len(dest[d].got) + 0 + 0
      BY Zenon, <3>1, <3>2, <3>3 DEF PumpInv, Carries
    <3> QED
      BY <3>4, Lengths
  <2>5. PumpedPipe!End
    BY Zenon, <2>1, <2>2, <2>3, <2>4, EndsArePipes
  <2> QED
    BY Zenon, <2>1, <2>5 DEF PumpedPipe!PipeNext
<1>11. CASE UNCHANGED pumpVars
  <2>1. PumpInv'
    BY Zenon, <1>11 DEF pumpVars, PumpInv, PumpTypeOK, LeftFor, Carries, EndsInOrder, directionDone
  <2>2. UNCHANGED PumpedPipe!pipeVars
    BY Zenon, <1>11, Stutters DEF pumpVars
  <2> QED
    BY <2>1, <2>2
<1>12. ASSUME NEW d \in Ways, PumpStep(d) PROVE Goal
  <2>1. CASE Skip(d)
    BY <1>2, <2>1
  <2> QED
    BY <1>6, <1>7, <1>8, <1>9, <1>12, <2>1 DEF PumpStep
<1>13. CASE PumpNext
  BY <1>1, <1>2, <1>10, <1>12, <1>13 DEF PumpNext
<1> QED
  BY <1>11, <1>13

\* The pump of one tunnelled connection is a pipe, for every number of bytes
\* sent and every size of the buffer: what a side gets is a prefix of what the
\* other one sent, and a clean end means that nothing is missing (pump,
\* sendSome, closeSockets, stop).
THEOREM PumpImplementsPipe == PumpSpec => PumpIsAPipe
<1>1. PumpInit => PumpedPipe!PipeInit
  BY DEF PumpInit, PumpedPipe!PipeInit, PumpedPipe!Directions, Ways
<1> QED
  BY <1>1, PumpInvInit, PumpStepIsAPipeStep, PTL DEF PumpSpec, PumpIsAPipe, PumpedPipe!PipeSpec

=============================================================================
