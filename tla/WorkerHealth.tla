---------------------------- MODULE WorkerHealth ----------------------------
(***************************************************************************)
(* recovery::WorkerHealth (src/src/RecoveryPolicy.cpp) and the callers that *)
(* feed it (Resolver::prepareWorkerCall, fetch and observe of              *)
(* src/src/Dns.cpp): several threads call the Worker, and each reads the   *)
(* clock before it gets the lock, so stamps may arrive out of order.  The  *)
(* differences of stamps are taken on unsigned integers of Word values.    *)
(***************************************************************************)
EXTENDS Integers, Sequences

CONSTANTS
    Threads,
    Word,                          \* 2^64: unsigned differences wrap at it
    kWorkerFailureThreshold, kWorkerFailureGapMs, kWorkerMinStreakMs,
    kRateLimitDefaultBackoffMs, kRateLimitMaxBackoffMs,
    RetryAfters,                   \* Retry-After headers in ms; 0 is "absent"
    MaxMs,                         \* bound on the clock
    MaxStreak                      \* bound on the failures of a run

VARIABLES
    failures, streakStartMs, lastFailureMs, backoffUntilMs, unavailable,
    now,                           \* GetTickCount64
    calls,                         \* per thread: "idle", "calling" or "stamped"
    stamp,                         \* per thread: the clock it read for observe
    streak                         \* history: the stamps of the failures
                                   \* observed since the last success, in the
                                   \* order of the lock, up to the latch

healthVars == <<failures, streakStartMs, lastFailureMs, backoffUntilMs,
                unavailable>>
vars == <<healthVars, now, calls, stamp, streak>>

ASSUME ThresholdAssumption == kWorkerFailureThreshold \in Nat \ {0}
ASSUME MsAssumption ==
    /\ kWorkerFailureGapMs \in Nat /\ kWorkerMinStreakMs \in Nat
    /\ kRateLimitDefaultBackoffMs \in Nat /\ kRateLimitMaxBackoffMs \in Nat
    /\ RetryAfters \subseteq Nat
ASSUME WordAssumption ==
    /\ MaxMs \in Nat /\ Word \in Nat
    /\ MaxMs + kWorkerFailureGapMs < Word

minus(a, b) == (a - b) % Word

Init ==
    /\ failures = 0 /\ streakStartMs = 0 /\ lastFailureMs = 0
    /\ backoffUntilMs = 0 /\ unavailable = FALSE
    /\ now = 0
    /\ calls = [t \in Threads |-> "idle"]
    /\ stamp = [t \in Threads |-> 0]
    /\ streak = <<>>

backingOff == now < backoffUntilMs

\* prepareWorkerCall lets the thread call the Worker.
Call(t) ==
    /\ calls[t] = "idle"
    /\ ~backingOff
    /\ calls' = [calls EXCEPT ![t] = "calling"]
    /\ UNCHANGED <<healthVars, now, stamp, streak>>

\* The answer is there and the clock is read; the lock is still to come.
Answered(t) ==
    /\ calls[t] = "calling"
    /\ calls' = [calls EXCEPT ![t] = "stamped"]
    /\ stamp' = [stamp EXCEPT ![t] = now]
    /\ UNCHANGED <<healthVars, now, streak>>

\* observe() returns at once when the Worker is given up.
ObserveLatched(t) ==
    /\ unavailable
    /\ UNCHANGED <<healthVars, streak>>

\* HTTP 429: neither a failure nor a recovery.
ObserveRateLimit(t, retryAfter) ==
    LET requested == IF retryAfter # 0 THEN retryAfter
                                       ELSE kRateLimitDefaultBackoffMs
        capped == IF requested < kRateLimitMaxBackoffMs
                    THEN requested ELSE kRateLimitMaxBackoffMs
    IN  /\ ~unavailable
        /\ backoffUntilMs' = IF stamp[t] + capped > backoffUntilMs
                               THEN stamp[t] + capped ELSE backoffUntilMs
        /\ UNCHANGED <<failures, streakStartMs, lastFailureMs, unavailable, streak>>

ObserveSuccess(t) ==
    /\ ~unavailable
    /\ failures' = 0
    /\ streak' = <<>>
    /\ UNCHANGED <<streakStartMs, lastFailureMs, backoffUntilMs, unavailable>>

\* Mutated startsStreak: an old failure still counts.
neverStale(t) == failures = 0

\* The failure opens a run: none is open, or the last one is too long ago.
startsStreak(t) ==
    \/ failures = 0
    \/ minus(stamp[t], lastFailureMs) > kWorkerFailureGapMs

\* A transport error, 401, 403 or 5xx.
ObserveFailure(t) ==
    /\ ~unavailable
    /\ Len(streak) < MaxStreak
    /\ failures' = IF startsStreak(t) THEN 1 ELSE failures + 1
    /\ streakStartMs' = IF startsStreak(t) THEN stamp[t] ELSE streakStartMs
    /\ lastFailureMs' = stamp[t]
    /\ unavailable' = (/\ failures' >= kWorkerFailureThreshold
                       /\ minus(stamp[t], streakStartMs') >= kWorkerMinStreakMs)
    /\ streak' = Append(streak, stamp[t])
    /\ UNCHANGED backoffUntilMs

observe(t) ==
    /\ calls[t] = "stamped"
    /\ \/ ObserveLatched(t)
       \/ \E retryAfter \in RetryAfters : ObserveRateLimit(t, retryAfter)
       \/ ObserveSuccess(t)
       \/ ObserveFailure(t)
    /\ calls' = [calls EXCEPT ![t] = "idle"]
    /\ UNCHANGED <<now, stamp>>

Tick == /\ now < MaxMs
        /\ now' = now + 1
        /\ UNCHANGED <<healthVars, calls, stamp, streak>>

Next == Tick \/ \E t \in Threads : Call(t) \/ Answered(t) \/ observe(t)

Spec == Init /\ [][Next]_vars

-----------------------------------------------------------------------------
(* Properties.                                                             *)

\* Every variable stays in its type, and no stamp is ahead of the clock.
TypeOK ==
    /\ now \in Nat /\ now <= MaxMs
    /\ failures \in Nat /\ streakStartMs \in 0..now /\ lastFailureMs \in 0..now
    /\ backoffUntilMs \in Nat
    /\ unavailable \in BOOLEAN
    /\ calls \in [Threads -> {"idle", "calling", "stamped"}]
    /\ stamp \in [Threads -> 0..now]
    /\ streak \in Seq(0..now)

\* From the i-th failure of the history on, each came within the gap of the
\* one before it.
Sustained(i) ==
    \A j \in i..(Len(streak) - 1) :
        /\ streak[j] <= streak[j + 1]
        /\ streak[j + 1] - streak[j] <= kWorkerFailureGapMs

\* The Worker is only given up after kWorkerFailureThreshold failures with no
\* success in between, each within the gap of the previous and spread over
\* kWorkerMinStreakMs, whatever order the threads report in (observe).
LatchNeedsSustainedFailures ==
    unavailable =>
        \E i \in 1..Len(streak) :
            /\ Sustained(i)
            /\ Len(streak) - i + 1 >= kWorkerFailureThreshold
            /\ streak[Len(streak)] - streak[i] >= kWorkerMinStreakMs

\* A back-off, whatever the Worker asks for, ends within the cap: DNS is never
\* silenced for longer (observe, HTTP 429).
BackoffBounded ==
    backoffUntilMs <= now + kRateLimitMaxBackoffMs

=============================================================================
