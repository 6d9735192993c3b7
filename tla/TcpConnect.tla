----------------------------- MODULE TcpConnect -----------------------------
(***************************************************************************)
(* tcp::connectAny (src/src/TcpConnect.cpp): the addresses of a host are   *)
(* raced.  Attempts start in order, attemptDelay apart, the next one at    *)
(* once when one fails; the first socket that becomes writable wins and    *)
(* the others are closed.                                                  *)
(***************************************************************************)
EXTENDS Integers, FiniteSets, FiniteSetsExt

CONSTANTS
    Addresses,              \* how many addresses the host has
    kMaxParallelAttempts,
    attemptDelay,           \* attemptDelayMs, in ticks
    totalTimeout            \* totalTimeoutMs, in ticks

ASSUME TcpConnectConstants ==
    /\ {Addresses, attemptDelay, totalTimeout} \subseteq Nat
    /\ kMaxParallelAttempts \in Nat \ {0}

VARIABLES
    racing,         \* the loop is running, or connectAny returned
    attempt,        \* address -> what became of it
    nextCandidate,
    nextStart,      \* ticks until nextStartAt
    deadline,       \* ticks until the deadline
    dropped,        \* history: addresses given up although they had answered
    broken          \* history: select() or makeBlocking() failed

connectVars == <<racing, attempt, nextCandidate, nextStart, deadline, dropped, broken>>

Candidates == 1..Addresses
inFlight == {a \in Candidates : attempt[a] \in {"pending", "up", "refused"}}
candidatesLeft == nextCandidate <= Addresses
canStart ==
    candidatesLeft /\ Cardinality(inFlight) < kMaxParallelAttempts /\ nextStart = 0

ConnectInit ==
    /\ racing = TRUE
    /\ attempt = [a \in Candidates |-> "untried"]
    /\ nextCandidate = 1 /\ nextStart = 0 /\ deadline = totalTimeout
    /\ dropped = {} /\ broken = FALSE

\* beginConnect() on the next address.  Only a live attempt earns the stagger.
StartAttempt ==
    /\ racing /\ deadline > 0 /\ canStart
    /\ nextCandidate' = nextCandidate + 1
    /\ \/ /\ attempt' = [attempt EXCEPT ![nextCandidate] = "pending"]
          /\ nextStart' = attemptDelay
       \/ /\ attempt' = [attempt EXCEPT ![nextCandidate] = "unusable"]
          /\ UNCHANGED nextStart
    /\ UNCHANGED <<racing, deadline, dropped, broken>>

\* The network answers an attempt.
AttemptAnswers(a) ==
    /\ racing /\ attempt[a] = "pending"
    /\ \E fate \in {"up", "refused"} : attempt' = [attempt EXCEPT ![a] = fate]
    /\ UNCHANGED <<racing, nextCandidate, nextStart, deadline, dropped, broken>>

\* The end of connectAny: what is still in flight is closed.
Closed(fates) ==
    [a \in Candidates |-> IF fates[a] \in {"pending", "up", "refused"} THEN "closed" ELSE fates[a]]

Returns(fates, failure) ==
    /\ racing' = FALSE
    /\ attempt' = Closed(fates)
    /\ dropped' = dropped \union {a \in Candidates : fates[a] = "up"}
    /\ broken' = failure
    /\ UNCHANGED <<nextCandidate, nextStart, deadline>>

\* One pass over the sockets select() reported, in the order they were
\* started: refused ones are closed until one is found that is up.
SelectReady ==
    /\ racing /\ deadline > 0 /\ ~canStart
    /\ LET up == {a \in inFlight : attempt[a] = "up"}
           refused == {a \in inFlight : attempt[a] = "refused"
                                        /\ \A w \in up : a < w}
           left == [a \in Candidates |-> IF a \in refused THEN "closed" ELSE attempt[a]]
       IN  \/ /\ up # {}
              /\ \/ Returns([left EXCEPT ![Min(up)] = "won"], FALSE)
                 \/ Returns(left, TRUE)
           \/ /\ up = {} /\ refused # {}
              /\ attempt' = left
              /\ nextStart' = 0
              /\ UNCHANGED <<racing, nextCandidate, deadline, dropped, broken>>

SelectFails ==
    /\ racing /\ deadline > 0 /\ ~canStart /\ inFlight # {}
    /\ Returns(attempt, TRUE)

\* Nothing in flight and nothing left to try.
NothingLeftEarly ==
    /\ racing /\ deadline > 0 /\ inFlight = {}
    /\ Returns(attempt, FALSE)
NothingLeft ==
    /\ racing /\ deadline > 0 /\ inFlight = {} /\ ~candidatesLeft
    /\ Returns(attempt, FALSE)

DeadlinePassed ==
    /\ racing /\ deadline = 0
    /\ Returns(attempt, FALSE)

connectTick ==
    /\ racing /\ deadline > 0
    /\ deadline' = deadline - 1
    /\ nextStart' = Max({nextStart - 1, 0})
    /\ UNCHANGED <<racing, attempt, nextCandidate, dropped, broken>>

ConnectNext ==
    \/ StartAttempt \/ SelectReady \/ SelectFails \/ NothingLeft \/ DeadlinePassed
    \/ connectTick
    \/ \E a \in Candidates : AttemptAnswers(a)

ConnectSpec == ConnectInit /\ [][ConnectNext]_connectVars

---------------------------------------------------------------------------
(* Properties                                                              *)

\* connectAny gives up before its deadline only when every address was tried
\* and none of them had answered, it keeps at most one socket, and it leaves
\* no other attempt open (the loop and the closing of inFlight, connectAny).
ConnectIsThorough ==
    ~racing =>
        /\ inFlight = {}
        /\ Cardinality({a \in Candidates : attempt[a] = "won"}) <= 1
        /\ (\A a \in Candidates : attempt[a] # "won") /\ deadline > 0 /\ ~broken
           => dropped = {} /\ \A a \in Candidates : attempt[a] # "untried"

=============================================================================
