------------------------------ MODULE DnsProxy ------------------------------
(***************************************************************************)
(* TransparentDnsProxy (src/src/TransparentDnsProxy.cpp) on top of the     *)
(* resolver: the receiver thread, the queue, the worker threads, and the   *)
(* thread that starts and stops them.  A call of the Worker first asks the *)
(* system for the Worker's address; that question is captured too and      *)
(* comes back to the receiver.                                             *)
(***************************************************************************)
EXTENDS DnsResolver, Sequences

CONSTANTS
    Workers, receiver,             \* the threads that call the resolver
    kMaxQueuedQueries, kMaxQueueAgeMs,
    MayRestart,                    \* whether a stopped proxy is started again
    Nobody

VARIABLES
    running,
    jobs,                          \* queue of [key, at]
    holder,                        \* who holds queueMutex_ between two steps
    worker,                        \* per worker: where it is in workerLoop
    received,                      \* where the receiver is, and its job
    asked,                         \* per worker: has its fetch an address yet?
    owner                          \* the thread that runs start() and stop()

proxyVars == <<running, jobs, holder, worker, received, asked, owner>>
allVars == <<vars, proxyVars>>

ASSUME ThreadsAssumption == Callers = Workers \cup {receiver} /\ receiver \notin Workers

Questions == Keys \cup WireKeys
NoJob == [at |-> "recv", job |-> NoKey]

ProxyInit ==
    /\ Init
    /\ running = FALSE
    /\ jobs = <<>>
    /\ holder = Nobody
    /\ worker = [w \in Workers |-> "gone"]
    /\ received = [NoJob EXCEPT !.at = "gone"]
    /\ asked = [w \in Workers |-> "no"]
    /\ owner = "new"

free == holder = Nobody
processing(w) == worker[w] \in {"resolve", "wire"}
Move(w, step) == worker' = [worker EXCEPT ![w] = step]

-----------------------------------------------------------------------------
(* start(), stop() and fail()                                              *)

\* start() begins with the rest of an earlier run: stopLocked().
start ==
    /\ owner = "new" \/ (owner = "down" /\ MayRestart)
    /\ running' = TRUE
    /\ jobs' = <<>>
    /\ worker' = [w \in Workers |-> "lock"]
    /\ received' = NoJob
    /\ owner' = "up"
    /\ UNCHANGED <<vars, holder, asked>>

\* stopLocked(): the flag is cleared without the lock ...
stop ==
    /\ owner = "up"
    /\ running' = FALSE
    /\ owner' = "clearing"
    /\ UNCHANGED <<vars, jobs, holder, worker, received, asked>>

\* ... but the queue is emptied under it, before everybody is notified.
ClearJobs ==
    /\ owner = "clearing"
    /\ free
    /\ jobs' = <<>>
    /\ owner' = "notifying"
    /\ UNCHANGED <<vars, running, holder, worker, received, asked>>

wakeAll == [w \in Workers |-> IF worker[w] = "waiting" THEN "lock" ELSE worker[w]]

NotifyWorkers ==
    /\ owner = "notifying"
    /\ worker' = wakeAll
    /\ owner' = "joining"
    /\ UNCHANGED <<vars, running, jobs, holder, received, asked>>

Joined ==
    /\ owner = "joining"
    /\ received.at = "gone" /\ \A w \in Workers : worker[w] = "gone"
    /\ owner' = "down"
    /\ UNCHANGED <<vars, running, jobs, holder, worker, received, asked>>

-----------------------------------------------------------------------------
(* receiveLoop()                                                           *)

\* A claimed datagram with a question of an application.
Receive(k) ==
    /\ received.at = "recv" /\ running
    /\ received' = [at |-> "push", job |-> [key |-> k, at |-> now]]
    /\ UNCHANGED <<vars, running, jobs, holder, worker, asked, owner>>

\* Mutated ReceiveBootstrap: the answer needs a worker that has nothing to do.
ReceiveBootstrapByWorker(w) ==
    /\ received.at = "recv" /\ running
    /\ asked[w] = "sent"
    /\ \E u \in Workers : ~processing(u)
    /\ Resolve(receiver, workerHost)
    /\ received' = [at |-> "busy", job |-> w]
    /\ UNCHANGED <<running, jobs, holder, worker, asked, owner>>

\* The question for the Worker's own name is answered by the receiver itself.
ReceiveBootstrap(w) ==
    /\ received.at = "recv" /\ running
    /\ asked[w] = "sent"
    /\ Resolve(receiver, workerHost)
    /\ received' = [at |-> "busy", job |-> w]
    /\ UNCHANGED <<running, jobs, holder, worker, asked, owner>>

ReplyBootstrap ==
    /\ received.at = "busy" /\ At(receiver, "idle")
    /\ asked' = [asked EXCEPT ![received.job] =
                   IF @ = "sent" /\ running THEN "answered" ELSE @]
    /\ received' = NoJob
    /\ UNCHANGED <<vars, running, jobs, holder, worker, owner>>

\* A full queue drops the question.
Push ==
    /\ received.at = "push" /\ free
    /\ IF Len(jobs) >= kMaxQueuedQueries
         THEN received' = NoJob /\ jobs' = jobs
         ELSE /\ jobs' = Append(jobs, received.job)
              /\ received' = [NoJob EXCEPT !.at = "notify"]
    /\ UNCHANGED <<vars, running, holder, worker, asked, owner>>

NotifyOne ==
    /\ received.at = "notify"
    /\ received' = NoJob
    /\ \/ \E w \in Workers : worker[w] = "waiting" /\ Move(w, "lock")
       \/ (\A w \in Workers : worker[w] # "waiting") /\ UNCHANGED worker
    /\ UNCHANGED <<vars, running, jobs, holder, asked, owner>>

\* The flag is seen cleared, at the latest when recvfrom times out.
ReceiverLeaves ==
    /\ received.at = "recv" /\ ~running
    /\ received' = [NoJob EXCEPT !.at = "gone"]
    /\ UNCHANGED <<vars, running, jobs, holder, worker, asked, owner>>

\* A fatal socket error, or an exception: fail() ends the other threads.
ReceiverFails ==
    /\ received.at = "recv" /\ running /\ free
    /\ running' = FALSE
    /\ worker' = wakeAll
    /\ received' = [NoJob EXCEPT !.at = "gone"]
    /\ UNCHANGED <<vars, jobs, holder, asked, owner>>

-----------------------------------------------------------------------------
(* workerLoop()                                                            *)

Acquire(w) ==
    /\ worker[w] = "lock" /\ free
    /\ holder' = w
    /\ Move(w, "check")
    /\ UNCHANGED <<vars, running, jobs, received, asked, owner>>

\* The predicate is false: the worker holds the lock until it sleeps.
Doze(w) ==
    /\ worker[w] = "check" /\ running /\ jobs = <<>>
    /\ Move(w, "dozing")
    /\ UNCHANGED <<vars, running, jobs, holder, received, asked, owner>>

Sleep(w) ==
    /\ worker[w] = "dozing"
    /\ holder' = Nobody
    /\ Move(w, "waiting")
    /\ UNCHANGED <<vars, running, jobs, received, asked, owner>>

\* Mutated Leave: the flag is not looked at after the wait.
LeaveSpins(w) ==
    /\ worker[w] = "check" /\ ~running
    /\ holder' = Nobody
    /\ Move(w, "lock")
    /\ UNCHANGED <<vars, running, jobs, received, asked, owner>>

Leave(w) ==
    /\ worker[w] = "check" /\ ~running
    /\ holder' = Nobody
    /\ Move(w, "gone")
    /\ UNCHANGED <<vars, running, jobs, received, asked, owner>>

stale(job) == now - job.at > kMaxQueueAgeMs

\* The oldest job is taken; one that waited too long is skipped.
Take(w) ==
    LET job == Head(jobs)
    IN  /\ worker[w] = "check" /\ running /\ jobs # <<>>
        /\ jobs' = Tail(jobs)
        /\ holder' = Nobody
        /\ IF stale(job)
             THEN Move(w, "lock") /\ UNCHANGED vars
             ELSE IF job.key \in WireKeys
                    THEN Move(w, "wire") /\ QueryWire(w, job.key)
                    ELSE Move(w, "resolve") /\ Resolve(w, job.key)
        /\ UNCHANGED <<running, received, asked, owner>>

\* A negative answer to an address question that allows the wire path: the
\* question itself goes to the Worker, in a second call of its own.
FallBack(w) ==
    /\ worker[w] = "resolve" /\ At(w, "idle")
    /\ \E q \in WireKeys : QueryWire(w, q)
    /\ Move(w, "wire")
    /\ UNCHANGED <<running, jobs, holder, received, asked, owner>>

\* process() is done; the reply is sent unless the proxy is stopping.
Reply(w) ==
    /\ processing(w) /\ At(w, "idle")
    /\ Move(w, "lock")
    /\ UNCHANGED <<vars, running, jobs, holder, received, asked, owner>>

\* An exception leaves process(): fail().
WorkerFails(w) ==
    /\ processing(w) /\ At(w, "idle") /\ free
    /\ running' = FALSE
    /\ worker' = [wakeAll EXCEPT ![w] = "gone"]
    /\ UNCHANGED <<vars, jobs, holder, received, asked, owner>>

-----------------------------------------------------------------------------
(* The call of the Worker needs its address                                *)

\* WinHTTP has a connection or a cached address, or asks for one.
Ask(w) ==
    /\ At(w, "fetching") /\ asked[w] = "no"
    /\ \E how \in {"sent", "answered"} : asked' = [asked EXCEPT ![w] = how]
    /\ UNCHANGED <<vars, running, jobs, holder, worker, received, owner>>

\* A step of the resolver; a fetch goes on once it has an address.
Resolving(t) ==
    /\ InCall(t)
    /\ t \in Workers /\ At(t, "fetching") => asked[t] = "answered"
    /\ asked' = [w \in Workers |-> IF w = t /\ At(w, "fetching") THEN "no" ELSE asked[w]]
    /\ UNCHANGED <<running, jobs, holder, worker, received, owner>>

\* WinHTTP's time-out.
TimesOut(w) ==
    /\ At(w, "fetching")
    /\ Conclude(w, "transient")
    /\ asked' = [asked EXCEPT ![w] = "no"]
    /\ UNCHANGED <<cache, wireCache, inFlight, bootstrapNextMs, bootstrapBusy, now>>
    /\ UNCHANGED <<running, jobs, holder, worker, received, owner>>

Clock == Tick /\ UNCHANGED proxyVars

\* What each thread does once it can, waits for the lock and for a datagram
\* left out.
ReceiverRuns == ReplyBootstrap \/ Push \/ NotifyOne \/ ReceiverLeaves \/ Resolving(receiver)

WorkerRuns(w) ==
    \/ Doze(w) \/ Sleep(w) \/ Leave(w) \/ Take(w)
    \/ Ask(w) \/ Resolving(w) \/ FallBack(w) \/ Reply(w)

OwnerRuns == ClearJobs \/ NotifyWorkers \/ Joined

ProxyNext ==
    \/ start \/ stop \/ OwnerRuns
    \/ ReceiverRuns \/ ReceiverFails
    \/ \E k \in Questions : Receive(k)
    \/ \E w \in Workers :
          \/ Acquire(w) \/ WorkerRuns(w) \/ WorkerFails(w)
          \/ TimesOut(w) \/ ReceiveBootstrap(w)
    \/ Clock

ProxySpec == ProxyInit /\ [][ProxyNext]_allVars

\* Every thread that can run does; the lock is fair, and no datagram for the
\* Worker's name is overlooked for ever.  A fetch is only assumed to time out
\* once the proxy stops: while it runs, no answer may depend on it.
ProxyFairness ==
    /\ WF_allVars(OwnerRuns) /\ WF_allVars(ReceiverRuns)
    /\ \A w \in Workers :
         /\ SF_allVars(ReceiveBootstrap(w))
         /\ SF_allVars(Acquire(w))
         /\ WF_allVars(WorkerRuns(w) \/ (~running /\ TimesOut(w)))

-----------------------------------------------------------------------------
(* Properties.                                                             *)

\* A queued question always has a worker that will look at the queue again, or
\* the receiver is about to wake one (receiveLoop, workerLoop).
JobsHaveTakers ==
    jobs # <<>> /\ running =>
        received.at = "notify" \/ \E w \in Workers : worker[w] # "waiting"

\* The workers never all wait for an address that only a worker could supply:
\* as long as the proxy runs, a question being processed is answered, without
\* the help of a time-out, and a queued one always has somebody to take it
\* (receiveLoop answers the Worker's name itself, workerLoop).
QuestionsAreAnswered ==
    /\ []JobsHaveTakers
    /\ \A w \in Workers : processing(w) ~> ~processing(w) \/ ~running

\* stop() returns: no worker sleeps through it (stopLocked).
StopReturns == owner = "clearing" ~> owner = "down"

=============================================================================
