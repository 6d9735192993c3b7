--------------------------- MODULE NetworkIdentity ---------------------------
(***************************************************************************)
(* CachedIdentity of src/src/NetworkIdentity.cpp: connection threads share *)
(* one cached name of the network, and fetch it without the lock.          *)
(***************************************************************************)
EXTENDS Integers

CONSTANTS
    Callers,        \* connection threads
    Networks,       \* what the machine can be connected to
    ttl,            \* how long a fetched name is fresh
    MaxCallMs,      \* bound: how long a call of get() takes
    Nothing         \* the empty string

ASSUME IdentityAssumption == ttl \in Nat \ {0} /\ MaxCallMs \in Nat /\ Nothing \notin Networks

kDefaultId == "default"
Identities == Networks \union {kDefaultId}

(* Times are ages: how long ago fetchedAt_ was, a call took its `now', and  *)
(* a name was read from the system.                                        *)
OldAge == ttl + MaxCallMs + 1
Ages == 0 .. OldAge

VARIABLES
    value,          \* value_
    fetchedAge,     \* the age of fetchedAt_
    seenAge,        \* the age of the moment value_ was read from the system
    refreshing,     \* refreshing_
    couldNotTell,   \* the last fetch that was published found no name
    caller          \* per thread: the call it is in

identityVars == <<value, fetchedAge, seenAge, refreshing, couldNotTell, caller>>

Idle == [at |-> "idle", age |-> 0, fetched |-> Nothing, seenAge |-> 0]

IdentityInit ==
    /\ value = Nothing /\ fetchedAge = OldAge /\ seenAge = OldAge
    /\ refreshing = FALSE /\ couldNotTell = FALSE
    /\ caller = [c \in Callers |-> Idle]

\* get() takes its time before it waits for the lock.
Enters(c) ==
    /\ caller[c].at = "idle"
    /\ caller' = [caller EXCEPT ![c] = [Idle EXCEPT !.at = "look"]]
    /\ UNCHANGED <<value, fetchedAge, seenAge, refreshing, couldNotTell>>

\* now - fetchedAt_ < ttl_, in ages: fetchedAt_ may be later than now.
fresh(c) == value # Nothing /\ fetchedAge - caller[c].age < ttl

\* The first lock: a fresh value, or one that is being refreshed, is the answer.
Answers(c) ==
    /\ caller[c].at = "look"
    /\ fresh(c) \/ (refreshing /\ value # Nothing)
    /\ caller' = [caller EXCEPT ![c] = Idle]
    /\ UNCHANGED <<value, fetchedAge, seenAge, refreshing, couldNotTell>>

Refreshes(c) ==
    /\ caller[c].at = "look"
    /\ ~fresh(c) /\ ~(refreshing /\ value # Nothing)
    /\ refreshing' = TRUE
    /\ caller' = [caller EXCEPT ![c].at = "fetch"]
    /\ UNCHANGED <<value, fetchedAge, seenAge, couldNotTell>>

\* current(): the connected networks at this moment, or "could not tell".
Fetches(c) ==
    /\ caller[c].at = "fetch"
    /\ \E id \in Identities :
         caller' = [caller EXCEPT ![c].at = "publish", ![c].fetched = id, ![c].seenAge = 0]
    /\ UNCHANGED <<value, fetchedAge, seenAge, refreshing, couldNotTell>>

\* fetchedAt_ that is read again after the fetch.
PublishesNow(c) ==
    /\ caller[c].at = "publish"
    /\ LET call == caller[c]
           replaces == value = Nothing \/ call.fetched # kDefaultId
       IN  /\ value' = IF replaces THEN call.fetched ELSE value
           /\ seenAge' = IF replaces THEN call.seenAge ELSE seenAge
           /\ couldNotTell' = ~replaces
    /\ fetchedAge' = 0
    /\ refreshing' = FALSE
    /\ caller' = [caller EXCEPT ![c] = Idle]

\* The second lock: a name that is known is only replaced by another name.
Publishes(c) ==
    /\ caller[c].at = "publish"
    /\ LET call == caller[c]
           replaces == value = Nothing \/ call.fetched # kDefaultId
       IN  /\ value' = IF replaces THEN call.fetched ELSE value
           /\ seenAge' = IF replaces THEN call.seenAge ELSE seenAge
           /\ couldNotTell' = ~replaces
    /\ fetchedAge' = caller[c].age
    /\ refreshing' = FALSE
    /\ caller' = [caller EXCEPT ![c] = Idle]

older(age) == IF age = OldAge THEN OldAge ELSE age + 1

IdentityTick ==
    /\ \A c \in Callers : caller[c].at # "idle" => caller[c].age < MaxCallMs
    /\ fetchedAge' = older(fetchedAge)
    /\ seenAge' = older(seenAge)
    /\ caller' = [c \in Callers |->
                    [caller[c] EXCEPT !.age = IF caller[c].at = "idle" THEN 0 ELSE @ + 1,
                                      !.seenAge = IF caller[c].at = "publish" THEN @ + 1 ELSE 0]]
    /\ UNCHANGED <<value, refreshing, couldNotTell>>

IdentityNext ==
    \/ \E c \in Callers : Enters(c) \/ Answers(c) \/ Refreshes(c) \/ Fetches(c) \/ Publishes(c)
    \/ IdentityTick

IdentitySpec == IdentityInit /\ [][IdentityNext]_identityVars

\* However late a slow fetch is published, and in whichever order, the name a
\* caller takes for fresh was read from the system less than ttl_ before the
\* call, or the last fetch could not tell (fetchedAt_ is the time before the
\* fetch).
FreshIdentityIsRecent ==
    \A c \in Callers :
        caller[c].at = "look" /\ fresh(c) => seenAge - caller[c].age < ttl \/ couldNotTell

=============================================================================
