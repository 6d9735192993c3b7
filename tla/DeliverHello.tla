---------------------------- MODULE DeliverHello ----------------------------
(***************************************************************************)
(* DirectRelay::deliverHello (src/src/DirectRelay.cpp) on top of the       *)
(* strategy store: several connections probe the profiles of their host in *)
(* turn, diagnose what they saw and report it, while the path to the host  *)
(* changes between any two of their attempts.                              *)
(*                                                                         *)
(* One action per call into the store (each takes its mutex_ separately,   *)
(* so other connections run in between) and one per probe.  A connection   *)
(* spends at most kAttemptSeconds in one attempt: probe timeout, retry     *)
(* pause and reconnect.  The hello is complete and in one record: the      *)
(* other cases are forwarded before the store is consulted.                *)
(***************************************************************************)
EXTENDS StrategyStore, Diagnosis, Sequences

CONSTANTS
    Connections,          \* session threads
    Table,                \* profileTable(): a sequence that begins with "none"
    PacketProfiles,       \* the packet-* profiles the driver applies
    Hellos,               \* per kind of hello, the profiles it can carry
    ForcedProfiles,       \* values of --strategy; None is "learn"
    Paths,                \* per condition of the path, the profiles that pass
    Failures,             \* signals a blocked attempt may end in
    kMaxProbeAttempts,
    kAttemptSeconds,
    MaxConnections        \* bound on the connections served

VARIABLES
    conns,                \* the connection each thread serves
    served,               \* connections served so far; numbers them
    forced,               \* context_.forcedProfile
    stopping,             \* stopping_ of every relay: the proxy shuts down
    witnesses,            \* history: per key, the connections that saw the
                          \* baseline fail and a profile pass, since the
                          \* baseline was last reported healthy
    accusers              \* history: per key, the connections that recorded a
                          \* failure of the winner since it last worked

relayVars == <<conns, served, forced, stopping>>
contextVars == <<served, forced, stopping>>
historyVars == <<witnesses, accusers>>
allVars == <<vars, relayVars, historyVars>>

AllProfiles == Profiles \cup {baseline}
NoEvidence == [p \in {} |-> None]

ASSUME TableAssumption ==
    /\ Table \in Seq(AllProfiles) /\ Len(Table) > 0 /\ Table[1] = baseline
    /\ \A i, j \in 1..Len(Table) : Table[i] = Table[j] => i = j
ASSUME RelayAssumption ==
    /\ Hellos \subseteq SUBSET Profiles
    /\ PacketProfiles \subseteq Profiles
    /\ ForcedProfiles \subseteq AllProfiles \cup {None}
    /\ Paths \subseteq SUBSET AllProfiles
    /\ Failures \subseteq Signals \ {"ServerHello"}
    /\ kMaxProbeAttempts \in Nat \ {0} /\ kAttemptSeconds \in Nat
    /\ MaxConnections \in Nat

Idle == [pc |-> "idle", id |-> 0, key |-> None, order |-> <<>>, attempts |-> 0,
         remembered |-> None, healthy |-> FALSE, evidence |-> NoEvidence,
         since |-> 0]

learning == forced = None

-----------------------------------------------------------------------------
(* The probe order.                                                        *)

\* probeOrder() of the store: the winner first, or behind the baseline when it
\* is due for re-verification; a pending nomination behind the baseline.
leadOf(k) ==
    IF live(k) THEN IF reverifyDue(k) THEN <<baseline, entries[k].profile>>
                                      ELSE <<entries[k].profile>>
    ELSE IF hasCandidate(k) THEN <<baseline, candidates[k].profile>>
    ELSE <<>>

isIn(p, seq) == \E i \in DOMAIN seq : seq[i] = p

\* What deliverHello goes through: profiles this hello cannot carry are
\* skipped, whichever of the two lists they come from.
orderFor(k, hello) ==
    LET lead == leadOf(k)
        rest == SelectSeq(Table, LAMBDA p : ~isIn(p, lead))
        pinned == IF forced = baseline THEN <<baseline>> ELSE <<forced, baseline>>
    IN  SelectSeq(IF learning THEN lead \o rest ELSE pinned,
                  LAMBDA p : p = baseline \/ p \in hello)

-----------------------------------------------------------------------------
(* The steps of one connection.                                            *)

\* rememberedFailed: the remembered profile was tried and did not get through.
rememberedFailed(c) ==
    /\ learning
    /\ conns[c].remembered \in DOMAIN conns[c].evidence
    /\ conns[c].evidence[conns[c].remembered] # "ServerHello"

Finish(c) == conns' = [conns EXCEPT ![c] = Idle]

Goto(c, pc) == conns' = [conns EXCEPT ![c].pc = pc]

\* A new connection asks for its probe order.
Start(c, k, hello) ==
    /\ conns[c].pc = "idle"
    /\ ~stopping
    /\ served < MaxConnections
    /\ served' = served + 1
    /\ conns' = [conns EXCEPT ![c] =
                   [Idle EXCEPT !.pc = "lookup", !.id = served + 1, !.key = k,
                                !.order = orderFor(k, hello), !.since = mono]]
    /\ IF learning THEN probeOrder(k) ELSE UNCHANGED storeVars
    /\ UNCHANGED <<forced, stopping, historyVars>>

\* lookup() takes the lock again: the winner may be another one by now.
Lookup(c) ==
    /\ conns[c].pc = "lookup"
    /\ conns' = [conns EXCEPT ![c].pc = "context",
                              ![c].remembered = lookup(conns[c].key)]
    /\ UNCHANGED <<storeVars, contextVars, historyVars>>

ReadContext(c) ==
    /\ conns[c].pc = "context"
    /\ conns' = [conns EXCEPT
                   ![c].pc = "probe",
                   ![c].healthy = learning /\ baselineRecentlyHealthy(conns[c].key)]
    /\ UNCHANGED <<storeVars, contextVars, historyVars>>

MayProbe(c) == /\ conns[c].pc = "probe"
               /\ conns[c].order # <<>>
               /\ conns[c].attempts < kMaxProbeAttempts
               /\ ~stopping

\* One attempt that was answered or timed out.  The interference and the
\* network may be in any condition, and in another one at the next attempt.
Probe(c, signal) ==
    LET p == Head(conns[c].order)
        won == signal = "ServerHello"
    IN  /\ MayProbe(c)
        /\ \E path \in Paths :
             signal \in IF p \in path THEN {"ServerHello"} ELSE Failures
        /\ conns' = [conns EXCEPT
             ![c].pc = IF won THEN "won" ELSE "probe",
             ![c].order = IF won THEN @ ELSE Tail(@),
             ![c].attempts = @ + 1,
             ![c].evidence = [q \in DOMAIN @ \cup {p} |->
                                IF q = p THEN signal ELSE @[q]],
             ![c].since = mono]
        /\ UNCHANGED <<storeVars, contextVars, historyVars>>

\* Mutated WriteFails: the loop starts over with the same profile.
WriteFailsForever(c) ==
    /\ MayProbe(c)
    /\ Goto(c, "context")
    /\ UNCHANGED <<storeVars, contextVars, historyVars>>

\* The hello could not be written: no evidence, on to the next profile.
WriteFails(c) ==
    /\ MayProbe(c)
    /\ conns' = [conns EXCEPT ![c].order = Tail(@), ![c].attempts = @ + 1,
                              ![c].since = mono]
    /\ UNCHANGED <<storeVars, contextVars, historyVars>>

\* Every attempt but the first needs a new connection to the host.
ReconnectFails(c) ==
    /\ MayProbe(c)
    /\ conns[c].attempts > 0
    /\ Goto(c, "lost")
    /\ UNCHANGED <<storeVars, contextVars, historyVars>>

\* No profile left, none allowed any more, or stop() was called.
GiveUp(c) ==
    /\ conns[c].pc = "probe"
    /\ ~MayProbe(c)
    /\ Goto(c, "lost")
    /\ UNCHANGED <<storeVars, contextVars, historyVars>>

\* Mutated settleFailure: it is not the end, the relay settles once more.
settleTwice(c) ==
    IF rememberedFailed(c)
      THEN /\ entries' = [entries EXCEPT ![conns[c].key] = None]
           /\ accusers' = [accusers EXCEPT ![conns[c].key] = @ \cup {conns[c].id}]
           /\ UNCHANGED <<candidates, healthyAt, nextSeq, pending, strikes, fileVars>>
      ELSE UNCHANGED <<storeVars, accusers>>

\* settleFailure(): what the store is told about the remembered profile.
settleFailure(c) ==
    IF rememberedFailed(c)
      THEN /\ recordFailure(conns[c].key, conns[c].remembered)
           /\ accusers' = [accusers EXCEPT ![conns[c].key] = @ \cup {conns[c].id}]
      ELSE UNCHANGED <<storeVars, accusers>>

Lost(c) ==
    /\ conns[c].pc = "lost"
    /\ settleFailure(c)
    /\ Finish(c)
    /\ UNCHANGED <<contextVars, witnesses>>

winner(c) == Head(conns[c].order)
verdict(c) == infer(conns[c].evidence, conns[c].remembered, conns[c].healthy, FALSE)

\* The baseline got through: it vouches for the host, cancels a nomination
\* and, in a second call, retires the winner.
WonBaseline(c) ==
    /\ conns[c].pc = "won" /\ learning
    /\ winner(c) = baseline
    /\ noteBaselineHealthy(conns[c].key)
    /\ IF conns[c].remembered # None THEN Goto(c, "retire") ELSE Finish(c)
    /\ witnesses' = [witnesses EXCEPT ![conns[c].key] = {}]
    /\ UNCHANGED <<contextVars, accusers>>

Retire(c) ==
    /\ conns[c].pc = "retire"
    /\ RememberBaseline(conns[c].key)
    /\ Finish(c)
    /\ accusers' = [accusers EXCEPT ![conns[c].key] = {}]
    /\ UNCHANGED <<contextVars, witnesses>>

\* A pinned profile, a packet profile the driver did not apply, or a verdict
\* of a hiccup: the connection goes on, nothing is learned.
WonUnlearned(c) ==
    /\ conns[c].pc = "won"
    /\ \/ ~learning
       \/ winner(c) \in PacketProfiles
       \/ winner(c) # baseline /\ verdict(c) = "TransientFailure"
    /\ Finish(c)
    /\ UNCHANGED <<storeVars, contextVars, historyVars>>

\* A bypass got through: settle with the remembered profile, then remember.
WonBypass(c) ==
    /\ conns[c].pc = "won" /\ learning
    /\ winner(c) # baseline
    /\ verdict(c) # "TransientFailure"
    /\ settleFailure(c)
    /\ Goto(c, "remember")
    /\ UNCHANGED <<contextVars, witnesses>>

\* The connection saw the difference: the baseline failed, its winner passed.
sawDifference(c) ==
    /\ baseline \in DOMAIN conns[c].evidence
    /\ conns[c].evidence[baseline] # "ServerHello"
    /\ conns[c].evidence[winner(c)] = "ServerHello"

Remember(c) ==
    LET k == conns[c].key
    IN  /\ conns[c].pc = "remember"
        /\ remember(k, winner(c), verdict(c))
        /\ Finish(c)
        /\ witnesses' = [witnesses EXCEPT ![k] =
                           @ \cup (IF sawDifference(c) THEN {conns[c].id} ELSE {})]
        /\ accusers' = [accusers EXCEPT ![k] =
             IF entries'[k] # None /\ entries'[k].failures = 0 THEN {} ELSE @]
        /\ UNCHANGED contextVars

-----------------------------------------------------------------------------
Stop == /\ ~stopping
        /\ stopping' = TRUE
        /\ UNCHANGED <<storeVars, conns, served, forced, historyVars>>

\* A thread writes the snapshot it took in one of the calls above.
Save == /\ \E s \in pending : commit(s)
        /\ UNCHANGED <<relayVars, historyVars>>

\* Attempts take time, at most kAttemptSeconds each; calls into the store do
\* not.
TimePasses ==
    /\ \A c \in Connections :
         \/ conns[c].pc = "idle"
         \/ conns[c].pc = "probe" /\ mono < conns[c].since + kAttemptSeconds
    /\ Tick
    /\ UNCHANGED <<relayVars, historyVars>>

RelayInit ==
    /\ Init
    /\ conns = [c \in Connections |-> Idle]
    /\ served = 0
    /\ forced \in ForcedProfiles
    /\ stopping = FALSE
    /\ witnesses = [k \in Key |-> {}]
    /\ accusers = [k \in Key |-> {}]

ConnStep(c) ==
    \/ \E k \in Key, hello \in Hellos : Start(c, k, hello)
    \/ Lookup(c)
    \/ ReadContext(c)
    \/ \E signal \in Failures \cup {"ServerHello"} : Probe(c, signal)
    \/ WriteFails(c)
    \/ ReconnectFails(c)
    \/ GiveUp(c)
    \/ Lost(c)
    \/ WonBaseline(c)
    \/ Retire(c)
    \/ WonUnlearned(c)
    \/ WonBypass(c)
    \/ Remember(c)

RelayNext ==
    \/ (\E c \in Connections : ConnStep(c)) /\ UNCHANGED clockVars
    \/ Stop /\ UNCHANGED clockVars
    \/ Save /\ UNCHANGED clockVars
    \/ TimePasses

RelaySpec == RelayInit /\ [][RelayNext]_allVars

\* Threads run, and a probe ends: awaitResponse and reconnect have deadlines.
\* A file write that commit() waits for ends as well.
FairRelaySpec ==
    /\ RelaySpec
    /\ WF_allVars(Save /\ UNCHANGED clockVars)
    /\ \A c \in Connections :
         WF_allVars((conns[c].pc # "idle" /\ ConnStep(c)) /\ UNCHANGED clockVars)

-----------------------------------------------------------------------------
(* Properties.                                                             *)

\* A host gets a winner, or another one, only after two different connections
\* each saw its baseline fail and another profile pass, with no healthy
\* baseline reported in between (deliverHello, infer, rememberLocked).
LearnedNeedsTwoConnections ==
    [][\A k \in Key : NewWinner(k) => Cardinality(witnesses'[k]) >= 2]_allVars

\* A winner whose baseline still fails is given up only when two different
\* connections recorded its failure since it last worked: settleFailure runs
\* at most once in a connection, whichever way deliverHello ends.
Retired(k) == entries[k] # None /\ entries'[k] = None
EvictionNeedsTwoConnections ==
    [][\A k \in Key : Retired(k) =>
         \/ \E c \in Connections : conns[c].pc = "retire" /\ conns'[c] = Idle
         \/ Cardinality(accusers'[k]) >= 2]_allVars

\* Every connection comes to a result, however many profiles fail and however
\* often writes fail and the path changes.
DeliverHelloEnds ==
    \A c \in Connections : conns[c].pc # "idle" ~> conns[c].pc = "idle"

=============================================================================
