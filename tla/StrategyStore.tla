--------------------------- MODULE StrategyStore ---------------------------
(***************************************************************************)
(* strategy::Store (src/src/Strategy.cpp): the learned bypass profile of   *)
(* every (network, host) pair, the candidates that wait for a second       *)
(* strike, the recent healthy baselines, and the file they are saved to.   *)
(*                                                                         *)
(* Every public operation runs under mutex_, so it is one action.  What    *)
(* follows the unlock, the file write of commit(), is an action of its     *)
(* own: snapshots of several threads may be waiting for it at once.  The   *)
(* process may crash and restart at any point; only the file survives.     *)
(*                                                                         *)
(* Two clocks: wall (system_clock, may be stepped) stamps what is saved,   *)
(* mono (steady_clock, only advances) measures the in-memory gaps.         *)
(*                                                                         *)
(* Abstracted: the kind and confidence an entry carries (only displayed),  *)
(* host normalisation (Hosts are normalised names), the JSON text.         *)
(***************************************************************************)
EXTENDS Integers, FiniteSets

CONSTANTS
    Networks, Hosts,                 \* the two halves of a scope key
    Profiles,                        \* the bypass profiles; "none" is apart
    Kinds,                           \* verdict kinds callers of remember pass
    None,                            \* "no such element" of a map
    kMaxRememberedHosts, kMaxCandidates, kMaxHealthyHosts,
    kLearningTtlSeconds, kReverifyIntervalSeconds, kReverifyHoldSeconds,
    kBaselineHealthyWindowSeconds, kConfirmMinGapSeconds,
    kCandidateTtlSeconds, kClockSkewSeconds

CONSTANTS
    EarlierFiles,                    \* files an earlier run may have left
    MaxThreads,                      \* threads that may wait in commit()
    MaxClock,                        \* bound on both clocks
    WallSteps,                       \* times the wall clock may be set to
    MaxSeq,                          \* bound on the snapshots of one process
    MaxCrashes,                      \* bound on restarts
    HasPath                          \* path_ is set: the store is saved

VARIABLES
    entries,        \* entries_: the winners
    candidates,     \* candidates_: nominations waiting for a second strike
    healthyAt,      \* healthyAt_: mono time of the last healthy baseline, or 0
    nextSeq,        \* nextSeq_
    writtenSeq,     \* writtenSeq_
    saveFailing,    \* saveFailing_
    pending,        \* snapshots taken under mutex_, not yet through commit()
    disk,           \* strategies.json, as the records it holds
    wall, mono,     \* the two clocks
    crashes,        \* restarts so far (bound only)
    failedSeq,      \* history: the newest snapshot whose write failed
    strikes,        \* history: mono times of the differentials reported for a
                    \* key since its baseline was last seen healthy
    wallHigh        \* history: the latest wall time there has been

fileVars == <<writtenSeq, saveFailing, disk, crashes, failedSeq>>
storeVars == <<entries, candidates, healthyAt, nextSeq, pending, strikes,
               fileVars>>
clockVars == <<wall, mono, wallHigh>>
vars == <<storeVars, clockVars>>

baseline == "none"
Key == Networks \X Hosts
Times == Nat

Entry == [profile: Profiles, expiresAt: Times, failures: Times,
          verifiedAt: Times, reverifyStartedAt: Times]
Candidate == [profile: Profiles, firstStrikeAt: Times, expiresAt: Times,
              persistUntil: Times]
\* One line of the file.  verifiedAt = 0 marks a legacy nomination, and
\* expiresAt = 0 a version 1 value, which carries no expiry.
DiskRecord == [profile: Profiles, expiresAt: Times, failures: Times,
               verifiedAt: Times]
Image == [Key -> DiskRecord \cup {None}]

ASSUME NoneAssumption ==
    None \notin Entry /\ None \notin Candidate /\ None \notin DiskRecord
ASSUME ProfilesAssumption == baseline \notin Profiles
ASSUME BoundsAssumption ==
    /\ kMaxRememberedHosts \in Nat \ {0}
    /\ kMaxCandidates \in Nat \ {0}
    /\ kMaxHealthyHosts \in Nat \ {0}
ASSUME DurationsAssumption ==
    /\ kLearningTtlSeconds \in Nat
    /\ kReverifyIntervalSeconds \in Nat
    /\ kReverifyHoldSeconds \in Nat
    /\ kBaselineHealthyWindowSeconds \in Nat
    /\ kConfirmMinGapSeconds \in Nat
    /\ kCandidateTtlSeconds \in Nat
    /\ kClockSkewSeconds \in Nat
    /\ WallSteps \subseteq Nat \ {0}
\* A winner of the file expires within one TTL of its proof; a file of a
\* version that kept no proof has none.
Proven(e) == /\ e.verifiedAt # 0 /\ e.expiresAt # 0
             /\ e.expiresAt <= e.verifiedAt + kLearningTtlSeconds
ASSUME FilesAssumption ==
    /\ \A f \in EarlierFiles :
         /\ f \in Image
         /\ \A k \in Key : f[k] # None => f[k].verifiedAt = 0 \/ Proven(f[k])
    /\ ~HasPath => EarlierFiles = {}
\* DirectRelay::deliverHello only reports a bypass with these verdicts.
ASSUME KindsAssumption ==
    Kinds \subseteq {"SniInterferenceLikely", "LearnedProfile",
                     "TransientFailure"}

Used(m) == {k \in Key : m[k] # None}
Empty == [k \in Key |-> None]

\* The values the operations store.
withFailures(e, n) ==
    [profile |-> e.profile, expiresAt |-> e.expiresAt, failures |-> n,
     verifiedAt |-> e.verifiedAt, reverifyStartedAt |-> e.reverifyStartedAt]
withReverify(e, t) ==
    [profile |-> e.profile, expiresAt |-> e.expiresAt, failures |-> e.failures,
     verifiedAt |-> e.verifiedAt, reverifyStartedAt |-> t]
provenNow(p) ==
    [profile |-> p, expiresAt |-> wall + kLearningTtlSeconds, failures |-> 0,
     verifiedAt |-> wall, reverifyStartedAt |-> 0]
struckNow(p, until) ==
    [profile |-> p, firstStrikeAt |-> mono,
     expiresAt |-> mono + kCandidateTtlSeconds, persistUntil |-> until]
withProfile(c, p) ==
    [profile |-> p, firstStrikeAt |-> c.firstStrikeAt,
     expiresAt |-> c.expiresAt, persistUntil |-> c.persistUntil]
Persisted(e) == [profile |-> e.profile, expiresAt |-> e.expiresAt,
                 failures |-> e.failures, verifiedAt |-> e.verifiedAt]

-----------------------------------------------------------------------------
(* Liveness of what is stored, and the two bounded caches.                 *)

isWinner(k, p) == entries[k] # None /\ entries[k].profile = p

live(k) == entries[k] # None /\ entries[k].expiresAt > wall

candidateLive(c) == IF c.firstStrikeAt = 0 THEN c.persistUntil > wall
                                           ELSE c.expiresAt > mono

\* The maps makeRoomForEntryLocked may leave: expired winners go first, then
\* the one verified longest ago (any of them, the map is unordered).
makeRoomForEntryLocked(m) ==
    LET kept == [k \in Key |-> IF m[k] # None /\ m[k].expiresAt <= wall
                                 THEN None ELSE m[k]]
        oldest == {k \in Used(kept) : \A o \in Used(kept) :
                       kept[k].verifiedAt <= kept[o].verifiedAt}
    IN  IF Cardinality(Used(m)) < kMaxRememberedHosts THEN {m}
        ELSE IF Cardinality(Used(kept)) < kMaxRememberedHosts THEN {kept}
        ELSE {[kept EXCEPT ![v] = None] : v \in oldest}

makeRoomForCandidateLocked(m) ==
    LET kept == [k \in Key |-> IF m[k] # None /\ ~candidateLive(m[k])
                                 THEN None ELSE m[k]]
        oldest == {k \in Used(kept) : \A o \in Used(kept) :
                       kept[k].firstStrikeAt <= kept[o].firstStrikeAt}
    IN  IF Cardinality(Used(m)) < kMaxCandidates THEN {m}
        ELSE IF Cardinality(Used(kept)) < kMaxCandidates THEN {kept}
        ELSE {[kept EXCEPT ![v] = None] : v \in oldest}

-----------------------------------------------------------------------------
(* Saving.                                                                 *)

\* The text snapshotLocked builds: live winners, and the legacy nominations
\* of keys that have no winner, in their verifiedAt = 0 shape.
ImageOf(es, cs) ==
    [k \in Key |->
        IF es[k] # None
          THEN IF es[k].expiresAt > wall THEN Persisted(es[k]) ELSE None
          ELSE IF cs[k] # None /\ cs[k].persistUntil > wall
                 THEN [profile |-> cs[k].profile,
                       expiresAt |-> cs[k].persistUntil,
                       failures |-> 0, verifiedAt |-> 0]
                 ELSE None]

NoSnapshot == UNCHANGED <<nextSeq, pending>>

\* The thread leaves mutex_ with a snapshot of the new state to commit.
snapshotLocked(es, cs) ==
    IF HasPath
      THEN /\ Cardinality(pending) < MaxThreads
           /\ nextSeq < MaxSeq
           /\ nextSeq' = nextSeq + 1
           /\ pending' = pending \cup {[seq |-> nextSeq + 1,
                                        image |-> ImageOf(es, cs)]}
      ELSE NoSnapshot

\* Mutated CommitWritten: the sequence number is not looked at.
CommitInAnyOrder(s) ==
    /\ disk' = s.image
    /\ writtenSeq' = s.seq
    /\ saveFailing' = FALSE
    /\ UNCHANGED failedSeq

\* commit(), serialised by writeMutex_; writeAtomic replaces the whole file
\* or leaves the old one in place.
CommitWritten(s) ==
    /\ s.seq > writtenSeq
    /\ disk' = s.image
    /\ writtenSeq' = s.seq
    /\ saveFailing' = FALSE
    /\ UNCHANGED failedSeq

CommitFailed(s) ==
    /\ s.seq > writtenSeq
    /\ saveFailing' = TRUE
    /\ failedSeq' = IF s.seq > failedSeq THEN s.seq ELSE failedSeq
    /\ UNCHANGED <<disk, writtenSeq>>

\* A newer snapshot is already in the file.
CommitSkipped(s) ==
    /\ s.seq <= writtenSeq
    /\ UNCHANGED <<disk, writtenSeq, saveFailing, failedSeq>>

commit(s) ==
    /\ s \in pending
    /\ pending' = pending \ {s}
    /\ CommitWritten(s) \/ CommitFailed(s) \/ CommitSkipped(s)
    /\ UNCHANGED <<entries, candidates, healthyAt, nextSeq, crashes, strikes>>

-----------------------------------------------------------------------------
(* remember(): one action per branch of rememberLocked.                    *)

\* The untouched baseline retires the winner and any nomination.
RememberBaseline(k) ==
    LET es == [entries EXCEPT ![k] = None]
        cs == [candidates EXCEPT ![k] = None]
        dirty == \/ entries[k] # None
                 \/ candidates[k] # None /\ candidates[k].persistUntil # 0
    IN  /\ entries' = es
        /\ candidates' = cs
        /\ IF dirty THEN snapshotLocked(es, cs) ELSE NoSnapshot
        /\ UNCHANGED <<healthyAt, strikes, fileVars>>

\* TransientFailure, and a cache hit on what is no longer the winner.
RememberIgnored(k, p, kind) ==
    /\ \/ kind = "TransientFailure"
       \/ kind = "LearnedProfile" /\ ~(live(k) /\ entries[k].profile = p)
    /\ UNCHANGED storeVars

\* Mutated RememberRefreshed: a cache hit extends the expiry.
RefreshExtends(k, p, kind) ==
    /\ kind = "LearnedProfile"
    /\ live(k) /\ entries[k].profile = p
    /\ LET es == [entries EXCEPT ![k].expiresAt = wall + kLearningTtlSeconds]
       IN  entries' = es /\ snapshotLocked(es, candidates)
    /\ UNCHANGED <<candidates, healthyAt, strikes, fileVars>>

\* Cache hit: clears the failure count, proves nothing and extends nothing.
RememberRefreshed(k, p, kind) ==
    /\ kind = "LearnedProfile"
    /\ live(k) /\ entries[k].profile = p
    /\ LET es == [entries EXCEPT ![k] = withFailures(@, 0)]
       IN  /\ entries' = es
           /\ IF entries[k].failures # 0 THEN snapshotLocked(es, candidates)
                                         ELSE NoSnapshot
    /\ UNCHANGED <<candidates, healthyAt, strikes, fileVars>>

\* A differential re-proved the winner.
RememberReverified(k, p, kind) ==
    /\ kind = "SniInterferenceLikely"
    /\ live(k) /\ entries[k].profile = p
    /\ LET es == [entries EXCEPT ![k] = provenNow(p)]
       IN  entries' = es /\ snapshotLocked(es, candidates)
    /\ strikes' = [strikes EXCEPT ![k] = @ \cup {mono}]
    /\ UNCHANGED <<candidates, healthyAt, fileVars>>

IsDifferential(k, p, kind) ==
    /\ kind = "SniInterferenceLikely"
    /\ ~(live(k) /\ entries[k].profile = p)

hasCandidate(k) == candidates[k] # None /\ candidateLive(candidates[k])

confirms(k) == /\ hasCandidate(k)
               /\ candidates[k].firstStrikeAt # 0
               /\ mono >= candidates[k].firstStrikeAt + kConfirmMinGapSeconds

\* First strike: nominate, or stamp a legacy nomination; a strike that comes
\* too soon only replaces the nominated profile.
RememberCandidate(k, p, kind) ==
    /\ IsDifferential(k, p, kind)
    /\ ~confirms(k)
    /\ IF hasCandidate(k)
         THEN candidates' =
                [candidates EXCEPT ![k] =
                    IF @.firstStrikeAt = 0 THEN struckNow(p, @.persistUntil)
                                           ELSE withProfile(@, p)]
         ELSE \E cs \in makeRoomForCandidateLocked([candidates EXCEPT ![k] = None]) :
                candidates' = [cs EXCEPT ![k] = struckNow(p, 0)]
    /\ strikes' = [strikes EXCEPT ![k] = @ \cup {mono}]
    /\ NoSnapshot
    /\ UNCHANGED <<entries, healthyAt, fileVars>>

\* Second strike: the nomination becomes the winner.
RememberLearned(k, p, kind) ==
    /\ IsDifferential(k, p, kind)
    /\ confirms(k)
    /\ \E room \in IF entries[k] = None THEN makeRoomForEntryLocked(entries)
                                        ELSE {entries} :
         LET es == [room EXCEPT ![k] = provenNow(p)]
             cs == [candidates EXCEPT ![k] = None]
         IN  entries' = es /\ candidates' = cs /\ snapshotLocked(es, cs)
    /\ strikes' = [strikes EXCEPT ![k] = @ \cup {mono}]
    /\ UNCHANGED <<healthyAt, fileVars>>

remember(k, p, kind) ==
    \/ RememberIgnored(k, p, kind)
    \/ RememberRefreshed(k, p, kind)
    \/ RememberReverified(k, p, kind)
    \/ RememberCandidate(k, p, kind)
    \/ RememberLearned(k, p, kind)

-----------------------------------------------------------------------------
(* The other operations.                                                   *)

\* A full map first sheds the stamps that no longer vouch, then any one.
roomForHealthy(k) ==
    LET used(m) == {x \in Key : m[x] # 0}
        kept == [x \in Key |->
                   IF healthyAt[x] + kBaselineHealthyWindowSeconds <= mono
                     THEN 0 ELSE healthyAt[x]]
    IN  IF healthyAt[k] # 0 \/ Cardinality(used(healthyAt)) < kMaxHealthyHosts
          THEN {healthyAt}
        ELSE IF Cardinality(used(kept)) < kMaxHealthyHosts THEN {kept}
        ELSE {[kept EXCEPT ![v] = 0] : v \in used(kept)}

\* Mutated noteBaselineHealthy: the nomination survives.
noteHealthyKeepsCandidate(k) ==
    /\ \E h \in roomForHealthy(k) : healthyAt' = [h EXCEPT ![k] = mono]
    /\ strikes' = [strikes EXCEPT ![k] = {}]
    /\ NoSnapshot
    /\ UNCHANGED <<entries, candidates, fileVars>>

\* The baseline got through: the nomination was a hiccup.
noteBaselineHealthy(k) ==
    LET cs == [candidates EXCEPT ![k] = None]
    IN  /\ candidates' = cs
        /\ IF candidates[k] # None /\ candidates[k].persistUntil # 0
             THEN snapshotLocked(entries, cs) ELSE NoSnapshot
        /\ \E h \in roomForHealthy(k) : healthyAt' = [h EXCEPT ![k] = mono]
        /\ strikes' = [strikes EXCEPT ![k] = {}]
        /\ UNCHANGED <<entries, fileVars>>

baselineRecentlyHealthy(k) ==
    /\ healthyAt[k] # 0
    /\ healthyAt[k] <= mono
    /\ healthyAt[k] + kBaselineHealthyWindowSeconds > mono

\* A winner that failed: the second failure in a row evicts it.
recordFailure(k, p) ==
    \/ /\ ~isWinner(k, p)
       /\ UNCHANGED storeVars
    \/ /\ isWinner(k, p)
       /\ LET es == [entries EXCEPT ![k] =
                       IF @.failures + 1 >= 2 THEN None
                       ELSE withFailures(@, @.failures + 1)]
          IN  entries' = es /\ snapshotLocked(es, candidates)
       /\ UNCHANGED <<candidates, healthyAt, strikes, fileVars>>

lookup(k) == IF live(k) THEN entries[k].profile ELSE None

reverifyDue(k) ==
    /\ live(k)
    /\ \/ entries[k].verifiedAt > wall + kClockSkewSeconds
       \/ entries[k].verifiedAt + kReverifyIntervalSeconds <= wall
    /\ \/ entries[k].reverifyStartedAt = 0
       \/ entries[k].reverifyStartedAt + kReverifyHoldSeconds <= mono

\* What probeOrder changes: the connection that finds the winner due takes
\* the re-verification on.
probeOrder(k) ==
    /\ entries' = IF reverifyDue(k)
                    THEN [entries EXCEPT ![k] = withReverify(@, mono)]
                    ELSE entries
    /\ UNCHANGED <<candidates, healthyAt, nextSeq, pending, strikes, fileVars>>

\* forget(): every network's key of the host.
forget(h) ==
    LET hit == {k \in Key : k[2] = h}
        es == [k \in Key |-> IF k \in hit THEN None ELSE entries[k]]
        cs == [k \in Key |-> IF k \in hit THEN None ELSE candidates[k]]
        changed == \E k \in hit :
                     \/ entries[k] # None
                     \/ candidates[k] # None /\ candidates[k].persistUntil # 0
    IN  /\ entries' = es
        /\ candidates' = cs
        /\ IF changed THEN snapshotLocked(es, cs) ELSE NoSnapshot
        /\ UNCHANGED <<healthyAt, strikes, fileVars>>

clear ==
    /\ entries' = Empty
    /\ candidates' = Empty
    /\ healthyAt' = [k \in Key |-> 0]
    /\ snapshotLocked(Empty, Empty)
    /\ UNCHANGED <<strikes, fileVars>>

-----------------------------------------------------------------------------
(* Restart: everything in memory is lost, load() reads the file.           *)

\* A record as load() believes it: no expiry beyond one TTL from now, no
\* verification stamp from the future.
believed(d) ==
    [profile |-> d.profile, failures |-> d.failures,
     expiresAt |-> IF d.expiresAt = 0 \/ d.expiresAt > wall + kLearningTtlSeconds
                     THEN wall + kLearningTtlSeconds ELSE d.expiresAt,
     verifiedAt |-> IF d.verifiedAt > wall + kClockSkewSeconds THEN 0
                    ELSE d.verifiedAt,
     reverifyStartedAt |-> 0]

\* The subsets of S a bounded map may keep: which ones depends on file order.
Bounded(S, max) ==
    {T \in SUBSET S : \/ T = S /\ Cardinality(S) <= max
                      \/ Cardinality(S) > max /\ Cardinality(T) = max}

aliveIn(file) ==
    {k \in Key : file[k] # None /\ believed(file[k]).expiresAt > wall}
legacyIn(file) == {k \in aliveIn(file) : believed(file[k]).verifiedAt = 0}

loadedEntries(file, E) ==
    [k \in Key |-> IF k \in E THEN believed(file[k]) ELSE None]
loadedCandidates(file, C) ==
    [k \in Key |-> IF k \in C
                     THEN [profile |-> file[k].profile, firstStrikeAt |-> 0,
                           expiresAt |-> 0,
                           persistUntil |-> believed(file[k]).expiresAt]
                     ELSE None]

\* load() may build the maps es and cs from the file.
load(file, es, cs) ==
    \E E \in Bounded(aliveIn(file) \ legacyIn(file), kMaxRememberedHosts),
       C \in Bounded(legacyIn(file), kMaxCandidates) :
        es = loadedEntries(file, E) /\ cs = loadedCandidates(file, C)

\* readAll may fail: the store then starts empty.
Restart ==
    /\ crashes < MaxCrashes
    /\ crashes' = crashes + 1
    /\ load(disk, entries', candidates') \/ load(Empty, entries', candidates')
    /\ healthyAt' = [k \in Key |-> 0]
    /\ nextSeq' = 0 /\ writtenSeq' = 0 /\ pending' = {}
    /\ saveFailing' = FALSE /\ failedSeq' = 0
    /\ strikes' = [k \in Key |-> {}]
    /\ UNCHANGED disk

-----------------------------------------------------------------------------
Tick ==
    /\ wall < MaxClock /\ mono < MaxClock
    /\ wall' = wall + 1
    /\ mono' = mono + 1
    /\ wallHigh' = IF wall + 1 > wallHigh THEN wall + 1 ELSE wallHigh
    /\ UNCHANGED storeVars

\* NTP or the user sets the wall clock.
WallStep ==
    /\ \E w \in WallSteps :
         /\ wall' = w
         /\ wallHigh' = IF w > wallHigh THEN w ELSE wallHigh
    /\ UNCHANGED <<mono, storeVars>>

\* The process starts on a fresh machine or on the file of an earlier run.
Init ==
    /\ wall = 1 /\ mono = 1 /\ wallHigh = 1
    /\ disk \in EarlierFiles \cup {Empty}
    /\ load(disk, entries, candidates)
    /\ healthyAt = [k \in Key |-> 0]
    /\ nextSeq = 0 /\ writtenSeq = 0 /\ pending = {}
    /\ saveFailing = FALSE /\ failedSeq = 0
    /\ crashes = 0
    /\ strikes = [k \in Key |-> {}]

StoreStep ==
    \/ \E k \in Key :
         \/ \E p \in Profiles, kind \in Kinds : remember(k, p, kind)
         \/ RememberBaseline(k)
         \/ noteBaselineHealthy(k)
         \/ \E p \in Profiles : recordFailure(k, p)
         \/ probeOrder(k)
    \/ \E h \in Hosts : forget(h)
    \/ clear
    \/ \E s \in pending : commit(s)
    \/ Restart

Next == \/ StoreStep /\ UNCHANGED clockVars
        \/ Tick
        \/ WallStep

Spec == Init /\ [][Next]_vars

-----------------------------------------------------------------------------
(* Properties.                                                             *)

\* Every variable stays in its type.
TypeOK ==
    /\ entries \in [Key -> Entry \cup {None}]
    /\ candidates \in [Key -> Candidate \cup {None}]
    /\ healthyAt \in [Key -> Times]
    /\ nextSeq \in Nat /\ writtenSeq \in Nat /\ failedSeq \in Nat
    /\ saveFailing \in BOOLEAN
    /\ pending \in SUBSET [seq: Nat, image: Image]
    /\ disk \in Image
    /\ wall \in Nat \ {0} /\ mono \in Nat \ {0} /\ wallHigh \in Nat
    /\ crashes \in Nat
    /\ strikes \in [Key -> SUBSET Nat]

\* A host gets a winner, or another winner, only when a differential was
\* already reported for it at least kConfirmMinGapSeconds earlier on the
\* monotonic clock, with no healthy baseline in between; whatever happened to
\* the wall clock, to the candidate map or to the file meanwhile
\* (rememberLocked).  A restart may only bring winners back.
NewWinner(k) ==
    /\ entries'[k] # None
    /\ entries[k] = None \/ entries[k].profile # entries'[k].profile
TwoStrikes(k) == \E t \in strikes[k] : t + kConfirmMinGapSeconds <= mono
LearnedStep == \A k \in Key : NewWinner(k) /\ crashes' = crashes => TwoStrikes(k)
LearnedNeedsTwoStrikes == [][LearnedStep]_vars

\* A winner, in memory or in the file, never outlives one TTL from the last
\* differential that proved it: no cache hit, failure, restart or clock step
\* extends it, and nothing unproven is a winner (rememberLocked, load).
NoWinnerOutlivesItsProof ==
    /\ \A k \in Key : entries[k] # None => Proven(entries[k])
    /\ \A k \in Key : disk[k] # None /\ disk[k].verifiedAt # 0 => Proven(disk[k])

\* The file agrees with memory about the winners: it holds no retired one,
\* and misses none that has not expired.
Agrees(image) == \A k \in Key :
    /\ image[k] # None /\ image[k].verifiedAt # 0
         => entries[k] # None /\ image[k] = Persisted(entries[k])
    /\ entries[k] # None /\ entries[k].expiresAt > wallHigh
         => image[k] = Persisted(entries[k])

\* Once every thread is through commit(), and unless the write of the newest
\* snapshot failed, the file agrees with memory, in whatever order the
\* threads got to writeMutex_ (snapshotLocked, commit).
FileMatchesMemory ==
    pending = {} /\ nextSeq > 0 /\ failedSeq < nextSeq => Agrees(disk)

\* What makes LearnedNeedsTwoStrikes inductive: a nomination that has had its
\* first strike carries the time of one that no healthy baseline cancelled.
StrikesRecorded ==
    \A k \in Key : candidates[k] # None /\ candidates[k].firstStrikeAt # 0
                     => candidates[k].firstStrikeAt \in strikes[k]

\* What makes NoWinnerOutlivesItsProof inductive: snapshots on their way to
\* the file obey it too.
PendingProven ==
    \A s \in pending : \A k \in Key :
        s.image[k] # None /\ s.image[k].verifiedAt # 0 => Proven(s.image[k])

\* What makes FileMatchesMemory inductive: the newest snapshot agrees with
\* memory wherever it is, and it is waiting, written or failed.
NewestAgrees ==
    /\ wall <= wallHigh
    /\ ~HasPath => nextSeq = 0 /\ pending = {}
    /\ writtenSeq <= nextSeq /\ failedSeq <= nextSeq
    /\ \A s \in pending : /\ s.seq <= nextSeq
                          /\ s.seq = nextSeq => Agrees(s.image)
    /\ nextSeq > 0 /\ writtenSeq = nextSeq => Agrees(disk)
    /\ nextSeq > 0 => \/ \E s \in pending : s.seq = nextSeq
                      \/ writtenSeq = nextSeq
                      \/ failedSeq = nextSeq

\* "Once per failure burst; the next successful save restores the file"
\* (Strategy.cpp:682): when the last save succeeded, the file is current.
SuccessfulSaveRestoresFile ==
    pending = {} /\ nextSeq > 0 /\ ~saveFailing => Agrees(disk)

=============================================================================
