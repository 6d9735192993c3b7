------------------------ MODULE StrategyStoreProofs -------------------------
(***************************************************************************)
(* Proofs about StrategyStore, for every set of networks, hosts and        *)
(* profiles and every value of the time constants and of the bounds.       *)
(***************************************************************************)
EXTENDS StrategyStore, TLAPS

-----------------------------------------------------------------------------
(* What the helpers return.                                                *)

EntryMap == [Key -> Entry \cup {None}]
CandidateMap == [Key -> Candidate \cup {None}]

\* makeRoomForEntryLocked only removes.
LEMMA RoomForEntry ==
    ASSUME NEW m \in EntryMap, NEW r \in makeRoomForEntryLocked(m)
    PROVE  r \in EntryMap /\ \A k \in Key : r[k] # None => r[k] = m[k]
BY Zenon DEF EntryMap, makeRoomForEntryLocked, Used

\* makeRoomForCandidateLocked only removes.
LEMMA RoomForCandidate ==
    ASSUME NEW m \in CandidateMap, NEW r \in makeRoomForCandidateLocked(m)
    PROVE  r \in CandidateMap /\ \A k \in Key : r[k] # None => r[k] = m[k]
BY Zenon DEF CandidateMap, makeRoomForCandidateLocked, Used

\* The text of a snapshot is a well-formed file.
LEMMA ImageOfType ==
    ASSUME NEW es \in EntryMap, NEW cs \in CandidateMap
    PROVE  ImageOf(es, cs) \in Image
BY Zenon DEF ImageOf, EntryMap, CandidateMap, Image, Entry, Candidate, DiskRecord,
       Persisted, Times

\* What load() builds from a well-formed file is well-formed.
LEMMA LoadType ==
    ASSUME NEW file \in Image, NEW es, NEW cs, load(file, es, cs),
           wall \in Nat
    PROVE  es \in EntryMap /\ cs \in CandidateMap
<1>1. \A k \in Key : file[k] # None => /\ file[k] \in DiskRecord
                                       /\ believed(file[k]) \in Entry
  BY DurationsAssumption DEF Image, believed, DiskRecord, Entry, Times
<1>2. PICK E \in Bounded(aliveIn(file) \ legacyIn(file), kMaxRememberedHosts),
           C \in Bounded(legacyIn(file), kMaxCandidates) :
        es = loadedEntries(file, E) /\ cs = loadedCandidates(file, C)
  BY Zenon DEF load
<1>3. \A k \in E \cup C : k \in Key /\ file[k] # None
  BY Zenon DEF Bounded, aliveIn, legacyIn
<1>4. es \in EntryMap
  BY Zenon, <1>1, <1>2, <1>3 DEF EntryMap, loadedEntries
<1>5. cs \in CandidateMap
  BY Zenon, <1>1, <1>2, <1>3 DEF CandidateMap, loadedCandidates, Candidate,
                                    DiskRecord, Entry, Times
<1>6. QED  BY <1>4, <1>5

\* A snapshot keeps the sequence numbers and the waiting set well-formed.
LEMMA SnapshotType ==
    ASSUME TypeOK, NEW es \in EntryMap, NEW cs \in CandidateMap,
           snapshotLocked(es, cs)
    PROVE  nextSeq' \in Nat /\ pending' \in SUBSET [seq: Nat, image: Image]
<1>1. CASE HasPath
  BY <1>1, ImageOfType DEF TypeOK, snapshotLocked
<1>2. CASE ~HasPath
  BY Zenon, <1>2 DEF TypeOK, snapshotLocked, NoSnapshot
<1>3. QED  BY <1>1, <1>2

-----------------------------------------------------------------------------
(* Type correctness.                                                       *)

\* The constructor leaves a store of the right types, whatever file it loads.
LEMMA TypeInit == Init => TypeOK
<1> SUFFICES ASSUME Init PROVE TypeOK
  BY Zenon
<1>1. disk \in Image
  BY Zenon, FilesAssumption DEF Init, Image, Empty
<1>2. entries \in EntryMap /\ candidates \in CandidateMap
  BY Zenon, <1>1, LoadType DEF Init
<1>3. saveFailing \in BOOLEAN
  BY Zenon DEF Init
<1>4. /\ strikes \in [Key -> SUBSET Nat]
      /\ healthyAt \in [Key -> Nat]
      /\ pending \in SUBSET [seq: Nat, image: Image]
  BY Zenon DEF Init
<1>5. QED  BY <1>1, <1>2, <1>3, <1>4 DEF Init, TypeOK, EntryMap, CandidateMap, Times

\* The values the operations store are well-formed.
LEMMA ValueTypes ==
    ASSUME wall \in Nat, mono \in Nat
    PROVE  /\ \A p \in Profiles : provenNow(p) \in Entry
           /\ \A p \in Profiles, u \in Nat : struckNow(p, u) \in Candidate
           /\ \A e \in Entry, n \in Nat : /\ withFailures(e, n) \in Entry
                                          /\ withReverify(e, n) \in Entry
           /\ \A c \in Candidate, p \in Profiles : withProfile(c, p) \in Candidate
BY DurationsAssumption DEF Entry, Candidate, Times, provenNow, struckNow,
                           withFailures, withReverify, withProfile

\* Each branch of remember() keeps the types.
LEMMA TypeRemember ==
    ASSUME TypeOK, NEW k \in Key, NEW p \in Profiles, NEW kind \in Kinds,
           remember(k, p, kind), UNCHANGED clockVars
    PROVE  TypeOK'
<1> USE DEF TypeOK, clockVars, fileVars
<1>0. entries \in EntryMap /\ candidates \in CandidateMap
  BY Zenon DEF EntryMap, CandidateMap
<1>1. CASE RememberIgnored(k, p, kind)
  BY Zenon, <1>1 DEF RememberIgnored, storeVars
<1>2. CASE RememberRefreshed(k, p, kind)
  <2> DEFINE es == [entries EXCEPT ![k] = withFailures(@, 0)]
  <2>1. es \in EntryMap
    BY Zenon, <1>0, <1>2, ValueTypes DEF RememberRefreshed, live, EntryMap
  <2>2. nextSeq' \in Nat /\ pending' \in SUBSET [seq: Nat, image: Image]
    BY Zenon, <1>0, <1>2, <2>1, SnapshotType DEF RememberRefreshed, NoSnapshot
  <2>3. QED  BY <1>2, <2>1, <2>2 DEF RememberRefreshed, EntryMap
<1>3. CASE RememberReverified(k, p, kind)
  <2> DEFINE es == [entries EXCEPT ![k] = provenNow(p)]
  <2>1. es \in EntryMap
    BY Zenon, <1>0, ValueTypes DEF EntryMap
  <2>2. nextSeq' \in Nat /\ pending' \in SUBSET [seq: Nat, image: Image]
    BY Zenon, <1>0, <1>3, <2>1, SnapshotType DEF RememberReverified
  <2>3. QED  BY <1>3, <2>1, <2>2 DEF RememberReverified, EntryMap
<1>4. CASE RememberCandidate(k, p, kind)
  <2>1. candidates' \in CandidateMap
    <3>1. CASE hasCandidate(k)
      <4>1. candidates[k] \in Candidate
        BY Zenon, <1>0, <3>1 DEF hasCandidate, CandidateMap
      <4>2. candidates[k].persistUntil \in Nat
        BY Zenon, <4>1 DEF Candidate, Times
      <4>3. QED  BY <1>0, <1>4, <3>1, <4>1, <4>2, ValueTypes
                   DEF RememberCandidate, CandidateMap
    <3>2. CASE ~hasCandidate(k)
      <4>1. PICK cs \in makeRoomForCandidateLocked([candidates EXCEPT ![k] = None]) :
              candidates' = [cs EXCEPT ![k] = struckNow(p, 0)]
        BY <1>4, <3>2, Zenon DEF RememberCandidate
      <4>2. [candidates EXCEPT ![k] = None] \in CandidateMap
        BY Zenon, <1>0 DEF CandidateMap
      <4>3. cs \in CandidateMap
        BY Zenon, <4>2, RoomForCandidate
      <4>4. QED  BY <4>1, <4>3, ValueTypes DEF CandidateMap
    <3>3. QED  BY <3>1, <3>2
  <2>2. QED  BY <1>4, <2>1, Zenon DEF RememberCandidate, NoSnapshot, CandidateMap
<1>5. CASE RememberLearned(k, p, kind)
  <2> DEFINE cs == [candidates EXCEPT ![k] = None]
  <2>1. PICK room \in IF entries[k] = None THEN makeRoomForEntryLocked(entries)
                                           ELSE {entries} :
          /\ entries' = [room EXCEPT ![k] = provenNow(p)]
          /\ candidates' = cs
          /\ snapshotLocked([room EXCEPT ![k] = provenNow(p)], cs)
    BY <1>5, Zenon DEF RememberLearned
  <2>2. room \in EntryMap
    BY Zenon, <1>0, <2>1, RoomForEntry
  <2>3. [room EXCEPT ![k] = provenNow(p)] \in EntryMap /\ cs \in CandidateMap
    BY Zenon, <1>0, <2>2, ValueTypes DEF EntryMap, CandidateMap
  <2>4. nextSeq' \in Nat /\ pending' \in SUBSET [seq: Nat, image: Image]
    BY Zenon, <2>1, <2>3, SnapshotType
  <2>5. QED  BY <1>5, <2>1, <2>3, <2>4, Zenon DEF RememberLearned, EntryMap, CandidateMap
<1>6. QED  BY <1>1, <1>2, <1>3, <1>4, <1>5 DEF remember

\* Every other operation of the store keeps the types.
LEMMA TypeStep ==
    ASSUME TypeOK, StoreStep, UNCHANGED clockVars
    PROVE  TypeOK'
<1> USE DEF TypeOK
<1>0. entries \in EntryMap /\ candidates \in CandidateMap
  BY Zenon DEF EntryMap, CandidateMap
<1>1. CASE \E k \in Key, p \in Profiles, kind \in Kinds : remember(k, p, kind)
  BY Zenon, <1>1, TypeRemember
<1>2. ASSUME NEW k \in Key, RememberBaseline(k) PROVE TypeOK'
  <2> DEFINE es == [entries EXCEPT ![k] = None]
             cs == [candidates EXCEPT ![k] = None]
  <2>1. es \in EntryMap /\ cs \in CandidateMap
    BY Zenon, <1>0 DEF EntryMap, CandidateMap
  <2>2. nextSeq' \in Nat /\ pending' \in SUBSET [seq: Nat, image: Image]
    BY Zenon, <1>2, <2>1, SnapshotType DEF RememberBaseline, NoSnapshot
  <2>3. QED  BY <1>2, <2>1, <2>2
               DEF RememberBaseline, EntryMap, CandidateMap, clockVars, fileVars
<1>3. ASSUME NEW k \in Key, noteBaselineHealthy(k) PROVE TypeOK'
  <2> DEFINE cs == [candidates EXCEPT ![k] = None]
  <2>1. cs \in CandidateMap
    BY Zenon, <1>0 DEF CandidateMap
  <2>2. nextSeq' \in Nat /\ pending' \in SUBSET [seq: Nat, image: Image]
    BY Zenon, <1>0, <1>3, <2>1, SnapshotType DEF noteBaselineHealthy, NoSnapshot
  <2>3. \A h \in roomForHealthy(k) : h \in [Key -> Nat]
    BY Zenon DEF roomForHealthy, Times
  <2>4. healthyAt' \in [Key -> Nat]
    BY <1>3, <2>3 DEF noteBaselineHealthy
  <2>5. strikes' \in [Key -> SUBSET Nat]
    BY Zenon, <1>3 DEF noteBaselineHealthy
  <2>6. QED  BY <1>3, <2>1, <2>2, <2>4, <2>5
               DEF noteBaselineHealthy, CandidateMap, clockVars, fileVars, Times
<1>4. ASSUME NEW k \in Key, NEW p \in Profiles, recordFailure(k, p) PROVE TypeOK'
  <2>1. CASE ~isWinner(k, p)
    BY Zenon, <1>4, <2>1 DEF recordFailure, storeVars, clockVars, fileVars
  <2>2. CASE isWinner(k, p)
    <3> DEFINE e == withFailures(entries[k], entries[k].failures + 1)
               es == [entries EXCEPT ![k] = IF @.failures + 1 >= 2 THEN None
                                            ELSE withFailures(@, @.failures + 1)]
    <3>1. entries[k] \in Entry
      BY Zenon, <1>0, <2>2 DEF isWinner, EntryMap
    <3>0. entries[k].failures + 1 \in Nat
      BY <3>1 DEF Entry, Times
    <3>2. e \in Entry
      BY Zenon, <3>0, <3>1, ValueTypes
    <3>3. es \in EntryMap
      BY Zenon, <1>0, <3>2 DEF EntryMap
    <3>4. entries' = es /\ snapshotLocked(es, candidates)
      BY Zenon, <1>4, <2>2 DEF recordFailure
    <3>5. nextSeq' \in Nat /\ pending' \in SUBSET [seq: Nat, image: Image]
      BY Zenon, <1>0, <3>3, <3>4, SnapshotType
    <3>6. UNCHANGED <<candidates, healthyAt, strikes, fileVars>>
      BY Zenon, <1>4, <2>2 DEF recordFailure
    <3>7. QED  BY <3>3, <3>4, <3>5, <3>6 DEF EntryMap, clockVars, fileVars
  <2>3. QED  BY <2>1, <2>2
<1>5. ASSUME NEW k \in Key, probeOrder(k) PROVE TypeOK'
  <2>1. reverifyDue(k) => entries[k] \in Entry
    BY Zenon, <1>0 DEF reverifyDue, live, EntryMap
  <2>2. entries' \in EntryMap
    BY Zenon, <1>0, <1>5, <2>1, ValueTypes DEF probeOrder, EntryMap
  <2>3. QED  BY <1>5, <2>2 DEF probeOrder, EntryMap, clockVars, fileVars
<1>6. ASSUME NEW h \in Hosts, forget(h) PROVE TypeOK'
  <2> DEFINE hit == {k \in Key : k[2] = h}
             es == [k \in Key |-> IF k \in hit THEN None ELSE entries[k]]
             cs == [k \in Key |-> IF k \in hit THEN None ELSE candidates[k]]
  <2>1. es \in EntryMap /\ cs \in CandidateMap
    BY Zenon, <1>0 DEF EntryMap, CandidateMap
  <2>2. nextSeq' \in Nat /\ pending' \in SUBSET [seq: Nat, image: Image]
    BY Zenon, <1>6, <2>1, SnapshotType DEF forget, NoSnapshot
  <2>3. entries' = es /\ candidates' = cs
    BY Zenon, <1>6 DEF forget
  <2>4. UNCHANGED <<healthyAt, strikes, fileVars>>
    BY Zenon, <1>6 DEF forget
  <2>5. QED  BY <2>1, <2>2, <2>3, <2>4 DEF EntryMap, CandidateMap, clockVars, fileVars
<1>7. CASE clear
  <2>1. Empty \in EntryMap /\ Empty \in CandidateMap
    BY Zenon DEF Empty, EntryMap, CandidateMap
  <2>2. nextSeq' \in Nat /\ pending' \in SUBSET [seq: Nat, image: Image]
    BY Zenon, <1>7, <2>1, SnapshotType DEF clear
  <2>3. QED  BY <1>7, <2>1, <2>2
               DEF clear, EntryMap, CandidateMap, Times, clockVars, fileVars
<1>8. ASSUME NEW s \in pending, commit(s) PROVE TypeOK'
  <2>1. s \in [seq: Nat, image: Image]
    BY Zenon
  <2>2. saveFailing' \in BOOLEAN
    BY <1>8, Zenon DEF commit, CommitWritten, CommitFailed, CommitSkipped
  <2>3. QED  BY <1>8, <2>1, <2>2
               DEF commit, CommitWritten, CommitFailed, CommitSkipped, clockVars
<1>9. CASE Restart
  <2>1. Empty \in Image
    BY Zenon DEF Empty, Image
  <2>2. entries' \in EntryMap /\ candidates' \in CandidateMap
    BY Zenon, <1>9, <2>1, LoadType DEF Restart
  <2>3. saveFailing' \in BOOLEAN
    BY <1>9, Zenon DEF Restart
  <2>4. strikes' \in [Key -> SUBSET Nat] /\ healthyAt' \in [Key -> Nat]
    BY Zenon, <1>9 DEF Restart
  <2>5. QED  BY <1>9, <2>2, <2>3, <2>4
               DEF Restart, EntryMap, CandidateMap, Times, clockVars
<1>10. QED  BY <1>1, <1>2, <1>3, <1>4, <1>5, <1>6, <1>7, <1>8, <1>9 DEF StoreStep

\* The clocks keep the types.
LEMMA TypeClock == TypeOK /\ (Tick \/ WallStep) => TypeOK'
BY DurationsAssumption DEF TypeOK, Tick, WallStep, storeVars, fileVars

\* Every variable keeps its type (strategy::Store, all operations).
THEOREM TypeCorrect == Spec => []TypeOK
<1>1. TypeOK /\ [Next]_vars => TypeOK'
  <2>1. TypeOK /\ Next => TypeOK'
    BY Zenon, TypeStep, TypeClock DEF Next
  <2>2. TypeOK /\ UNCHANGED vars => TypeOK'
    BY Zenon DEF TypeOK, vars, storeVars, fileVars, clockVars
  <2>3. QED  BY <2>1, <2>2
<1>2. QED  BY TypeInit, <1>1, PTL DEF Spec

-----------------------------------------------------------------------------
(* Two strikes.                                                            *)

\* load() brings nominations back without a strike.
LEMMA LoadNoStrike ==
    ASSUME NEW file, NEW es, NEW cs, load(file, es, cs)
    PROVE  \A k \in Key : cs[k] # None => cs[k].firstStrikeAt = 0
<1>1. PICK C : cs = loadedCandidates(file, C)
  BY Zenon DEF load
<1>2. QED  BY <1>1 DEF loadedCandidates

\* A step leaves every nomination with a strike one that is on record.
LEMMA StrikesStep ==
    ASSUME TypeOK, StrikesRecorded, [Next]_vars
    PROVE  StrikesRecorded'
<1> USE DEF StrikesRecorded
<1>0. candidates \in CandidateMap /\ strikes \in [Key -> SUBSET Nat]
  BY Zenon DEF TypeOK, CandidateMap
<1>1. ASSUME NEW k \in Key, NEW p \in Profiles, NEW kind \in Kinds,
             remember(k, p, kind)
      PROVE  StrikesRecorded'
  <2>1. CASE RememberIgnored(k, p, kind)
    BY Zenon, <2>1 DEF RememberIgnored, storeVars
  <2>2. CASE RememberRefreshed(k, p, kind)
    BY Zenon, <2>2 DEF RememberRefreshed
  <2>3. CASE RememberReverified(k, p, kind)
    BY Zenon, <1>0, <2>3 DEF RememberReverified
  <2>4. CASE RememberCandidate(k, p, kind)
    <3> SUFFICES ASSUME NEW x \in Key, candidates'[x] # None,
                        candidates'[x].firstStrikeAt # 0
                 PROVE  candidates'[x].firstStrikeAt \in strikes'[x]
      BY Zenon
    <3>1. /\ strikes'[k] = strikes[k] \cup {mono}
          /\ \A y \in Key \ {k} : strikes'[y] = strikes[y]
      BY Zenon, <1>0, <2>4 DEF RememberCandidate
    <3>2. CASE hasCandidate(k)
      BY <1>0, <2>4, <3>1, <3>2
        DEF RememberCandidate, hasCandidate, CandidateMap, struckNow, withProfile
    <3>3. CASE ~hasCandidate(k)
      <4> DEFINE without == [candidates EXCEPT ![k] = None]
      <4>1. PICK cs \in makeRoomForCandidateLocked(without) :
              candidates' = [cs EXCEPT ![k] = struckNow(p, 0)]
        BY <2>4, <3>3, Zenon DEF RememberCandidate
      <4>2. without \in CandidateMap
        BY Zenon, <1>0 DEF CandidateMap
      <4>3. cs \in CandidateMap /\ \A y \in Key : cs[y] # None => cs[y] = without[y]
        BY <4>2, RoomForCandidate, Zenon
      <4>4. CASE x = k
        BY Zenon, <3>1, <4>1, <4>3, <4>4 DEF struckNow, CandidateMap
      <4>5. CASE x # k
        BY Zenon, <1>0, <3>1, <4>1, <4>3, <4>5 DEF CandidateMap
      <4>6. QED  BY <4>4, <4>5
    <3>4. QED  BY <3>2, <3>3
  <2>5. CASE RememberLearned(k, p, kind)
    BY Zenon, <1>0, <2>5 DEF RememberLearned, CandidateMap
  <2>6. QED  BY <1>1, <2>1, <2>2, <2>3, <2>4, <2>5, Zenon DEF remember
<1>2. ASSUME NEW k \in Key, RememberBaseline(k) PROVE StrikesRecorded'
  BY Zenon, <1>0, <1>2 DEF RememberBaseline, CandidateMap
<1>3. ASSUME NEW k \in Key, noteBaselineHealthy(k) PROVE StrikesRecorded'
  BY Zenon, <1>0, <1>3 DEF noteBaselineHealthy, CandidateMap
<1>4. ASSUME NEW k \in Key, NEW p \in Profiles, recordFailure(k, p)
      PROVE  StrikesRecorded'
  BY Zenon, <1>4 DEF recordFailure, storeVars
<1>5. ASSUME NEW k \in Key, probeOrder(k) PROVE StrikesRecorded'
  BY Zenon, <1>5 DEF probeOrder
<1>6. ASSUME NEW h \in Hosts, forget(h) PROVE StrikesRecorded'
  BY Zenon, <1>6 DEF forget
<1>7. CASE clear
  BY Zenon, <1>7 DEF clear, Empty
<1>8. ASSUME NEW s \in pending, commit(s) PROVE StrikesRecorded'
  BY Zenon, <1>8 DEF commit
<1>9. CASE Restart
  BY Zenon, <1>9, LoadNoStrike DEF Restart
<1>10. CASE Tick \/ WallStep \/ UNCHANGED vars
  BY Zenon, <1>10 DEF Tick, WallStep, vars, storeVars
<1>11. QED
  BY <1>1, <1>2, <1>3, <1>4, <1>5, <1>6, <1>7, <1>8, <1>9, <1>10, Zenon
    DEF Next, StoreStep

\* A step that gives a host a new winner is its second strike.
LEMMA WinnerStep ==
    ASSUME TypeOK, StrikesRecorded, [Next]_vars
    PROVE  [LearnedStep]_vars
<1> SUFFICES ASSUME NEW x \in Key, NewWinner(x), crashes' = crashes
             PROVE  TwoStrikes(x)
  BY Zenon DEF LearnedStep
<1>0. entries \in EntryMap
  BY Zenon DEF TypeOK, EntryMap
<1>1. ASSUME NEW k \in Key, NEW p \in Profiles, NEW kind \in Kinds,
             remember(k, p, kind)
      PROVE  TwoStrikes(x)
  <2>1. CASE RememberIgnored(k, p, kind)
    BY Zenon, <2>1 DEF RememberIgnored, storeVars, NewWinner
  <2>2. CASE RememberRefreshed(k, p, kind)
    BY Zenon, <1>0, <2>2 DEF RememberRefreshed, live, NewWinner, EntryMap, withFailures
  <2>3. CASE RememberReverified(k, p, kind)
    BY Zenon, <1>0, <2>3 DEF RememberReverified, live, NewWinner, EntryMap, provenNow
  <2>4. CASE RememberCandidate(k, p, kind)
    BY Zenon, <2>4 DEF RememberCandidate, NewWinner
  <2>5. CASE RememberLearned(k, p, kind)
    <3>1. PICK room \in IF entries[k] = None THEN makeRoomForEntryLocked(entries)
                                             ELSE {entries} :
            entries' = [room EXCEPT ![k] = provenNow(p)]
      BY <2>5, Zenon DEF RememberLearned
    <3>2. room \in EntryMap /\ \A y \in Key : room[y] # None => room[y] = entries[y]
      BY Zenon, <1>0, <3>1, RoomForEntry
    <3>3. x = k
      BY Zenon, <3>1, <3>2 DEF NewWinner, EntryMap
    <3>4. confirms(k)
      BY Zenon, <2>5 DEF RememberLearned
    <3>5. /\ candidates[k].firstStrikeAt \in strikes[k]
          /\ candidates[k].firstStrikeAt + kConfirmMinGapSeconds <= mono
      <4>1. candidates[k] \in Candidate
        BY Zenon, <3>4 DEF confirms, hasCandidate, TypeOK
      <4>2. candidates[k].firstStrikeAt \in Nat
        BY Zenon, <4>1 DEF Candidate, Times
      <4>3. QED  BY <3>4, <4>2, DurationsAssumption
                   DEF confirms, hasCandidate, StrikesRecorded, TypeOK
    <3>6. QED  BY <3>3, <3>5 DEF TwoStrikes
  <2>6. QED  BY <1>1, <2>1, <2>2, <2>3, <2>4, <2>5 DEF remember
<1>2. ASSUME NEW k \in Key, RememberBaseline(k) PROVE FALSE
  BY Zenon, <1>0, <1>2 DEF RememberBaseline, NewWinner, EntryMap
<1>3. ASSUME NEW k \in Key, noteBaselineHealthy(k) PROVE FALSE
  BY Zenon, <1>3 DEF noteBaselineHealthy, NewWinner
<1>4. ASSUME NEW k \in Key, NEW p \in Profiles, recordFailure(k, p) PROVE FALSE
  <2>1. CASE ~isWinner(k, p)
    BY Zenon, <1>4, <2>1 DEF recordFailure, storeVars, NewWinner
  <2>2. CASE isWinner(k, p)
    <3>1. entries'[k] = None \/ entries'[k].profile = p
      BY <1>0, <1>4, <2>2 DEF recordFailure, isWinner, EntryMap, withFailures
    <3>2. \A y \in Key \ {k} : entries'[y] = entries[y]
      BY Zenon, <1>0, <1>4, <2>2 DEF recordFailure, EntryMap
    <3>3. QED  BY <2>2, <3>1, <3>2 DEF NewWinner, isWinner
  <2>3. QED  BY <2>1, <2>2
<1>5. ASSUME NEW k \in Key, probeOrder(k) PROVE FALSE
  BY Zenon, <1>0, <1>5 DEF probeOrder, reverifyDue, live, NewWinner, EntryMap, withReverify
<1>6. ASSUME NEW h \in Hosts, forget(h) PROVE FALSE
  BY Zenon, <1>6 DEF forget, NewWinner
<1>7. CASE clear
  BY Zenon, <1>7 DEF clear, Empty, NewWinner
<1>8. ASSUME NEW s \in pending, commit(s) PROVE FALSE
  BY Zenon, <1>8 DEF commit, NewWinner
<1>9. CASE Restart
  BY <1>9 DEF Restart, TypeOK
<1>10. CASE Tick \/ WallStep \/ UNCHANGED vars
  BY Zenon, <1>10 DEF Tick, WallStep, vars, storeVars, NewWinner
<1>11. QED
  BY Zenon, <1>1, <1>2, <1>3, <1>4, <1>5, <1>6, <1>7, <1>8, <1>9, <1>10
    DEF Next, StoreStep

\* A host gets a new winner only on a differential that comes at least
\* kConfirmMinGapSeconds after another one, with no healthy baseline between
\* them (rememberLocked, noteBaselineHealthy).
THEOREM TwoStrikesTheorem == Spec => LearnedNeedsTwoStrikes
<1>1. Init => StrikesRecorded
  BY LoadNoStrike DEF Init, StrikesRecorded
<1>2. TypeOK /\ StrikesRecorded /\ [Next]_vars => StrikesRecorded'
  BY Zenon, StrikesStep
<1>3. TypeOK /\ StrikesRecorded /\ [Next]_vars => [LearnedStep]_vars
  BY Zenon, WinnerStep
<1>4. QED  BY <1>1, <1>2, <1>3, TypeCorrect, PTL DEF Spec, LearnedNeedsTwoStrikes

-----------------------------------------------------------------------------
(* No winner outlives its proof.                                           *)

AllProven(m) == \A k \in Key : m[k] # None => Proven(m[k])
WinnersProven(file) ==
    \A k \in Key : file[k] # None /\ file[k].verifiedAt # 0 => Proven(file[k])

\* What the operations store keeps the bound.
LEMMA ValuesProven ==
    ASSUME TypeOK
    PROVE  /\ \A p \in Profiles : Proven(provenNow(p))
           /\ \A e \in Entry, n \in Nat :
                Proven(e) => Proven(withFailures(e, n)) /\ Proven(withReverify(e, n))
BY DurationsAssumption
DEF TypeOK, Proven, provenNow, withFailures, withReverify, Entry, Times

\* A snapshot of proven winners holds proven winners, and so does what waits.
LEMMA SnapshotProven ==
    ASSUME NEW es \in EntryMap, NEW cs \in CandidateMap, AllProven(es),
           PendingProven, snapshotLocked(es, cs)
    PROVE  PendingProven'
<1>1. WinnersProven(ImageOf(es, cs))
  BY DEF WinnersProven, ImageOf, AllProven, Proven, Persisted, EntryMap, CandidateMap
<1>2. \/ pending' = pending \cup {[seq |-> nextSeq + 1, image |-> ImageOf(es, cs)]}
      \/ pending' = pending
  BY Zenon DEF snapshotLocked, NoSnapshot
<1>3. QED  BY <1>1, <1>2 DEF PendingProven, WinnersProven, Proven

\* Cutting an expiry off at one TTL from now keeps it positive and within one
\* TTL of its proof.
LEMMA CappedExpiry ==
    ASSUME NEW e \in Nat, NEW v \in Nat, NEW w \in Nat, NEW ttl \in Nat, NEW x,
           e # 0, w # 0, e <= v + ttl, x = IF e > w + ttl THEN w + ttl ELSE e
    PROVE  x # 0 /\ x <= v + ttl
OBVIOUS

\* load() makes winners of proven records only, and never extends one.
LEMMA LoadProven ==
    ASSUME TypeOK, NEW file \in Image, WinnersProven(file),
           NEW es, NEW cs, load(file, es, cs)
    PROVE  AllProven(es)
<1>1. PICK E \in Bounded(aliveIn(file) \ legacyIn(file), kMaxRememberedHosts) :
        es = loadedEntries(file, E)
  BY Zenon DEF load
<1> SUFFICES ASSUME NEW k \in Key, es[k] # None PROVE Proven(es[k])
  BY Zenon DEF AllProven
<1>2. k \in E /\ es[k] = believed(file[k])
  BY Zenon, <1>1 DEF loadedEntries
<1>3. file[k] # None /\ believed(file[k]).verifiedAt # 0
  BY Zenon, <1>2 DEF Bounded, aliveIn, legacyIn
<1>4. file[k] \in DiskRecord
  BY Zenon, <1>3 DEF Image
<1>5. file[k].verifiedAt # 0
  BY Zenon, <1>3, <1>4, DurationsAssumption DEF believed, DiskRecord, Times, TypeOK
<1>6. Proven(file[k])
  BY Zenon, <1>3, <1>5 DEF WinnersProven
<1> DEFINE d == file[k]
           cap == wall + kLearningTtlSeconds
<1>7. /\ d.verifiedAt \in Nat /\ d.expiresAt \in Nat
      /\ wall \in Nat /\ wall # 0 /\ kLearningTtlSeconds \in Nat
  BY Zenon, <1>4, DurationsAssumption DEF DiskRecord, Times, TypeOK
<1>8. /\ d.expiresAt # 0 /\ d.expiresAt <= d.verifiedAt + kLearningTtlSeconds
  BY Zenon, <1>6 DEF Proven
<1>9. /\ believed(d).verifiedAt = d.verifiedAt
      /\ believed(d).expiresAt = IF d.expiresAt > cap THEN cap ELSE d.expiresAt
  BY Zenon, <1>3, <1>8 DEF believed
<1>10. /\ believed(d).expiresAt # 0
       /\ believed(d).expiresAt <= d.verifiedAt + kLearningTtlSeconds
  <2> DEFINE x == believed(d).expiresAt
  <2> HIDE DEF d, x
  <2>1. x # 0 /\ x <= d.verifiedAt + kLearningTtlSeconds
    <3>1. x = IF d.expiresAt > cap THEN cap ELSE d.expiresAt
      BY Zenon, <1>9 DEF x
    <3>2. QED  BY <1>7, <1>8, <3>1, CappedExpiry
  <2>2. QED  BY <2>1 DEF x
<1>11. QED  BY <1>2, <1>5, <1>9, <1>10 DEF Proven

ProvenInv == AllProven(entries) /\ WinnersProven(disk) /\ PendingProven

\* No operation keeps, saves or loads a winner beyond one TTL of its proof.
LEMMA ProvenStep ==
    ASSUME TypeOK, ProvenInv, [Next]_vars
    PROVE  ProvenInv'
<1>0. /\ entries \in EntryMap /\ candidates \in CandidateMap
      /\ AllProven(entries) /\ WinnersProven(disk) /\ PendingProven
  BY Zenon DEF TypeOK, EntryMap, CandidateMap, ProvenInv
<1>a. disk' = disk => WinnersProven(disk')
  BY Zenon, <1>0
<1>b. pending' = pending => PendingProven'
  BY Zenon, <1>0 DEF PendingProven, Proven
<1>1. ASSUME NEW k \in Key, NEW p \in Profiles, NEW kind \in Kinds,
             remember(k, p, kind)
      PROVE  ProvenInv'
  <2>1. CASE RememberIgnored(k, p, kind)
    BY Zenon, <1>0, <1>a, <1>b, <2>1 DEF RememberIgnored, storeVars, fileVars, ProvenInv
  <2>2. CASE RememberRefreshed(k, p, kind)
    <3> DEFINE es == [entries EXCEPT ![k] = withFailures(@, 0)]
    <3>1. entries[k] \in Entry
      BY Zenon, <1>0, <2>2 DEF RememberRefreshed, live, EntryMap
    <3>2. es \in EntryMap
      BY Zenon, <1>0, <3>1, ValueTypes DEF EntryMap, TypeOK
    <3>3. AllProven(es)
      BY Zenon, <1>0, <3>1, ValuesProven, NoneAssumption, ValueTypes
        DEF AllProven, EntryMap, TypeOK
    <3>4. PendingProven'
      BY Zenon, <1>0, <1>b, <2>2, <3>2, <3>3, SnapshotProven DEF RememberRefreshed, NoSnapshot
    <3>5. QED  BY <1>a, <2>2, <3>3, <3>4 DEF RememberRefreshed, fileVars, ProvenInv
  <2>3. CASE RememberReverified(k, p, kind)
    <3> DEFINE es == [entries EXCEPT ![k] = provenNow(p)]
    <3>1. es \in EntryMap
      BY Zenon, <1>0, ValueTypes DEF EntryMap, TypeOK
    <3>2. AllProven(es)
      BY Zenon, <1>0, ValuesProven DEF AllProven, EntryMap
    <3>3. PendingProven'
      BY Zenon, <1>0, <2>3, <3>1, <3>2, SnapshotProven DEF RememberReverified
    <3>4. QED  BY <1>a, <2>3, <3>2, <3>3 DEF RememberReverified, fileVars, ProvenInv
  <2>4. CASE RememberCandidate(k, p, kind)
    BY Zenon, <1>0, <1>a, <1>b, <2>4 DEF RememberCandidate, NoSnapshot, fileVars, ProvenInv
  <2>5. CASE RememberLearned(k, p, kind)
    <3> DEFINE cs == [candidates EXCEPT ![k] = None]
    <3>1. PICK room \in IF entries[k] = None THEN makeRoomForEntryLocked(entries)
                                             ELSE {entries} :
            /\ entries' = [room EXCEPT ![k] = provenNow(p)]
            /\ snapshotLocked([room EXCEPT ![k] = provenNow(p)], cs)
      BY <2>5, Zenon DEF RememberLearned
    <3>2. room \in EntryMap /\ \A y \in Key : room[y] # None => room[y] = entries[y]
      BY Zenon, <1>0, <3>1, RoomForEntry
    <3>3. entries' \in EntryMap /\ cs \in CandidateMap
      BY Zenon, <1>0, <3>1, <3>2, ValueTypes DEF EntryMap, CandidateMap, TypeOK
    <3>4. AllProven(entries')
      BY Zenon, <1>0, <3>1, <3>2, ValuesProven DEF AllProven, EntryMap
    <3>5. PendingProven'
      BY Zenon, <1>0, <3>1, <3>3, <3>4, SnapshotProven
    <3>6. QED  BY <1>a, <2>5, <3>4, <3>5 DEF RememberLearned, fileVars, ProvenInv
  <2>6. QED  BY <1>1, <2>1, <2>2, <2>3, <2>4, <2>5 DEF remember
<1>2. ASSUME NEW k \in Key, RememberBaseline(k) PROVE ProvenInv'
  <2> DEFINE es == [entries EXCEPT ![k] = None]
             cs == [candidates EXCEPT ![k] = None]
  <2>1. es \in EntryMap /\ cs \in CandidateMap /\ AllProven(es)
    BY Zenon, <1>0 DEF EntryMap, CandidateMap, AllProven
  <2>2. PendingProven'
    BY Zenon, <1>0, <1>2, <1>b, <2>1, SnapshotProven DEF RememberBaseline, NoSnapshot
  <2>3. QED  BY <1>2, <1>a, <2>1, <2>2 DEF RememberBaseline, fileVars, ProvenInv
<1>3. ASSUME NEW k \in Key, noteBaselineHealthy(k) PROVE ProvenInv'
  <2> DEFINE cs == [candidates EXCEPT ![k] = None]
  <2>1. cs \in CandidateMap
    BY Zenon, <1>0 DEF CandidateMap
  <2>2. PendingProven'
    BY Zenon, <1>0, <1>3, <1>b, <2>1, SnapshotProven DEF noteBaselineHealthy, NoSnapshot
  <2>3. QED  BY <1>0, <1>3, <1>a, <2>2 DEF noteBaselineHealthy, fileVars, ProvenInv
<1>4. ASSUME NEW k \in Key, NEW p \in Profiles, recordFailure(k, p) PROVE ProvenInv'
  <2>1. CASE ~isWinner(k, p)
    BY Zenon, <1>0, <1>4, <1>a, <1>b, <2>1 DEF recordFailure, storeVars, fileVars, ProvenInv
  <2>2. CASE isWinner(k, p)
    <3> DEFINE e == withFailures(entries[k], entries[k].failures + 1)
               es == [entries EXCEPT ![k] = IF @.failures + 1 >= 2 THEN None
                                            ELSE withFailures(@, @.failures + 1)]
    <3>1. entries[k] \in Entry /\ Proven(entries[k])
      BY Zenon, <1>0, <2>2 DEF isWinner, EntryMap, AllProven
    <3>2. entries[k].failures + 1 \in Nat
      BY <3>1 DEF Entry, Times
    <3>3. e \in Entry /\ Proven(e)
      <4>0. wall \in Nat /\ mono \in Nat
        BY Zenon DEF TypeOK
      <4>1. e \in Entry
        BY <3>1, <3>2, <4>0, ValueTypes, Zenon
      <4>2. Proven(e)
        BY <3>1, <3>2, ValuesProven, Zenon
      <4>3. QED  BY <4>1, <4>2
    <3>4. es \in EntryMap /\ AllProven(es)
      BY Zenon, <1>0, <3>3 DEF EntryMap, AllProven
    <3>5. entries' = es /\ snapshotLocked(es, candidates) /\ disk' = disk
      BY Zenon, <1>4, <2>2 DEF recordFailure, fileVars
    <3>6. PendingProven'
      BY Zenon, <1>0, <3>4, <3>5, SnapshotProven
    <3>7. QED  BY <1>a, <3>4, <3>5, <3>6 DEF ProvenInv
  <2>3. QED  BY <2>1, <2>2
<1>5. ASSUME NEW k \in Key, probeOrder(k) PROVE ProvenInv'
  <2>1. reverifyDue(k) => entries[k] \in Entry /\ Proven(entries[k])
    BY Zenon, <1>0 DEF reverifyDue, live, EntryMap, AllProven
  <2>2. AllProven(entries')
    BY Zenon, <1>0, <1>5, <2>1, ValuesProven DEF probeOrder, EntryMap, AllProven, TypeOK
  <2>3. QED  BY <1>5, <1>a, <1>b, <2>2 DEF probeOrder, fileVars, ProvenInv
<1>6. ASSUME NEW h \in Hosts, forget(h) PROVE ProvenInv'
  <2> DEFINE hit == {k \in Key : k[2] = h}
             es == [k \in Key |-> IF k \in hit THEN None ELSE entries[k]]
             cs == [k \in Key |-> IF k \in hit THEN None ELSE candidates[k]]
  <2>1. es \in EntryMap /\ cs \in CandidateMap /\ AllProven(es)
    BY Zenon, <1>0 DEF EntryMap, CandidateMap, AllProven
  <2>2. PendingProven'
    BY Zenon, <1>0, <1>6, <1>b, <2>1, SnapshotProven DEF forget, NoSnapshot
  <2>3. QED  BY <1>6, <1>a, <2>1, <2>2 DEF forget, fileVars, ProvenInv
<1>7. CASE clear
  <2>1. Empty \in EntryMap /\ Empty \in CandidateMap /\ AllProven(Empty)
    BY Zenon DEF Empty, EntryMap, CandidateMap, AllProven
  <2>2. QED  BY <1>0, <1>7, <1>a, <2>1, SnapshotProven DEF clear, fileVars, ProvenInv
<1>8. ASSUME NEW s \in pending, commit(s) PROVE ProvenInv'
  <2>1. PendingProven'
    BY Zenon, <1>0, <1>8 DEF commit, PendingProven, Proven
  <2>2. disk' = disk \/ disk' = s.image
    BY Zenon, <1>8 DEF commit, CommitWritten, CommitFailed, CommitSkipped
  <2>3. WinnersProven(disk')
    BY Zenon, <1>0, <2>2 DEF PendingProven, WinnersProven
  <2>4. QED  BY <1>0, <1>8, <2>1, <2>3 DEF commit, ProvenInv
<1>9. CASE Restart
  <2>1. Empty \in Image /\ WinnersProven(Empty) /\ disk \in Image
    BY Zenon DEF Empty, Image, WinnersProven, TypeOK
  <2>2. AllProven(entries')
    BY Zenon, <1>0, <1>9, <2>1, LoadProven DEF Restart
  <2>3. QED  BY <1>9, <1>a, <2>2 DEF Restart, ProvenInv, PendingProven
<1>10. CASE Tick \/ WallStep \/ UNCHANGED vars
  BY Zenon, <1>0, <1>a, <1>b, <1>10 DEF Tick, WallStep, vars, storeVars, fileVars, ProvenInv
<1>11. QED
  BY Zenon, <1>1, <1>2, <1>3, <1>4, <1>5, <1>6, <1>7, <1>8, <1>9, <1>10
    DEF Next, StoreStep

\* No winner, in memory or in the file, outlives one TTL from the last
\* differential that proved it (rememberLocked, recordFailure, load, commit).
THEOREM NoWinnerOutlivesTheorem == Spec => []NoWinnerOutlivesItsProof
<1>1. Init => ProvenInv
  <2> SUFFICES ASSUME Init PROVE ProvenInv
    OBVIOUS
  <2>1. disk \in Image /\ WinnersProven(disk) /\ TypeOK
    BY Zenon, FilesAssumption, TypeInit DEF Init, Image, Empty, WinnersProven
  <2>2. AllProven(entries)
    BY Zenon, <2>1, LoadProven DEF Init
  <2>3. QED  BY <2>1, <2>2 DEF Init, ProvenInv, PendingProven
<1>2. TypeOK /\ ProvenInv /\ [Next]_vars => ProvenInv'
  BY ProvenStep
<1>3. ProvenInv => NoWinnerOutlivesItsProof
  BY Zenon DEF ProvenInv, NoWinnerOutlivesItsProof, AllProven, WinnersProven
<1>4. QED  BY <1>1, <1>2, <1>3, TypeCorrect, PTL DEF Spec

-----------------------------------------------------------------------------
(* The file agrees with memory.                                            *)

\* A step that takes a snapshot of the new winners keeps the newest snapshot
\* in agreement: all the older ones are now older than nextSeq.
LEMMA AgreesAfterSnapshot ==
    ASSUME TypeOK, NewestAgrees, NEW es \in EntryMap, NEW cs \in CandidateMap,
           entries' = es, snapshotLocked(es, cs), UNCHANGED <<fileVars, clockVars>>
    PROVE  NewestAgrees'
<1>a. CASE ~HasPath
  <2>1. /\ nextSeq' = 0 /\ pending' = {}
        /\ UNCHANGED <<wall, wallHigh, writtenSeq, failedSeq>>
    BY Zenon, <1>a DEF NewestAgrees, snapshotLocked, NoSnapshot, fileVars, clockVars
  <2>2. QED  BY <1>a, <2>1 DEF NewestAgrees
<1>b. SUFFICES ASSUME HasPath PROVE NewestAgrees'
  BY Zenon, <1>a
<1>0. PICK img, n : img = ImageOf(es, cs) /\ n = nextSeq + 1
  BY Zenon
<1> DEFINE new == [seq |-> n, image |-> img]
<1>1. /\ nextSeq' = n /\ pending' = pending \cup {new}
      /\ UNCHANGED <<wall, wallHigh, writtenSeq, failedSeq, disk>>
  BY Zenon, <1>0, <1>b DEF snapshotLocked, fileVars, clockVars
<1>2. Agrees(img)'
  <2> SUFFICES ASSUME NEW k \in Key
               PROVE  /\ img[k] # None /\ img[k].verifiedAt # 0
                           => es[k] # None /\ img[k] = Persisted(es[k])
                      /\ es[k] # None /\ es[k].expiresAt > wallHigh
                           => img[k] = Persisted(es[k])
    BY Zenon, <1>1 DEF Agrees
  <2>1. img[k] # None /\ img[k].verifiedAt # 0
          => es[k] # None /\ img[k] = Persisted(es[k])
    BY Zenon, <1>0 DEF ImageOf
  <2>2. ASSUME es[k] # None, es[k].expiresAt > wallHigh
        PROVE  img[k] = Persisted(es[k])
    <3>1. es[k].expiresAt \in Nat
      BY Zenon, <2>2 DEF EntryMap, Entry, Times
    <3>2. es[k].expiresAt > wall
      BY <2>2, <3>1 DEF NewestAgrees, TypeOK
    <3>3. QED  BY <1>0, <2>2, <3>2 DEF ImageOf
  <2>3. QED  BY <2>1, <2>2
<1>3. \A s \in pending : s.seq \in Nat /\ s.seq <= nextSeq
  BY Zenon DEF NewestAgrees, TypeOK
<1>4. \A s \in pending' : /\ s.seq <= nextSeq'
                          /\ s.seq = nextSeq' => s.image = img
  BY <1>0, <1>1, <1>3 DEF TypeOK
<1>5. \A s \in pending' : s.seq = nextSeq' => Agrees(s.image)'
  BY Zenon, <1>2, <1>4 DEF Agrees
<1>t. /\ nextSeq \in Nat /\ writtenSeq \in Nat /\ failedSeq \in Nat
  BY Zenon DEF TypeOK
<1>u. wall <= wallHigh /\ writtenSeq <= nextSeq /\ failedSeq <= nextSeq
  BY Zenon DEF NewestAgrees
<1>v. n \in Nat /\ writtenSeq < n /\ failedSeq < n
  BY <1>0, <1>t, <1>u
<1>6. writtenSeq' < nextSeq' /\ failedSeq' < nextSeq'
  BY Zenon, <1>1, <1>v
<1>7. \E s \in pending' : s.seq = nextSeq'
  <2>1. new \in pending' /\ new.seq = nextSeq'
    BY Zenon, <1>1
  <2>2. QED  BY <2>1
<1>8. /\ wall' <= wallHigh' /\ nextSeq' \in Nat
      /\ writtenSeq' \in Nat /\ failedSeq' \in Nat
  BY Zenon, <1>1, <1>t, <1>u, <1>v
<1>9. QED  BY <1>4, <1>5, <1>6, <1>7, <1>8, <1>b DEF NewestAgrees

SameWinners == \A k \in Key :
    /\ entries'[k] = None <=> entries[k] = None
    /\ entries[k] # None => /\ Persisted(entries'[k]) = Persisted(entries[k])
                            /\ entries'[k].expiresAt = entries[k].expiresAt

\* A step that neither saves nor changes what is saved keeps the agreement,
\* and so does the passing of time.
LEMMA AgreesUndisturbed ==
    ASSUME TypeOK, NewestAgrees, SameWinners, NoSnapshot, UNCHANGED fileVars,
           wall' \in Nat, wallHigh' \in Nat, wallHigh <= wallHigh',
           wall' <= wallHigh'
    PROVE  NewestAgrees'
<1>1. ASSUME NEW image, Agrees(image) PROVE Agrees(image)'
  <2> SUFFICES ASSUME NEW k \in Key
               PROVE  /\ image[k] # None /\ image[k].verifiedAt # 0
                           => entries'[k] # None /\ image[k] = Persisted(entries'[k])
                      /\ entries'[k] # None /\ entries'[k].expiresAt > wallHigh'
                           => image[k] = Persisted(entries'[k])
    BY Zenon DEF Agrees
  <2>1. image[k] # None /\ image[k].verifiedAt # 0
          => entries'[k] # None /\ image[k] = Persisted(entries'[k])
    BY Zenon, <1>1 DEF Agrees, SameWinners
  <2>2. ASSUME entries'[k] # None, entries'[k].expiresAt > wallHigh'
        PROVE  image[k] = Persisted(entries'[k])
    <3>1. entries[k] # None /\ entries[k] \in Entry
      BY Zenon, <2>2 DEF SameWinners, TypeOK
    <3>2. entries[k].expiresAt \in Nat
      BY Zenon, <3>1 DEF Entry, Times
    <3>3. entries[k].expiresAt > wallHigh
      BY <2>2, <3>1, <3>2 DEF SameWinners, TypeOK
    <3>4. QED  BY <1>1, <3>1, <3>3 DEF Agrees, SameWinners
  <2>3. QED  BY <2>1, <2>2
<1>2. UNCHANGED <<nextSeq, pending, writtenSeq, failedSeq, disk>>
  BY Zenon DEF NoSnapshot, fileVars
<1>3. \A s \in pending' : s.seq <= nextSeq' /\ (s.seq = nextSeq' => Agrees(s.image)')
  BY Zenon, <1>1, <1>2 DEF NewestAgrees
<1>4. nextSeq' > 0 /\ writtenSeq' = nextSeq' => Agrees(disk)'
  <2>1. nextSeq > 0 /\ writtenSeq = nextSeq => Agrees(disk)
    BY Zenon DEF NewestAgrees
  <2>2. Agrees(disk) => Agrees(disk)'
    <3>1. ASSUME NEW image, image = disk, Agrees(image) PROVE Agrees(image)'
      BY Zenon, <1>1, <3>1
    <3>2. QED  BY <1>2, <3>1 DEF Agrees
  <2>3. QED  BY <1>2, <2>1, <2>2
<1>5. QED  BY <1>2, <1>3, <1>4 DEF NewestAgrees

\* One step of the store keeps the newest snapshot in agreement with memory.
LEMMA AgreesStoreStep ==
    ASSUME TypeOK, NewestAgrees, StoreStep, UNCHANGED clockVars
    PROVE  NewestAgrees'
<1>0. /\ entries \in EntryMap /\ candidates \in CandidateMap
      /\ wall' \in Nat /\ wallHigh' \in Nat /\ wallHigh <= wallHigh'
      /\ wall' <= wallHigh'
  BY DEF TypeOK, EntryMap, CandidateMap, clockVars, NewestAgrees
<1>a. entries' = entries => SameWinners
  BY Zenon DEF SameWinners
<1>b. ASSUME SameWinners, NoSnapshot, UNCHANGED fileVars PROVE NewestAgrees'
  BY Zenon, <1>0, <1>b, AgreesUndisturbed
<1>1. ASSUME NEW k \in Key, NEW p \in Profiles, NEW kind \in Kinds,
             remember(k, p, kind)
      PROVE  NewestAgrees'
  <2>1. CASE RememberIgnored(k, p, kind)
    BY Zenon, <1>a, <1>b, <2>1 DEF RememberIgnored, storeVars, NoSnapshot
  <2>2. CASE RememberRefreshed(k, p, kind)
    <3> DEFINE es == [entries EXCEPT ![k] = withFailures(@, 0)]
    <3>1. entries[k] \in Entry
      BY Zenon, <1>0, <2>2 DEF RememberRefreshed, live, EntryMap
    <3>2. es \in EntryMap
      BY Zenon, <1>0, <3>1, ValueTypes DEF EntryMap, TypeOK
    <3>3. CASE entries[k].failures # 0
      BY <1>0, <2>2, <3>2, <3>3, AgreesAfterSnapshot, Zenon DEF RememberRefreshed
    <3>4. CASE entries[k].failures = 0
      <4>1. SameWinners
        BY Zenon, <1>0, <2>2, <3>1, <3>2, <3>4, NoneAssumption
          DEF RememberRefreshed, SameWinners, EntryMap, withFailures, Persisted, Entry
      <4>2. QED  BY <1>b, <2>2, <3>4, <4>1 DEF RememberRefreshed
    <3>5. QED  BY <3>3, <3>4
  <2>3. CASE RememberReverified(k, p, kind)
    <3>1. [entries EXCEPT ![k] = provenNow(p)] \in EntryMap
      BY Zenon, <1>0, ValueTypes DEF EntryMap, TypeOK
    <3>2. QED  BY <1>0, <2>3, <3>1, AgreesAfterSnapshot, Zenon DEF RememberReverified
  <2>4. CASE RememberCandidate(k, p, kind)
    BY Zenon, <1>a, <1>b, <2>4 DEF RememberCandidate
  <2>5. CASE RememberLearned(k, p, kind)
    <3> DEFINE cs == [candidates EXCEPT ![k] = None]
    <3>1. PICK room \in IF entries[k] = None THEN makeRoomForEntryLocked(entries)
                                             ELSE {entries} :
            /\ entries' = [room EXCEPT ![k] = provenNow(p)]
            /\ snapshotLocked([room EXCEPT ![k] = provenNow(p)], cs)
      BY <2>5, Zenon DEF RememberLearned
    <3>2. room \in EntryMap
      BY Zenon, <1>0, <3>1, RoomForEntry
    <3>3. entries' \in EntryMap /\ cs \in CandidateMap
      BY Zenon, <1>0, <3>1, <3>2, ValueTypes DEF EntryMap, CandidateMap, TypeOK
    <3>4. QED  BY <2>5, <3>1, <3>3, AgreesAfterSnapshot, Zenon DEF RememberLearned
  <2>6. QED  BY <1>1, <2>1, <2>2, <2>3, <2>4, <2>5 DEF remember
<1>2. ASSUME NEW k \in Key, RememberBaseline(k) PROVE NewestAgrees'
  <2> DEFINE es == [entries EXCEPT ![k] = None]
             cs == [candidates EXCEPT ![k] = None]
  <2>1. es \in EntryMap /\ cs \in CandidateMap
    BY Zenon, <1>0 DEF EntryMap, CandidateMap
  <2>2. CASE snapshotLocked(es, cs)
    BY <1>2, <2>1, <2>2, AgreesAfterSnapshot, Zenon DEF RememberBaseline
  <2>3. CASE entries[k] = None /\ NoSnapshot
    <3>1. SameWinners
      BY Zenon, <1>0, <1>2, <2>3 DEF RememberBaseline, SameWinners, EntryMap
    <3>2. QED  BY <1>2, <1>b, <2>3, <3>1 DEF RememberBaseline
  <2>4. QED  BY <1>2, <2>2, <2>3 DEF RememberBaseline
<1>3. ASSUME NEW k \in Key, noteBaselineHealthy(k) PROVE NewestAgrees'
  <2> DEFINE cs == [candidates EXCEPT ![k] = None]
  <2>1. cs \in CandidateMap
    BY Zenon, <1>0 DEF CandidateMap
  <2>2. CASE snapshotLocked(entries, cs)
    BY Zenon, <1>0, <1>3, <2>1, <2>2, AgreesAfterSnapshot DEF noteBaselineHealthy
  <2>3. CASE NoSnapshot
    BY Zenon, <1>3, <1>a, <1>b, <2>3 DEF noteBaselineHealthy
  <2>4. QED  BY <1>3, <2>2, <2>3 DEF noteBaselineHealthy
<1>4. ASSUME NEW k \in Key, NEW p \in Profiles, recordFailure(k, p)
      PROVE  NewestAgrees'
  <2>1. CASE ~isWinner(k, p)
    BY Zenon, <1>4, <1>a, <1>b, <2>1 DEF recordFailure, storeVars, NoSnapshot
  <2>2. CASE isWinner(k, p)
    <3> DEFINE e == withFailures(entries[k], entries[k].failures + 1)
               es == [entries EXCEPT ![k] = IF @.failures + 1 >= 2 THEN None
                                            ELSE withFailures(@, @.failures + 1)]
    <3>1. entries[k] \in Entry
      BY Zenon, <1>0, <2>2 DEF isWinner, EntryMap
    <3>2. entries[k].failures + 1 \in Nat
      BY <3>1 DEF Entry, Times
    <3>3. e \in Entry
      BY Zenon, <3>1, <3>2, ValueTypes DEF TypeOK
    <3>4. es \in EntryMap
      BY Zenon, <1>0, <3>3 DEF EntryMap
    <3>5. entries' = es /\ snapshotLocked(es, candidates) /\ UNCHANGED fileVars
      BY Zenon, <1>4, <2>2 DEF recordFailure
    <3>6. QED  BY <1>0, <3>4, <3>5, AgreesAfterSnapshot, Zenon
  <2>3. QED  BY <2>1, <2>2
<1>5. ASSUME NEW k \in Key, probeOrder(k) PROVE NewestAgrees'
  <2>1. CASE reverifyDue(k)
    <3>1. entries[k] \in Entry
      BY Zenon, <1>0, <2>1 DEF reverifyDue, live, EntryMap
    <3>2. withReverify(entries[k], mono) \in Entry
      BY Zenon, <3>1, ValueTypes DEF TypeOK
    <3>3. SameWinners
      BY Zenon, <1>0, <1>5, <2>1, <3>1, <3>2, NoneAssumption
        DEF probeOrder, SameWinners, EntryMap, withReverify, Persisted
    <3>4. QED  BY <1>5, <1>b, <3>3 DEF probeOrder, NoSnapshot
  <2>2. CASE ~reverifyDue(k)
    BY Zenon, <1>5, <1>a, <1>b, <2>2 DEF probeOrder, NoSnapshot
  <2>3. QED  BY <2>1, <2>2
<1>6. ASSUME NEW h \in Hosts, forget(h) PROVE NewestAgrees'
  <2> DEFINE hit == {k \in Key : k[2] = h}
             es == [k \in Key |-> IF k \in hit THEN None ELSE entries[k]]
             cs == [k \in Key |-> IF k \in hit THEN None ELSE candidates[k]]
  <2>1. es \in EntryMap /\ cs \in CandidateMap
    BY Zenon, <1>0 DEF EntryMap, CandidateMap
  <2>2. entries' = es /\ UNCHANGED fileVars
    BY Zenon, <1>6 DEF forget
  <2>3. CASE snapshotLocked(es, cs)
    BY Zenon, <2>1, <2>2, <2>3, AgreesAfterSnapshot
  <2>4. CASE NoSnapshot /\ \A k \in hit : entries[k] = None
    <3>1. SameWinners
      BY Zenon, <2>2, <2>4 DEF SameWinners
    <3>2. QED  BY <1>b, <2>2, <2>4, <3>1
  <2>5. QED  BY <1>6, <2>3, <2>4 DEF forget
<1>7. CASE clear
  <2>1. Empty \in EntryMap /\ Empty \in CandidateMap
    BY Zenon DEF Empty, EntryMap, CandidateMap
  <2>2. QED  BY <1>7, <2>1, AgreesAfterSnapshot DEF clear
<1>8. ASSUME NEW s \in pending, commit(s) PROVE NewestAgrees'
  <2>1. /\ pending' = pending \ {s} /\ UNCHANGED <<entries, nextSeq, wall, wallHigh>>
        /\ s.seq \in Nat /\ s.seq <= nextSeq
    BY Zenon, <1>8 DEF commit, clockVars, NewestAgrees, TypeOK
  <2>2. \A t \in pending' : t.seq <= nextSeq' /\ (t.seq = nextSeq' => Agrees(t.image)')
    BY Zenon, <2>1 DEF NewestAgrees, Agrees
  <2>3. CASE CommitWritten(s)
    <3>1. disk' = s.image /\ writtenSeq' = s.seq /\ failedSeq' = failedSeq
      BY Zenon, <2>3 DEF CommitWritten
    <3>2. s.seq = nextSeq => Agrees(disk)'
      BY Zenon, <2>1, <3>1 DEF NewestAgrees, Agrees
    <3>3. nextSeq > 0 => \/ \E t \in pending' : t.seq = nextSeq
                         \/ writtenSeq' = nextSeq \/ failedSeq = nextSeq
      BY <2>1, <2>3, <3>1 DEF NewestAgrees, CommitWritten, TypeOK
    <3>4. QED  BY <2>1, <2>2, <3>1, <3>2, <3>3 DEF NewestAgrees, TypeOK
  <2>4. CASE CommitFailed(s) \/ CommitSkipped(s)
    <3>1. disk' = disk /\ writtenSeq' = writtenSeq
      BY Zenon, <2>4 DEF CommitFailed, CommitSkipped
    <3>2. nextSeq > 0 /\ writtenSeq = nextSeq => Agrees(disk)'
      BY Zenon, <2>1, <3>1 DEF NewestAgrees, Agrees
    <3>3. /\ failedSeq' \in Nat /\ failedSeq' <= nextSeq
          /\ failedSeq = nextSeq => failedSeq' = nextSeq
          /\ s.seq = nextSeq => failedSeq' = nextSeq \/ writtenSeq = nextSeq
      BY <2>1, <2>4 DEF CommitFailed, CommitSkipped, NewestAgrees, TypeOK
    <3>4. nextSeq > 0 => \/ \E t \in pending' : t.seq = nextSeq
                         \/ writtenSeq = nextSeq \/ failedSeq' = nextSeq
      BY Zenon, <2>1, <3>3 DEF NewestAgrees
    <3>5. QED  BY <2>1, <2>2, <3>1, <3>2, <3>3, <3>4 DEF NewestAgrees
  <2>5. QED  BY <1>8, <2>3, <2>4 DEF commit
<1>9. CASE Restart
  BY <1>0, <1>9 DEF Restart, NewestAgrees
<1>10. QED  BY <1>1, <1>2, <1>3, <1>4, <1>5, <1>6, <1>7, <1>8, <1>9 DEF StoreStep

\* Once every thread is through commit(), and unless the write of the newest
\* snapshot failed, the file agrees with memory about the winners
\* (snapshotLocked, commit, and every operation that changes a winner).
THEOREM FileMatchesTheorem == Spec => []FileMatchesMemory
<1>1. Init => NewestAgrees
  BY DEF Init, NewestAgrees
<1>2. TypeOK /\ NewestAgrees /\ [Next]_vars => NewestAgrees'
  <2> SUFFICES ASSUME TypeOK, NewestAgrees, [Next]_vars PROVE NewestAgrees'
    OBVIOUS
  <2>1. CASE StoreStep /\ UNCHANGED clockVars
    BY Zenon, <2>1, AgreesStoreStep
  <2>2. CASE Tick \/ WallStep \/ UNCHANGED vars
    <3>1. SameWinners /\ NoSnapshot /\ UNCHANGED fileVars
      BY Zenon, <2>2 DEF Tick, WallStep, vars, storeVars, SameWinners, NoSnapshot
    <3>2. /\ wall' \in Nat /\ wallHigh' \in Nat /\ wallHigh <= wallHigh'
          /\ wall' <= wallHigh'
      BY <2>2, DurationsAssumption
        DEF Tick, WallStep, vars, clockVars, TypeOK, NewestAgrees
    <3>3. QED  BY <3>1, <3>2, AgreesUndisturbed
  <2>3. QED  BY <2>1, <2>2 DEF Next
<1>3. TypeOK /\ NewestAgrees => FileMatchesMemory
  BY DEF NewestAgrees, FileMatchesMemory, TypeOK
<1>4. QED  BY <1>1, <1>2, <1>3, TypeCorrect, PTL DEF Spec

=============================================================================
