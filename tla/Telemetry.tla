----------------------------- MODULE Telemetry ------------------------------
(***************************************************************************)
(* telemetry::Store (src/src/Telemetry.cpp): session threads record probes *)
(* into a bounded queue, one writer thread commits them to SQLite in       *)
(* batches and prunes the database, and stop() drains the queue.           *)
(*                                                                         *)
(* A record is its number.  The rows of the database are not kept: a       *)
(* transaction that commits and one that is rolled back settle its records *)
(* alike, and pruning is a step that takes the writer its time.            *)
(***************************************************************************)
EXTENDS Integers, Sequences, FiniteSets, Functions

CONSTANTS
    MaxRecords,         \* bound: probes recorded
    maxQueued, kWriteBatchSize, kPruneEveryRecords

ASSUME TelemetryConstants ==
    {MaxRecords, maxQueued, kWriteBatchSize, kPruneEveryRecords} \subseteq Nat \ {0}

VARIABLES
    accepting, stopping,
    records,        \* queue_
    mutex,          \* who holds mutex_: "free", "writer" between its test and its wait
    writer,         \* where writerLoop() is
    recorder,       \* "idle", or record() has still to notify
    stopper,        \* where stop() is
    batch, sincePrune,
    recorded,       \* history: probes recorded so far
    accepted,       \* history: those that got into the queue
    settled,        \* history: those that were committed or rolled back
    gaveUp          \* history: the writer could not open its database

storeVars == <<accepting, stopping, records, recorder, stopper>>
history == <<recorded, accepted, settled, gaveUp>>
telemetryVars == <<storeVars, mutex, writer, batch, sincePrune, history>>

\* start() has just started the writer.
TelemetryInit ==
    /\ accepting = TRUE /\ stopping = FALSE
    /\ records = <<>> /\ mutex = "free"
    /\ writer = "open" /\ recorder = "idle" /\ stopper = "no"
    /\ batch = <<>> /\ sincePrune = 0
    /\ recorded = 0 /\ accepted = {} /\ settled = {} /\ gaveUp = FALSE

\* notify_one(), notify_all(): they only reach a writer that waits.
notified == IF writer \in {"waiting", "lingering"} THEN "check" ELSE writer

---------------------------------------------------------------------------
(* record(), start() and stop()                                            *)

record ==
    /\ recorder = "idle" /\ mutex = "free" /\ recorded < MaxRecords
    /\ accepting
    /\ recorded' = recorded + 1
    /\ \/ /\ Len(records) >= maxQueued
          /\ UNCHANGED <<records, recorder, accepted>>
       \/ /\ Len(records) < maxQueued
          /\ records' = Append(records, recorded + 1)
          /\ accepted' = accepted \union {recorded + 1}
          /\ recorder' = "notify"
    /\ UNCHANGED <<accepting, stopping, stopper, mutex, writer, batch, sincePrune, settled, gaveUp>>

recordNotifies ==
    /\ recorder = "notify"
    /\ recorder' = "idle"
    /\ writer' = notified
    /\ UNCHANGED <<accepting, stopping, records, stopper, mutex, batch, sincePrune, history>>

\* stop() that does not take the writer's mutex.
stopBarges ==
    /\ stopper = "no"
    /\ stopper' = "notify"
    /\ accepting' = FALSE /\ stopping' = TRUE
    /\ UNCHANGED <<records, recorder, mutex, writer, batch, sincePrune, history>>

stopFlags ==
    /\ stopper = "no" /\ mutex = "free"
    /\ stopper' = "notify"
    /\ accepting' = FALSE /\ stopping' = TRUE
    /\ UNCHANGED <<records, recorder, mutex, writer, batch, sincePrune, history>>

stopNotifies ==
    /\ stopper = "notify"
    /\ stopper' = "join"
    /\ writer' = notified
    /\ UNCHANGED <<accepting, stopping, records, recorder, mutex, batch, sincePrune, history>>

stopJoins ==
    /\ stopper = "join" /\ writer = "exited"
    /\ stopper' = "returned"
    /\ UNCHANGED <<accepting, stopping, records, recorder, mutex, writer, batch,
                   sincePrune, history>>

\* start() after a writer that gave up: it is joined and replaced.
startAgain ==
    /\ stopper = "no" /\ ~accepting /\ writer = "exited" /\ gaveUp
    /\ accepting' = TRUE
    /\ records' = <<>>
    /\ accepted' = {}
    /\ gaveUp' = FALSE
    /\ writer' = "open"
    /\ UNCHANGED <<stopping, recorder, stopper, mutex, batch, sincePrune,
                   recorded, settled>>

---------------------------------------------------------------------------
(* writerLoop()                                                            *)

OpenDatabase ==
    /\ writer = "open"
    /\ writer' = "check"
    /\ UNCHANGED <<storeVars, mutex, batch, sincePrune, history>>

\* The database does not open: the flag falls first, then the queue is
\* emptied under the mutex.  When only the statements cannot be prepared the
\* queue is left as it is.
OpenFails ==
    /\ writer = "open"
    /\ accepting' = FALSE /\ gaveUp' = TRUE
    /\ writer' \in {"clear", "exited"}
    /\ UNCHANGED <<stopping, records, recorder, stopper, mutex, batch, sincePrune, recorded, accepted, settled>>

ClearQueue ==
    /\ writer = "clear" /\ mutex = "free"
    /\ records' = <<>>
    /\ writer' = "exited"
    /\ UNCHANGED <<accepting, stopping, recorder, stopper, mutex, batch, sincePrune, history>>

\* The two waits of the loop.  The predicate is tested with the mutex held
\* and the wait gives it up; a burst may pile up before the batch is taken.
Test ==
    /\ writer = "check" /\ mutex = "free"
    /\ IF stopping \/ records # <<>>
       THEN /\ writer' \in IF ~stopping /\ Len(records) < kWriteBatchSize
                           THEN {"take", "lingering"} ELSE {"take"}
            /\ UNCHANGED mutex
       ELSE writer' = "block" /\ mutex' = "writer"
    /\ UNCHANGED <<storeVars, batch, sincePrune, history>>

Block ==
    /\ writer = "block"
    /\ writer' = "waiting" /\ mutex' = "free"
    /\ UNCHANGED <<storeVars, batch, sincePrune, history>>

LingerEnds ==
    /\ writer = "lingering"
    /\ writer' = "take"
    /\ UNCHANGED <<storeVars, mutex, batch, sincePrune, history>>

batchSize == IF Len(records) < kWriteBatchSize THEN Len(records) ELSE kWriteBatchSize

Take ==
    /\ writer = "take" /\ mutex = "free"
    /\ batch' = SubSeq(records, 1, batchSize)
    /\ records' = SubSeq(records, batchSize + 1, Len(records))
    /\ writer' = IF batch' = <<>> /\ stopping THEN "close" ELSE "commit"
    /\ UNCHANGED <<accepting, stopping, recorder, stopper, mutex, sincePrune, history>>

\* BEGIN IMMEDIATE, insertRecord() for each, COMMIT; or ROLLBACK.
Commit ==
    /\ writer = "commit"
    /\ settled' = settled \union Range(batch)
    /\ sincePrune' = sincePrune + Len(batch)
    /\ batch' = <<>>
    /\ writer' = "prune"
    /\ UNCHANGED <<storeVars, mutex, recorded, accepted, gaveUp>>

\* Every kPruneEveryRecords, or when the interval has passed.
Prune ==
    /\ writer = "prune"
    /\ \/ /\ sincePrune < kPruneEveryRecords
          /\ UNCHANGED sincePrune
       \/ sincePrune' = 0
    /\ writer' = "check"
    /\ UNCHANGED <<storeVars, mutex, batch, history>>

CloseDatabase ==
    /\ writer = "close"
    /\ writer' = "exited"
    /\ UNCHANGED <<storeVars, mutex, batch, sincePrune, history>>

WriterStep ==
    \/ OpenDatabase \/ OpenFails \/ ClearQueue \/ Test \/ Block \/ LingerEnds
    \/ Take \/ Commit \/ Prune \/ CloseDatabase

---------------------------------------------------------------------------

StoreStep == record \/ recordNotifies \/ stopFlags \/ stopNotifies \/ stopJoins \/ startAgain

TelemetryNext == StoreStep \/ WriterStep

\* The writer and a thread inside stop() or record() are scheduled.
TelemetryFairness ==
    /\ WF_telemetryVars(WriterStep)
    /\ WF_telemetryVars(stopNotifies \/ stopJoins)
    /\ WF_telemetryVars(recordNotifies)

TelemetrySpec == TelemetryInit /\ [][TelemetryNext]_telemetryVars /\ TelemetryFairness

---------------------------------------------------------------------------
(* Properties                                                              *)

\* A stop() returns, and by then every record that was taken into the queue
\* has been committed or its transaction failed, unless the database could
\* not be opened: no wake-up is lost and the queue is drained (stop,
\* writerLoop).
StopSettles ==
    stopping ~> (stopper = "returned" /\ (gaveUp \/ accepted \subseteq settled))

=============================================================================
