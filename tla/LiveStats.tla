----------------------------- MODULE LiveStats ------------------------------
(***************************************************************************)
(* live_stats (src/src/LiveStats.cpp): the gauges of active flows and of   *)
(* active flows per profile, in memory that the engine shares with the     *)
(* tray.  Session threads change them by single interlocked operations,    *)
(* the panel reads them one after the other while they change, and an      *)
(* engine that starts again finds the memory of its predecessor if a       *)
(* reader has kept it.                                                     *)
(*                                                                         *)
(* The counters that only ever grow are left out: nothing is computed from *)
(* them.                                                                   *)
(***************************************************************************)
EXTENDS Integers, FiniteSets, FiniteSetsExt

CONSTANTS
    LiveFlows,      \* live_stats::Flow objects, each in a session thread
    kMaxProfiles    \* 16 slots, read in their order

ASSUME LiveConstants == IsFiniteSet(LiveFlows) /\ kMaxProfiles \in Nat

VARIABLES
    publisher,      \* the engine: "off", "mapped" (not yet reset), "on"
    memory,         \* SharedState: magic, activeFlows, activeProfiles
    flow,           \* the step a flow is at and its profileSlot_
    reader,         \* read(): the step it is at and its snapshot
    witnessed,      \* history: flows that were active at some time since the reader
                    \* mapped the memory, and those that had no profile or changed it
    inherited       \* history: the memory is that of an engine that has died, and was
                    \* when the reader mapped it

liveVars == <<publisher, memory, flow, reader, witnessed, inherited>>

Slots == 1..kMaxProfiles
NoSlot == 0

Blank == [magic |-> FALSE, activeFlows |-> 0, activeProfiles |-> [s \in Slots |-> 0]]
NoFlow == [at |-> "none", slot |-> NoSlot]
NotReading == [at |-> "closed", index |-> 1, activeFlows |-> 0, classifiedActive |-> 0,
               pendingFlows |-> 0]

LiveInit ==
    /\ publisher = "off"
    /\ memory = Blank
    /\ flow = [f \in LiveFlows |-> NoFlow]
    /\ reader = NotReading
    /\ witnessed = [active |-> {}, pending |-> {}]
    /\ inherited = [now |-> FALSE, read |-> FALSE]

nonNegative(value) == Max({0, value})

\* A step of a flow is seen by a reader that has mapped the memory.
Witness ==
    LET changed == {f \in LiveFlows : flow'[f] # flow[f]}
    IN  witnessed' = IF reader.at = "closed" THEN witnessed
                     ELSE [active |-> witnessed.active \union changed,
                           pending |-> witnessed.pending \union changed]

---------------------------------------------------------------------------
(* Publisher                                                               *)

\* CreateFileMappingW finds the memory a reader still holds, or new memory.
Map ==
    /\ publisher = "off"
    /\ publisher' = "mapped"
    /\ UNCHANGED <<memory, flow, reader, witnessed, inherited>>

\* A publisher that takes the memory as it finds it.
ResetNothing ==
    /\ publisher = "mapped"
    /\ publisher' = "on"
    /\ memory' = [memory EXCEPT !.magic = TRUE]
    /\ inherited' = [inherited EXCEPT !.now = FALSE]
    /\ UNCHANGED <<flow, reader, witnessed>>

\* ZeroMemory, the header, and the magic at last.
Reset ==
    /\ publisher = "mapped"
    /\ publisher' = "on"
    /\ memory' = [Blank EXCEPT !.magic = TRUE]
    /\ inherited' = [inherited EXCEPT !.now = FALSE]
    /\ UNCHANGED <<flow, reader, witnessed>>

\* The engine ends, orderly with no flow left, or dies with all of them; its
\* memory goes unless a reader holds it.
EngineEnds ==
    /\ publisher # "off"
    /\ publisher' = "off"
    /\ flow' = [f \in LiveFlows |-> NoFlow]
    /\ \E magic \in IF publisher = "on" /\ flow' = flow THEN BOOLEAN ELSE {memory.magic} :
         memory' = IF reader.at = "closed" THEN Blank ELSE [memory EXCEPT !.magic = magic]
    /\ inherited' = [inherited EXCEPT !.now = memory'.magic]
    /\ Witness
    /\ UNCHANGED reader

---------------------------------------------------------------------------
(* Flow, in a session thread                                               *)

\* One interlocked operation of flow f, which is then at step at with slot s.
Step(f, at, s, activeFlows, activeProfiles) ==
    /\ publisher = "on"
    /\ flow' = [flow EXCEPT ![f] = [at |-> at, slot |-> s]]
    /\ memory' = [memory EXCEPT !.activeFlows = activeFlows,
                                !.activeProfiles = activeProfiles]
    /\ Witness
    /\ UNCHANGED <<publisher, reader, inherited>>

counted(slot, by) ==
    IF slot \in Slots THEN [memory.activeProfiles EXCEPT ![slot] = @ + by]
    ELSE memory.activeProfiles

flowOpened(f) ==
    /\ flow[f].at = "none"
    /\ Step(f, "open", NoSlot, memory.activeFlows + 1, memory.activeProfiles)

\* setProfile(): a profile beyond the slots has none.
flowProfileChanged(f, nextSlot) ==
    /\ flow[f].at = "open" /\ flow[f].slot # nextSlot
    /\ Step(f, "moving", nextSlot, memory.activeFlows, counted(flow[f].slot, -1))

profileEntered(f) ==
    /\ flow[f].at = "moving"
    /\ Step(f, "open", flow[f].slot, memory.activeFlows, counted(flow[f].slot, 1))

\* The destructor, on whichever path the relay ends.
flowClosed(f) ==
    /\ flow[f].at = "open"
    /\ Step(f, "closing", NoSlot, memory.activeFlows, counted(flow[f].slot, -1))

flowGone(f) ==
    /\ flow[f].at = "closing"
    /\ Step(f, "none", NoSlot, memory.activeFlows - 1, memory.activeProfiles)

---------------------------------------------------------------------------
(* read(), in the tray                                                     *)

readerRest == <<publisher, flow, witnessed>>

\* Closing it gives up the memory of an engine that has ended.
CloseMapping ==
    /\ reader' = NotReading
    /\ IF publisher = "off"
       THEN memory' = Blank /\ inherited' = [inherited EXCEPT !.now = FALSE]
       ELSE UNCHANGED <<memory, inherited>>
    /\ UNCHANGED readerRest

\* OpenFileMappingW finds the memory of an engine.
OpenMapping ==
    /\ reader.at = "closed" /\ publisher # "off"
    /\ reader' = [NotReading EXCEPT !.at = "mapped"]
    /\ LET active == {f \in LiveFlows : flow[f].at # "none"}
       IN  witnessed' = [active |-> active, pending |->
                           {f \in active : flow[f].slot = NoSlot \/ flow[f].at = "moving"}]
    /\ inherited' = [inherited EXCEPT !.read = inherited.now]
    /\ UNCHANGED <<publisher, memory, flow>>

ReadHeader ==
    /\ reader.at = "mapped"
    /\ IF memory.magic
       THEN /\ reader' = [reader EXCEPT !.at = "online"]
            /\ UNCHANGED <<memory, inherited, readerRest>>
       ELSE CloseMapping

ReadFlows ==
    /\ reader.at = "online"
    /\ reader' = [reader EXCEPT !.at = "slots",
                                !.activeFlows = nonNegative(memory.activeFlows)]
    /\ UNCHANGED <<memory, inherited, readerRest>>

ReadSlot ==
    /\ reader.at = "slots" /\ reader.index \in Slots
    /\ reader' = [reader EXCEPT !.index = @ + 1,
                    !.classifiedActive = @ + nonNegative(memory.activeProfiles[reader.index])]
    /\ UNCHANGED <<memory, inherited, readerRest>>

Subtract ==
    /\ reader.at = "slots" /\ reader.index \notin Slots
    /\ reader' = [reader EXCEPT !.at = "done",
                    !.pendingFlows = nonNegative(reader.activeFlows - reader.classifiedActive)]
    /\ UNCHANGED <<memory, inherited, readerRest>>

ReadEnds == reader.at = "done" /\ CloseMapping

---------------------------------------------------------------------------

LiveNext ==
    \/ Map \/ Reset \/ EngineEnds
    \/ \E f \in LiveFlows :
         \/ flowOpened(f) \/ profileEntered(f) \/ flowClosed(f) \/ flowGone(f)
         \/ \E s \in Slots \union {NoSlot} : flowProfileChanged(f, s)
    \/ OpenMapping \/ ReadHeader \/ ReadFlows \/ ReadSlot \/ Subtract \/ ReadEnds

LiveSpec == LiveInit /\ [][LiveNext]_liveVars

---------------------------------------------------------------------------
(* Properties                                                              *)

\* Whatever the threads of the engine and the reader interleave: no gauge is
\* ever below zero; when no flow is in the middle of an operation the gauges
\* are the numbers of flows, so they return to zero with them; and the figures
\* a reader ends with are not more than the flows that were active, and the
\* ones that were without a profile or changed theirs, at some time since it
\* mapped the memory.  So the flows of an engine that ended before are not
\* shown, unless the new one had not reset the memory yet (Publisher, Flow and
\* read).
LiveFiguresAreTrue ==
    /\ memory.activeFlows >= 0 /\ \A s \in Slots : memory.activeProfiles[s] >= 0
    /\ publisher = "on" /\ (\A f \in LiveFlows : flow[f].at \in {"none", "open"}) =>
         /\ memory.activeFlows = Cardinality({f \in LiveFlows : flow[f].at = "open"})
         /\ \A s \in Slots : memory.activeProfiles[s] =
              Cardinality({f \in LiveFlows : flow[f] = [at |-> "open", slot |-> s]})
    /\ reader.at = "done" /\ ~inherited.read =>
         /\ reader.activeFlows <= Cardinality(witnessed.active)
         /\ reader.pendingFlows <= Cardinality(witnessed.pending)

=============================================================================
