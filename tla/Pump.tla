-------------------------------- MODULE Pump --------------------------------
(***************************************************************************)
(* DirectRelay::pump, closeSockets and stop (src/src/DirectRelay.cpp): one *)
(* thread carries both directions of a connection over two non-blocking    *)
(* sockets.  Bytes the destination does not take yet wait in pending, and  *)
(* the source is not read meanwhile.  The peers send, finish or reset at   *)
(* any time, and another thread may stop the relay.                        *)
(*                                                                         *)
(* "up" runs from the client to the target, "down" back.                   *)
(***************************************************************************)
EXTENDS Integers, Sequences, FiniteSets

CONSTANTS
    MaxBytes,           \* bound: what each peer sends
    kPumpBufferSize

ASSUME PumpConstants == MaxBytes \in Nat /\ kPumpBufferSize \in Nat \ {0}

VARIABLES
    pumpAt,     \* where the thread is
    direction,  \* Direction: pending and eof
    source,     \* what the peer at the start of a direction did
    dest,       \* what the peer at its end has got and seen
    abortive,   \* abortive_
    stop,       \* "no", stopping_ is set, the receive sides are shut
    cutShort    \* history: the loop was left before both directions finished

pumpVars == <<pumpAt, direction, source, dest, abortive, stop, cutShort>>

Ways == {"up", "down"}
other(d) == IF d = "up" THEN "down" ELSE "up"

PumpInit ==
    /\ pumpAt = "top"
    /\ direction = [d \in Ways |-> [pending |-> <<>>, eof |-> FALSE]]
    /\ source = [d \in Ways |-> [sent |-> 0, unread |-> <<>>, fin |-> FALSE, reset |-> FALSE]]
    /\ dest = [d \in Ways |-> [got |-> <<>>, end |-> "open"]]
    /\ abortive = FALSE /\ stop = "no" /\ cutShort = FALSE

directionDone(d) == direction[d].eof /\ direction[d].pending = <<>>

---------------------------------------------------------------------------
(* The peers                                                               *)

peerVars == <<pumpAt, direction, dest, abortive, stop, cutShort>>
Speaks(d) == pumpAt # "closed" /\ ~source[d].fin /\ ~source[d].reset

PeerSends(d) ==
    /\ Speaks(d) /\ source[d].sent < MaxBytes
    /\ source' = [source EXCEPT ![d].sent = @ + 1,
                                ![d].unread = Append(@, source[d].sent + 1)]
    /\ UNCHANGED peerVars

PeerFinishes(d) ==
    /\ Speaks(d)
    /\ source' = [source EXCEPT ![d].fin = TRUE]
    /\ UNCHANGED peerVars

PeerResets(d) ==
    /\ pumpAt # "closed" /\ ~source[d].reset
    /\ source' = [source EXCEPT ![d].reset = TRUE]
    /\ UNCHANGED peerVars

---------------------------------------------------------------------------
(* The pump                                                                *)

\* The head of the loop: leave it, or wait until select() has something.
Return(short) ==
    /\ pumpAt = "top"
    /\ pumpAt' = "returned"
    /\ cutShort' = short
    /\ UNCHANGED <<direction, source, dest, abortive, stop>>

ReturnStopped == stop # "no" /\ Return(FALSE)
ReturnFinished == stop = "no" /\ (\A d \in Ways : directionDone(d)) /\ Return(FALSE)

\* Nothing moved for the idle limit, select() failed, or (before the first
\* round) a socket cannot be made non-blocking.
ReturnIdle == stop = "no" /\ (\E d \in Ways : ~directionDone(d)) /\ Return(TRUE)

Wake ==
    /\ pumpAt = "top" /\ stop = "no"
    /\ \E d \in Ways : ~directionDone(d)
    /\ pumpAt' = "up"
    /\ UNCHANGED <<direction, source, dest, abortive, stop, cutShort>>

after(d) == IF d = "up" THEN "down" ELSE "top"

\* A direction that is finished or that select() did not report.
Skip(d) ==
    /\ pumpAt = d
    /\ pumpAt' = after(d)
    /\ UNCHANGED <<direction, source, dest, abortive, stop, cutShort>>

\* A hard error that is taken for an end.
AbortQuietly ==
    /\ pumpAt' = "returned" /\ UNCHANGED abortive
    /\ UNCHANGED <<direction, dest, stop, cutShort>>

\* A hard error: both sides will be reset.
Abort ==
    /\ pumpAt' = "returned" /\ abortive' = TRUE
    /\ UNCHANGED <<direction, dest, stop, cutShort>>

\* sendSome(): the destination takes the first n of the bytes, the others
\* wait; once an ended direction is empty its end is passed on.
sendSome(d, bytes, n) ==
    LET left == SubSeq(bytes, n + 1, Len(bytes))
        ends == direction[d].eof /\ left = <<>>
    IN  /\ direction' = [direction EXCEPT ![d].pending = left]
        /\ dest' = [dest EXCEPT ![d].got = @ \o SubSeq(bytes, 1, n),
                                ![d].end = IF ends THEN "clean" ELSE @]
        /\ pumpAt' = after(d)
        /\ UNCHANGED <<abortive, stop, cutShort>>

\* The destination of a direction is the socket the other one reads.
canFail(d) == source[other(d)].reset

FlushPending(d) ==
    /\ pumpAt = d /\ direction[d].pending # <<>>
    /\ \/ \E n \in 0..Len(direction[d].pending) : sendSome(d, direction[d].pending, n)
       \/ canFail(d) /\ Abort
    /\ UNCHANGED source

\* What recv() may return: bytes, unless the receive side is shut.
Reads(d) == pumpAt = d /\ direction[d].pending = <<>> /\ ~direction[d].eof

Forward(d) ==
    /\ Reads(d) /\ stop # "shut" /\ ~source[d].reset
    /\ \E k \in 1..kPumpBufferSize :
         /\ k <= Len(source[d].unread)
         /\ source' = [source EXCEPT ![d].unread = SubSeq(@, k + 1, Len(@))]
         /\ \/ \E n \in 0..k : sendSome(d, SubSeq(source[d].unread, 1, k), n)
            \/ canFail(d) /\ Abort

PumpReceiveFails(d) ==
    /\ Reads(d) /\ (source[d].reset \/ stop = "shut")
    /\ Abort
    /\ UNCHANGED source

\* The end of the source: passed on at once, nothing being pending.
ReceiveEnd(d) ==
    /\ Reads(d) /\ stop # "shut" /\ ~source[d].reset
    /\ source[d].fin /\ source[d].unread = <<>>
    /\ direction' = [direction EXCEPT ![d].eof = TRUE]
    /\ dest' = [dest EXCEPT ![d].end = "clean"]
    /\ pumpAt' = after(d)
    /\ UNCHANGED <<source, abortive, stop, cutShort>>

\* A reset for an aborted or stopped connection, a graceful end for others;
\* an end is "short" when the loop was left with a direction unfinished.
PumpCloses ==
    /\ pumpAt = "returned"
    /\ pumpAt' = "closed"
    /\ dest' = [d \in Ways |-> [dest[d] EXCEPT !.end =
                  IF @ = "clean" THEN @
                  ELSE IF abortive \/ stop # "no" THEN "reset"
                  ELSE IF cutShort THEN "short" ELSE "clean"]]
    /\ UNCHANGED <<direction, source, abortive, stop, cutShort>>

\* DirectRelay::stop() on another thread.
PumpStopFlag ==
    /\ stop = "no" /\ pumpAt # "closed"
    /\ stop' = "asked"
    /\ UNCHANGED <<pumpAt, direction, source, dest, abortive, cutShort>>

PumpStopShuts ==
    /\ stop = "asked" /\ pumpAt # "closed"
    /\ stop' = "shut"
    /\ UNCHANGED <<pumpAt, direction, source, dest, abortive, cutShort>>

PumpStep(d) == Skip(d) \/ FlushPending(d) \/ Forward(d) \/ PumpReceiveFails(d) \/ ReceiveEnd(d)

PumpNext ==
    \/ \E d \in Ways : PumpStep(d) \/ PeerSends(d) \/ PeerFinishes(d) \/ PeerResets(d)
    \/ ReturnStopped \/ ReturnFinished \/ ReturnIdle \/ Wake \/ PumpCloses
    \/ PumpStopFlag \/ PumpStopShuts

PumpSpec == PumpInit /\ [][PumpNext]_pumpVars

---------------------------------------------------------------------------
(* Properties                                                              *)

PumpedPipe == INSTANCE Pipe WITH
    sent <- [d \in Ways |-> source[d].sent],
    got <- [d \in Ways |-> dest[d].got],
    over <- [d \in Ways |-> IF dest[d].end \in {"short", "reset"} THEN "cut" ELSE dest[d].end]

\* Each side gets a prefix of what the other one sent, in order and once,
\* however the sends are cut short; and a side that sees a clean end has got
\* everything: a reset, a failed send or a stop is never turned into an end of
\* file that would make a cut-off body look complete.  Only the idle limit and
\* a failing select() close an unfinished connection without a reset (pump,
\* sendSome, closeSockets, stop).
PumpIsAPipe == PumpedPipe!PipeSpec

=============================================================================
