-------------------------------- MODULE Pipe --------------------------------
(***************************************************************************)
(* What both ways of carrying a connection promise its two ends: each end  *)
(* gets the bytes the other end sent, from the first one on, in order and  *)
(* each of them once, until that direction is over.  A direction that ends *)
(* cleanly has carried everything there ever was to carry.  A byte is its  *)
(* number in the stream.                                                   *)
(***************************************************************************)
EXTENDS Integers, Sequences

VARIABLES
    sent,   \* direction -> how many bytes were sent
    got,    \* direction -> the bytes that came out
    over    \* direction -> "open", or how it ended: "clean" or "cut"

pipeVars == <<sent, got, over>>

Directions == {"up", "down"}

PipeInit ==
    /\ sent \in [Directions -> Nat]
    /\ got = [d \in Directions |-> <<>>]
    /\ over = [d \in Directions |-> "open"]

\* After a clean end there is nothing more to send.
Send(d) ==
    /\ over[d] # "clean"
    /\ sent' = [sent EXCEPT ![d] = @ + 1]
    /\ UNCHANGED <<got, over>>

\* Directions that are open may end; cleanly only if nothing is missing.
MayEnd(ways) ==
    /\ over' \in [Directions -> {"open", "clean", "cut"}]
    /\ \A d \in Directions :
         over'[d] # over[d] =>
             /\ d \in ways /\ over[d] = "open"
             /\ over'[d] = "clean" => Len(got'[d]) = sent[d]

Deliver(d) ==
    /\ over[d] = "open"
    /\ \E n \in 1..(sent[d] - Len(got[d])) :
         got' = [got EXCEPT ![d] = @ \o [i \in 1..n |-> Len(@) + i]]
    /\ MayEnd({d})
    /\ UNCHANGED sent

End ==
    /\ UNCHANGED <<sent, got>>
    /\ MayEnd(Directions)

PipeNext == (\E d \in Directions : Send(d) \/ Deliver(d)) \/ End

PipeSpec == PipeInit /\ [][PipeNext]_pipeVars

=============================================================================
