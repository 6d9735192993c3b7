----------------------------- MODULE Diagnosis -----------------------------
(***************************************************************************)
(* The differential diagnosis of one connection (src/src/Diagnosis.cpp).   *)
(* Evidence is a function from the profiles tried to the signals they got; *)
(* a connection tries a profile at most once and stops at its first        *)
(* success.  The confidence of a verdict is only displayed.                *)
(***************************************************************************)

Signals == {"ServerHello", "Alert", "Timeout", "Reset", "Closed", "Unexpected"}

isTransportFailure(signal) == signal \in {"Timeout", "Reset", "Closed"}

succeeded(evidence) == {p \in DOMAIN evidence : evidence[p] = "ServerHello"}

\* The remembered bypass and the baseline died the same way.
pathBlinked(evidence, remembered, winner) ==
    /\ remembered # winner
    /\ remembered \in DOMAIN evidence
    /\ isTransportFailure(evidence[remembered])
    /\ isTransportFailure(evidence["none"])

\* Mutated inferWon: a missing baseline counts as a failed one.
inferWonUnproven(evidence, remembered, recentlyHealthy, slow, winner) ==
    CASE winner = "none" /\ slow -> "ThrottlingSuspected"
      [] winner = "none" /\ ~slow -> "NoInterference"
      [] winner # "none" /\ recentlyHealthy -> "TransientFailure"
      [] OTHER -> "SniInterferenceLikely"

\* The verdict on a connection that winner got through.
inferWon(evidence, remembered, recentlyHealthy, slow, winner) ==
    IF winner = "none"
      THEN IF slow THEN "ThrottlingSuspected" ELSE "NoInterference"
    ELSE IF "none" \notin DOMAIN evidence THEN "LearnedProfile"
    ELSE IF recentlyHealthy \/ pathBlinked(evidence, remembered, winner)
      THEN "TransientFailure"
    ELSE "SniInterferenceLikely"

\* The verdict on a connection nothing got through.
inferLost(evidence) ==
    LET signals == {evidence[p] : p \in DOMAIN evidence}
    IN  IF signals = {} THEN "Unknown"
        ELSE IF "Alert" \in signals THEN "TlsIncompatible"
        ELSE IF \A s \in signals : isTransportFailure(s) THEN "TransportFailure"
        ELSE "Unknown"

infer(evidence, remembered, recentlyHealthy, slow) ==
    IF succeeded(evidence) = {} THEN inferLost(evidence)
    ELSE inferWon(evidence, remembered, recentlyHealthy, slow,
                  CHOOSE p \in succeeded(evidence) : TRUE)

=============================================================================
