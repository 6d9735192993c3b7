--------------------------- MODULE MCDeliverHello ---------------------------
(* Small instances of DeliverHello.                                        *)
EXTENDS DeliverHello, TLC

CONSTANTS n1, h1, p1, p2, c1, c2

TwoProfiles == <<"none", p1, p2>>
AllKinds == {"SniInterferenceLikely", "LearnedProfile", "TransientFailure"}
\* The file an earlier run left: p1 is the winner, proved at time 1.
Learned == {[k \in Key |-> [profile |-> p1, expiresAt |-> 5, failures |-> 0,
                            verifiedAt |-> 1]]}
\* An outage and an open path; it may change between two attempts, so every
\* pattern of interference occurs.
AnyPath == {{}, {"none", p1, p2}}
AnyPin == {None, "none", p1}
=============================================================================
