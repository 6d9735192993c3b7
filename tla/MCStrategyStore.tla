-------------------------- MODULE MCStrategyStore --------------------------
(* Small instances of StrategyStore.                                       *)
EXTENDS StrategyStore, TLC

CONSTANTS n1, h1, h2, p1

\* A file of an older version, without proofs: one host has a version 1
\* value, which carries no expiry, and the other a nomination still good.
Legacy(expiry) == [profile |-> p1, expiresAt |-> expiry, failures |-> 0,
                   verifiedAt |-> 0]
SomeFiles == {[k \in Key |-> Legacy(IF k[2] = h THEN 0 ELSE 3)] : h \in Hosts}
NoFiles == {}
AllKinds == {"SniInterferenceLikely", "LearnedProfile", "TransientFailure"}
Differentials == {"SniInterferenceLikely"}
HostSymmetry == Permutations(Hosts)
=============================================================================
