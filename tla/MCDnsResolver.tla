--------------------------- MODULE MCDnsResolver ----------------------------
(* Small instances of DnsResolver.                                         *)
EXTENDS DnsResolver, TLC

CONSTANTS t1, t2, t3, k1, k2, worker, q1

Lifetimes == [addresses |-> 2, negative |-> 1, transient |-> 1]
Symmetry == Permutations(Callers) \cup Permutations(Keys)
=============================================================================
