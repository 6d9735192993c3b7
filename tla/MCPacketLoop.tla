---------------------------- MODULE MCPacketLoop ----------------------------
(* A small instance of PacketLoop.                                         *)
EXTENDS PacketLoop

Attempt(mode, shape) == [mode |-> mode, shape |-> shape]

\* The first connection tries a profile whose cut hides the hostname; the next
\* one fragments that cut beside it (reordered segments, over IPv6), a fake that
\* needs the path length, or no profile.
MCAttempts ==
    <<{Attempt("ReverseOrder", "cuts")},
      {Attempt("IpFragment", "misses"), Attempt("FakeAutoTtl", "cuts"),
       Attempt(None, "whole")}>>
=============================================================================
