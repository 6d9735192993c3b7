--------------------------- MODULE MCInterceptor ----------------------------
(* Small instances of the tables and functions the packet loop works with. *)
(* They share no state, so each behaviour exercises one of them and leaves *)
(* the others as they are.                                                 *)
EXTENDS PacketFlows, ProcessFilter, FilterRules, QuicStrategy, DatagramRegistry,
        PacketCuts, TLC

VARIABLE part

allVars == <<part, vars, filterVars, ruleVars, quicVars, datagramVars, cutVars>>

Parts == {"flows", "filter", "rules", "quic", "datagrams", "cuts"}

\* Of the parts with several initial states, one that is not exercised is in
\* a state of its own.
AloneInit ==
    /\ part \in Parts
    /\ Init /\ QuicInit /\ DatagramInit
    /\ IF part = "filter" THEN FilterInit
       ELSE /\ image = <<>> /\ endpoints = <<>> /\ processNames = <<>>
            /\ filterSweepIn = 0 /\ owned = {} /\ idle = <<>> /\ refusedFor = <<>>
            /\ backed = FALSE
    /\ IF part = "rules" THEN RulesInit
       ELSE includes = <<>> /\ excludes = <<>> /\ asked = Unasked
    /\ IF part = "cuts" THEN CutInit ELSE armed = <<>> /\ cut = Uncut

AloneNext ==
    \/ part = "flows" /\ Next
          /\ UNCHANGED <<part, filterVars, ruleVars, quicVars, datagramVars, cutVars>>
    \/ part = "filter" /\ FilterNext
          /\ UNCHANGED <<part, vars, ruleVars, quicVars, datagramVars, cutVars>>
    \/ part = "rules" /\ RulesNext
          /\ UNCHANGED <<part, vars, filterVars, quicVars, datagramVars, cutVars>>
    \/ part = "quic" /\ QuicNext
          /\ UNCHANGED <<part, vars, filterVars, ruleVars, datagramVars, cutVars>>
    \/ part = "datagrams" /\ DatagramNext
          /\ UNCHANGED <<part, vars, filterVars, ruleVars, quicVars, cutVars>>
    \/ part = "cuts" /\ CutNext
          /\ UNCHANGED <<part, vars, filterVars, ruleVars, quicVars, datagramVars>>

AloneSpec == AloneInit /\ [][AloneNext]_allVars

\* Datagram tuples are alike, and so are processes.  Client tuples and the
\* servers and ports of the QUIC registry are named like the former.
Alike == Permutations(UdpEndpoints) \cup Permutations(Pids)

\* Lists of up to two patterns: a blank, a name, a path, a wildcard, and one
\* that is too long; and every single pattern of up to three characters.
FewPatterns == {<<" ">>, <<" ", "A">>, <<"/", "*">>, <<"a", "*", "b">>,
                <<"a", "a", "a", "a">>}
MCRuleLists ==
    (SeqOf(FewPatterns, 2) \X SeqOf(FewPatterns, 2))
        \cup {<<<<p>>, <<>>>> : p \in SeqOf({"a", "*", "?", "|"}, 3)}

MCImagePaths == SeqOf({"a", "b", "|"}, 3) \cup {<<"a", "a", "a", "a">>}
=============================================================================
