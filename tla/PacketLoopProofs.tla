-------------------------- MODULE PacketLoopProofs --------------------------
(***************************************************************************)
(* Proofs about the packet loop (PacketLoop), for any number of connections*)
(* and ports and every size of the batch: every packet of a batch is sent, *)
(* the loop gives up over failed sends only on a dead handle, and the      *)
(* packets are in order and a port is free only when nothing more is sent  *)
(* from it (FlowInv), on which PacketRegistryProofs builds.                *)
(***************************************************************************)
EXTENDS PacketLoop, TLAPS

-----------------------------------------------------------------------------
(* Sequences                                                               *)

\* One sequence after another.
LEMMA JoinedSequences ==
    ASSUME NEW S, NEW s \in Seq(S), NEW t \in Seq(S)
    PROVE  /\ s \o t \in Seq(S) /\ Len(s \o t) = Len(s) + Len(t)
           /\ \A i \in 1..(Len(s) + Len(t)) :
                (s \o t)[i] = IF i <= Len(s) THEN s[i] ELSE t[i - Len(s)]
OBVIOUS

\* A sequence with one more element.
LEMMA AppendedSequence ==
    ASSUME NEW S, NEW s \in Seq(S), NEW x \in S
    PROVE  /\ Append(s, x) \in Seq(S) /\ Len(Append(s, x)) = Len(s) + 1
           /\ \A i \in 1..Len(s) : Append(s, x)[i] = s[i]
           /\ Append(s, x)[Len(s) + 1] = x
OBVIOUS

\* The first element and the others.
LEMMA RestOfSequence ==
    ASSUME NEW S, NEW s \in Seq(S), s # <<>>
    PROVE  /\ Head(s) \in S /\ Tail(s) \in Seq(S) /\ Len(Tail(s)) = Len(s) - 1
           /\ \A i \in 1..Len(Tail(s)) : Tail(s)[i] = s[i + 1]
OBVIOUS

\* Some consecutive elements.
LEMMA PartOfSequence ==
    ASSUME NEW S, NEW s, NEW m \in Int, NEW n \in Int, \A i \in m..n : s[i] \in S
    PROVE  /\ SubSeq(s, m, n) \in Seq(S)
           /\ Len(SubSeq(s, m, n)) = IF m <= n THEN n - m + 1 ELSE 0
           /\ \A i \in 1..(n - m + 1) : SubSeq(s, m, n)[i] = s[m + i - 1]
OBVIOUS

-----------------------------------------------------------------------------
(* The types the proofs rest on                                            *)

Modes == {None, "ReverseOrder", "SequenceOverlap", "IpFragment",
          "FakeBadSequence", "FakeBadChecksum", "FakeAutoTtl"}
Shapes == {None, "cuts", "misses", "whole"}
Stages == {"idle", "dialing", "syn", "synack", "connected", "armed", "sent",
           "answered", "done", "closing", "gone"}
Kinds == {"syn", "synack", "hello", "reply"}
Forms == {"plain", "first", "second", "fake"}
Socket == [st : Stages, port : Ports \cup {None}, mode : Modes, shape : Shapes, copies : Nat]
Packet == [conn : Conns, kind : Kinds, port : Ports, shape : Shapes]
Sending == [conn : Conns, kind : Kinds, form : Forms]
LoopStages == {"read", "recv", "process", "transform", "send", "each", "exited"}
Taken == [mode : Modes, owner : Conns]
Batch == [at : LoopStages, in : Seq(Packet), out : Seq(Sending), next : Nat,
          policy : {None} \cup Taken, tries : Seq(Nat), exact : BOOLEAN]

\* The batch is read into in, moved packet by packet to out, and sent; tries
\* counts the sends of each packet of out.  While packets are sent one by one
\* those before next have been handed over, and if the driver's count could be
\* trusted each of them once and none after them.
BatchInv ==
    /\ loop \in Batch
    /\ queue \in Seq(Packet)
    /\ Len(loop.tries) = Len(loop.out)
    /\ loop.at \in {"process", "transform"} <=> loop.in # <<>>
    /\ loop.at = "transform" => loop.policy \in Taken /\ Head(loop.in).kind = "hello"
    /\ loop.at = "recv" => loop.out = <<>>
    /\ loop.at = "send" => Len(loop.out) >= 1
    /\ loop.at \in {"process", "transform", "send"} =>
         /\ loop.exact = TRUE
         /\ \A i \in 1..Len(loop.out) : loop.tries[i] = 0
    /\ loop.at = "each" =>
         /\ loop.next \in 1..Len(loop.out)
         /\ \A i \in 1..Len(loop.out) : i < loop.next => loop.tries[i] >= 1
         /\ loop.exact = TRUE => \A i \in 1..Len(loop.out) :
                loop.tries[i] = IF i < loop.next THEN 1 ELSE 0
    /\ loop.at = "read" /\ running => \A i \in 1..Len(loop.out) :
         loop.tries[i] >= 1 /\ (loop.exact = TRUE => loop.tries[i] = 1)

\* The registry: one entry per port, with the packet it was taken for and the
\* connection that armed it.
Entry == [mode : Modes, left : Nat, taken : BOOLEAN, seq : {None} \cup Packet,
          applied : BOOLEAN, owner : Conns]
EntriesOK(f) == DOMAIN f \subseteq Ports /\ f \in [DOMAIN f -> Entry]

\* The loop starts, and starts over, with an empty batch.
LEMMA AtReadIs ==
    /\ AtRead \in Batch
    /\ AtRead.at = "read" /\ AtRead.in = <<>> /\ AtRead.out = <<>> /\ AtRead.tries = <<>>
    /\ AtRead.exact = TRUE /\ AtRead.policy = None
<1>1. <<>> \in Seq(Packet) /\ <<>> \in Seq(Sending) /\ <<>> \in Seq(Nat)
    OBVIOUS
<1>2. "read" \in LoopStages /\ None \in {None} \cup Taken /\ TRUE \in BOOLEAN /\ 0 \in Nat
    BY Zenon DEF LoopStages
<1> HIDE DEF Packet, Sending, Taken
<1> QED
    BY Zenon, <1>1, <1>2 DEF AtRead, Batch

\* A sequence is empty exactly when its length is 0.
LEMMA EmptyLength ==
    ASSUME NEW S, NEW s \in Seq(S)
    PROVE  s = <<>> <=> Len(s) = 0
OBVIOUS

\* What one packet becomes under a policy: at least one packet.
LEMMA FormsAre ==
    ASSUME NEW mode, NEW shape
    PROVE  forms(mode, shape) \in Seq(Forms) /\ Len(forms(mode, shape)) >= 1
<1>1. <<"plain">> \in Seq(Forms) /\ Len(<<"plain">>) = 1
    BY DEF Forms
<1>2. <<"second", "first">> \in Seq(Forms) /\ Len(<<"second", "first">>) = 2
    BY DEF Forms
<1>3. <<"fake", "plain">> \in Seq(Forms) /\ Len(<<"fake", "plain">>) = 2
    BY DEF Forms
<1> QED
    BY <1>1, <1>2, <1>3 DEF forms

\* The batch after one packet was processed.
LEMMA ProcessedIs ==
    ASSUME loop \in Batch, loop.in # <<>>, NEW fs \in Seq(Forms), Processed(fs)
    PROVE  LET p == Head(loop.in)
               outs == loop.out \o [i \in 1..Len(fs) |-> Output(p.conn, p.kind, fs[i])]
           IN  /\ loop' \in Batch
               /\ loop'.in = Tail(loop.in)
               /\ loop'.out = outs /\ Len(outs) = Len(loop.out) + Len(fs)
               /\ loop'.tries = [i \in 1..Len(outs) |-> 0]
               /\ loop'.next = 1 /\ loop'.policy = None /\ loop'.exact = loop.exact
               /\ loop'.at = IF Len(loop.in) > 1 THEN "process"
                             ELSE IF Len(outs) > 1 THEN "send" ELSE "each"
<1> DEFINE p == Head(loop.in)
           new == [i \in 1..Len(fs) |-> Output(p.conn, p.kind, fs[i])]
           outs == loop.out \o new
           stage == IF Len(loop.in) > 1 THEN "process"
                    ELSE IF Len(outs) > 1 THEN "send" ELSE "each"
           zero == [i \in 1..Len(outs) |-> 0]
           a == [loop EXCEPT !.in = Tail(loop.in)]
           b == [a EXCEPT !.out = outs]
           c == [b EXCEPT !.policy = None]
           d == [c EXCEPT !.tries = zero]
           e == [d EXCEPT !.next = 1]
<1>1. loop' = [e EXCEPT !.at = stage]
    BY Zenon DEF Processed
<1>2. loop.in \in Seq(Packet) /\ loop.out \in Seq(Sending)
    BY Zenon DEF Batch
<1>3. p \in Packet /\ Tail(loop.in) \in Seq(Packet)
    BY Zenon, <1>2, RestOfSequence
<1>4. new \in Seq(Sending) /\ Len(new) = Len(fs)
    <2>1. \A i \in 1..Len(fs) : Output(p.conn, p.kind, fs[i]) \in Sending
        <3> HIDE DEF p
        <3> QED
            BY <1>3 DEF Output, Sending, Packet
    <2> QED
        BY <2>1
<1> HIDE DEF p, new
<1>5. outs \in Seq(Sending) /\ Len(outs) = Len(loop.out) + Len(fs)
    <2> DEFINE o == loop.out
    <2>1. o \in Seq(Sending)
        BY Zenon, <1>2
    <2> HIDE DEF o
    <2>2. o \o new \in Seq(Sending) /\ Len(o \o new) = Len(o) + Len(new)
        BY Zenon, <1>4, <2>1, JoinedSequences
    <2> QED
        BY Zenon, <1>4, <2>2 DEF o
<1>6. stage \in LoopStages
    BY Zenon DEF LoopStages
<1> HIDE DEF outs
<1>7. zero \in Seq(Nat)
    BY <1>5
<1> HIDE DEF stage, zero
<1>8. a \in Batch /\ a.in = Tail(loop.in) /\ a.exact = loop.exact
    BY Zenon, <1>3 DEF Batch
<1> HIDE DEF a
<1>9. b \in Batch /\ b.in = Tail(loop.in) /\ b.exact = loop.exact /\ b.out = outs
    BY Zenon, <1>5, <1>8 DEF Batch
<1> HIDE DEF b
<1>10. /\ c \in Batch /\ c.in = Tail(loop.in) /\ c.exact = loop.exact /\ c.out = outs
       /\ c.policy = None
    BY Zenon, <1>9 DEF Batch
<1> HIDE DEF c
<1>11. /\ d \in Batch /\ d.in = Tail(loop.in) /\ d.exact = loop.exact /\ d.out = outs
       /\ d.policy = None /\ d.tries = zero
    BY Zenon, <1>7, <1>10 DEF Batch
<1> HIDE DEF d
<1>12. /\ e \in Batch /\ e.in = Tail(loop.in) /\ e.exact = loop.exact /\ e.out = outs
       /\ e.policy = None /\ e.tries = zero /\ e.next = 1
    BY Zenon, <1>11 DEF Batch
<1> HIDE DEF e
<1>13. /\ loop' \in Batch /\ loop'.in = Tail(loop.in) /\ loop'.exact = loop.exact
       /\ loop'.out = outs /\ loop'.policy = None /\ loop'.tries = zero /\ loop'.next = 1
       /\ loop'.at = stage
    BY Zenon, <1>1, <1>6, <1>12 DEF Batch
<1> QED
    BY Zenon, <1>5, <1>13 DEF p, new, outs, zero, stage

\* The batch after packets I were handed to the driver.
LEMMA HandedIs ==
    ASSUME loop \in Batch, Len(loop.tries) = Len(loop.out), NEW I, NEW n \in Nat,
           NEW exact \in BOOLEAN, Handed(I, n, exact)
    PROVE  /\ loop' \in Batch
           /\ loop'.in = loop.in /\ loop'.out = loop.out /\ loop'.policy = loop.policy
           /\ loop'.exact = exact /\ loop'.next = n
           /\ loop'.at = IF n > Len(loop.out) THEN "read" ELSE "each"
           /\ Len(loop'.tries) = Len(loop.out)
           /\ \A i \in 1..Len(loop.out) :
                loop'.tries[i] = IF i \in I THEN loop.tries[i] + 1 ELSE loop.tries[i]
<1> DEFINE stage == IF n > Len(loop.out) THEN "read" ELSE "each"
           counts == [i \in DOMAIN loop.tries |->
                        IF i \in I THEN loop.tries[i] + 1 ELSE loop.tries[i]]
           a == [loop EXCEPT !.exact = exact]
           b == [a EXCEPT !.at = stage]
           c == [b EXCEPT !.next = n]
<1>1. loop' = [c EXCEPT !.tries = counts]
    BY Zenon DEF Handed
<1>2. loop.tries \in Seq(Nat)
    BY Zenon DEF Batch
<1>3. /\ counts \in Seq(Nat) /\ Len(counts) = Len(loop.out)
      /\ \A i \in 1..Len(loop.out) :
           counts[i] = IF i \in I THEN loop.tries[i] + 1 ELSE loop.tries[i]
    <2> DEFINE t == loop.tries
               m == Len(loop.out)
    <2>1. t \in Seq(Nat) /\ Len(t) = m /\ m \in Nat
        BY <1>2
    <2> HIDE DEF t, m
    <2>2. DOMAIN t = 1..m /\ \A i \in 1..m : t[i] \in Nat
        BY <2>1
    <2>3. /\ [i \in 1..m |-> IF i \in I THEN t[i] + 1 ELSE t[i]] \in Seq(Nat)
          /\ Len([i \in 1..m |-> IF i \in I THEN t[i] + 1 ELSE t[i]]) = m
        BY <2>1, <2>2
    <2> QED
        BY Zenon, <2>2, <2>3 DEF t, m
<1>4. stage \in LoopStages
    BY Zenon DEF LoopStages
<1> HIDE DEF stage, counts
<1>5. /\ a \in Batch /\ a.in = loop.in /\ a.out = loop.out /\ a.policy = loop.policy
      /\ a.exact = exact
    BY Zenon DEF Batch
<1> HIDE DEF a
<1>6. /\ b \in Batch /\ b.in = loop.in /\ b.out = loop.out /\ b.policy = loop.policy
      /\ b.exact = exact /\ b.at = stage
    BY Zenon, <1>4, <1>5 DEF Batch
<1> HIDE DEF b
<1>7. /\ c \in Batch /\ c.in = loop.in /\ c.out = loop.out /\ c.policy = loop.policy
      /\ c.exact = exact /\ c.at = stage /\ c.next = n
    BY Zenon, <1>6 DEF Batch
<1> HIDE DEF c
<1>8. /\ loop' \in Batch /\ loop'.in = loop.in /\ loop'.out = loop.out
      /\ loop'.policy = loop.policy /\ loop'.exact = exact /\ loop'.at = stage
      /\ loop'.next = n /\ loop'.tries = counts
    BY Zenon, <1>1, <1>3, <1>7 DEF Batch
<1> QED
    BY Zenon, <1>3, <1>8 DEF stage

-----------------------------------------------------------------------------
(* The connections                                                         *)

\* A connection has a port from its dial to its release, and no two have the
\* same one at a time.
ConnInv ==
    /\ conn \in [Conns -> Socket]
    /\ \A c \in Conns : conn[c].port = None <=> conn[c].st \in {"idle", "gone"}
    /\ \A c, d \in Conns : conn[c].port = conn[d].port /\ conn[c].port # None => c = d

\* What a step of the relay of c does to its socket s: the others stay, and c
\* keeps its port, its mode and its shape.
Steps(c, s) ==
    /\ conn' = [conn EXCEPT ![c] = s]
    /\ s \in Socket
    /\ s.port = conn[c].port /\ s.mode = conn[c].mode /\ s.shape = conn[c].shape

\* A step of one connection leaves the others alone, and keeps who has a port.
LEMMA StepsKeep ==
    ASSUME ConnInv, NEW c \in Conns, NEW s, Steps(c, s),
           s.port = None <=> s.st \in {"idle", "gone"}
    PROVE  /\ ConnInv'
           /\ conn'[c] = s /\ \A d \in Conns : d # c => conn'[d] = conn[d]
<1>1. /\ conn' \in [Conns -> Socket]
      /\ conn'[c] = s /\ \A d \in Conns : d # c => conn'[d] = conn[d]
    BY Zenon DEF ConnInv, Steps
<1>2. \A d \in Conns : conn'[d].port = conn[d].port
    BY Zenon, <1>1 DEF Steps
<1>3. \A d \in Conns : conn'[d].port = None <=> conn'[d].st \in {"idle", "gone"}
    BY Zenon, <1>1 DEF ConnInv
<1> QED
    BY <1>1, <1>2, <1>3 DEF ConnInv

\* A change of the stage alone.
LEMMA StIs ==
    ASSUME ConnInv, NEW c \in Conns, NEW st \in Stages, St(c, st),
           conn[c].st \notin {"idle", "gone"}, st \notin {"idle", "gone"}
    PROVE  /\ ConnInv'
           /\ Steps(c, [conn[c] EXCEPT !.st = st])
           /\ conn'[c].st = st /\ conn'[c].copies = conn[c].copies
           /\ conn'[c].port = conn[c].port /\ conn'[c].mode = conn[c].mode
           /\ conn'[c].shape = conn[c].shape
           /\ \A d \in Conns : d # c => conn'[d] = conn[d]
<1> DEFINE s == [conn[c] EXCEPT !.st = st]
<1>1. conn[c] \in Socket
    BY Zenon DEF ConnInv
<1>2. /\ s \in Socket /\ s.st = st /\ s.copies = conn[c].copies
      /\ s.port = conn[c].port /\ s.mode = conn[c].mode /\ s.shape = conn[c].shape
    BY Zenon, <1>1 DEF Socket
<1>3. conn' = [conn EXCEPT ![c] = s]
    BY Zenon DEF St, ConnInv
<1> HIDE DEF s
<1>4. Steps(c, s)
    BY Zenon, <1>2, <1>3 DEF Steps
<1>5. s.port = None <=> s.st \in {"idle", "gone"}
    BY Zenon, <1>2 DEF ConnInv
<1>6. ConnInv' /\ conn'[c] = s /\ \A d \in Conns : d # c => conn'[d] = conn[d]
    BY Zenon, <1>4, <1>5, StepsKeep
<1> QED
    BY Zenon, <1>2, <1>4, <1>6 DEF s

\* Write and Retransmit: the stage, and one more copy of the hello.
LEMMA CopyIs ==
    ASSUME ConnInv, NEW c \in Conns, Write(c) \/ Retransmit(c)
    PROVE  /\ ConnInv'
           /\ conn[c].st \in {"armed", "sent", "closing"}
           /\ conn'[c].st = IF conn[c].st = "armed" THEN "sent" ELSE conn[c].st
           /\ conn'[c].port = conn[c].port /\ conn'[c].mode = conn[c].mode
           /\ conn'[c].shape = conn[c].shape
           /\ \A d \in Conns : d # c => conn'[d] = conn[d]
<1>1. conn[c] \in Socket
    BY Zenon DEF ConnInv
<1>2. CASE Write(c)
    <2> DEFINE a == [conn[c] EXCEPT !.st = "sent"]
               s == [a EXCEPT !.copies = 1]
    <2>1. conn[c].st = "armed" /\ conn' = [conn EXCEPT ![c] = s]
        BY Zenon, <1>2 DEF Write, ConnInv
    <2>2. /\ a \in Socket /\ a.st = "sent"
          /\ a.port = conn[c].port /\ a.mode = conn[c].mode /\ a.shape = conn[c].shape
        BY Zenon, <1>1 DEF Socket, Stages
    <2> HIDE DEF a
    <2>3. /\ s \in Socket /\ s.st = "sent"
          /\ s.port = conn[c].port /\ s.mode = conn[c].mode /\ s.shape = conn[c].shape
        BY Zenon, <2>2 DEF Socket
    <2> HIDE DEF s
    <2>4. s.port = None <=> s.st \in {"idle", "gone"}
        BY Zenon, <2>1, <2>3 DEF ConnInv
    <2>5. ConnInv' /\ conn'[c] = s /\ \A d \in Conns : d # c => conn'[d] = conn[d]
        BY Zenon, <2>1, <2>3, <2>4, StepsKeep DEF Steps
    <2> QED
        BY Zenon, <2>1, <2>3, <2>5
<1>3. CASE Retransmit(c)
    <2> DEFINE s == [conn[c] EXCEPT !.copies = conn[c].copies + 1]
    <2>1. conn[c].st \in {"sent", "closing"} /\ conn' = [conn EXCEPT ![c] = s]
        BY Zenon, <1>3 DEF Retransmit, ConnInv
    <2>2. /\ s \in Socket /\ s.st = conn[c].st
          /\ s.port = conn[c].port /\ s.mode = conn[c].mode /\ s.shape = conn[c].shape
        BY <1>1 DEF Socket
    <2> HIDE DEF s
    <2>3. s.port = None <=> s.st \in {"idle", "gone"}
        BY Zenon, <2>1, <2>2 DEF ConnInv
    <2>4. ConnInv' /\ conn'[c] = s /\ \A d \in Conns : d # c => conn'[d] = conn[d]
        BY Zenon, <2>1, <2>2, <2>3, StepsKeep DEF Steps
    <2> QED
        BY Zenon, <2>1, <2>2, <2>4
<1> QED
    BY Zenon, <1>2, <1>3

\* A dial takes a port that no connection has.
LEMMA DialIs ==
    ASSUME ConnInv, NEW c \in Conns, Dial(c)
    PROVE  /\ ConnInv'
           /\ conn[c].st = "idle" /\ conn'[c].st = "dialing"
           /\ conn'[c].port \in Ports
           /\ \A d \in Conns : d # c => conn'[d] = conn[d] /\ conn[d].port # conn'[c].port
<1>1. PICK k \in Ports, m \in Attempts[c] :
        /\ conn[c].st = "idle"
        /\ \A d \in Conns : ~Holds(d, k)
        /\ conn' = [conn EXCEPT ![c] = [st |-> "dialing", port |-> k, mode |-> m.mode,
                                        shape |-> m.shape, copies |-> 0]]
    BY Zenon DEF Dial
<1> DEFINE s == [st |-> "dialing", port |-> k, mode |-> m.mode, shape |-> m.shape,
                 copies |-> 0]
<1>2. m.mode \in Modes /\ m.shape \in Shapes
    BY Zenon, PacketConstants DEF Modes, Shapes, Conns
<1>4. s \in Socket /\ s.st = "dialing" /\ s.port = k
    BY Zenon, <1>2 DEF Socket, Stages
<1>5. conn' = [conn EXCEPT ![c] = s]
    BY Zenon, <1>1
<1> HIDE DEF s
<1>6. /\ conn' \in [Conns -> Socket]
      /\ conn'[c] = s /\ \A d \in Conns : d # c => conn'[d] = conn[d]
    BY Zenon, <1>4, <1>5 DEF ConnInv
<1>7. k # None
    BY Zenon, PacketConstants
<1>8. \A d \in Conns : conn[d].port # k
    BY Zenon, <1>1, <1>7 DEF Holds, ConnInv
<1> QED
    BY <1>1, <1>4, <1>6, <1>7, <1>8 DEF ConnInv

\* A release gives the port back.
LEMMA ReleaseIs ==
    ASSUME ConnInv, NEW c \in Conns, Release(c)
    PROVE  /\ ConnInv'
           /\ conn[c].st = "closing" /\ conn'[c].st = "gone" /\ conn'[c].port = None
           /\ \A d \in Conns : d # c => conn'[d] = conn[d]
<1> DEFINE s == [Idle EXCEPT !.st = "gone"]
<1>1. conn[c].st = "closing" /\ conn' = [conn EXCEPT ![c] = s]
    BY Zenon DEF Release
<1>2. s \in Socket /\ s.st = "gone" /\ s.port = None
    BY Zenon DEF Idle, Socket, Stages, Modes, Shapes
<1> HIDE DEF s
<1>3. /\ conn' \in [Conns -> Socket]
      /\ conn'[c] = s /\ \A d \in Conns : d # c => conn'[d] = conn[d]
    BY Zenon, <1>1, <1>2 DEF ConnInv
<1> QED
    BY <1>1, <1>2, <1>3 DEF ConnInv

\* What delivered packets do to the connections: each goes on as it is, or
\* its SYN left, or the answer to the SYN or to the hello came.
Arrived(d, kind, I) == \E i \in I : loop.out[i] = Output(d, kind, "plain")

\* Delivered packets move a connection on by one stage and never change its
\* port, its policy or its hello.
LEMMA DeliveredIs ==
    ASSUME ConnInv, NEW I, Delivered(I)
    PROVE  /\ ConnInv'
           /\ \A d \in Conns :
                /\ conn'[d].port = conn[d].port /\ conn'[d].mode = conn[d].mode
                /\ conn'[d].shape = conn[d].shape
                /\ \/ conn'[d].st = conn[d].st
                   \/ conn[d].st = "dialing" /\ conn'[d].st = "syn" /\ Arrived(d, "syn", I)
                   \/ conn[d].st = "synack" /\ conn'[d].st = "connected"
                   \/ conn[d].st = "sent" /\ conn'[d].st = "answered"
<1> DEFINE out == {loop.out[i] : i \in I}
           arrives(c, kind) == Output(c, kind, "plain") \in out
           moved(c) == CASE conn[c].st = "dialing" /\ arrives(c, "syn") -> "syn"
                         [] conn[c].st = "synack" /\ arrives(c, "synack") -> "connected"
                         [] conn[c].st = "sent" /\ arrives(c, "reply") -> "answered"
                         [] OTHER -> conn[c].st
<1>1. conn' = [c \in Conns |-> [conn[c] EXCEPT !.st = moved(c)]]
    BY Zenon DEF Delivered
<1>2. \A d \in Conns : \/ moved(d) = conn[d].st
                       \/ conn[d].st = "dialing" /\ moved(d) = "syn" /\ Arrived(d, "syn", I)
                       \/ conn[d].st = "synack" /\ moved(d) = "connected"
                       \/ conn[d].st = "sent" /\ moved(d) = "answered"
    BY DEF Arrived
<1>3. \A d \in Conns : conn[d] \in Socket
    BY Zenon DEF ConnInv
<1>4. \A d \in Conns : conn[d].st \in Stages
    BY Zenon, <1>3 DEF Socket
<1>5. \A d \in Conns : moved(d) \in Stages
    BY Zenon, <1>2, <1>4 DEF Stages
<1> HIDE DEF moved
<1>6. \A d \in Conns : /\ conn'[d] \in Socket /\ conn'[d].st = moved(d)
                       /\ conn'[d].port = conn[d].port /\ conn'[d].mode = conn[d].mode
                       /\ conn'[d].shape = conn[d].shape
    BY Zenon, <1>1, <1>3, <1>5 DEF Socket
<1>7. conn' \in [Conns -> Socket]
    <2>1. DOMAIN conn' = Conns /\ conn' = [c \in Conns |-> conn'[c]]
        BY Zenon, <1>1
    <2> QED
        BY Zenon, <1>6, <2>1
<1>8. ConnInv'
    BY <1>2, <1>6, <1>7 DEF ConnInv
<1> QED
    BY <1>2, <1>6, <1>8

-----------------------------------------------------------------------------
(* Every packet of a batch is sent                                         *)

\* A packet that is put into the driver's queue.
LEMMA EnqueueIs ==
    ASSUME ConnInv, queue \in Seq(Packet), NEW c \in Conns, NEW kind \in Kinds,
           conn'[c].port \in Ports, Enqueue(c, kind)
    PROVE  LET q == [conn |-> c, kind |-> kind, port |-> conn'[c].port,
                     shape |-> IF kind = "hello" THEN conn[c].shape ELSE "whole"]
           IN  q \in Packet /\ queue' = Append(queue, q) /\ queue' \in Seq(Packet)
<1> DEFINE shape == IF kind = "hello" THEN conn[c].shape ELSE "whole"
           port == conn'[c].port
           q == [conn |-> c, kind |-> kind, port |-> port, shape |-> shape]
<1>1. conn[c].shape \in Shapes
    BY Zenon DEF ConnInv, Socket
<1>2. shape \in Shapes
    BY Zenon, <1>1 DEF Shapes
<1>3. queue' = Append(queue, q)
    BY Zenon DEF Enqueue
<1> HIDE DEF shape, port
<1>4. q \in Packet
    BY Zenon, <1>2 DEF Packet, port
<1> HIDE DEF q
<1>5. Append(queue, q) \in Seq(Packet)
    BY Zenon, <1>4, AppendedSequence
<1> QED
    BY Zenon, <1>3, <1>4, <1>5 DEF q, port, shape

\* The relay's steps: the batch is left alone.
LEMMA RelayEnqueues ==
    ASSUME ConnInv, queue \in Seq(Packet), NEW c \in Conns, Relay(c)
    PROVE  /\ ConnInv' /\ queue' \in Seq(Packet)
           /\ UNCHANGED <<loop, running>>
<1>1. CASE Dial(c)
    <2>1. ConnInv' /\ conn'[c].port \in Ports
        BY Zenon, <1>1, DialIs
    <2>2. Enqueue(c, "syn") /\ UNCHANGED <<loop, running>>
        BY Zenon, <1>1 DEF Dial, driverVars
    <2> QED
        BY Zenon, <2>1, <2>2, EnqueueIs DEF Kinds
<1>2. CASE SynAck(c) \/ ServerHello(c)
    <2>1. PICK st \in {"synack", "sent"}, kind \in {"synack", "reply"} :
            St(c, st) /\ Enqueue(c, kind) /\ conn[c].st \in {"syn", "sent"}
        BY Zenon, <1>2 DEF SynAck, ServerHello
    <2>2. UNCHANGED <<loop, running>>
        BY Zenon, <1>2 DEF SynAck, ServerHello, driverVars
    <2>3. ConnInv' /\ conn'[c].port = conn[c].port
        BY Zenon, <2>1, StIs DEF Stages
    <2>4. conn'[c].port \in Ports
        BY Zenon, <2>1, <2>3 DEF ConnInv, Socket
    <2> QED
        BY Zenon, <2>1, <2>2, <2>3, <2>4, EnqueueIs DEF Kinds
<1>3. CASE Write(c) \/ Retransmit(c)
    <2>1. ConnInv' /\ conn'[c].port = conn[c].port /\ conn[c].st \in {"armed", "sent", "closing"}
        BY Zenon, <1>3, CopyIs
    <2>2. conn'[c].port \in Ports
        BY Zenon, <2>1 DEF ConnInv, Socket
    <2>3. Enqueue(c, "hello") /\ UNCHANGED <<loop, running>>
        BY Zenon, <1>3 DEF Write, Retransmit, driverVars
    <2> QED
        BY Zenon, <2>1, <2>2, <2>3, EnqueueIs DEF Kinds
<1>4. CASE Arm(c) \/ Consume(c) \/ Close(c)
    <2>1. PICK st \in {"armed", "done", "closing"} :
            St(c, st) /\ conn[c].st \notin {"idle", "gone"}
        BY Zenon, <1>4 DEF Arm, Consume, Close
    <2>2. UNCHANGED <<loop, running, queue>>
        BY Zenon, <1>4 DEF Arm, Consume, Close, driverVars
    <2> QED
        BY Zenon, <2>1, <2>2, StIs DEF Stages
<1>5. CASE Release(c)
    BY Zenon, <1>5, ReleaseIs DEF Release, driverVars
<1> QED
    BY Zenon, <1>1, <1>2, <1>3, <1>4, <1>5 DEF Relay

\* A read takes the front of the queue.
LEMMA RecvIs ==
    ASSUME BatchInv, Recv
    PROVE  \E n \in Nat :
             /\ n >= 1 /\ n <= Len(queue)
             /\ loop' \in Batch
             /\ loop'.at = "process" /\ loop'.out = <<>> /\ loop'.tries = <<>>
             /\ loop'.exact = TRUE /\ loop'.policy = None
             /\ loop'.in = SubSeq(queue, 1, n) /\ loop'.in \in Seq(Packet) /\ Len(loop'.in) = n
             /\ queue' = SubSeq(queue, n + 1, Len(queue)) /\ queue' \in Seq(Packet)
             /\ Len(queue') = Len(queue) - n
             /\ \A i \in 1..n : loop'.in[i] = queue[i]
             /\ \A i \in 1..(Len(queue) - n) : queue'[i] = queue[n + i]
<1> DEFINE n == IF Len(queue) < kBatchSize THEN Len(queue) ELSE kBatchSize
           front == SubSeq(queue, 1, n)
           back == SubSeq(queue, n + 1, Len(queue))
           a == [AtRead EXCEPT !.at = "process"]
<1>1. loop' = [a EXCEPT !.in = front] /\ queue' = back /\ queue # <<>>
    BY Zenon DEF Recv
<1>2. queue \in Seq(Packet) /\ Len(queue) \in Nat /\ Len(queue) >= 1
    BY <1>1 DEF BatchInv
<1>3. n \in Nat /\ n >= 1 /\ n <= Len(queue)
    BY SMTT(30), <1>2, PacketConstants
<1> HIDE DEF n
<1>4. \A i \in 1..Len(queue) : queue[i] \in Packet
    BY <1>2
<1>5. front \in Seq(Packet) /\ Len(front) = n /\ \A i \in 1..n : front[i] = queue[i]
    BY <1>2, <1>3, <1>4, PartOfSequence
<1>6. /\ back \in Seq(Packet) /\ Len(back) = Len(queue) - n
      /\ \A i \in 1..(Len(queue) - n) : back[i] = queue[n + i]
    <2>1. \A i \in (n + 1)..Len(queue) : queue[i] \in Packet
        BY <1>2, <1>3, <1>4
    <2> QED
        BY <1>2, <1>3, <2>1, PartOfSequence
<1>7. /\ a \in Batch /\ a.at = "process" /\ a.out = <<>> /\ a.tries = <<>>
      /\ a.exact = TRUE /\ a.policy = None
    BY Zenon, AtReadIs DEF Batch, LoopStages
<1> HIDE DEF a, front, back
<1>8. /\ loop' \in Batch /\ loop'.at = "process" /\ loop'.out = <<>> /\ loop'.tries = <<>>
      /\ loop'.exact = TRUE /\ loop'.policy = None /\ loop'.in = front
    BY Zenon, <1>1, <1>5, <1>7 DEF Batch
<1> QED
    BY Zenon, <1>1, <1>3, <1>5, <1>6, <1>8 DEF front, back

\* The loop's own steps keep the batch in order: reading and forwarding.
LEMMA ReadKeepsBatch ==
    ASSUME BatchInv, Loop \/ Recv \/ RecvShut \/ RecvFails \/ BatchBroken
    PROVE  BatchInv'
<1>1. loop \in Batch /\ queue \in Seq(Packet)
    BY Zenon DEF BatchInv
<1>2. CASE Loop
    <2>1. PICK stage \in {"recv", "exited"} : loop' = [AtRead EXCEPT !.at = stage]
        BY Zenon, <1>2 DEF Loop
    <2>2. /\ loop' \in Batch /\ loop'.at = stage /\ loop'.in = <<>> /\ loop'.out = <<>>
          /\ loop'.tries = <<>>
        BY Zenon, <2>1, AtReadIs DEF Batch, LoopStages
    <2>3. queue' = queue
        BY Zenon, <1>2 DEF Loop
    <2> QED
        BY Zenon, <1>1, <2>1, <2>2, <2>3 DEF BatchInv
<1>3. CASE Recv
    <2>1. /\ loop' \in Batch /\ loop'.at = "process" /\ loop'.out = <<>> /\ loop'.tries = <<>>
          /\ loop'.exact = TRUE /\ loop'.in \in Seq(Packet) /\ Len(loop'.in) >= 1
          /\ queue' \in Seq(Packet)
        BY Zenon, <1>3, RecvIs
    <2>2. loop'.in # <<>>
        BY <2>1
    <2> QED
        BY <2>1, <2>2 DEF BatchInv
<1>4. CASE RecvShut \/ RecvFails
    <2>1. PICK stage \in {"read", "exited"} : loop' = [loop EXCEPT !.at = stage]
        BY Zenon, <1>4 DEF RecvShut, RecvFails
    <2>2. loop.at = "recv" /\ queue' = queue
        BY Zenon, <1>4 DEF RecvShut, RecvFails
    <2>3. loop.in = <<>> /\ loop.out = <<>> /\ Len(loop.tries) = Len(loop.out)
        BY Zenon, <2>2 DEF BatchInv
    <2>4. /\ loop' \in Batch /\ loop'.at = stage /\ loop'.in = <<>> /\ loop'.out = <<>>
          /\ loop'.tries = loop.tries
        BY Zenon, <1>1, <2>1, <2>3 DEF Batch, LoopStages
    <2> QED
        BY <1>1, <2>1, <2>2, <2>3, <2>4 DEF BatchInv
<1>5. CASE BatchBroken
    <2>1. loop.at = "each" /\ ~running /\ loop' = [loop EXCEPT !.at = "read"]
        BY Zenon, <1>5 DEF BatchBroken
    <2>2. loop.in = <<>> /\ Len(loop.tries) = Len(loop.out)
        BY Zenon, <2>1 DEF BatchInv
    <2>3. /\ loop' \in Batch /\ loop'.at = "read" /\ loop'.in = <<>> /\ loop'.out = loop.out
          /\ loop'.tries = loop.tries
        BY Zenon, <1>1, <2>1, <2>2 DEF Batch, LoopStages
    <2>4. queue' = queue /\ running' = running
        BY Zenon, <1>5 DEF BatchBroken, driverVars
    <2> QED
        BY Zenon, <1>1, <2>1, <2>2, <2>3, <2>4 DEF BatchInv
<1> QED
    BY Zenon, <1>2, <1>3, <1>4, <1>5

\* The packets that are processed are at the front of in, and are not sent yet.
LEMMA ProcessKeepsBatch ==
    ASSUME BatchInv, EntriesOK(policies), Forward \/ Take \/ Transform
    PROVE  BatchInv' /\ queue' = queue
<1>1. loop \in Batch /\ queue \in Seq(Packet)
    BY Zenon DEF BatchInv
<1>2. /\ loop.at \in {"process", "transform"} /\ loop.in # <<>> /\ loop.exact = TRUE
      /\ queue' = queue
    BY Zenon DEF Forward, Take, Transform, BatchInv
<1>3. ASSUME NEW fs \in Seq(Forms), Len(fs) >= 1, Processed(fs)
      PROVE  BatchInv'
    <2> DEFINE outs == loop.out \o [i \in 1..Len(fs) |->
                          Output(Head(loop.in).conn, Head(loop.in).kind, fs[i])]
    <2>1. /\ loop' \in Batch
          /\ loop'.in = Tail(loop.in)
          /\ loop'.out = outs /\ Len(outs) = Len(loop.out) + Len(fs)
          /\ loop'.tries = [i \in 1..Len(outs) |-> 0]
          /\ loop'.next = 1 /\ loop'.exact = TRUE
          /\ loop'.at = IF Len(loop.in) > 1 THEN "process"
                        ELSE IF Len(outs) > 1 THEN "send" ELSE "each"
        BY Zenon, <1>1, <1>2, <1>3, ProcessedIs
    <2>2. loop.out \in Seq(Sending) /\ loop.in \in Seq(Packet)
        BY Zenon, <1>1 DEF Batch
    <2> HIDE DEF outs
    <2>3. Len(outs) \in Nat /\ Len(outs) >= 1
        BY <1>3, <2>1, <2>2
    <2>4. Len(loop'.tries) = Len(loop'.out) /\ \A i \in 1..Len(outs) : loop'.tries[i] = 0
        BY <2>1, <2>3
    <2>5. loop'.in \in Seq(Packet) /\ Len(loop'.in) = Len(loop.in) - 1
        BY <1>2, <2>1, <2>2, RestOfSequence
    <2>6. loop'.at = "process" <=> loop'.in # <<>>
        <3> DEFINE a == loop.in
                   b == loop'.in
        <3>1. a \in Seq(Packet) /\ b \in Seq(Packet) /\ Len(b) = Len(a) - 1
            BY Zenon, <2>2, <2>5
        <3>2. loop'.at = "process" <=> Len(a) > 1
            BY Zenon, <2>1
        <3> HIDE DEF a, b
        <3>3. Len(a) \in Nat /\ Len(b) \in Nat
            BY <3>1
        <3>4. Len(a) > 1 <=> ~(Len(b) = 0)
            BY <3>1, <3>3
        <3> QED
            BY Zenon, <3>1, <3>2, <3>4, EmptyLength DEF b
    <2>7. loop'.at \in {"process", "send", "each"}
        BY Zenon, <2>1
    <2>8. loop'.at = "each" => Len(outs) = 1
        BY <2>1, <2>3
    <2> QED
        BY <1>1, <1>2, <2>1, <2>3, <2>4, <2>6, <2>7, <2>8 DEF BatchInv
<1>4. CASE Forward
    <2>1. Processed(<<"plain">>)
        BY Zenon, <1>4 DEF Forward
    <2>2. <<"plain">> \in Seq(Forms) /\ Len(<<"plain">>) >= 1
        BY DEF Forms
    <2> QED
        BY Zenon, <1>2, <1>3, <2>1, <2>2
<1>5. CASE Transform
    BY Zenon, <1>2, <1>3, <1>5, FormsAre DEF Transform
<1>6. CASE Take
    <2> DEFINE k == Head(loop.in).port
               t == [mode |-> fixedMode(k), owner |-> policies[k].owner]
               a == [loop EXCEPT !.at = "transform"]
    <2>1. /\ Head(loop.in).kind = "hello" /\ grantedFor(k, Head(loop.in))
          /\ loop.at = "process" /\ loop' = [a EXCEPT !.policy = t]
        BY Zenon, <1>6 DEF Take, take
    <2>2. policies[k] \in Entry
        BY Zenon, <2>1 DEF grantedFor, current, EntriesOK
    <2>3. fixedMode(k) \in Modes /\ policies[k].owner \in Conns
        BY Zenon, <2>2 DEF fixedMode, Entry, Modes
    <2>4. t \in Taken
        BY Zenon, <2>3 DEF Taken
    <2> HIDE DEF t
    <2>5. /\ a \in Batch /\ a.at = "transform" /\ a.in = loop.in /\ a.out = loop.out
          /\ a.tries = loop.tries /\ a.exact = loop.exact
        BY Zenon, <1>1 DEF Batch, LoopStages
    <2> HIDE DEF a
    <2>6. /\ loop' \in Batch /\ loop'.at = "transform" /\ loop'.in = loop.in
          /\ loop'.out = loop.out /\ loop'.policy = t
          /\ loop'.tries = loop.tries /\ loop'.exact = loop.exact
        BY Zenon, <2>1, <2>4, <2>5 DEF Batch
    <2> QED
        BY <1>1, <1>2, <2>1, <2>4, <2>6 DEF BatchInv
<1> QED
    BY Zenon, <1>4, <1>5, <1>6

\* The sends: a batch that fails is resumed behind what the driver took.
LEMMA SendKeepsBatch ==
    ASSUME BatchInv, SendBatch \/ SendBatchFails \/ SendOne \/ SendOneFails
    PROVE  /\ BatchInv' /\ queue' = queue
           /\ \/ loop'.in = loop.in /\ loop'.out = loop.out
              \/ loop'.in = <<>> /\ loop'.out = <<>>
<1> DEFINE L == Len(loop.out)
<1>1. /\ loop \in Batch /\ queue \in Seq(Packet) /\ Len(loop.tries) = L
      /\ loop.out \in Seq(Sending) /\ loop.tries \in Seq(Nat)
    BY Zenon DEF BatchInv, Batch
<1>2. L \in Nat /\ \A i \in 1..L : loop.tries[i] \in Nat
    BY <1>1
<1>3. queue' = queue
    BY Zenon DEF SendBatch, SendBatchFails, SendOne, SendOneFails, relayVars
<1>4. loop.at \in {"send", "each"} /\ loop.in = <<>>
    BY Zenon DEF SendBatch, SendBatchFails, SendOne, SendOneFails, BatchInv
<1>5. /\ loop.at = "send" => /\ L >= 1 /\ loop.exact = TRUE
                             /\ \A i \in 1..L : loop.tries[i] = 0
      /\ loop.at = "each" =>
           /\ loop.next \in 1..L
           /\ \A i \in 1..L : i < loop.next => loop.tries[i] >= 1
           /\ loop.exact = TRUE => \A i \in 1..L :
                  loop.tries[i] = IF i < loop.next THEN 1 ELSE 0
    BY Zenon DEF BatchInv
<1>6. loop.exact \in BOOLEAN
    BY Zenon, <1>1 DEF Batch
<1> HIDE DEF L
<1>7. ASSUME NEW I, NEW n \in Nat, NEW exact \in BOOLEAN, Handed(I, n, exact),
             \/ n = L + 1
             \/ n \in 1..L,
             \A i \in 1..L : i < n => (i \in I \/ loop.tries[i] >= 1),
             exact = TRUE => \A i \in 1..L :
                 IF i \in I THEN loop.tries[i] = 0 /\ i < n
                 ELSE loop.tries[i] = IF i < n THEN 1 ELSE 0
      PROVE  BatchInv' /\ loop'.in = loop.in /\ loop'.out = loop.out
    <2>1. /\ loop' \in Batch
          /\ loop'.in = loop.in /\ loop'.out = loop.out /\ loop'.policy = loop.policy
          /\ loop'.exact = exact /\ loop'.next = n
          /\ loop'.at = IF n > L THEN "read" ELSE "each"
          /\ Len(loop'.tries) = L
          /\ \A i \in 1..L :
               loop'.tries[i] = IF i \in I THEN loop.tries[i] + 1 ELSE loop.tries[i]
        BY <1>1, <1>7, HandedIs DEF L
    <2>2. \A i \in 1..L : i < n => loop'.tries[i] >= 1
        BY SMTT(30), <1>2, <1>7, <2>1
    <2>3. exact = TRUE => \A i \in 1..L : loop'.tries[i] = IF i < n THEN 1 ELSE 0
        BY <1>2, <1>7, <2>1
    <2>4. CASE n = L + 1
        <3>1. loop'.at = "read"
            BY <1>2, <2>1, <2>4
        <3>2. \A i \in 1..L : i < n
            BY <1>2, <2>4
        <3>3. \A i \in 1..L : loop'.tries[i] >= 1 /\ (exact = TRUE => loop'.tries[i] = 1)
            BY Zenon, <2>2, <2>3, <3>2
        <3> QED
            BY Zenon, <1>1, <1>3, <1>4, <2>1, <3>1, <3>3 DEF BatchInv, L
    <2>5. CASE n \in 1..L
        <3>1. loop'.at = "each"
            BY <1>2, <2>1, <2>5
        <3> QED
            BY Zenon, <1>1, <1>3, <1>4, <2>1, <2>2, <2>3, <2>5, <3>1 DEF BatchInv, L
    <2> QED
        BY Zenon, <1>7, <2>1, <2>4, <2>5
<1>8. CASE SendBatch
    <2>1. loop.at = "send" /\ Handed(1..L, L + 1, TRUE)
        BY Zenon, <1>8 DEF SendBatch, L
    <2>2. L + 1 \in Nat /\ TRUE \in BOOLEAN
        BY <1>2
    <2>3. \A i \in 1..L : i < L + 1 => (i \in 1..L \/ loop.tries[i] >= 1)
        BY Zenon
    <2>4. \A i \in 1..L : IF i \in 1..L THEN loop.tries[i] = 0 /\ i < L + 1
                          ELSE loop.tries[i] = IF i < L + 1 THEN 1 ELSE 0
        BY <1>2, <1>5, <2>1
    <2> QED
        BY Zenon, <1>3, <1>7, <2>1, <2>2, <2>3, <2>4
<1>9. CASE SendBatchFails
    <2>1. PICK n \in 0..(L - 1), exact \in BOOLEAN :
            /\ loop.at = "send"
            /\ IF running THEN Handed(1..n, resumeAt(n, exact), exact)
                          ELSE loop' = [AtRead EXCEPT !.at = "exited"]
        BY Zenon, <1>9 DEF SendBatchFails, L
    <2>2. CASE running
        <3>1. Handed(1..n, resumeAt(n, exact), exact)
            BY Zenon, <2>1, <2>2
        <3>2. CASE exact = TRUE
            <4>1. resumeAt(n, exact) = n + 1 /\ n + 1 \in 1..L
                BY <1>2, <2>1, <3>2 DEF resumeAt
            <4>2. n + 1 \in Nat /\ \A i \in 1..L : i < n + 1 => (i \in 1..n \/ loop.tries[i] >= 1)
                BY <1>2, <2>1
            <4>3. \A i \in 1..L : IF i \in 1..n THEN loop.tries[i] = 0 /\ i < n + 1
                                  ELSE loop.tries[i] = IF i < n + 1 THEN 1 ELSE 0
                BY <1>2, <1>5, <2>1
            <4> QED
                BY Zenon, <1>3, <1>7, <3>1, <4>1, <4>2, <4>3
        <3>3. CASE exact = FALSE
            <4>1. resumeAt(n, exact) = 1 /\ 1 \in 1..L
                BY <1>2, <1>5, <2>1, <3>3 DEF resumeAt
            <4>2. 1 \in Nat /\ \A i \in 1..L : i < 1 => (i \in 1..n \/ loop.tries[i] >= 1)
                BY <1>2
            <4>3. ~(exact = TRUE)
                BY Zenon, <3>3
            <4> QED
                BY Zenon, <1>3, <1>7, <3>1, <4>1, <4>2, <4>3
        <3> QED
            BY Zenon, <3>2, <3>3
    <2>3. CASE ~running
        <3>1. loop' = [AtRead EXCEPT !.at = "exited"]
            BY Zenon, <2>1, <2>3
        <3>2. /\ loop' \in Batch /\ loop'.at = "exited" /\ loop'.in = <<>> /\ loop'.out = <<>>
              /\ loop'.tries = <<>>
            BY Zenon, <3>1, AtReadIs DEF Batch, LoopStages
        <3> QED
            BY Zenon, <1>1, <1>3, <3>2 DEF BatchInv
    <2> QED
        BY Zenon, <2>2, <2>3
<1>10. CASE SendOne \/ SendOneFails
    <2>1. loop.at = "each" /\ Handed({loop.next}, loop.next + 1, loop.exact)
        BY Zenon, <1>10 DEF SendOne, SendOneFails
    <2> DEFINE m == loop.next
    <2>2. m \in 1..L
        BY Zenon, <1>5, <2>1
    <2> HIDE DEF m
    <2>3. m + 1 \in Nat /\ (m + 1 = L + 1 \/ m + 1 \in 1..L)
        BY <1>2, <2>2
    <2>4. \A i \in 1..L : i < m + 1 => (i \in {m} \/ loop.tries[i] >= 1)
        BY <1>2, <1>5, <2>1, <2>2 DEF m
    <2>5. loop.exact = TRUE => \A i \in 1..L :
             IF i \in {m} THEN loop.tries[i] = 0 /\ i < m + 1
             ELSE loop.tries[i] = IF i < m + 1 THEN 1 ELSE 0
        BY <1>2, <1>5, <2>1, <2>2 DEF m
    <2> QED
        BY Zenon, <1>3, <1>6, <1>7, <2>1, <2>3, <2>4, <2>5 DEF m
<1> QED
    BY Zenon, <1>8, <1>9, <1>10

-----------------------------------------------------------------------------
(* The registry                                                            *)

\* g has only entries of f.
PartOf(g, f) ==
    DOMAIN g \subseteq DOMAIN f /\ g = [k \in DOMAIN g |-> f[k]]

\* A part of a table of entries is one.
LEMMA PartIsOK ==
    ASSUME NEW f, EntriesOK(f), NEW g, PartOf(g, f)
    PROVE  EntriesOK(g) /\ \A k \in DOMAIN g : k \in DOMAIN f /\ g[k] = f[k]
BY Zenon DEF EntriesOK, PartOf

\* Removing keys leaves a part of the table.
LEMMA WithoutIsPart ==
    ASSUME NEW f, NEW S
    PROVE  PartOf(without(f, S), f) /\ DOMAIN without(f, S) = DOMAIN f \ S
BY Zenon DEF PartOf, without

\* Pruning and making room only take entries away.
LEMMA PruneIsPart ==
    ASSUME NEW f, f = [k \in DOMAIN f |-> f[k]]
    PROVE  /\ PartOf(pruneIfDue(f), f)
           /\ \A k \in DOMAIN f : k \notin DOMAIN pruneIfDue(f) => f[k].left = 0
<1>1. PartOf(f, f)
    BY Zenon DEF PartOf
<1>2. /\ PartOf(live(f), f)
      /\ DOMAIN live(f) = DOMAIN f \ {k \in DOMAIN f : f[k].left = 0}
    BY Zenon, WithoutIsPart DEF live
<1> QED
    BY Zenon, <1>1, <1>2 DEF pruneIfDue

\* makeRoom() only removes.
LEMMA RoomIsPart ==
    ASSUME NEW f, f = [k \in DOMAIN f |-> f[k]], NEW key, NEW room \in makeRoom(f, key)
    PROVE  PartOf(room, f)
<1>1. PartOf(f, f)
    BY Zenon DEF PartOf
<1>2. PartOf(live(f), f)
    BY Zenon, WithoutIsPart DEF live
<1>3. \A S : PartOf(without(live(f), S), live(f))
    BY Zenon, WithoutIsPart
<1>4. \A S : PartOf(without(live(f), S), f)
    BY <1>2, <1>3 DEF PartOf
<1> QED
    BY Zenon, <1>1, <1>2, <1>4 DEF makeRoom

\* The room that arm() finds for a new entry.
LEMMA ArmRoom ==
    ASSUME EntriesOK(policies), NEW key, NEW room \in makeRoom(pruneIfDue(policies), key)
    PROVE  PartOf(room, policies)
<1>1. policies = [k \in DOMAIN policies |-> policies[k]]
    BY Zenon DEF EntriesOK
<1>2. PartOf(pruneIfDue(policies), policies)
    BY Zenon, <1>1, PruneIsPart
<1> DEFINE f == pruneIfDue(policies)
<1>3. PartOf(f, policies) /\ room \in makeRoom(f, key)
    BY Zenon, <1>2
<1> HIDE DEF f
<1>4. f = [k \in DOMAIN f |-> f[k]]
    BY Zenon, <1>3 DEF PartOf
<1>5. PartOf(room, f)
    BY Zenon, <1>3, <1>4, RoomIsPart
<1> QED
    BY Zenon, <1>3, <1>5 DEF PartOf

\* What arm() leaves: the entry of its port is new, the rest is part of what
\* was there.
LEMMA ArmIs ==
    ASSUME ConnInv, EntriesOK(policies), NEW c \in Conns, conn[c].port # None, arm(c)
    PROVE  \E room :
             /\ PartOf(room, policies) /\ Lost(room)
             /\ EntriesOK(policies')
             /\ DOMAIN policies' = DOMAIN room \cup {conn[c].port}
             /\ policies'[conn[c].port] = armedEntry(c)
             /\ \A x \in DOMAIN policies' : x # conn[c].port =>
                  x \in DOMAIN policies /\ x \in DOMAIN room /\ policies'[x] = policies[x]
<1> DEFINE k == conn[c].port
<1>1. PICK room \in makeRoom(pruneIfDue(policies), k) :
        policies' = with(room, k, armedEntry(c)) /\ Lost(room)
    BY Zenon DEF arm
<1>2. PartOf(room, policies)
    BY Zenon, <1>1, ArmRoom
<1>3. EntriesOK(room) /\ \A x \in DOMAIN room : x \in DOMAIN policies /\ room[x] = policies[x]
    BY Zenon, <1>2, PartIsOK
<1>4. k \in Ports /\ conn[c].mode \in Modes
    BY Zenon DEF ConnInv, Socket
<1>5. armedEntry(c) \in Entry
    BY Zenon, <1>4, PacketConstants DEF armedEntry, Entry
<1> HIDE DEF k
<1> DEFINE e == armedEntry(c)
<1> HIDE DEF e
<1>6. policies' = [x \in DOMAIN room \cup {k} |-> IF x = k THEN e ELSE room[x]]
    BY Zenon, <1>1 DEF with, e
<1>7. DOMAIN policies' = DOMAIN room \cup {k} /\ policies'[k] = e
    BY Zenon, <1>6
<1>8. \A x \in DOMAIN policies' : x # k => x \in DOMAIN room /\ policies'[x] = room[x]
    BY Zenon, <1>6
<1>9. EntriesOK(policies')
    <2>1. e \in Entry
        BY Zenon, <1>5 DEF e
    <2> QED
        BY Zenon, <1>3, <1>4, <1>6, <2>1 DEF EntriesOK
<1> QED
    BY Zenon, <1>1, <1>2, <1>3, <1>7, <1>8, <1>9 DEF k, e

\* take() marks the entry with the packet it is taken for.
LEMMA TakeIs ==
    ASSUME BatchInv, EntriesOK(policies), Take
    PROVE  LET p == Head(loop.in)
               k == p.port
           IN  /\ p \in Packet /\ k \in DOMAIN policies /\ grantedFor(k, p)
               /\ p.kind = "hello"
               /\ loop'.at = "transform" /\ loop'.in = loop.in /\ loop'.out = loop.out
               /\ loop'.policy.owner = policies[k].owner
               /\ EntriesOK(policies') /\ DOMAIN policies' = DOMAIN policies
               /\ \A x \in DOMAIN policies : x # k => policies'[x] = policies[x]
               /\ policies'[k].taken = TRUE /\ policies'[k].seq = p
               /\ policies'[k].left = policies[k].left
               /\ policies'[k].applied = policies[k].applied
               /\ policies'[k].owner = policies[k].owner
<1> DEFINE p == Head(loop.in)
           k == p.port
           old == policies[k]
           a == [old EXCEPT !.taken = TRUE]
           b == [a EXCEPT !.seq = p]
           e == [b EXCEPT !.mode = fixedMode(k)]
           t == [mode |-> fixedMode(k), owner |-> old.owner]
           l == [loop EXCEPT !.at = "transform"]
<1>1. /\ p.kind = "hello" /\ grantedFor(k, p) /\ loop.at = "process"
      /\ policies' = [policies EXCEPT ![k] = e]
      /\ loop' = [l EXCEPT !.policy = t]
    BY Zenon DEF Take, take
<1>2. loop \in Batch /\ loop.in \in Seq(Packet) /\ loop.in # <<>>
    BY Zenon, <1>1 DEF BatchInv, Batch
<1>3. p \in Packet
    BY Zenon, <1>2, RestOfSequence
<1>4. k \in DOMAIN policies
    BY Zenon, <1>1 DEF grantedFor, current
<1> HIDE DEF p, k
<1>5. old \in Entry
    BY Zenon, <1>4 DEF EntriesOK
<1>6. fixedMode(k) \in Modes
    BY Zenon, <1>5 DEF fixedMode, Entry, Modes
<1>7. t.owner = old.owner /\ t \in Taken
    BY Zenon, <1>5, <1>6 DEF Entry, Taken
<1>8. l \in Batch /\ l.at = "transform" /\ l.in = loop.in /\ l.out = loop.out
    BY Zenon, <1>2 DEF Batch, LoopStages
<1> HIDE DEF old, l, t
<1>9. loop'.at = "transform" /\ loop'.in = loop.in /\ loop'.out = loop.out /\ loop'.policy = t
    BY Zenon, <1>1, <1>7, <1>8 DEF Batch
<1>10. /\ a \in Entry /\ a.taken = TRUE /\ a.left = old.left
       /\ a.applied = old.applied /\ a.owner = old.owner
    BY Zenon, <1>5 DEF Entry
<1> HIDE DEF a
<1>11. /\ b \in Entry /\ b.taken = TRUE /\ b.left = old.left /\ b.seq = p
       /\ b.applied = old.applied /\ b.owner = old.owner
    BY Zenon, <1>3, <1>10 DEF Entry
<1> HIDE DEF b
<1>12. /\ e \in Entry /\ e.taken = TRUE /\ e.left = old.left /\ e.seq = p
       /\ e.applied = old.applied /\ e.owner = old.owner
    BY Zenon, <1>6, <1>11 DEF Entry
<1> HIDE DEF e
<1>13. /\ EntriesOK(policies') /\ DOMAIN policies' = DOMAIN policies /\ policies'[k] = e
       /\ \A x \in DOMAIN policies : x # k => policies'[x] = policies[x]
    BY Zenon, <1>1, <1>4, <1>12 DEF EntriesOK
<1> QED
    BY Zenon, <1>1, <1>3, <1>4, <1>7, <1>9, <1>12, <1>13 DEF p, k, old

\* noteApplied() marks the entry of the port, if there is one, and keeps it
\* for kAppliedTtlMs.
LEMMA NoteIs ==
    ASSUME EntriesOK(policies), NEW k, noteApplied(k)
    PROVE  /\ EntriesOK(policies') /\ DOMAIN policies' = DOMAIN policies
           /\ \A x \in DOMAIN policies : x # k => policies'[x] = policies[x]
           /\ k \in DOMAIN policies =>
                /\ policies'[k].applied = TRUE /\ policies'[k].left = kAppliedTtlMs
                /\ policies'[k].taken = policies[k].taken
                /\ policies'[k].seq = policies[k].seq
                /\ policies'[k].owner = policies[k].owner
<1>1. CASE k \notin DOMAIN policies
    BY Zenon, <1>1 DEF noteApplied
<1>2. CASE k \in DOMAIN policies
    <2> DEFINE old == policies[k]
               a == [old EXCEPT !.applied = TRUE]
               e == [a EXCEPT !.left = kAppliedTtlMs]
    <2>1. policies' = [policies EXCEPT ![k] = e]
        BY Zenon, <1>2 DEF noteApplied
    <2>2. old \in Entry
        BY Zenon, <1>2 DEF EntriesOK
    <2> HIDE DEF old
    <2>3. /\ a \in Entry /\ a.applied = TRUE /\ a.taken = old.taken /\ a.seq = old.seq
          /\ a.owner = old.owner
        BY Zenon, <2>2 DEF Entry
    <2> HIDE DEF a
    <2>4. /\ e \in Entry /\ e.applied = TRUE /\ e.taken = old.taken /\ e.seq = old.seq
          /\ e.owner = old.owner /\ e.left = kAppliedTtlMs
        BY Zenon, <2>3, PacketConstants DEF Entry
    <2> HIDE DEF e
    <2>5. /\ EntriesOK(policies') /\ DOMAIN policies' = DOMAIN policies /\ policies'[k] = e
          /\ \A x \in DOMAIN policies : x # k => policies'[x] = policies[x]
        BY Zenon, <1>2, <2>1, <2>4 DEF EntriesOK
    <2> QED
        BY Zenon, <2>4, <2>5 DEF old
<1> QED
    BY Zenon, <1>1, <1>2

\* The clock: every entry has a tick less, down to none.
LEMMA TickIs ==
    ASSUME EntriesOK(policies), Tick
    PROVE  /\ EntriesOK(policies') /\ DOMAIN policies' = DOMAIN policies
           /\ \A k \in DOMAIN policies :
                /\ policies'[k].left = before(policies[k].left)
                /\ policies'[k].applied = policies[k].applied
                /\ policies'[k].taken = policies[k].taken
                /\ policies'[k].seq = policies[k].seq
                /\ policies'[k].owner = policies[k].owner
<1>1. policies' = [k \in DOMAIN policies |->
                     [policies[k] EXCEPT !.left = before(policies[k].left)]]
    BY Zenon DEF Tick
<1>2. ASSUME NEW k \in DOMAIN policies
      PROVE  /\ policies'[k] \in Entry
             /\ policies'[k].left = before(policies[k].left)
             /\ policies'[k].applied = policies[k].applied
             /\ policies'[k].taken = policies[k].taken
             /\ policies'[k].seq = policies[k].seq
             /\ policies'[k].owner = policies[k].owner
    <2> DEFINE old == policies[k]
               n == before(old.left)
    <2>1. old \in Entry /\ old.left \in Nat
        BY Zenon DEF EntriesOK, Entry
    <2>2. n \in Nat
        BY <2>1 DEF before
    <2>3. policies'[k] = [old EXCEPT !.left = n]
        BY Zenon, <1>1
    <2> HIDE DEF old, n
    <2>4. /\ policies'[k] \in Entry /\ policies'[k].left = n
          /\ policies'[k].applied = old.applied /\ policies'[k].taken = old.taken
          /\ policies'[k].seq = old.seq /\ policies'[k].owner = old.owner
        BY Zenon, <2>1, <2>2, <2>3 DEF Entry
    <2> QED
        BY Zenon, <2>4 DEF old, n
<1>3. DOMAIN policies' = DOMAIN policies /\ policies' = [k \in DOMAIN policies |-> policies'[k]]
    BY Zenon, <1>1
<1>4. EntriesOK(policies')
    BY Zenon, <1>2, <1>3 DEF EntriesOK
<1> QED
    BY Zenon, <1>2, <1>3, <1>4

\* A packet that is forwarded: entries may be taken away, expired ones only.
LEMMA ForwardIs ==
    ASSUME EntriesOK(policies), Forward
    PROVE  /\ PartOf(policies', policies) /\ EntriesOK(policies')
           /\ \A k \in DOMAIN policies : k \notin DOMAIN policies' => ~(policies[k].left > 0)
           /\ treated' = treated \/ Lost(policies')
<1>0. policies = [k \in DOMAIN policies |-> policies[k]]
    BY Zenon DEF EntriesOK
<1>1. PartOf(policies, policies)
    BY Zenon, <1>0 DEF PartOf
<1>2. CASE policies' = policies /\ treated' = treated
    BY Zenon, <1>1, <1>2
<1>3. CASE policies' = pruneIfDue(policies) /\ Lost(policies')
    <2>1. /\ PartOf(policies', policies)
          /\ \A k \in DOMAIN policies : k \notin DOMAIN policies' => policies[k].left = 0
        BY Zenon, <1>0, <1>3, PruneIsPart
    <2>2. \A k \in DOMAIN policies : policies[k].left = 0 => ~(policies[k].left > 0)
        OBVIOUS
    <2> QED
        BY Zenon, <1>3, <2>1, <2>2, PartIsOK
<1>4. ASSUME NEW k, ~current(k), policies' = without(policies, {k}), treated' = treated
      PROVE  /\ PartOf(policies', policies) /\ EntriesOK(policies')
             /\ \A x \in DOMAIN policies : x \notin DOMAIN policies' => ~(policies[x].left > 0)
             /\ treated' = treated
    <2>1. PartOf(policies', policies) /\ DOMAIN policies' = DOMAIN policies \ {k}
        BY Zenon, <1>4, WithoutIsPart
    <2> QED
        BY Zenon, <1>4, <2>1, PartIsOK DEF current
<1>5. \/ policies' = policies /\ treated' = treated
      \/ policies' = pruneIfDue(policies) /\ Lost(policies')
      \/ \E k : ~current(k) /\ policies' = without(policies, {k}) /\ treated' = treated
    BY Zenon DEF Forward, observeHop, registryVars
<1> QED
    BY Zenon, <1>2, <1>3, <1>4, <1>5

-----------------------------------------------------------------------------
(* The first theorem: the batch                                            *)

TypeInv == ConnInv /\ BatchInv /\ EntriesOK(policies)

\* The types hold at the start.
LEMMA TypesAtInit == Init => TypeInv
<1> SUFFICES ASSUME Init PROVE TypeInv
    BY Zenon
<1>1. Idle \in Socket /\ Idle.st = "idle" /\ Idle.port = None
    BY Zenon DEF Idle, Socket, Stages, Modes, Shapes
<1>2. conn = [c \in Conns |-> Idle]
    BY Zenon DEF Init
<1>3. ConnInv
    BY Zenon, <1>1, <1>2 DEF ConnInv
<1>4. queue \in Seq(Packet) /\ loop = AtRead
    BY DEF Init
<1>5. BatchInv
    BY <1>4, AtReadIs DEF BatchInv
<1>6. policies = <<>> /\ DOMAIN policies = {}
    BY DEF Init
<1>7. EntriesOK(policies)
    BY <1>6 DEF EntriesOK
<1> QED
    BY Zenon, <1>3, <1>5, <1>7 DEF TypeInv

\* The relay's steps: those that leave the registry alone, arm() and
\* consumeApplied().
LEMMA RelayKeepsTypes ==
    ASSUME TypeInv, NEW c \in Conns, Relay(c)
    PROVE  TypeInv'
<1>1. ConnInv /\ BatchInv /\ EntriesOK(policies) /\ queue \in Seq(Packet)
    BY Zenon DEF TypeInv, BatchInv
<1>2. ConnInv' /\ queue' \in Seq(Packet) /\ loop' = loop /\ running' = running
    BY Zenon, <1>1, RelayEnqueues
<1>3. BatchInv'
    BY Zenon, <1>1, <1>2 DEF BatchInv
<1>4. EntriesOK(policies')
    <2>1. CASE Arm(c)
        <3>1. conn[c].port # None
            BY Zenon, <1>1, <2>1 DEF Arm, ConnInv
        <3>2. policies' = policies \/ arm(c)
            BY Zenon, <2>1 DEF Arm, registryVars
        <3> QED
            BY Zenon, <1>1, <3>1, <3>2, ArmIs
    <2>2. CASE Consume(c)
        <3>1. policies' = policies \/ policies' = without(policies, {conn[c].port})
            BY Zenon, <2>2 DEF Consume, consumeApplied
        <3>2. PartOf(without(policies, {conn[c].port}), policies)
            BY Zenon, WithoutIsPart
        <3> QED
            BY Zenon, <1>1, <3>1, <3>2, PartIsOK
    <2>3. CASE \/ Dial(c) \/ SynAck(c) \/ Write(c) \/ Retransmit(c) \/ ServerHello(c)
               \/ Close(c) \/ Release(c)
        <3>1. policies' = policies
            BY Zenon, <2>3 DEF Dial, SynAck, Write, Retransmit, ServerHello, Close, Release,
                        registryVars
        <3> QED
            BY Zenon, <1>1, <3>1
    <2> QED
        BY Zenon, <2>1, <2>2, <2>3 DEF Relay
<1> QED
    BY Zenon, <1>2, <1>3, <1>4 DEF TypeInv

\* The steps of the packet loop.
LEMMA LoopKeepsTypes ==
    ASSUME TypeInv, LoopStep \/ LoopError
    PROVE  TypeInv'
<1>1. ConnInv /\ BatchInv /\ EntriesOK(policies)
    BY Zenon DEF TypeInv
<1>2. CASE Loop \/ Recv \/ RecvShut \/ RecvFails \/ BatchBroken
    <2>1. conn' = conn /\ policies' = policies
        BY Zenon, <1>2 DEF Loop, Recv, RecvShut, RecvFails, BatchBroken, relayVars, registryVars
    <2>2. BatchInv'
        BY Zenon, <1>1, <1>2, ReadKeepsBatch
    <2> QED
        BY Zenon, <1>1, <2>1, <2>2 DEF TypeInv, ConnInv
<1>3. CASE Forward \/ Take \/ Transform
    <2>1. conn' = conn
        BY Zenon, <1>3 DEF Forward, Take, Transform, relayVars
    <2>2. BatchInv'
        BY Zenon, <1>1, <1>3, ProcessKeepsBatch
    <2>3. Transform => policies' = policies \/ \E k : noteApplied(k)
        BY Zenon DEF Transform
    <2>4. EntriesOK(policies')
        BY Zenon, <1>1, <1>3, <2>3, ForwardIs, TakeIs, NoteIs
    <2> QED
        BY Zenon, <1>1, <2>1, <2>2, <2>4 DEF TypeInv, ConnInv
<1>4. CASE SendBatch \/ SendBatchFails \/ SendOne \/ SendOneFails
    <2>1. policies' = policies
        BY Zenon, <1>4 DEF SendBatch, SendBatchFails, SendOne, SendOneFails, registryVars
    <2>2. BatchInv'
        BY Zenon, <1>1, <1>4, SendKeepsBatch
    <2>3. conn' = conn \/ \E I : Delivered(I)
        BY Zenon, <1>4 DEF SendBatch, SendBatchFails, SendOne, SendOneFails, relayVars
    <2>4. ConnInv'
        <3>1. CASE conn' = conn
            BY Zenon, <1>1, <3>1 DEF ConnInv
        <3>2. CASE \E I : Delivered(I)
            BY Zenon, <1>1, <3>2, DeliveredIs
        <3> QED
            BY Zenon, <2>3, <3>1, <3>2
    <2> QED
        BY Zenon, <1>1, <2>1, <2>2, <2>4 DEF TypeInv
<1> QED
    BY Zenon, <1>2, <1>3, <1>4 DEF LoopStep, LoopError

\* stop(), the join and the clock.
LEMMA OwnerKeepsTypes ==
    ASSUME TypeInv, Stop \/ Shutdown \/ Join \/ Tick
    PROVE  TypeInv'
<1>1. ConnInv /\ BatchInv /\ EntriesOK(policies)
    BY Zenon DEF TypeInv
<1>2. conn' = conn /\ loop' = loop
    BY Zenon DEF Stop, Shutdown, Join, Tick, relayVars
<1>3. ConnInv'
    BY Zenon, <1>1, <1>2 DEF ConnInv
<1>4. CASE Stop
    <2>1. queue' = queue /\ policies' = policies /\ running' = FALSE
        BY Zenon, <1>4 DEF Stop, registryVars
    <2> QED
        BY Zenon, <1>1, <1>2, <1>3, <2>1 DEF TypeInv, BatchInv
<1>5. CASE Shutdown
    <2>1. queue' = queue /\ policies' = policies /\ running' = running
        BY Zenon, <1>5 DEF Shutdown, registryVars
    <2> QED
        BY Zenon, <1>1, <1>2, <1>3, <2>1 DEF TypeInv, BatchInv
<1>6. CASE Join
    <2>1. queue' = <<>> /\ policies' = <<>> /\ running' = running
        BY Zenon, <1>6 DEF Join
    <2>2. DOMAIN policies' = {} /\ queue' \in Seq(Packet)
        BY <2>1
    <2>3. EntriesOK(policies')
        BY <2>1, <2>2 DEF EntriesOK
    <2> QED
        BY Zenon, <1>1, <1>2, <1>3, <2>1, <2>2, <2>3 DEF TypeInv, BatchInv
<1>7. CASE Tick
    <2>1. queue' = queue /\ running' = running
        BY Zenon, <1>7 DEF Tick, driverVars
    <2>2. EntriesOK(policies')
        BY Zenon, <1>1, <1>7, TickIs
    <2> QED
        BY Zenon, <1>1, <1>2, <1>3, <2>1, <2>2 DEF TypeInv, BatchInv
<1> QED
    BY Zenon, <1>4, <1>5, <1>6, <1>7

\* Every step keeps the types.
LEMMA TypesKept ==
    ASSUME TypeInv, [Next]_vars
    PROVE  TypeInv'
<1>1. CASE UNCHANGED vars
    BY Zenon, <1>1 DEF vars, relayVars, registryVars, driverVars, TypeInv, ConnInv, BatchInv
<1> QED
    BY Zenon, <1>1, RelayKeepsTypes, LoopKeepsTypes, OwnerKeepsTypes DEF Next

\* The types are an invariant.
LEMMA TypesHold == Spec => []TypeInv
BY TypesAtInit, TypesKept, PTL DEF Spec

\* Every packet of a batch gets a send whatever became of its neighbours, and
\* exactly one when the driver's count could be trusted, for every batch size
\* and however often sends fail (the resumption in run()).
THEOREM BatchTheorem == Spec => []EveryPacketIsSent
<1>1. TypeInv => EveryPacketIsSent
    <2> SUFFICES ASSUME BatchInv, loop.at = "read", running
                 PROVE  \A i \in DOMAIN loop.tries :
                           loop.tries[i] >= 1 /\ (loop.exact => loop.tries[i] = 1)
        BY Zenon DEF TypeInv, EveryPacketIsSent
    <2>1. /\ loop.tries \in Seq(Nat) /\ Len(loop.tries) = Len(loop.out)
          /\ \A i \in 1..Len(loop.out) :
               loop.tries[i] >= 1 /\ (loop.exact = TRUE => loop.tries[i] = 1)
        BY Zenon DEF BatchInv, Batch
    <2>2. DOMAIN loop.tries = 1..Len(loop.out)
        BY <2>1
    <2>3. loop.exact \in BOOLEAN
        BY Zenon DEF BatchInv, Batch
    <2> QED
        BY Zenon, <2>1, <2>2, <2>3
<1> QED
    BY <1>1, TypesHold, PTL

-----------------------------------------------------------------------------
(* The order of the packets                                                *)

\* The packets between the driver and the sends.
Pipe == {queue[i] : i \in 1..Len(queue)} \cup {loop.in[i] : i \in 1..Len(loop.in)}

helloOf(c) == [conn |-> c, kind |-> "hello", port |-> conn[c].port, shape |-> conn[c].shape]
SentStages == {"sent", "answered", "done", "closing", "gone"}

\* A packet is of a connection that has dialled, a hello of one that has
\* written it; while the connection has its port the hello carries that port.
Fits(p) ==
    /\ conn[p.conn].st # "idle"
    /\ p.kind = "hello" =>
         /\ conn[p.conn].st \in SentStages
         /\ conn[p.conn].port # None => p = helloOf(p.conn)

PipeInv ==
    /\ \A p \in Pipe : Fits(p)
    /\ \A p, q \in Pipe : p.kind = "hello" /\ q.kind = "hello" /\ p.conn = q.conn => p = q
    /\ \A j \in 1..Len(loop.out) : conn[loop.out[j].conn].st # "idle"

SynOf(p, e) == p.conn = e /\ p.kind = "syn"

\* Connection e has the port of hello h, which is of another connection.
Rival(h, e) == h.kind = "hello" /\ e # h.conn /\ conn[e].port = h.port

\* The SYN of e has not left.
Waiting(e) ==
    /\ conn[e].st \in {"dialing", "closing"}
    /\ \A j \in 1..Len(loop.out) : ~SynOf(loop.out[j], e)

\* The queue is in order and a port is free only when nothing more is sent
\* from it: as long as a hello of an earlier connection is under way, a later
\* connection on its port still waits for its SYN, which is behind the hello.
OrderInv ==
    /\ \A i \in 1..Len(queue), e \in Conns : Rival(queue[i], e) =>
         /\ Waiting(e)
         /\ \A j \in 1..Len(loop.in) : ~SynOf(loop.in[j], e)
         /\ \A j \in 1..(i - 1) : ~SynOf(queue[j], e)
    /\ \A i \in 1..Len(loop.in), e \in Conns : Rival(loop.in[i], e) =>
         /\ Waiting(e)
         /\ \A j \in 1..(i - 1) : ~SynOf(loop.in[j], e)

FlowInv == TypeInv /\ PipeInv /\ OrderInv

\* What a step may do to the connections when it is not a dial.
Goes(d) ==
    /\ conn[d].st # "idle" => conn'[d].st # "idle"
    /\ conn[d].st \in SentStages => conn'[d].st \in SentStages
    /\ conn'[d].port # None => conn'[d].port = conn[d].port /\ conn'[d].shape = conn[d].shape
    /\ \/ conn'[d].port = None
       \/ conn[d].st \in {"dialing", "closing"} => conn'[d].st \in {"dialing", "closing"}
       \/ \E j \in 1..Len(loop.out) : SynOf(loop.out[j], d)

\* In a state that has the types, the packets of the pipe are packets.
LEMMA PipeTypes ==
    ASSUME TypeInv
    PROVE  /\ queue \in Seq(Packet) /\ Len(queue) \in Nat
           /\ loop.in \in Seq(Packet) /\ Len(loop.in) \in Nat
           /\ loop.out \in Seq(Sending) /\ Len(loop.out) \in Nat
           /\ \A i \in 1..Len(queue) : queue[i] \in Packet /\ queue[i] \in Pipe
           /\ \A i \in 1..Len(loop.in) : loop.in[i] \in Packet /\ loop.in[i] \in Pipe
           /\ \A j \in 1..Len(loop.out) : loop.out[j] \in Sending
           /\ Pipe \subseteq Packet
<1>1. queue \in Seq(Packet) /\ loop.in \in Seq(Packet) /\ loop.out \in Seq(Sending)
    BY Zenon DEF TypeInv, BatchInv, Batch
<1> DEFINE a == loop.in
           b == loop.out
<1>2. queue \in Seq(Packet) /\ a \in Seq(Packet) /\ b \in Seq(Sending)
    BY Zenon, <1>1
<1> HIDE DEF a, b
<1>3. /\ Len(queue) \in Nat /\ Len(a) \in Nat /\ Len(b) \in Nat
      /\ \A i \in 1..Len(queue) : queue[i] \in Packet
      /\ \A i \in 1..Len(a) : a[i] \in Packet
      /\ \A j \in 1..Len(b) : b[j] \in Sending
    BY <1>2
<1> QED
    BY Zenon, <1>1, <1>3 DEF Pipe, a, b

\* Steps that add nothing to the pipe and do not dial keep what fits.
LEMMA PipeShrinks ==
    ASSUME TypeInv, PipeInv, \A d \in Conns : Goes(d),
           Pipe' \subseteq Pipe,
           \A j \in 1..Len(loop'.out) : \/ \E i \in 1..Len(loop.out) : loop'.out[j].conn = loop.out[i].conn
                                        \/ \E p \in Pipe : loop'.out[j].conn = p.conn
    PROVE  PipeInv'
<1>1. Pipe \subseteq Packet
    BY Zenon, PipeTypes
<1>2. \A p \in Pipe : p.conn \in Conns
    BY Zenon, <1>1 DEF Packet
<1>3. \A j \in 1..Len(loop.out) : loop.out[j].conn \in Conns
    BY Zenon, PipeTypes DEF Sending
<1>4. ASSUME NEW p \in Pipe
      PROVE  Fits(p)'
    <2>1. Goes(p.conn) /\ Fits(p)
        BY Zenon, <1>2, <1>4 DEF PipeInv
    <2> QED
        BY Zenon, <2>1 DEF Goes, Fits, helloOf
<1>5. \A j \in 1..Len(loop'.out) : conn'[loop'.out[j].conn].st # "idle"
    <2> TAKE j \in 1..Len(loop'.out)
    <2>1. CASE \E i \in 1..Len(loop.out) : loop'.out[j].conn = loop.out[i].conn
        <3>1. PICK i \in 1..Len(loop.out) : loop'.out[j].conn = loop.out[i].conn
            BY Zenon, <2>1
        <3>2. Goes(loop.out[i].conn) /\ conn[loop.out[i].conn].st # "idle"
            BY Zenon, <1>3 DEF PipeInv
        <3> QED
            BY Zenon, <3>1, <3>2 DEF Goes
    <2>2. CASE \E p \in Pipe : loop'.out[j].conn = p.conn
        <3>1. PICK p \in Pipe : loop'.out[j].conn = p.conn
            BY Zenon, <2>2
        <3>2. Goes(p.conn) /\ conn[p.conn].st # "idle"
            BY Zenon, <1>2 DEF PipeInv, Fits
        <3> QED
            BY Zenon, <3>1, <3>2 DEF Goes
    <2> QED
        BY Zenon, <2>1, <2>2
<1> QED
    BY Zenon, <1>4, <1>5 DEF PipeInv

\* Steps that leave the pipe as it is or drop it keep the order.
LEMMA OrderStays ==
    ASSUME TypeInv, OrderInv, \A d \in Conns : Goes(d),
           queue' = queue \/ queue' = <<>>,
           \/ loop'.in = loop.in /\ loop'.out = loop.out
           \/ loop'.in = <<>> /\ loop'.out = <<>>
    PROVE  OrderInv'
<1>1. ASSUME NEW h \in Packet, NEW e \in Conns, Rival(h, e)'
      PROVE  /\ Rival(h, e)
             /\ Waiting(e) => Waiting(e)'
    <2>1. h.port \in Ports /\ h.port # None
        BY Zenon, PacketConstants DEF Packet
    <2>2. conn'[e].port # None /\ conn'[e].port = conn[e].port
        BY Zenon, <1>1, <2>1 DEF Goes, Rival
    <2>3. Rival(h, e)
        BY Zenon, <1>1, <2>2 DEF Rival
    <2>4. ASSUME Waiting(e)
          PROVE  Waiting(e)'
        <3>1. conn'[e].st \in {"dialing", "closing"}
            BY Zenon, <2>2, <2>4 DEF Waiting, Goes
        <3>2. \A j \in 1..Len(loop'.out) : ~SynOf(loop'.out[j], e)
            BY <2>4 DEF Waiting
        <3> QED
            BY Zenon, <3>1, <3>2 DEF Waiting
    <2> QED
        BY Zenon, <2>3, <2>4
<1>2. \A i \in 1..Len(queue') : /\ i \in 1..Len(queue) /\ queue'[i] = queue[i]
                                /\ queue'[i] \in Packet /\ queue' = queue
    BY PipeTypes
<1>3. \A i \in 1..Len(loop'.in) : /\ i \in 1..Len(loop.in) /\ loop'.in[i] = loop.in[i]
                                  /\ loop'.in[i] \in Packet /\ loop'.in = loop.in
    BY PipeTypes
<1>4. ASSUME NEW i \in 1..Len(queue'), NEW e \in Conns, Rival(queue[i], e)'
      PROVE  /\ Waiting(e)'
             /\ \A j \in 1..Len(loop'.in) : ~SynOf(loop'.in[j], e)
             /\ \A j \in 1..(i - 1) : ~SynOf(queue'[j], e)
    <2>1. i \in 1..Len(queue) /\ queue'[i] = queue[i] /\ queue[i] \in Packet /\ queue' = queue
        BY Zenon, <1>2
    <2>2. Rival(queue[i], e) /\ (Waiting(e) => Waiting(e)')
        BY Zenon, <1>1, <1>4, <2>1 DEF Rival
    <2> QED
        BY Zenon, <1>3, <2>1, <2>2 DEF OrderInv
<1>5. ASSUME NEW i \in 1..Len(loop'.in), NEW e \in Conns, Rival(loop.in[i], e)'
      PROVE  /\ Waiting(e)'
             /\ \A j \in 1..(i - 1) : ~SynOf(loop'.in[j], e)
    <2>1. i \in 1..Len(loop.in) /\ loop'.in[i] = loop.in[i] /\ loop.in[i] \in Packet
          /\ loop'.in = loop.in
        BY Zenon, <1>3
    <2>2. Rival(loop.in[i], e) /\ (Waiting(e) => Waiting(e)')
        BY Zenon, <1>1, <1>5, <2>1 DEF Rival
    <2> QED
        BY Zenon, <2>1, <2>2 DEF OrderInv
<1> QED
    BY Zenon, <1>4, <1>5 DEF OrderInv

\* A packet at the end of the queue.
LEMMA AppendsTo ==
    ASSUME TypeInv, NEW q \in Packet, queue' = Append(queue, q), loop' = loop
    PROVE  /\ Pipe' = Pipe \cup {q}
           /\ Len(queue') = Len(queue) + 1 /\ queue'[Len(queue) + 1] = q
           /\ \A i \in 1..Len(queue) : queue'[i] = queue[i]
<1>1. queue \in Seq(Packet) /\ Len(queue) \in Nat
    BY Zenon, PipeTypes
<1>2. /\ Len(queue') = Len(queue) + 1 /\ queue'[Len(queue) + 1] = q
      /\ \A i \in 1..Len(queue) : queue'[i] = queue[i]
    BY <1>1, AppendedSequence
<1>3. {queue'[i] : i \in 1..Len(queue')} = {queue[i] : i \in 1..Len(queue)} \cup {q}
    <2>1. 1..Len(queue') = 1..Len(queue) \cup {Len(queue) + 1}
        BY <1>1, <1>2
    <2> QED
        BY <1>2, <2>1
<1> QED
    BY <1>2, <1>3 DEF Pipe

\* A step that adds packet q, of a connection that has dialled, at the end.
LEMMA FlowGrows ==
    ASSUME FlowInv, TypeInv', \A d \in Conns : Goes(d), loop' = loop,
           NEW q \in Packet, queue' = Append(queue, q),
           conn[q.conn].st # "idle",
           q.kind = "hello" => conn'[q.conn].st \in SentStages /\ conn'[q.conn].port # None
                               /\ q = helloOf(q.conn)'
    PROVE  FlowInv'
<1>1. TypeInv /\ PipeInv /\ OrderInv
    BY Zenon DEF FlowInv
<1>2. /\ Pipe' = Pipe \cup {q}
      /\ Len(queue') = Len(queue) + 1 /\ queue'[Len(queue) + 1] = q
      /\ \A i \in 1..Len(queue) : queue'[i] = queue[i]
    BY Zenon, <1>1, AppendsTo
<1>3. q.conn \in Conns /\ q.port # None
    BY Zenon, PacketConstants DEF Packet
<1>4. /\ Pipe \subseteq Packet /\ Len(queue) \in Nat
      /\ \A i \in 1..Len(queue) : queue[i] \in Packet
      /\ \A i \in 1..Len(loop.in) : loop.in[i] \in Packet
      /\ \A j \in 1..Len(loop.out) : loop.out[j] \in Sending
    BY Zenon, <1>1, PipeTypes
<1>5. \A p \in Pipe : p.conn \in Conns
    BY Zenon, <1>4 DEF Packet
<1>6. PipeInv'
    <2>1. ASSUME NEW p \in Pipe
          PROVE  Fits(p)'
        <3>1. Goes(p.conn) /\ Fits(p)
            BY Zenon, <1>1, <1>5, <2>1 DEF PipeInv
        <3> QED
            BY Zenon, <3>1 DEF Goes, Fits, helloOf
    <2>2. Fits(q)'
        <3>1. Goes(q.conn)
            BY Zenon, <1>3
        <3> QED
            BY Zenon, <3>1 DEF Goes, Fits
    <2>3. ASSUME NEW p \in Pipe, p.kind = "hello", q.kind = "hello", p.conn = q.conn
          PROVE  p = q
        BY Zenon, <2>1, <2>3 DEF Fits
    <2>4. \A p, r \in Pipe' : p.kind = "hello" /\ r.kind = "hello" /\ p.conn = r.conn => p = r
        BY <1>1, <1>2, <2>3 DEF PipeInv
    <2>5. \A j \in 1..Len(loop'.out) : conn'[loop'.out[j].conn].st # "idle"
        BY Zenon, <1>1, <1>4 DEF PipeInv, Goes, Sending
    <2> QED
        BY Zenon, <1>2, <2>1, <2>2, <2>4, <2>5 DEF PipeInv
<1>7. ASSUME NEW h \in Packet, NEW e \in Conns, Rival(h, e)'
      PROVE  /\ Rival(h, e)
             /\ Waiting(e) => Waiting(e)'
    <2>1. h.port \in Ports /\ h.port # None
        BY Zenon, PacketConstants DEF Packet
    <2>2. conn'[e].port # None /\ conn'[e].port = conn[e].port
        BY Zenon, <1>7, <2>1 DEF Goes, Rival
    <2> QED
        BY Zenon, <1>7, <2>2 DEF Rival, Waiting, Goes
<1>8. \A e \in Conns : ~Rival(q, e)'
    <2> SUFFICES ASSUME NEW e \in Conns, Rival(q, e)' PROVE FALSE
        BY Zenon
    <2>1. /\ q.kind = "hello" /\ e # q.conn /\ conn'[e].port = q.port
          /\ conn'[q.conn].port = q.port
        BY DEF Rival, helloOf
    <2> QED
        BY Zenon, <1>3, <2>1 DEF TypeInv, ConnInv
<1>9. ASSUME NEW i \in 1..Len(queue'), NEW e \in Conns, Rival(queue[i], e)'
      PROVE  /\ Waiting(e)'
             /\ \A j \in 1..Len(loop'.in) : ~SynOf(loop'.in[j], e)
             /\ \A j \in 1..(i - 1) : ~SynOf(queue'[j], e)
    <2>1. i \in 1..Len(queue)
        <3>1. i # Len(queue) + 1
            BY Zenon, <1>2, <1>8, <1>9 DEF Rival
        <3> QED
            BY <1>2, <1>4, <3>1
    <2>2. queue'[i] = queue[i] /\ queue[i] \in Packet
        BY Zenon, <1>2, <1>4, <2>1
    <2>3. Rival(queue[i], e) /\ (Waiting(e) => Waiting(e)')
        BY Zenon, <1>7, <1>9, <2>2 DEF Rival
    <2>4. \A j \in 1..(i - 1) : j \in 1..Len(queue)
        BY <1>4, <2>1
    <2> QED
        BY Zenon, <1>1, <1>2, <2>1, <2>3, <2>4 DEF OrderInv
<1>10. ASSUME NEW i \in 1..Len(loop'.in), NEW e \in Conns, Rival(loop.in[i], e)'
       PROVE  /\ Waiting(e)'
              /\ \A j \in 1..(i - 1) : ~SynOf(loop'.in[j], e)
    <2>1. i \in 1..Len(loop.in) /\ loop.in[i] \in Packet
        BY Zenon, <1>4
    <2>2. Rival(loop.in[i], e) /\ (Waiting(e) => Waiting(e)')
        BY Zenon, <1>7, <1>10, <2>1 DEF Rival
    <2> QED
        BY Zenon, <1>1, <2>1, <2>2 DEF OrderInv
<1>11. OrderInv'
    BY Zenon, <1>9, <1>10 DEF OrderInv
<1> QED
    BY Zenon, <1>6, <1>11 DEF FlowInv

\* A dial: the new connection may have the port of a hello that is still
\* under way, and its SYN goes behind it.
LEMMA DialKeepsFlow ==
    ASSUME FlowInv, TypeInv', NEW c \in Conns, Dial(c)
    PROVE  FlowInv'
<1>1. TypeInv /\ PipeInv /\ OrderInv /\ ConnInv /\ queue \in Seq(Packet)
    BY Zenon DEF FlowInv, TypeInv, BatchInv
<1>2. /\ conn[c].st = "idle" /\ conn'[c].st = "dialing" /\ conn'[c].port \in Ports
      /\ \A d \in Conns : d # c => conn'[d] = conn[d]
    BY Zenon, <1>1, DialIs
<1>3. Enqueue(c, "syn") /\ loop' = loop
    BY Zenon DEF Dial
<1>4. PICK q \in Packet : queue' = Append(queue, q) /\ q.conn = c /\ q.kind = "syn"
    BY Zenon, <1>1, <1>2, <1>3, EnqueueIs DEF Kinds
<1>5. /\ Pipe' = Pipe \cup {q}
      /\ Len(queue') = Len(queue) + 1 /\ queue'[Len(queue) + 1] = q
      /\ \A i \in 1..Len(queue) : queue'[i] = queue[i]
    BY Zenon, <1>1, <1>3, <1>4, AppendsTo
<1>6. /\ Pipe \subseteq Packet /\ Len(queue) \in Nat
      /\ \A i \in 1..Len(queue) : queue[i] \in Packet /\ queue[i] \in Pipe
      /\ \A i \in 1..Len(loop.in) : loop.in[i] \in Packet /\ loop.in[i] \in Pipe
      /\ \A j \in 1..Len(loop.out) : loop.out[j] \in Sending
    BY Zenon, <1>1, PipeTypes
<1>7. \A p \in Pipe : p.conn \in Conns /\ p.conn # c /\ conn'[p.conn] = conn[p.conn]
    BY Zenon, <1>1, <1>2, <1>6 DEF PipeInv, Fits, Packet
<1>8. \A j \in 1..Len(loop.out) : loop.out[j].conn \in Conns /\ loop.out[j].conn # c
    BY Zenon, <1>1, <1>2, <1>6 DEF PipeInv, Sending
<1>9. PipeInv'
    <2>1. \A p \in Pipe : Fits(p)'
        BY Zenon, <1>1, <1>7 DEF PipeInv, Fits, helloOf
    <2>2. Fits(q)'
        BY Zenon, <1>2, <1>4 DEF Fits
    <2>3. \A j \in 1..Len(loop'.out) : conn'[loop'.out[j].conn].st # "idle"
        BY Zenon, <1>1, <1>2, <1>3, <1>8 DEF PipeInv
    <2> QED
        BY Zenon, <1>1, <1>4, <1>5, <2>1, <2>2, <2>3 DEF PipeInv
<1>10. Waiting(c)'
    BY Zenon, <1>2, <1>3, <1>8 DEF Waiting, SynOf
<1>11. ASSUME NEW h, NEW e \in Conns, e # c
       PROVE  (Rival(h, e)' <=> Rival(h, e)) /\ (Waiting(e)' <=> Waiting(e))
    <2>1. conn'[e] = conn[e]
        BY Zenon, <1>2, <1>11
    <2> QED
        BY Zenon, <1>3, <2>1 DEF Rival, Waiting
<1>12. ASSUME NEW i \in 1..Len(queue'), NEW e \in Conns, Rival(queue[i], e)'
       PROVE  /\ Waiting(e)'
              /\ \A j \in 1..Len(loop'.in) : ~SynOf(loop'.in[j], e)
              /\ \A j \in 1..(i - 1) : ~SynOf(queue'[j], e)
    <2>1. i \in 1..Len(queue)
        <3>1. i # Len(queue) + 1
            BY Zenon, <1>4, <1>5, <1>12 DEF Rival
        <3> QED
            BY <1>5, <1>6, <3>1
    <2>2. queue'[i] = queue[i]
        BY Zenon, <1>5, <2>1
    <2>3. \A j \in 1..(i - 1) : j \in 1..Len(queue) /\ queue'[j] = queue[j]
        BY <1>5, <1>6, <2>1
    <2>4. CASE e = c
        <3>1. \A j \in 1..Len(queue) : ~SynOf(queue[j], c)
            BY Zenon, <1>6, <1>7 DEF SynOf
        <3>2. \A j \in 1..Len(loop'.in) : ~SynOf(loop'.in[j], c)
            BY Zenon, <1>3, <1>6, <1>7 DEF SynOf
        <3> QED
            BY Zenon, <1>10, <2>3, <2>4, <3>1, <3>2
    <2>5. CASE e # c
        <3>1. Rival(queue[i], e)
            BY Zenon, <1>11, <1>12, <2>2, <2>5 DEF Rival
        <3> QED
            BY Zenon, <1>1, <1>3, <1>11, <2>1, <2>3, <2>5, <3>1 DEF OrderInv
    <2> QED
        BY Zenon, <2>4, <2>5
<1>13. ASSUME NEW i \in 1..Len(loop'.in), NEW e \in Conns, Rival(loop.in[i], e)'
       PROVE  /\ Waiting(e)'
              /\ \A j \in 1..(i - 1) : ~SynOf(loop'.in[j], e)
    <2>0. i \in 1..Len(loop.in) /\ \A j \in 1..(i - 1) : j \in 1..Len(loop.in)
        BY <1>1, <1>3, PipeTypes
    <2>1. CASE e = c
        BY Zenon, <1>3, <1>6, <1>7, <1>10, <2>0, <2>1 DEF SynOf
    <2>2. CASE e # c
        <3>1. Rival(loop.in[i], e)
            BY Zenon, <1>3, <1>11, <1>13, <2>2 DEF Rival
        <3> QED
            BY Zenon, <1>1, <1>3, <1>11, <2>0, <2>2, <3>1 DEF OrderInv
    <2> QED
        BY Zenon, <2>1, <2>2
<1>14. OrderInv'
    BY Zenon, <1>12, <1>13 DEF OrderInv
<1> QED
    BY Zenon, <1>9, <1>14 DEF FlowInv

\* The steps of the relay that are no dial.
LEMMA RelayGoes ==
    ASSUME TypeInv, NEW c \in Conns, Relay(c), ~Dial(c)
    PROVE  \A d \in Conns : Goes(d)
<1>1. ConnInv
    BY Zenon DEF TypeInv
<1>2. ASSUME NEW st \in Stages, St(c, st), conn[c].st \notin {"idle", "gone"},
             \/ st = "closing"
             \/ conn[c].st # "dialing" /\ conn[c].st # "closing" /\ st \notin {"idle", "gone"}
                /\ (conn[c].st \in SentStages => st \in SentStages)
      PROVE  \A d \in Conns : Goes(d)
    <2>1. /\ conn'[c].st = st /\ conn'[c].port = conn[c].port /\ conn'[c].shape = conn[c].shape
          /\ \A d \in Conns : d # c => conn'[d] = conn[d]
        BY Zenon, <1>1, <1>2, StIs
    <2> QED
        BY Zenon, <1>2, <2>1 DEF Goes, SentStages
<1>3. CASE SynAck(c) \/ ServerHello(c) \/ Arm(c) \/ Consume(c) \/ Close(c)
    <2>1. \/ St(c, "synack") /\ conn[c].st = "syn"
          \/ St(c, "sent") /\ conn[c].st = "sent"
          \/ St(c, "armed") /\ conn[c].st = "connected"
          \/ St(c, "done") /\ conn[c].st = "answered"
          \/ St(c, "closing") /\ conn[c].st \notin {"idle", "closing", "gone"}
        BY Zenon, <1>3 DEF SynAck, ServerHello, Arm, Consume, Close
    <2> QED
        BY Zenon, <1>2, <2>1 DEF Stages, SentStages
<1>4. CASE Write(c) \/ Retransmit(c)
    <2>1. /\ conn[c].st \in {"armed", "sent", "closing"}
          /\ conn'[c].st = IF conn[c].st = "armed" THEN "sent" ELSE conn[c].st
          /\ conn'[c].port = conn[c].port /\ conn'[c].shape = conn[c].shape
          /\ \A d \in Conns : d # c => conn'[d] = conn[d]
        BY Zenon, <1>1, <1>4, CopyIs
    <2> QED
        BY Zenon, <2>1 DEF Goes, SentStages
<1>5. CASE Release(c)
    <2>1. /\ conn'[c].st = "gone" /\ conn'[c].port = None
          /\ \A d \in Conns : d # c => conn'[d] = conn[d]
        BY Zenon, <1>1, <1>5, ReleaseIs
    <2> QED
        BY Zenon, <2>1 DEF Goes, SentStages
<1> QED
    BY Zenon, <1>3, <1>4, <1>5 DEF Relay

\* The steps of the relay keep the order: what they send goes to the end.
LEMMA RelayKeepsFlow ==
    ASSUME FlowInv, TypeInv', NEW c \in Conns, Relay(c)
    PROVE  FlowInv'
<1>1. TypeInv /\ PipeInv /\ OrderInv /\ ConnInv /\ queue \in Seq(Packet)
    BY DEF FlowInv, TypeInv, BatchInv
<1>2. loop' = loop
    BY Zenon, <1>1, RelayEnqueues
<1>3. CASE Dial(c)
    BY Zenon, <1>3, DialKeepsFlow
<1>4. CASE SynAck(c) \/ ServerHello(c)
    <2>1. \A d \in Conns : Goes(d)
        BY Zenon, <1>1, <1>4, RelayGoes DEF Dial, SynAck, ServerHello
    <2>2. PICK kind \in {"synack", "reply"} : Enqueue(c, kind) /\ conn[c].st \in {"syn", "sent"}
        BY Zenon, <1>4 DEF SynAck, ServerHello
    <2>3. conn'[c].port = conn[c].port
        <3>1. \E st \in {"synack", "sent"} : St(c, st)
            BY Zenon, <1>4 DEF SynAck, ServerHello
        <3> QED
            BY Zenon, <1>1, <2>2, <3>1, StIs DEF Stages
    <2>4. conn'[c].port \in Ports
        BY Zenon, <1>1, <2>2, <2>3 DEF ConnInv, Socket
    <2>5. PICK q \in Packet : queue' = Append(queue, q) /\ q.conn = c /\ q.kind = kind
        BY Zenon, <1>1, <2>2, <2>4, EnqueueIs DEF Kinds
    <2>6. conn[q.conn].st # "idle" /\ q.kind # "hello"
        BY Zenon, <2>2, <2>5
    <2> QED
        BY Zenon, <1>2, <2>1, <2>5, <2>6, FlowGrows
<1>5. CASE Write(c) \/ Retransmit(c)
    <2>1. \A d \in Conns : Goes(d)
        BY Zenon, <1>1, <1>5, RelayGoes DEF Dial, Write, Retransmit, Relay
    <2>2. /\ conn[c].st \in {"armed", "sent", "closing"}
          /\ conn'[c].st = IF conn[c].st = "armed" THEN "sent" ELSE conn[c].st
          /\ conn'[c].port = conn[c].port /\ conn'[c].shape = conn[c].shape
        BY Zenon, <1>1, <1>5, CopyIs
    <2>3. conn'[c].port \in Ports /\ conn'[c].port # None
        BY Zenon, <1>1, <2>2 DEF ConnInv, Socket
    <2>4. Enqueue(c, "hello")
        BY Zenon, <1>5 DEF Write, Retransmit
    <2>5. PICK q \in Packet :
            /\ queue' = Append(queue, q) /\ q.conn = c
            /\ q = [conn |-> c, kind |-> "hello", port |-> conn'[c].port, shape |-> conn[c].shape]
        BY Zenon, <1>1, <2>3, <2>4, EnqueueIs DEF Kinds
    <2>6. conn[q.conn].st # "idle" /\ conn'[q.conn].st \in SentStages /\ conn'[q.conn].port # None
        BY Zenon, <2>2, <2>3, <2>5 DEF SentStages
    <2>7. q = helloOf(q.conn)'
        BY Zenon, <2>2, <2>5 DEF helloOf
    <2> QED
        BY Zenon, <1>2, <2>1, <2>5, <2>6, <2>7, FlowGrows
<1>6. CASE Arm(c) \/ Consume(c) \/ Close(c) \/ Release(c)
    <2>1. \A d \in Conns : Goes(d)
        <3>1. ~Dial(c)
            BY Zenon, <1>6 DEF Dial, Arm, Consume, Close, Release
        <3> QED
            BY Zenon, <1>1, <3>1, RelayGoes
    <2>2. queue' = queue
        BY Zenon, <1>6 DEF Arm, Consume, Close, Release
    <2>3. Pipe' = Pipe
        BY Zenon, <1>2, <2>2 DEF Pipe
    <2>4. PipeInv'
        BY Zenon, <1>1, <1>2, <2>1, <2>3, PipeShrinks
    <2>5. OrderInv'
        BY Zenon, <1>1, <1>2, <2>1, <2>2, OrderStays
    <2> QED
        BY Zenon, <2>4, <2>5 DEF FlowInv
<1> QED
    BY Zenon, <1>3, <1>4, <1>5, <1>6 DEF Relay

\* Steps that leave the connections alone.
LEMMA SameGoes ==
    ASSUME conn' = conn
    PROVE  \A d \in Conns : Goes(d)
BY Zenon DEF Goes

\* The sends move connections on; a connection whose SYN leaves had it in the
\* batch, and then no hello of another connection with its port is under way.
LEMMA SendKeepsFlow ==
    ASSUME FlowInv, TypeInv', SendBatch \/ SendBatchFails \/ SendOne \/ SendOneFails
    PROVE  FlowInv' /\ Pipe' \subseteq Pipe /\ \A d \in Conns : Goes(d)
<1>1. TypeInv /\ PipeInv /\ OrderInv /\ ConnInv /\ BatchInv
    BY Zenon DEF FlowInv, TypeInv
<1>2. /\ queue' = queue
      /\ \/ loop'.in = loop.in /\ loop'.out = loop.out
         \/ loop'.in = <<>> /\ loop'.out = <<>>
    BY Zenon, <1>1, SendKeepsBatch
<1>3. Len(loop.out) \in Nat
    BY Zenon, <1>1, PipeTypes
<1>4. conn' = conn \/ \E I \in SUBSET (1..Len(loop.out)) : Delivered(I)
    <2>1. CASE SendBatch
        BY Zenon, <2>1 DEF SendBatch
    <2>2. CASE SendBatchFails
        <3>1. PICK n \in 0..(Len(loop.out) - 1) : Delivered(1..n)
            BY Zenon, <2>2 DEF SendBatchFails
        <3>2. 1..n \subseteq 1..Len(loop.out)
            BY <1>3
        <3> QED
            BY Zenon, <3>1, <3>2
    <2>3. CASE SendOne
        <3>1. loop.next \in 1..Len(loop.out) /\ Delivered({loop.next})
            BY Zenon, <1>1, <2>3 DEF SendOne, BatchInv
        <3> QED
            BY Zenon, <3>1
    <2>4. CASE SendOneFails
        BY Zenon, <2>4 DEF SendOneFails, relayVars
    <2> QED
        BY Zenon, <2>1, <2>2, <2>3, <2>4
<1>5. \A d \in Conns : Goes(d)
    <2>1. CASE conn' = conn
        BY Zenon, <2>1, SameGoes
    <2>2. CASE \E I \in SUBSET (1..Len(loop.out)) : Delivered(I)
        <3>1. PICK I \in SUBSET (1..Len(loop.out)) : Delivered(I)
            BY Zenon, <2>2
        <3>2. ASSUME NEW d \in Conns, Arrived(d, "syn", I)
              PROVE  \E j \in 1..Len(loop.out) : SynOf(loop.out[j], d)
            BY <3>1, <3>2 DEF Arrived, Output, SynOf
        <3>3. \A d \in Conns :
                /\ conn'[d].port = conn[d].port /\ conn'[d].shape = conn[d].shape
                /\ \/ conn'[d].st = conn[d].st
                   \/ conn[d].st = "dialing" /\ conn'[d].st = "syn" /\ Arrived(d, "syn", I)
                   \/ conn[d].st = "synack" /\ conn'[d].st = "connected"
                   \/ conn[d].st = "sent" /\ conn'[d].st = "answered"
            BY Zenon, <1>1, <3>1, DeliveredIs
        <3> QED
            BY Zenon, <3>2, <3>3 DEF Goes, SentStages
    <2> QED
        BY Zenon, <1>4, <2>1, <2>2
<1>6. Pipe' \subseteq Pipe
    <2>1. CASE loop'.in = loop.in
        BY Zenon, <1>2, <2>1 DEF Pipe
    <2>2. CASE loop'.in = <<>>
        <3>1. 1..Len(loop'.in) = {}
            BY <2>2
        <3> QED
            BY Zenon, <1>2, <3>1 DEF Pipe
    <2> QED
        BY Zenon, <1>2, <2>1, <2>2
<1>7. \A j \in 1..Len(loop'.out) : \E i \in 1..Len(loop.out) : loop'.out[j].conn = loop.out[i].conn
    <2>1. CASE loop'.out = <<>>
        <3>1. 1..Len(loop'.out) = {}
            BY <2>1
        <3> QED
            BY Zenon, <3>1
    <2> QED
        BY Zenon, <1>2, <2>1
<1>8. PipeInv'
    BY Zenon, <1>1, <1>5, <1>6, <1>7, PipeShrinks
<1>9. OrderInv'
    BY Zenon, <1>1, <1>2, <1>5, OrderStays
<1> QED
    BY Zenon, <1>5, <1>6, <1>8, <1>9 DEF FlowInv

\* A read moves the front of the queue to the batch.
LEMMA RecvKeepsFlow ==
    ASSUME FlowInv, TypeInv', Recv
    PROVE  FlowInv' /\ Pipe' \subseteq Pipe
<1>1. TypeInv /\ PipeInv /\ OrderInv /\ BatchInv
    BY Zenon DEF FlowInv, TypeInv
<1>2. conn' = conn /\ loop.at = "recv"
    BY Zenon DEF Recv, relayVars
<1>3. loop.out = <<>>
    BY Zenon, <1>1, <1>2 DEF BatchInv
<1>4. PICK n \in Nat :
        /\ n >= 1 /\ n <= Len(queue)
        /\ loop'.out = <<>> /\ Len(loop'.in) = n
        /\ Len(queue') = Len(queue) - n
        /\ \A i \in 1..n : loop'.in[i] = queue[i]
        /\ \A i \in 1..(Len(queue) - n) : queue'[i] = queue[n + i]
    BY Zenon, <1>1, RecvIs
<1>5. Len(queue) \in Nat
    BY Zenon, <1>1, PipeTypes
<1>6. /\ \A i \in 1..Len(loop'.in) : i \in 1..Len(queue) /\ loop'.in[i] = queue[i]
      /\ \A i \in 1..Len(queue') : n + i \in 1..Len(queue) /\ queue'[i] = queue[n + i]
    BY <1>4, <1>5
<1>7. 1..Len(loop'.out) = {} /\ 1..Len(loop.out) = {}
    BY <1>3, <1>4
<1>8. PipeInv' /\ Pipe' \subseteq Pipe
    <2>1. Pipe' \subseteq Pipe
        BY <1>6 DEF Pipe
    <2> QED
        BY Zenon, <1>1, <1>2, <1>7, <2>1, SameGoes, PipeShrinks
<1>9. \A h, e : (Rival(h, e)' <=> Rival(h, e)) /\ (Waiting(e)' <=> Waiting(e))
    BY Zenon, <1>2, <1>7 DEF Rival, Waiting
<1>10. ASSUME NEW i \in 1..Len(queue'), NEW e \in Conns, Rival(queue[i], e)'
       PROVE  /\ Waiting(e)'
              /\ \A j \in 1..Len(loop'.in) : ~SynOf(loop'.in[j], e)
              /\ \A j \in 1..(i - 1) : ~SynOf(queue'[j], e)
    <2>1. n + i \in 1..Len(queue) /\ queue'[i] = queue[n + i]
        BY Zenon, <1>6
    <2>2. Rival(queue[n + i], e)
        BY Zenon, <1>2, <1>10, <2>1 DEF Rival
    <2>3. Waiting(e) /\ \A j \in 1..(n + i - 1) : ~SynOf(queue[j], e)
        BY <1>1, <2>1, <2>2 DEF OrderInv
    <2>4. \A j \in 1..Len(loop'.in) : j \in 1..(n + i - 1)
        BY <1>4, <1>5, <2>1
    <2>5. \A j \in 1..(i - 1) : j \in 1..Len(queue') /\ n + j \in 1..(n + i - 1)
        BY <1>4, <1>5, <2>1
    <2> QED
        BY Zenon, <1>6, <1>9, <2>3, <2>4, <2>5
<1>11. ASSUME NEW i \in 1..Len(loop'.in), NEW e \in Conns, Rival(loop.in[i], e)'
       PROVE  /\ Waiting(e)'
              /\ \A j \in 1..(i - 1) : ~SynOf(loop'.in[j], e)
    <2>1. i \in 1..Len(queue) /\ loop'.in[i] = queue[i]
        BY Zenon, <1>6
    <2>2. Rival(queue[i], e)
        BY Zenon, <1>2, <1>11, <2>1 DEF Rival
    <2>3. Waiting(e) /\ \A j \in 1..(i - 1) : ~SynOf(queue[j], e)
        BY Zenon, <1>1, <2>1, <2>2 DEF OrderInv
    <2>4. \A j \in 1..(i - 1) : j \in 1..Len(loop'.in)
        BY <1>4
    <2> QED
        BY Zenon, <1>6, <1>9, <2>3, <2>4
<1>12. OrderInv'
    BY Zenon, <1>10, <1>11 DEF OrderInv
<1> QED
    BY Zenon, <1>8, <1>12 DEF FlowInv

\* The first packet of the batch and those behind it.
LEMMA HeadOfBatch ==
    ASSUME TypeInv, loop.at \in {"process", "transform"}
    PROVE  /\ loop.in # <<>> /\ Len(loop.in) >= 1
           /\ Head(loop.in) = loop.in[1] /\ Head(loop.in) \in Packet /\ Head(loop.in) \in Pipe
           /\ Len(Tail(loop.in)) = Len(loop.in) - 1
           /\ \A i \in 1..(Len(loop.in) - 1) : Tail(loop.in)[i] = loop.in[i + 1]
<1>1. loop.in # <<>>
    BY Zenon DEF TypeInv, BatchInv
<1> DEFINE s == loop.in
<1>2. s \in Seq(Packet) /\ s # <<>> /\ \A i \in 1..Len(s) : s[i] \in Pipe
    BY Zenon, <1>1, PipeTypes
<1> HIDE DEF s
<1>3. Len(s) \in Nat /\ Len(s) >= 1 /\ Head(s) = s[1] /\ Head(s) \in Packet
    BY <1>2, EmptyLength
<1>4. Len(Tail(s)) = Len(s) - 1 /\ \A i \in 1..(Len(s) - 1) : Tail(s)[i] = s[i + 1]
    BY <1>2, <1>3
<1> QED
    BY <1>2, <1>3, <1>4 DEF s

\* A packet that is processed moves to the outputs.
LEMMA ProcessKeepsFlow ==
    ASSUME FlowInv, TypeInv', loop.at \in {"process", "transform"},
           UNCHANGED <<conn, queue>>, NEW fs \in Seq(Forms), Processed(fs)
    PROVE  FlowInv' /\ Pipe' \subseteq Pipe
<1> DEFINE p == Head(loop.in)
           new == [i \in 1..Len(fs) |-> Output(p.conn, p.kind, fs[i])]
<1>1. TypeInv /\ PipeInv /\ OrderInv /\ loop \in Batch
    BY Zenon DEF FlowInv, TypeInv, BatchInv
<1>2. /\ loop.in # <<>> /\ Len(loop.in) >= 1
      /\ p = loop.in[1] /\ p \in Packet /\ p \in Pipe
      /\ Len(Tail(loop.in)) = Len(loop.in) - 1
      /\ \A i \in 1..(Len(loop.in) - 1) : Tail(loop.in)[i] = loop.in[i + 1]
    BY Zenon, <1>1, HeadOfBatch
<1>3. loop'.in = Tail(loop.in) /\ loop'.out = loop.out \o new
    BY Zenon, <1>1, <1>2, ProcessedIs
<1>4. \A j \in 1..Len(loop'.out) :
         \/ j \in 1..Len(loop.out) /\ loop'.out[j] = loop.out[j]
         \/ loop'.out[j].conn = p.conn /\ loop'.out[j].kind = p.kind
    <2> DEFINE o == loop.out
               r == loop.out \o new
    <2>1. fs \in Seq(Forms) /\ Len(fs) \in Nat /\ \A i \in 1..Len(fs) : fs[i] \in Forms
        OBVIOUS
    <2>2. \A i \in 1..Len(fs) : Output(p.conn, p.kind, fs[i]) \in Sending
        BY Zenon, <1>2, <2>1 DEF Output, Sending, Packet
    <2>3. new \in Seq(Sending) /\ Len(new) = Len(fs)
        BY <2>1, <2>2
    <2>4. o \in Seq(Sending)
        BY Zenon, <1>1, PipeTypes
    <2>5. \A i \in 1..Len(new) : new[i].conn = p.conn /\ new[i].kind = p.kind
        BY Zenon, <2>3 DEF Output
    <2>6. r = o \o new
        BY Zenon
    <2> HIDE DEF o, new, r
    <2>7. /\ Len(r) = Len(o) + Len(new) /\ Len(o) \in Nat /\ Len(new) \in Nat
          /\ \A j \in 1..Len(r) : r[j] = IF j <= Len(o) THEN o[j] ELSE new[j - Len(o)]
        <3>1. /\ Len(o \o new) = Len(o) + Len(new)
              /\ \A i \in 1..(Len(o) + Len(new)) :
                   (o \o new)[i] = IF i <= Len(o) THEN o[i] ELSE new[i - Len(o)]
            <4>1. new \in Seq(Sending)
                BY Zenon, <2>3
            <4> QED
                BY <2>4, <4>1, JoinedSequences, Zenon
        <3>2. Len(o) \in Nat /\ Len(new) \in Nat
            BY <2>3, <2>4
        <3> QED
            BY Zenon, <2>6, <3>1, <3>2
    <2>8. ASSUME NEW j \in 1..Len(r)
          PROVE  \/ j \in 1..Len(o) /\ r[j] = o[j]
                 \/ r[j].conn = p.conn /\ r[j].kind = p.kind
        <3>1. CASE j <= Len(o)
            BY <2>7, <3>1
        <3>2. CASE ~(j <= Len(o))
            <4>1. j - Len(o) \in 1..Len(new) /\ r[j] = new[j - Len(o)]
                BY <2>7, <3>2
            <4> QED
                BY Zenon, <2>5, <4>1
        <3> QED
            BY Zenon, <3>1, <3>2
    <2> QED
        BY Zenon, <1>3, <2>8 DEF o, r
<1> HIDE DEF new, p
<1>5. Len(loop.in) \in Nat
    BY Zenon, <1>1, PipeTypes
<1>6. /\ Len(loop'.in) = Len(loop.in) - 1
      /\ \A i \in 1..Len(loop'.in) : i + 1 \in 1..Len(loop.in) /\ loop'.in[i] = loop.in[i + 1]
    BY <1>2, <1>3, <1>5
<1>7. PipeInv' /\ Pipe' \subseteq Pipe
    <2>1. Pipe' \subseteq Pipe
        BY SMTT(30), <1>6 DEF Pipe
    <2> QED
        BY Zenon, <1>1, <1>2, <1>4, <2>1, SameGoes, PipeShrinks
<1>8. \A h, e : Rival(h, e)' <=> Rival(h, e)
    BY Zenon DEF Rival
<1>9. ASSUME NEW e \in Conns, Waiting(e), ~SynOf(p, e)
      PROVE  Waiting(e)'
    BY Zenon, <1>4, <1>9 DEF Waiting, SynOf
<1>10. 1 \in 1..Len(loop.in)
    BY <1>2, <1>5
<1>11. ASSUME NEW i \in 1..Len(queue'), NEW e \in Conns, Rival(queue[i], e)'
       PROVE  /\ Waiting(e)'
              /\ \A j \in 1..Len(loop'.in) : ~SynOf(loop'.in[j], e)
              /\ \A j \in 1..(i - 1) : ~SynOf(queue'[j], e)
    <2>1. i \in 1..Len(queue) /\ Rival(queue[i], e)
        BY Zenon, <1>11 DEF Rival
    <2>2. /\ Waiting(e)
          /\ \A j \in 1..Len(loop.in) : ~SynOf(loop.in[j], e)
          /\ \A j \in 1..(i - 1) : ~SynOf(queue[j], e)
        BY Zenon, <1>1, <2>1 DEF OrderInv
    <2>3. ~SynOf(p, e)
        BY Zenon, <1>2, <1>10, <2>2
    <2> QED
        BY Zenon, <1>6, <1>9, <2>2, <2>3
<1>12. ASSUME NEW i \in 1..Len(loop'.in), NEW e \in Conns, Rival(loop.in[i], e)'
       PROVE  /\ Waiting(e)'
              /\ \A j \in 1..(i - 1) : ~SynOf(loop'.in[j], e)
    <2>1. i + 1 \in 1..Len(loop.in) /\ Rival(loop.in[i + 1], e)
        BY Zenon, <1>6, <1>12 DEF Rival
    <2>2. /\ Waiting(e)
          /\ \A j \in 1..(i + 1 - 1) : ~SynOf(loop.in[j], e)
        BY <1>1, <2>1 DEF OrderInv
    <2>3. /\ 1 \in 1..(i + 1 - 1)
          /\ \A j \in 1..(i - 1) : j \in 1..Len(loop'.in) /\ j + 1 \in 1..(i + 1 - 1)
        BY <1>5, <1>6
    <2>4. ~SynOf(p, e)
        BY Zenon, <1>2, <2>2, <2>3
    <2> QED
        BY Zenon, <1>6, <1>9, <2>2, <2>3, <2>4
<1>13. OrderInv'
    BY Zenon, <1>11, <1>12 DEF OrderInv
<1> QED
    BY Zenon, <1>7, <1>13 DEF FlowInv

\* Steps that leave the connections alone and the pipe as it is, or drop it.
LEMMA StillFlow ==
    ASSUME FlowInv, TypeInv', conn' = conn,
           queue' = queue \/ queue' = <<>>,
           \/ loop'.in = loop.in /\ loop'.out = loop.out
           \/ loop'.in = <<>> /\ loop'.out = <<>>
    PROVE  FlowInv' /\ Pipe' \subseteq Pipe
<1>1. TypeInv /\ PipeInv /\ OrderInv
    BY Zenon DEF FlowInv
<1>2. \A i \in 1..Len(queue') : i \in 1..Len(queue) /\ queue'[i] = queue[i]
    OBVIOUS
<1>3. \A i \in 1..Len(loop'.in) : i \in 1..Len(loop.in) /\ loop'.in[i] = loop.in[i]
    OBVIOUS
<1>4. \A j \in 1..Len(loop'.out) : j \in 1..Len(loop.out) /\ loop'.out[j] = loop.out[j]
    OBVIOUS
<1>5. Pipe' \subseteq Pipe
    BY Zenon, <1>2, <1>3 DEF Pipe
<1>6. PipeInv'
    BY Zenon, <1>1, <1>4, <1>5, SameGoes, PipeShrinks
<1>7. OrderInv'
    BY Zenon, <1>1, SameGoes, OrderStays
<1> QED
    BY Zenon, <1>5, <1>6, <1>7 DEF FlowInv

\* Nothing is under way at the start.
LEMMA FlowAtInit ==
    ASSUME Init
    PROVE  FlowInv
<1>1. TypeInv
    BY Zenon, TypesAtInit
<1>2. queue = <<>> /\ loop.in = <<>> /\ loop.out = <<>>
    BY Zenon, AtReadIs DEF Init
<1>3. 1..Len(queue) = {} /\ 1..Len(loop.in) = {} /\ 1..Len(loop.out) = {}
    BY <1>2
<1>4. Pipe = {}
    BY Zenon, <1>3 DEF Pipe
<1> QED
    BY Zenon, <1>1, <1>3, <1>4 DEF FlowInv, PipeInv, OrderInv

\* Every step keeps the order of the packets.
LEMMA FlowKept ==
    ASSUME FlowInv, [Next]_vars
    PROVE  FlowInv'
<1>1. TypeInv /\ BatchInv /\ EntriesOK(policies)
    BY Zenon DEF FlowInv, TypeInv
<1>2. TypeInv'
    BY Zenon, <1>1, TypesKept
<1>3. CASE UNCHANGED vars
    <2>1. conn' = conn /\ queue' = queue /\ loop' = loop
        BY Zenon, <1>3 DEF vars, relayVars
    <2> QED
        BY Zenon, <1>2, <2>1, StillFlow
<1>4. CASE \E c \in Conns : Relay(c)
    BY Zenon, <1>2, <1>4, RelayKeepsFlow
<1>5. CASE Loop
    <2>1. conn' = conn /\ queue' = queue /\ \E st : loop' = [AtRead EXCEPT !.at = st]
        BY Zenon, <1>5 DEF Loop, relayVars
    <2>2. loop'.in = <<>> /\ loop'.out = <<>>
        BY Zenon, <2>1, AtReadIs DEF Batch
    <2> QED
        BY Zenon, <1>2, <2>1, <2>2, StillFlow
<1>6. CASE RecvShut \/ RecvFails \/ BatchBroken
    <2>1. conn' = conn /\ queue' = queue /\ \E st : loop' = [loop EXCEPT !.at = st]
        BY Zenon, <1>6 DEF RecvShut, RecvFails, BatchBroken, relayVars
    <2>2. loop'.in = loop.in /\ loop'.out = loop.out
        BY Zenon, <1>1, <2>1 DEF BatchInv, Batch
    <2> QED
        BY Zenon, <1>2, <2>1, <2>2, StillFlow
<1>7. CASE Recv
    BY Zenon, <1>2, <1>7, RecvKeepsFlow
<1>8. CASE Forward
    <2>1. conn' = conn /\ queue' = queue /\ loop.at = "process" /\ Processed(<<"plain">>)
        BY Zenon, <1>8 DEF Forward, relayVars
    <2>2. <<"plain">> \in Seq(Forms)
        BY DEF Forms
    <2> QED
        BY Zenon, <1>2, <2>1, <2>2, ProcessKeepsFlow
<1>9. CASE Transform
    <2>1. /\ conn' = conn /\ queue' = queue /\ loop.at = "transform"
          /\ Processed(forms(loop.policy.mode, Head(loop.in).shape))
        BY Zenon, <1>9 DEF Transform, relayVars
    <2> DEFINE fs == forms(loop.policy.mode, Head(loop.in).shape)
    <2>2. fs \in Seq(Forms) /\ Processed(fs)
        BY Zenon, <2>1, FormsAre
    <2> HIDE DEF fs
    <2> QED
        BY Zenon, <1>2, <2>1, <2>2, ProcessKeepsFlow
<1>10. CASE Take
    <2>1. conn' = conn /\ queue' = queue
        BY Zenon, <1>10 DEF Take, relayVars
    <2>2. loop'.in = loop.in /\ loop'.out = loop.out
        BY Zenon, <1>1, <1>10, TakeIs
    <2> QED
        BY Zenon, <1>2, <2>1, <2>2, StillFlow
<1>11. CASE SendBatch \/ SendBatchFails \/ SendOne \/ SendOneFails
    BY Zenon, <1>2, <1>11, SendKeepsFlow
<1>12. CASE Stop \/ Shutdown \/ Join \/ Tick
    <2>1. conn' = conn /\ loop' = loop /\ (queue' = queue \/ queue' = <<>>)
        BY Zenon, <1>12 DEF Stop, Shutdown, Join, Tick, relayVars
    <2> QED
        BY Zenon, <1>2, <2>1, StillFlow
<1> QED
    BY Zenon, <1>3, <1>4, <1>5, <1>6, <1>7, <1>8, <1>9, <1>10, <1>11, <1>12
       DEF Next, LoopStep, LoopError

\* The order of the packets is an invariant.
LEMMA FlowHolds == Spec => []FlowInv
BY FlowAtInit, FlowKept, PTL DEF Spec

\* A hello under way is of the connection that has its port, unless that one
\* still waits for its SYN.
LEMMA HelloOnPort ==
    ASSUME FlowInv, NEW p \in Pipe, p.kind = "hello", NEW c \in Conns,
           conn[c].port = p.port, conn[c].st \notin {"dialing", "closing"}
    PROVE  c = p.conn /\ conn[c].st \in SentStages
<1>1. TypeInv /\ PipeInv /\ OrderInv
    BY Zenon DEF FlowInv
<1>2. c = p.conn
    <2> SUFFICES ASSUME c # p.conn PROVE FALSE
        BY Zenon
    <2>1. Rival(p, c) /\ ~Waiting(c)
        BY Zenon DEF Rival, Waiting
    <2>2. CASE \E i \in 1..Len(queue) : p = queue[i]
        BY Zenon, <1>1, <2>1, <2>2 DEF OrderInv
    <2>3. CASE \E i \in 1..Len(loop.in) : p = loop.in[i]
        BY Zenon, <1>1, <2>1, <2>3 DEF OrderInv
    <2> QED
        BY Zenon, <2>2, <2>3 DEF Pipe
<1> QED
    BY Zenon, <1>1, <1>2 DEF PipeInv, Fits



-----------------------------------------------------------------------------
(* The loop gives up over sends only on a dead handle                      *)

Streaks == [failed : Nat, start : Nat, last : Nat]
Rows == [failed : Nat, age : Nat]

\* The streak the loop keeps is no longer and no older than the row of sends
\* that really failed one after the other.
StreakInv ==
    /\ streak \in Streaks
    /\ row \in Rows
    /\ streak.failed > 0 => row.failed >= streak.failed /\ row.age >= streak.start

\* One more failed send keeps it, whether it extends the streak or opens one.
LEMMA FailureKeepsStreak ==
    ASSUME StreakInv, streak' = extended, RowGrows
    PROVE  StreakInv'
<1> DEFINE K == kFatalSendFailures
<1>1. K \in Nat /\ K >= 1
    BY PacketConstants
<1>2. /\ streak \in Streaks /\ row \in Rows
      /\ streak.failed \in Nat /\ streak.start \in Nat /\ row.failed \in Nat /\ row.age \in Nat
      /\ streak.failed > 0 => row.failed >= streak.failed /\ row.age >= streak.start
    BY Zenon DEF StreakInv, Streaks, Rows
<1> DEFINE f == IF row.failed < K THEN row.failed + 1 ELSE row.failed
           g == IF row.failed = 0 THEN 0 ELSE row.age
<1>3. row' = [failed |-> f, age |-> g]
    BY Zenon DEF RowGrows
<1>4. /\ f \in Nat /\ g \in Nat /\ f >= 1
      /\ f >= row.failed /\ (f = row.failed + 1 \/ f >= K)
      /\ row.failed > 0 => g = row.age
    BY <1>1, <1>2
<1> HIDE DEF f, g
<1>5. row' \in Rows /\ row'.failed = f /\ row'.age = g
    BY Zenon, <1>3, <1>4 DEF Rows
<1>6. CASE streak' = [failed |-> 1, start |-> 0, last |-> 0]
    <2>1. streak' \in Streaks /\ streak'.failed = 1 /\ streak'.start = 0
        BY <1>6 DEF Streaks
    <2> QED
        BY <1>4, <1>5, <2>1 DEF StreakInv
<1>7. CASE ~(streak.failed = 0 \/ streak.last > kSendStreakGapMs)
    <2> DEFINE n == IF streak.failed < K THEN streak.failed + 1 ELSE streak.failed
               a == [streak EXCEPT !.failed = n]
    <2>1. streak' = [a EXCEPT !.last = 0] /\ streak.failed > 0
        BY <1>2, <1>7 DEF extended
    <2>2. n \in Nat /\ n <= f /\ g >= streak.start
        <3>1. /\ row.failed >= streak.failed /\ row.age >= streak.start /\ row.failed > 0
            BY <1>2, <2>1
        <3>2. g >= streak.start
            BY Zenon, <1>4, <3>1
        <3>3. n \in Nat /\ (n = streak.failed \/ (n = streak.failed + 1 /\ n <= K))
            BY <1>1, <1>2
        <3> HIDE DEF n
        <3>4. n <= f
            BY <1>1, <1>2, <1>4, <3>1, <3>3
        <3> QED
            BY Zenon, <3>2, <3>3, <3>4
    <2> HIDE DEF n
    <2>3. a \in Streaks /\ a.failed = n /\ a.start = streak.start
        BY Zenon, <1>2, <2>2 DEF Streaks
    <2> HIDE DEF a
    <2>4. streak' \in Streaks /\ streak'.failed = n /\ streak'.start = streak.start
        BY <2>1, <2>3 DEF Streaks
    <2> QED
        BY Zenon, <1>5, <2>2, <2>4 DEF StreakInv
<1> QED
    BY Zenon, <1>6, <1>7 DEF extended

\* Time passes for both alike.
LEMMA TickKeepsStreak ==
    ASSUME StreakInv, Tick
    PROVE  StreakInv'
<1>1. /\ streak \in Streaks /\ row \in Rows
      /\ streak.failed \in Nat /\ streak.start \in Nat /\ streak.last \in Nat
      /\ row.failed \in Nat /\ row.age \in Nat
      /\ streak.failed > 0 => row.failed >= streak.failed /\ row.age >= streak.start
    BY Zenon DEF StreakInv, Streaks, Rows
<1> DEFINE s == upTo(streak.start, kFatalSendWindowMs)
           l == upTo(streak.last, kSendStreakGapMs + 1)
           g == upTo(row.age, kFatalSendWindowMs)
           a == [streak EXCEPT !.start = s]
<1>2. /\ s \in Nat /\ l \in Nat /\ g \in Nat
      /\ row.age >= streak.start => g >= s
    BY <1>1, PacketConstants DEF upTo
<1>3. /\ streak' = IF streak.failed = 0 THEN streak ELSE [a EXCEPT !.last = l]
      /\ row' = IF row.failed = 0 THEN row ELSE [row EXCEPT !.age = g]
    BY Zenon DEF Tick
<1> HIDE DEF s, l, g
<1>4. a \in Streaks /\ a.failed = streak.failed /\ a.start = s
    BY Zenon, <1>1, <1>2 DEF Streaks
<1> HIDE DEF a
<1>5. /\ [a EXCEPT !.last = l] \in Streaks
      /\ [a EXCEPT !.last = l].failed = streak.failed /\ [a EXCEPT !.last = l].start = s
    BY Zenon, <1>2, <1>4 DEF Streaks
<1>6. /\ [row EXCEPT !.age = g] \in Rows
      /\ [row EXCEPT !.age = g].failed = row.failed /\ [row EXCEPT !.age = g].age = g
    BY Zenon, <1>1, <1>2 DEF Rows
<1>7. CASE streak.failed = 0
    <2>1. streak' = streak /\ row' \in Rows
        BY Zenon, <1>1, <1>3, <1>6, <1>7
    <2>2. ~(streak'.failed > 0)
        BY <1>7, <2>1
    <2> QED
        BY Zenon, <1>1, <2>1, <2>2 DEF StreakInv
<1>8. CASE streak.failed # 0
    <2>1. row.failed # 0 /\ streak.failed > 0 /\ row.failed >= streak.failed
          /\ row.age >= streak.start
        BY <1>1, <1>8
    <2>2. streak' = [a EXCEPT !.last = l] /\ row' = [row EXCEPT !.age = g]
        BY Zenon, <1>3, <1>8, <2>1
    <2> QED
        BY Zenon, <1>2, <1>5, <1>6, <2>1, <2>2 DEF StreakInv
<1> QED
    BY Zenon, <1>7, <1>8

\* Every step keeps the streak within the failures in a row.
LEMMA StreakKept ==
    ASSUME StreakInv, [Next]_vars
    PROVE  StreakInv'
<1>1. CASE UNCHANGED sendVars
    BY Zenon, <1>1 DEF sendVars, StreakInv
<1>2. CASE SendBatch \/ SendOne
    <2>1. streak' = NoStreak /\ row' = NoRow
        BY Zenon, <1>2 DEF SendBatch, SendOne, sendSucceeded
    <2>2. NoStreak \in Streaks /\ NoStreak.failed = 0 /\ NoRow \in Rows
        BY Zenon DEF NoStreak, NoRow, Streaks, Rows
    <2> QED
        BY <2>1, <2>2 DEF StreakInv
<1>3. CASE SendOneFails
    BY Zenon, <1>3, FailureKeepsStreak DEF SendOneFails
<1>4. CASE Tick
    BY Zenon, <1>4, TickKeepsStreak
<1>5. ASSUME NEW c \in Conns, Relay(c)
      PROVE  UNCHANGED sendVars
    BY Zenon, <1>5 DEF Relay, Dial, SynAck, Arm, Write, Retransmit, ServerHello, Consume, Close,
                Release
<1>6. CASE \/ Loop \/ Recv \/ RecvShut \/ Forward \/ Take \/ Transform \/ BatchBroken
           \/ RecvFails \/ SendBatchFails \/ Stop \/ Shutdown \/ Join
    <2>1. UNCHANGED sendVars
        BY Zenon, <1>6 DEF Loop, Recv, RecvShut, Forward, Take, Transform, BatchBroken,
                    RecvFails, SendBatchFails, Stop, Shutdown, Join
    <2> QED
        BY Zenon, <1>1, <2>1
<1>7. CASE UNCHANGED vars
    BY Zenon, <1>1, <1>7 DEF vars
<1> QED
    BY Zenon, <1>1, <1>2, <1>3, <1>4, <1>5, <1>6, <1>7 DEF Next, LoopStep, LoopError

\* A send that ends the loop came after kFatalSendFailures failures with none
\* succeeding in between, over at least kFatalSendWindowMs, whatever mix of
\* batch sends, single sends and pauses led there (sendFailed): the safety
\* half of FailsOpen.
THEOREM DeadHandleTheorem == Spec => StopsOnDeadHandleOnly
<1>1. Init => StreakInv
    BY DEF Init, StreakInv, NoStreak, NoRow, Streaks, Rows
<1>2. ASSUME StreakInv, [Next]_vars
      PROVE  [running /\ ~running' /\ streak' # streak
                => row'.failed >= kFatalSendFailures /\ row'.age >= kFatalSendWindowMs]_vars
    <2> SUFFICES ASSUME running, ~running', streak' # streak
                 PROVE  row'.failed >= kFatalSendFailures /\ row'.age >= kFatalSendWindowMs
        BY Zenon
    <2>1. StreakInv'
        BY Zenon, <1>2, StreakKept
    <2>2. SendOneFails
        <3>1. ~(UNCHANGED vars)
            BY Zenon DEF vars, sendVars
        <3>2. ASSUME NEW c \in Conns, Relay(c)
              PROVE  running' = running
            BY Zenon, <3>2 DEF Relay, Dial, SynAck, Arm, Write, Retransmit, ServerHello, Consume,
                        Close, Release, driverVars
        <3>3. LoopStep => running' = running
            BY Zenon DEF LoopStep, Loop, Recv, RecvShut, Forward, Take, Transform, SendBatch,
                   SendOne, BatchBroken, driverVars
        <3>4. RecvFails \/ SendBatchFails \/ Stop => streak' = streak
            BY Zenon DEF RecvFails, SendBatchFails, Stop, sendVars
        <3>5. Shutdown \/ Join \/ Tick => running' = running
            BY Zenon DEF Shutdown, Join, Tick, driverVars
        <3> QED
            BY Zenon, <1>2, <3>1, <3>2, <3>3, <3>4, <3>5 DEF Next, LoopError
    <2>3. streak' = extended /\ gone
        BY Zenon, <2>2 DEF SendOneFails
    <2>4. /\ streak'.failed >= kFatalSendFailures /\ streak'.start >= kFatalSendWindowMs
        BY Zenon, <2>3 DEF gone
    <2>5. /\ streak'.failed \in Nat /\ streak'.start \in Nat
          /\ row'.failed \in Nat /\ row'.age \in Nat
          /\ streak'.failed > 0 => row'.failed >= streak'.failed /\ row'.age >= streak'.start
        BY Zenon, <2>1 DEF StreakInv, Streaks, Rows
    <2>6. kFatalSendFailures \in Nat /\ kFatalSendFailures >= 1 /\ kFatalSendWindowMs \in Nat
        BY PacketConstants
    <2> QED
        BY <2>4, <2>5, <2>6
<1> QED
    BY <1>1, <1>2, StreakKept, PTL DEF Spec, StopsOnDeadHandleOnly

=============================================================================
