------------------------ MODULE PacketRegistryProofs ------------------------
(***************************************************************************)
(* Proofs about the registry of policies that the packet loop consults     *)
(* (PacketLoop), for any number of connections and ports, every size of the*)
(* table and every lifetime.  The order of the packets (FlowInv) is why an *)
(* entry of the registry speaks of the connection that asks for it         *)
(* (RegistryInv) and why a copy of a hello finds the entry of the original *)
(* (TreatInv).                                                             *)
(***************************************************************************)
EXTENDS PacketLoopProofs

-----------------------------------------------------------------------------
(* The registry and the connections it serves                              *)

\* The entry of a connection that may still ask for it is its own, is on its
\* port, was taken for its own hello and is marked only when that hello was
\* transformed.
EntryTells(k, e) ==
    /\ conn[e].st = "armed" \/ conn[e].st \in SentStages
    /\ conn[e].st # "gone" => conn[e].port = k
    /\ policies[k].taken = TRUE => policies[k].seq \in Packet
    /\ \/ conn[e].st \in {"closing", "gone"}
       \/ /\ policies[k].applied = TRUE => own[e] = TRUE
          /\ policies[k].taken = TRUE => policies[k].seq.conn = e

\* A connection with a policy that has armed it and has not asked yet: what
\* its port has in the registry is its entry.
Asking == {"armed", "sent", "answered"}
Owns(c) ==
    conn[c].st \in Asking /\ conn[c].mode # None
        /\ conn[c].port \in DOMAIN policies => policies[conn[c].port].owner = c

\* Between take() and noteApplied() the entry may be lost but not replaced.
TakenStays ==
    loop.at = "transform" =>
        LET k == Head(loop.in).port
        IN  k \in DOMAIN policies =>
              /\ policies[k].taken = TRUE /\ policies[k].seq = Head(loop.in)
              /\ policies[k].owner = loop.policy.owner

\* What the entries and the answers of consumeApplied() say is so.
ClaimInv ==
    /\ own \in [Conns -> BOOLEAN]
    /\ claimed \in [Conns -> BOOLEAN \cup {None}]
    /\ \A c \in Conns : claimed[c] = TRUE => own[c] = TRUE

RegistryInv ==
    /\ ClaimInv
    /\ \A k \in DOMAIN policies : EntryTells(k, policies[k].owner)
    /\ \A c \in Conns : Owns(c)
    /\ TakenStays

\* What a step may do to a connection that has an entry.
Carries(e) ==
    /\ conn[e].st = "armed" \/ conn[e].st \in SentStages =>
         conn'[e].st = "armed" \/ conn'[e].st \in SentStages
    /\ conn[e].st \in {"closing", "gone"} => conn'[e].st \in {"closing", "gone"}
    /\ conn[e].st # "idle" /\ conn'[e].st # "gone" =>
         conn[e].st # "gone" /\ conn'[e].port = conn[e].port

\* A connection that asks for its entry after a step has done so before.
StillAsks(c) ==
    conn'[c].st \in Asking /\ conn'[c].mode # None =>
        /\ conn[c].st \in Asking /\ conn[c].mode # None
        /\ conn'[c].port = conn[c].port

\* Every step lets a connection go on, and makes it ask only by arming.
LEMMA RelayCarries ==
    ASSUME TypeInv, NEW c \in Conns, Relay(c)
    PROVE  \A d \in Conns : Carries(d) /\ (StillAsks(d) \/ (d = c /\ Arm(c)))
<1>1. ConnInv
    BY Zenon DEF TypeInv
<1>2. \A d \in Conns : conn'[d] = conn[d] => Carries(d) /\ StillAsks(d)
    BY Zenon, <1>1 DEF Carries, StillAsks, Asking, ConnInv
<1>3. CASE Dial(c)
    <2>1. /\ conn[c].st = "idle" /\ conn'[c].st = "dialing"
          /\ \A d \in Conns : d # c => conn'[d] = conn[d]
        BY Zenon, <1>1, <1>3, DialIs
    <2>2. Carries(c) /\ StillAsks(c)
        BY Zenon, <2>1 DEF Carries, StillAsks, Asking, SentStages
    <2> QED
        BY Zenon, <1>2, <2>1, <2>2
<1>4. CASE SynAck(c) \/ ServerHello(c) \/ Arm(c) \/ Consume(c) \/ Close(c)
    <2>1. \/ St(c, "synack") /\ conn[c].st = "syn"
          \/ St(c, "sent") /\ conn[c].st = "sent"
          \/ St(c, "armed") /\ conn[c].st = "connected" /\ Arm(c)
          \/ St(c, "done") /\ conn[c].st = "answered"
          \/ St(c, "closing") /\ conn[c].st \notin {"idle", "closing", "gone"}
        BY Zenon, <1>4 DEF SynAck, ServerHello, Arm, Consume, Close
    <2>2. ASSUME NEW st \in Stages, St(c, st), conn[c].st \notin {"idle", "gone"},
                 \/ st = "synack" /\ conn[c].st = "syn"
                 \/ st = "sent" /\ conn[c].st = "sent"
                 \/ st = "armed" /\ conn[c].st = "connected" /\ Arm(c)
                 \/ st = "done" /\ conn[c].st = "answered"
                 \/ st = "closing"
          PROVE  /\ Carries(c) /\ (StillAsks(c) \/ Arm(c))
                 /\ \A d \in Conns : d # c => conn'[d] = conn[d]
        <3>1. /\ conn'[c].st = st /\ conn'[c].port = conn[c].port /\ conn'[c].mode = conn[c].mode
              /\ \A d \in Conns : d # c => conn'[d] = conn[d]
            BY Zenon, <1>1, <2>2, StIs
        <3> QED
            BY Zenon, <2>2, <3>1 DEF Carries, StillAsks, Asking, SentStages
    <2>3. /\ Carries(c) /\ (StillAsks(c) \/ Arm(c))
          /\ \A d \in Conns : d # c => conn'[d] = conn[d]
        BY Zenon, <2>1, <2>2 DEF Stages
    <2> QED
        BY Zenon, <1>2, <2>3
<1>5. CASE Write(c) \/ Retransmit(c)
    <2>1. /\ conn[c].st \in {"armed", "sent", "closing"}
          /\ conn'[c].st = IF conn[c].st = "armed" THEN "sent" ELSE conn[c].st
          /\ conn'[c].port = conn[c].port /\ conn'[c].mode = conn[c].mode
          /\ \A d \in Conns : d # c => conn'[d] = conn[d]
        BY Zenon, <1>1, <1>5, CopyIs
    <2>2. Carries(c) /\ StillAsks(c)
        BY Zenon, <2>1 DEF Carries, StillAsks, Asking, SentStages
    <2> QED
        BY Zenon, <1>2, <2>1, <2>2
<1>6. CASE Release(c)
    <2>1. /\ conn[c].st = "closing" /\ conn'[c].st = "gone"
          /\ \A d \in Conns : d # c => conn'[d] = conn[d]
        BY Zenon, <1>1, <1>6, ReleaseIs
    <2>2. Carries(c) /\ StillAsks(c)
        BY Zenon, <2>1 DEF Carries, StillAsks, Asking, SentStages
    <2> QED
        BY Zenon, <1>2, <2>1, <2>2
<1> QED
    BY Zenon, <1>3, <1>4, <1>5, <1>6 DEF Relay

\* So do the sends, and the steps that leave the connections alone.
LEMMA OthersCarry ==
    ASSUME TypeInv, conn' = conn \/ \E I : Delivered(I)
    PROVE  \A d \in Conns : Carries(d) /\ StillAsks(d)
<1>1. ConnInv
    BY Zenon DEF TypeInv
<1>2. CASE conn' = conn
    BY Zenon, <1>1, <1>2 DEF Carries, StillAsks, Asking, ConnInv
<1>3. CASE \E I : Delivered(I)
    <2>1. \A d \in Conns :
            /\ conn'[d].port = conn[d].port /\ conn'[d].mode = conn[d].mode
            /\ \/ conn'[d].st = conn[d].st
               \/ conn[d].st = "dialing" /\ conn'[d].st = "syn"
               \/ conn[d].st = "synack" /\ conn'[d].st = "connected"
               \/ conn[d].st = "sent" /\ conn'[d].st = "answered"
        BY Zenon, <1>1, <1>3, DeliveredIs
    <2> QED
        BY Zenon, <2>1 DEF Carries, StillAsks, Asking, SentStages
<1> QED
    BY Zenon, <1>2, <1>3

\* Entries that stay tell what they told.
LEMMA EntryStays ==
    ASSUME TypeInv, RegistryInv, NEW k \in DOMAIN policies, k \in DOMAIN policies',
           Carries(policies[k].owner),
           policies'[k].owner = policies[k].owner,
           policies'[k].taken = policies[k].taken, policies'[k].seq = policies[k].seq,
           policies'[k].applied = policies[k].applied,
           \A e \in Conns : own[e] = TRUE => own'[e] = TRUE
    PROVE  EntryTells(k, policies[k].owner)'
<1> DEFINE e == policies[k].owner
<1>1. EntryTells(k, e) /\ e \in Conns
    BY Zenon DEF RegistryInv, TypeInv, EntriesOK, Entry
<1>2. policies'[k].owner = e /\ Carries(e)
    BY Zenon
<1>3. /\ conn'[e].st = "armed" \/ conn'[e].st \in SentStages
      /\ conn'[e].st # "gone" => conn'[e].port = k
      /\ policies'[k].taken = TRUE => policies'[k].seq \in Packet
      /\ \/ conn'[e].st \in {"closing", "gone"}
         \/ /\ policies'[k].applied = TRUE => own'[e] = TRUE
            /\ policies'[k].taken = TRUE => policies'[k].seq.conn = e
    <2> HIDE DEF e
    <2> QED
        BY Zenon, <1>1, <1>2 DEF EntryTells, Carries, SentStages
<1> QED
    BY Zenon, <1>2, <1>3 DEF EntryTells

\* Steps that at most take entries away or shorten them, and arm nothing.
LEMMA RegistryShrinks ==
    ASSUME TypeInv, RegistryInv,
           \A d \in Conns : Carries(d) /\ StillAsks(d),
           DOMAIN policies' \subseteq DOMAIN policies,
           \A k \in DOMAIN policies' :
             /\ policies'[k].owner = policies[k].owner
             /\ policies'[k].taken = policies[k].taken /\ policies'[k].seq = policies[k].seq
             /\ policies'[k].applied = policies[k].applied,
           ClaimInv', own' = own,
           \/ loop' = loop
           \/ loop'.at # "transform"
    PROVE  RegistryInv'
<1>1. \A k \in DOMAIN policies : policies[k].owner \in Conns
    BY Zenon DEF TypeInv, EntriesOK, Entry
<1>2. \A k \in DOMAIN policies' : EntryTells(k, policies[k].owner)'
    BY Zenon, <1>1, EntryStays
<1>3. \A c \in Conns : Owns(c)'
    <2> TAKE c \in Conns
    <2>1. Owns(c) /\ StillAsks(c)
        BY Zenon DEF RegistryInv
    <2> QED
        BY Zenon, <2>1 DEF Owns, StillAsks
<1>4. TakenStays'
    BY DEF RegistryInv, TakenStays
<1> QED
    BY Zenon, <1>2, <1>3, <1>4 DEF RegistryInv

\* arm(): the new entry replaces what the port had, and no hello on that port
\* is with the loop.
LEMMA ArmKeepsRegistry ==
    ASSUME FlowInv, RegistryInv, NEW c \in Conns, Arm(c), conn[c].mode # None
    PROVE  RegistryInv'
<1>1. TypeInv /\ ConnInv /\ EntriesOK(policies)
    BY Zenon DEF FlowInv, TypeInv
<1>2. /\ conn[c].st = "connected" /\ arm(c) /\ St(c, "armed")
      /\ own' = own /\ claimed' = claimed /\ loop' = loop
    BY Zenon DEF Arm
<1>3. /\ conn'[c].st = "armed" /\ conn'[c].port = conn[c].port /\ conn'[c].mode = conn[c].mode
      /\ \A d \in Conns : d # c => conn'[d] = conn[d]
    BY Zenon, <1>1, <1>2, StIs DEF Stages
<1>4. conn[c].port # None
    BY Zenon, <1>1, <1>2 DEF ConnInv
<1> DEFINE k == conn[c].port
<1>5. /\ k \in DOMAIN policies' /\ policies'[k] = armedEntry(c)
      /\ \A x \in DOMAIN policies' : x # k => x \in DOMAIN policies /\ policies'[x] = policies[x]
    BY Zenon, <1>1, <1>2, <1>4, ArmIs
<1>6. policies'[k].owner = c /\ policies'[k].taken = FALSE /\ policies'[k].applied = FALSE
    BY <1>5 DEF armedEntry
<1>7. \A d \in Conns : Carries(d)
    BY Zenon, <1>1, RelayCarries DEF Relay
<1>8. ASSUME NEW x \in DOMAIN policies'
      PROVE  EntryTells(x, policies[x].owner)'
    <2>1. CASE x = k
        BY <1>3, <1>6, <2>1 DEF EntryTells
    <2>2. CASE x # k
        <3>1. x \in DOMAIN policies /\ policies'[x] = policies[x]
            BY Zenon, <1>5, <2>2
        <3>2. policies[x].owner \in Conns
            BY Zenon, <1>1, <3>1 DEF EntriesOK, Entry
        <3> QED
            BY Zenon, <1>1, <1>2, <1>7, <3>1, <3>2, EntryStays
    <2> QED
        BY Zenon, <2>1, <2>2
<1>9. ASSUME NEW d \in Conns
      PROVE  Owns(d)'
    <2>1. CASE d = c
        BY SMTT(30), <1>3, <1>6, <2>1 DEF Owns
    <2>2. CASE d # c
        <3>1. conn'[d] = conn[d] /\ Owns(d)
            BY Zenon, <1>3, <2>2 DEF RegistryInv
        <3>2. conn[d].st \in Asking => conn[d].port # k
            BY <1>1, <1>4, <2>2 DEF ConnInv, Asking
        <3> QED
            BY <1>5, <3>1, <3>2 DEF Owns
    <2> QED
        BY Zenon, <2>1, <2>2
<1>10. TakenStays'
    <2> SUFFICES ASSUME loop.at = "transform", Head(loop.in).port \in DOMAIN policies'
                 PROVE  /\ policies'[Head(loop.in).port].taken = TRUE
                        /\ policies'[Head(loop.in).port].seq = Head(loop.in)
                        /\ policies'[Head(loop.in).port].owner = loop.policy.owner
        BY Zenon, <1>2 DEF TakenStays
    <2> DEFINE p == Head(loop.in)
    <2>1. p \in Pipe /\ p.kind = "hello"
        BY Zenon, <1>1, HeadOfBatch DEF TypeInv, BatchInv
    <2>2. conn[c].port # p.port
        BY Zenon, <1>2, <2>1, HelloOnPort DEF SentStages
    <2> QED
        BY Zenon, <1>5, <2>2 DEF RegistryInv, TakenStays
<1>11. ClaimInv'
    BY Zenon, <1>2 DEF RegistryInv, ClaimInv
<1> QED
    BY Zenon, <1>8, <1>9, <1>10, <1>11 DEF RegistryInv

\* consumeApplied() answers with the entry of the connection itself.
LEMMA ConsumeKeepsRegistry ==
    ASSUME FlowInv, RegistryInv, NEW c \in Conns, Consume(c)
    PROVE  RegistryInv' /\ PartOf(policies', policies)
<1>1. TypeInv /\ ConnInv /\ EntriesOK(policies) /\ ClaimInv
    BY Zenon DEF FlowInv, TypeInv, RegistryInv
<1>2. conn[c].st = "answered" /\ own' = own /\ loop' = loop
    BY Zenon DEF Consume
<1>3. \A d \in Conns : Carries(d) /\ StillAsks(d)
    <2>1. ~Arm(c)
        BY Zenon, <1>2 DEF Arm
    <2> QED
        BY Zenon, <1>1, <2>1, RelayCarries DEF Relay
<1>4. CASE conn[c].mode = None
    <2>1. claimed' = claimed /\ policies' = policies
        BY Zenon, <1>4 DEF Consume
    <2>2. PartOf(policies', policies)
        BY Zenon, <1>1, <2>1 DEF PartOf, EntriesOK
    <2>3. ClaimInv'
        BY <1>1, <1>2, <2>1 DEF ClaimInv
    <2> QED
        BY SMTT(30), <1>1, <1>2, <1>3, <2>1, <2>2, <2>3, RegistryShrinks
<1>5. CASE conn[c].mode # None
    <2> DEFINE k == conn[c].port
    <2>1. /\ claimed' = [claimed EXCEPT ![c] = current(k) /\ policies[k].applied]
          /\ policies' = without(policies, {k})
        BY Zenon, <1>5 DEF Consume, consumeApplied
    <2>2. PartOf(policies', policies)
        BY Zenon, <2>1, WithoutIsPart
    <2>3. ASSUME current(k) /\ policies[k].applied
          PROVE  own[c] = TRUE
        <3>1. k \in DOMAIN policies /\ policies[k].applied = TRUE
            BY Zenon, <1>1, <2>3 DEF current, EntriesOK, Entry
        <3>2. policies[k].owner = c
            BY <1>2, <1>5, <3>1 DEF RegistryInv, Owns, Asking
        <3>3. EntryTells(k, c)
            BY Zenon, <3>1, <3>2 DEF RegistryInv
        <3> QED
            BY Zenon, <1>2, <3>1, <3>3 DEF EntryTells
    <2>4. (current(k) /\ policies[k].applied) \in BOOLEAN
        BY Zenon
    <2> DEFINE b == current(k) /\ policies[k].applied
    <2>5. b \in BOOLEAN /\ (b = TRUE => own[c] = TRUE) /\ claimed' = [claimed EXCEPT ![c] = b]
        BY Zenon, <2>1, <2>3, <2>4
    <2> HIDE DEF b
    <2>6. claimed' \in [Conns -> BOOLEAN \cup {None}]
        BY Zenon, <1>1, <2>5 DEF ClaimInv
    <2>7. \A d \in Conns : claimed'[d] = TRUE => own'[d] = TRUE
        BY Zenon, <1>1, <1>2, <2>5 DEF ClaimInv
    <2>8. ClaimInv'
        BY Zenon, <1>1, <1>2, <2>6, <2>7 DEF ClaimInv
    <2>9. \A x \in DOMAIN policies' : x \in DOMAIN policies /\ policies'[x] = policies[x]
        BY Zenon, <2>2 DEF PartOf
    <2> QED
        BY SMTT(30), <1>1, <1>2, <1>3, <2>2, <2>8, <2>9, RegistryShrinks
<1> QED
    BY Zenon, <1>4, <1>5

\* take(): the entry it hands out is of the hello's own connection, or of one
\* that will not ask for it any more.
LEMMA TakeKeepsRegistry ==
    ASSUME FlowInv, RegistryInv, Take
    PROVE  RegistryInv'
<1> DEFINE p == Head(loop.in)
           k == p.port
<1>1. TypeInv /\ ConnInv /\ BatchInv /\ EntriesOK(policies) /\ ClaimInv
    BY Zenon DEF FlowInv, TypeInv, RegistryInv
<1>2. /\ conn' = conn /\ own' = own /\ claimed' = claimed /\ loop.at = "process"
    BY Zenon DEF Take, relayVars
<1>3. /\ p \in Packet /\ k \in DOMAIN policies /\ p.kind = "hello"
      /\ loop'.in = loop.in /\ loop'.policy.owner = policies[k].owner
      /\ DOMAIN policies' = DOMAIN policies
      /\ \A x \in DOMAIN policies : x # k => policies'[x] = policies[x]
      /\ policies'[k].taken = TRUE /\ policies'[k].seq = p
      /\ policies'[k].applied = policies[k].applied
      /\ policies'[k].owner = policies[k].owner
    BY Zenon, <1>1, TakeIs
<1>4. p \in Pipe
    BY Zenon, <1>1, <1>2, HeadOfBatch
<1>5. \A d \in Conns : Carries(d) /\ StillAsks(d)
    BY Zenon, <1>1, <1>2, OthersCarry
<1> DEFINE e == policies[k].owner
<1>6. e \in Conns /\ EntryTells(k, e)
    BY Zenon, <1>1, <1>3 DEF RegistryInv, EntriesOK, Entry
<1>7. conn[e].st \in {"closing", "gone"} \/ p.conn = e
    <2> SUFFICES ASSUME conn[e].st \notin {"closing", "gone"} PROVE p.conn = e
        BY Zenon
    <2>1. conn[e].port = p.port /\ conn[e].st \notin {"dialing", "closing"}
        BY Zenon, <1>6 DEF EntryTells, SentStages
    <2> QED
        BY Zenon, <1>3, <1>4, <1>6, <2>1, HelloOnPort
<1> HIDE DEF e, p
<1>8. /\ policies'[k].owner = e
      /\ conn[e].st = "armed" \/ conn[e].st \in SentStages
      /\ conn[e].st # "gone" => conn[e].port = k
      /\ conn[e].st \in {"closing", "gone"} \/ (policies[k].applied = TRUE => own[e] = TRUE)
    <2>1. policies'[k].owner = e
        BY Zenon, <1>3 DEF e
    <2> QED
        BY Zenon, <1>6, <2>1 DEF EntryTells
<1> HIDE DEF k
<1>9. ASSUME NEW x \in DOMAIN policies'
      PROVE  EntryTells(x, policies[x].owner)'
    <2>1. CASE x = k
        BY SMTT(30), <1>2, <1>3, <1>7, <1>8, <2>1 DEF EntryTells
    <2>2. CASE x # k
        <3>1. x \in DOMAIN policies /\ policies'[x] = policies[x]
            BY Zenon, <1>3, <2>2
        <3>2. policies[x].owner \in Conns
            BY Zenon, <1>1, <3>1 DEF EntriesOK, Entry
        <3> QED
            BY Zenon, <1>1, <1>2, <1>5, <3>1, <3>2, EntryStays
    <2> QED
        BY Zenon, <2>1, <2>2
<1>10. \A c \in Conns : Owns(c)'
    <2> TAKE c \in Conns
    <2>1. Owns(c)
        BY Zenon DEF RegistryInv
    <2>2. \A x \in DOMAIN policies : policies'[x].owner = policies[x].owner
        BY Zenon, <1>3
    <2> QED
        BY Zenon, <1>2, <1>3, <2>1, <2>2 DEF Owns
<1>11. TakenStays'
    BY Zenon, <1>3 DEF TakenStays, k, p
<1>12. ClaimInv'
    BY Zenon, <1>1, <1>2 DEF ClaimInv
<1> QED
    BY <1>9, <1>10, <1>11, <1>12 DEF RegistryInv

\* noteApplied() marks the entry the hello was taken under, or one that was
\* lost and not replaced.
LEMMA TransformKeepsRegistry ==
    ASSUME FlowInv, RegistryInv, Transform
    PROVE  RegistryInv'
<1> DEFINE p == Head(loop.in)
           k == p.port
           mode == loop.policy.mode
<1>1. TypeInv /\ ConnInv /\ BatchInv /\ EntriesOK(policies) /\ ClaimInv /\ loop \in Batch
    BY Zenon DEF FlowInv, TypeInv, RegistryInv, BatchInv
<1>2. /\ conn' = conn /\ claimed' = claimed /\ loop.at = "transform"
      /\ own' = [own EXCEPT ![p.conn] = own[p.conn] \/ (hides(mode, p.shape)
                                                       /\ loop.policy.owner = p.conn)]
      /\ IF noted(mode, p.shape) THEN noteApplied(k) ELSE policies' = policies
      /\ Processed(forms(mode, p.shape))
    BY Zenon, <1>1 DEF Transform, relayVars, ClaimInv
<1>3. p \in Packet /\ p \in Pipe /\ loop.in # <<>> /\ p.conn \in Conns
    BY Zenon, <1>1, <1>2, HeadOfBatch DEF Packet
<1>4. loop'.at # "transform"
    <2> DEFINE fs == forms(mode, p.shape)
    <2>1. fs \in Seq(Forms) /\ Processed(fs)
        BY Zenon, <1>2, FormsAre
    <2> HIDE DEF fs
    <2> QED
        BY Zenon, <1>1, <1>3, <2>1, ProcessedIs
<1>5. /\ DOMAIN policies' = DOMAIN policies
      /\ \A x \in DOMAIN policies : x # k => policies'[x] = policies[x]
      /\ k \in DOMAIN policies =>
           /\ policies'[k].applied = TRUE => hides(mode, p.shape) \/ policies[k].applied = TRUE
           /\ policies'[k].taken = policies[k].taken /\ policies'[k].seq = policies[k].seq
           /\ policies'[k].owner = policies[k].owner
    <2>1. CASE noted(mode, p.shape)
        <3>1. noteApplied(k) /\ hides(mode, p.shape)
            BY Zenon, <1>2, <2>1 DEF noted
        <3>2. PICK y : y = k /\ noteApplied(y)
            BY Zenon, <3>1 DEF noteApplied
        <3> HIDE DEF k
        <3>3. \A x \in DOMAIN policies : x # y => policies'[x] = policies[x]
            BY Zenon, <3>2 DEF noteApplied
        <3>4. /\ DOMAIN policies' = DOMAIN policies
              /\ y \in DOMAIN policies =>
                   /\ policies'[y].taken = policies[y].taken
                   /\ policies'[y].seq = policies[y].seq
                   /\ policies'[y].owner = policies[y].owner
            BY Zenon, <1>1, <3>2, NoteIs
        <3> QED
            BY Zenon, <3>1, <3>2, <3>3, <3>4
    <2>2. CASE ~noted(mode, p.shape)
        BY Zenon, <1>2, <2>2
    <2> QED
        BY Zenon, <2>1, <2>2
<1>6. k \in DOMAIN policies =>
        policies[k].taken = TRUE /\ policies[k].seq = p /\ policies[k].owner = loop.policy.owner
    BY Zenon, <1>2 DEF RegistryInv, TakenStays
<1> DEFINE b == own[p.conn] \/ (hides(mode, p.shape) /\ loop.policy.owner = p.conn)
<1>7. /\ b \in BOOLEAN /\ own' = [own EXCEPT ![p.conn] = b]
      /\ own[p.conn] = TRUE => b = TRUE
      /\ hides(mode, p.shape) /\ loop.policy.owner = p.conn => b = TRUE
    BY Zenon, <1>2
<1> HIDE DEF b, mode
<1>8. /\ own' \in [Conns -> BOOLEAN] /\ own'[p.conn] = b
      /\ \A e \in Conns : own[e] = TRUE => own'[e] = TRUE
    <2> HIDE DEF p
    <2> QED
        BY Zenon, <1>1, <1>3, <1>7 DEF ClaimInv
<1>9. \A d \in Conns : Carries(d) /\ StillAsks(d)
    BY <1>1, <1>2, OthersCarry
<1> HIDE DEF k, p
<1>10. ASSUME NEW x \in DOMAIN policies'
       PROVE  EntryTells(x, policies[x].owner)'
    <2>0. x \in DOMAIN policies /\ policies[x].owner \in Conns
        BY Zenon, <1>1, <1>5 DEF EntriesOK, Entry
    <2>1. CASE x = k
        <3> DEFINE e == policies[x].owner
        <3>1. e \in Conns /\ EntryTells(x, e) /\ policies'[x].owner = e
            BY <1>5, <2>0, <2>1 DEF RegistryInv
        <3>2. ASSUME conn[e].st \notin {"closing", "gone"}
              PROVE  policies'[x].seq.conn = e /\ (policies'[x].applied = TRUE => own'[e] = TRUE)
            <4>1. policies[x].seq.conn = e /\ (policies[x].applied = TRUE => own[e] = TRUE)
                BY SMTT(30), <1>6, <2>0, <2>1, <3>1, <3>2 DEF EntryTells
            <4>2. p.conn = e /\ loop.policy.owner = e
                BY Zenon, <1>6, <2>0, <2>1, <4>1
            <4>3. ASSUME hides(mode, p.shape)
                  PROVE  own'[e] = TRUE
                BY <1>7, <1>8, <4>2, <4>3
            <4> QED
                BY Zenon, <1>5, <1>8, <2>0, <2>1, <3>1, <4>1, <4>3
        <3>3. policies'[x].seq \in Packet
            BY <1>3, <1>5, <1>6, <2>0, <2>1
        <3> HIDE DEF e
        <3> QED
            BY Zenon, <1>2, <3>1, <3>2, <3>3 DEF EntryTells
    <2>2. CASE x # k
        <3>1. policies'[x] = policies[x]
            BY Zenon, <1>5, <2>0, <2>2
        <3> QED
            BY Zenon, <1>1, <1>8, <1>9, <2>0, <3>1, EntryStays
    <2> QED
        BY <2>1, <2>2
<1>11. \A c \in Conns : Owns(c)'
    <2> TAKE c \in Conns
    <2>1. Owns(c)
        BY DEF RegistryInv
    <2>2. \A x \in DOMAIN policies : policies'[x].owner = policies[x].owner
        BY Zenon, <1>5
    <2> QED
        BY <1>2, <1>5, <2>1, <2>2 DEF Owns
<1>12. ClaimInv'
    BY Zenon, <1>1, <1>2, <1>8 DEF ClaimInv
<1> QED
    BY Zenon, <1>4, <1>10, <1>11, <1>12 DEF RegistryInv, TakenStays

\* Every step keeps what the registry says of the connections.
LEMMA RegistryKept ==
    ASSUME FlowInv, RegistryInv, [Next]_vars
    PROVE  RegistryInv'
<1>1. TypeInv /\ ConnInv /\ BatchInv /\ EntriesOK(policies) /\ ClaimInv /\ loop \in Batch
    BY Zenon DEF FlowInv, TypeInv, RegistryInv, BatchInv
<1>2. ASSUME UNCHANGED <<own, claimed>>
      PROVE  ClaimInv'
    BY Zenon, <1>1, <1>2 DEF ClaimInv
<1>3. ASSUME conn' = conn \/ \E I : Delivered(I), PartOf(policies', policies),
             UNCHANGED <<own, claimed>>, loop' = loop \/ loop'.at # "transform"
      PROVE  RegistryInv'
    <2>1. \A d \in Conns : Carries(d) /\ StillAsks(d)
        BY Zenon, <1>1, <1>3, OthersCarry
    <2>2. \A x \in DOMAIN policies' : x \in DOMAIN policies /\ policies'[x] = policies[x]
        BY Zenon, <1>3 DEF PartOf
    <2> QED
        BY <1>1, <1>2, <1>3, <2>1, <2>2, RegistryShrinks
<1>4. PartOf(policies, policies)
    BY Zenon, <1>1 DEF PartOf, EntriesOK
<1>5. CASE UNCHANGED vars
    BY Zenon, <1>3, <1>4, <1>5 DEF vars, relayVars, registryVars
<1>6. ASSUME NEW c \in Conns, Relay(c)
      PROVE  RegistryInv'
    <2>1. CASE Consume(c)
        BY Zenon, <2>1, ConsumeKeepsRegistry
    <2>2. CASE Arm(c) /\ conn[c].mode # None
        BY Zenon, <2>2, ArmKeepsRegistry
    <2>3. CASE ~Consume(c) /\ ~(Arm(c) /\ conn[c].mode # None)
        <3>1. policies' = policies /\ own' = own /\ claimed' = claimed /\ loop' = loop
            BY <1>6, <2>3 DEF Relay, Dial, SynAck, Arm, Write, Retransmit, ServerHello, Close,
                              Release, registryVars
        <3>2. Arm(c) => StillAsks(c)
            <4> SUFFICES ASSUME Arm(c) PROVE StillAsks(c)
                BY Zenon
            <4>1. conn[c].mode = None /\ conn[c].st = "connected" /\ St(c, "armed")
                BY Zenon, <2>3 DEF Arm
            <4>2. conn'[c].mode = None
                BY Zenon, <1>1, <4>1, StIs DEF Stages
            <4> QED
                BY Zenon, <4>2 DEF StillAsks
        <3>3. \A d \in Conns : Carries(d) /\ StillAsks(d)
            BY Zenon, <1>1, <1>6, <3>2, RelayCarries
        <3> QED
            BY SMTT(30), <1>1, <1>2, <3>1, <3>3, RegistryShrinks
    <2> QED
        BY Zenon, <2>1, <2>2, <2>3
<1>7. CASE Loop \/ Recv \/ RecvShut \/ RecvFails \/ BatchBroken
    <2>1. conn' = conn /\ policies' = policies /\ own' = own /\ claimed' = claimed
        BY Zenon, <1>7 DEF Loop, Recv, RecvShut, RecvFails, BatchBroken, relayVars, registryVars
    <2>2. loop'.at # "transform"
        <3>1. CASE Recv
            BY Zenon, <1>1, <3>1, RecvIs
        <3>2. CASE Loop
            <4>1. \E st \in {"recv", "exited"} : loop' = [AtRead EXCEPT !.at = st]
                BY Zenon, <3>2 DEF Loop
            <4> QED
                BY Zenon, <4>1, AtReadIs DEF Batch
        <3>3. CASE RecvShut \/ RecvFails \/ BatchBroken
            <4>1. \E st \in {"read", "exited"} : loop' = [loop EXCEPT !.at = st]
                BY Zenon, <3>3 DEF RecvShut, RecvFails, BatchBroken
            <4> QED
                BY Zenon, <1>1, <4>1 DEF Batch
        <3> QED
            BY <1>7, <3>1, <3>2, <3>3
    <2> QED
        BY Zenon, <1>3, <1>4, <2>1, <2>2
<1>8. CASE Forward
    <2>1. /\ conn' = conn /\ own' = own /\ claimed' = claimed
          /\ loop.at = "process" /\ Processed(<<"plain">>)
        BY Zenon, <1>8 DEF Forward, relayVars
    <2>2. PartOf(policies', policies)
        BY Zenon, <1>1, <1>8, ForwardIs
    <2>3. <<"plain">> \in Seq(Forms)
        BY DEF Forms
    <2>4. loop.in # <<>>
        BY Zenon, <1>1, <2>1, HeadOfBatch
    <2>5. loop'.at # "transform"
        BY Zenon, <1>1, <2>1, <2>3, <2>4, ProcessedIs
    <2> QED
        BY <1>3, <2>1, <2>2, <2>5
<1>9. CASE Take
    BY Zenon, <1>9, TakeKeepsRegistry
<1>10. CASE Transform
    BY Zenon, <1>10, TransformKeepsRegistry
<1>11. CASE SendBatch \/ SendBatchFails \/ SendOne \/ SendOneFails
    <2>1. /\ policies' = policies /\ own' = own /\ claimed' = claimed
          /\ conn' = conn \/ \E I : Delivered(I)
        BY Zenon, <1>11 DEF SendBatch, SendBatchFails, SendOne, SendOneFails, registryVars, relayVars
    <2>2. loop.at \in {"send", "each"}
        BY Zenon, <1>11 DEF SendBatch, SendBatchFails, SendOne, SendOneFails
    <2>3. loop.in = <<>> /\ BatchInv'
        BY Zenon, <1>1, <1>11, <2>2, SendKeepsBatch DEF BatchInv
    <2>4. loop'.in = <<>>
        BY Zenon, <1>1, <1>11, <2>3, SendKeepsBatch
    <2>5. loop'.at # "transform"
        BY Zenon, <2>3, <2>4 DEF BatchInv
    <2> QED
        BY <1>3, <1>4, <2>1, <2>5
<1>12. CASE Stop \/ Shutdown
    <2>1. conn' = conn /\ policies' = policies /\ own' = own /\ claimed' = claimed /\ loop' = loop
        BY Zenon, <1>12 DEF Stop, Shutdown, relayVars, registryVars
    <2> QED
        BY Zenon, <1>3, <1>4, <2>1
<1>13. CASE Join
    <2>1. conn' = conn /\ policies' = <<>> /\ own' = own /\ claimed' = claimed /\ loop' = loop
        BY Zenon, <1>13 DEF Join, relayVars
    <2>2. PartOf(policies', policies)
        BY <2>1 DEF PartOf
    <2> QED
        BY Zenon, <1>3, <2>1, <2>2
<1>14. CASE Tick
    <2>1. conn' = conn /\ own' = own /\ claimed' = claimed /\ loop' = loop
        BY Zenon, <1>14 DEF Tick, relayVars
    <2>2. \A d \in Conns : Carries(d) /\ StillAsks(d)
        BY Zenon, <1>1, <2>1, OthersCarry
    <2>3. /\ DOMAIN policies' = DOMAIN policies
          /\ \A k \in DOMAIN policies :
               /\ policies'[k].applied = policies[k].applied
               /\ policies'[k].taken = policies[k].taken
               /\ policies'[k].seq = policies[k].seq
               /\ policies'[k].owner = policies[k].owner
        BY Zenon, <1>1, <1>14, TickIs
    <2> QED
        BY SMTT(30), <1>1, <1>2, <2>1, <2>2, <2>3, RegistryShrinks
<1> QED
    BY SMTT(30), <1>5, <1>6, <1>7, <1>8, <1>9, <1>10, <1>11, <1>12, <1>13, <1>14
       DEF Next, LoopStep, LoopError

\* The registry starts empty.
LEMMA RegistryAtInit ==
    ASSUME Init
    PROVE  RegistryInv
<1>1. policies = <<>> /\ loop.at = "read"
    BY Zenon, AtReadIs DEF Init
<1>2. DOMAIN policies = {}
    BY <1>1
<1>3. ClaimInv
    BY Zenon, PacketConstants DEF Init, ClaimInv
<1> QED
    BY Zenon, <1>1, <1>2, <1>3 DEF RegistryInv, Owns, TakenStays

\* consumeApplied() is true only for a connection whose own hello the loop
\* transformed under the policy that connection armed, for any number of
\* connections and ports and whatever is lost, retransmitted or reused on the
\* way (arm, take, noteApplied, consumeApplied).
THEOREM LearnedTheorem == Spec => []LearnedWasTransformed
<1>1. FlowInv /\ RegistryInv => LearnedWasTransformed
    BY Zenon DEF RegistryInv, ClaimInv, LearnedWasTransformed
<1>2. Init => FlowInv /\ RegistryInv
    BY Zenon, FlowAtInit, RegistryAtInit
<1>3. FlowInv /\ RegistryInv /\ [Next]_vars => (FlowInv /\ RegistryInv)'
    BY Zenon, FlowKept, RegistryKept
<1> QED
    BY <1>1, <1>2, <1>3, PTL DEF Spec

-----------------------------------------------------------------------------
(* Copies of a hello are treated like the original                         *)

\* While a hello is to be treated alike, the entry of its port was taken for
\* it and outlives the promise.
Promise(p) ==
    treated[p.conn] > 0 /\ claimed[p.conn] = None =>
        /\ p.port \in DOMAIN policies
        /\ policies[p.port].taken = TRUE /\ policies[p.port].seq = p
        /\ policies[p.port].left >= treated[p.conn]

\* The hellos in the pipe and those TCP may still send.
Hellos == {p \in Pipe : p.kind = "hello"}
              \cup {helloOf(c) : c \in {d \in Conns : conn[d].port # None}}

TreatInv ==
    /\ treated \in [Conns -> Nat]
    /\ \A c \in Conns : conn[c].st \notin SentStages => treated[c] = 0
    /\ \A p \in Hellos : Promise(p)

\* A hello is of a connection and on a port.
LEMMA HelloTypes ==
    ASSUME TypeInv, NEW p \in Hellos
    PROVE  p.conn \in Conns /\ p.port \in Ports
<1>1. CASE p \in Pipe
    BY Zenon, <1>1, PipeTypes DEF Packet
<1>2. CASE \E c \in Conns : p = helloOf(c) /\ conn[c].port # None
    <2>1. PICK c \in Conns : p = helloOf(c) /\ conn[c].port # None
        BY Zenon, <1>2
    <2>2. conn[c].port \in Ports
        BY Zenon, <2>1 DEF TypeInv, ConnInv, Socket
    <2> QED
        BY Zenon, <2>1, <2>2 DEF helloOf
<1> QED
    BY Zenon, <1>1, <1>2 DEF Hellos

\* A connection that is past its SYN owns the hello on its port.
LEMMA HelloOwner ==
    ASSUME FlowInv, NEW p \in Hellos, NEW c \in Conns,
           conn[c].port = p.port, conn[c].st \notin {"dialing", "closing"}
    PROVE  c = p.conn
<1>1. TypeInv /\ ConnInv
    BY Zenon DEF FlowInv, TypeInv
<1>2. CASE p \in Pipe /\ p.kind = "hello"
    BY Zenon, <1>2, HelloOnPort
<1>3. CASE \E d \in Conns : p = helloOf(d) /\ conn[d].port # None
    <2>1. PICK d \in Conns : p = helloOf(d) /\ conn[d].port # None
        BY Zenon, <1>3
    <2>2. p.conn = d /\ p.port = conn[d].port
        BY Zenon, <2>1 DEF helloOf
    <2> QED
        BY Zenon, <1>1, <2>1, <2>2 DEF ConnInv
<1> QED
    BY Zenon, <1>2, <1>3 DEF Hellos

\* A hello in the pipe is the hello of its connection.
LEMMA HelloIsOne ==
    ASSUME FlowInv, NEW p \in Pipe, p.kind = "hello", NEW q \in Hellos, q.conn = p.conn
    PROVE  q = p
<1>1. PipeInv
    BY Zenon DEF FlowInv
<1>2. CASE q \in Pipe /\ q.kind = "hello"
    BY Zenon, <1>1, <1>2 DEF PipeInv
<1>3. CASE \E d \in Conns : q = helloOf(d) /\ conn[d].port # None
    <2>1. PICK d \in Conns : q = helloOf(d) /\ conn[d].port # None
        BY Zenon, <1>3
    <2>2. d = p.conn
        BY Zenon, <2>1 DEF helloOf
    <2> QED
        BY Zenon, <1>1, <2>1, <2>2 DEF PipeInv, Fits
<1> QED
    BY Zenon, <1>2, <1>3 DEF Hellos

\* No step but a dial makes a new hello.
LEMMA HellosShrink ==
    ASSUME FlowInv, \A d \in Conns : Goes(d),
           \A q \in Pipe' : q \in Pipe \/ q.kind # "hello" \/ q \in Hellos
    PROVE  Hellos' \subseteq Hellos
<1> SUFFICES ASSUME NEW p \in Hellos' PROVE p \in Hellos
    BY Zenon
<1>1. CASE p \in Pipe' /\ p.kind = "hello"
    BY Zenon, <1>1 DEF Hellos
<1>2. CASE \E c \in Conns : p = helloOf(c)' /\ conn'[c].port # None
    <2>1. PICK c \in Conns : p = helloOf(c)' /\ conn'[c].port # None
        BY Zenon, <1>2
    <2>2. conn'[c].port = conn[c].port /\ conn'[c].shape = conn[c].shape
        BY Zenon, <2>1 DEF Goes
    <2>3. p = helloOf(c) /\ conn[c].port # None
        BY Zenon, <2>1, <2>2 DEF helloOf
    <2> QED
        BY Zenon, <2>3 DEF Hellos
<1> QED
    BY Zenon, <1>1, <1>2 DEF Hellos

\* Steps that leave the entries alone keep the promises.
LEMMA PromiseStays ==
    ASSUME TreatInv, UNCHANGED <<policies, treated, claimed>>,
           \A d \in Conns : conn'[d].st \notin SentStages => conn[d].st \notin SentStages,
           \A p \in Hellos' : p \in Hellos \/ treated[p.conn] = 0
    PROVE  TreatInv'
<1>1. treated' \in [Conns -> Nat]
    BY Zenon DEF TreatInv
<1>2. \A c \in Conns : conn'[c].st \notin SentStages => treated'[c] = 0
    BY Zenon DEF TreatInv
<1>3. ASSUME NEW p \in Hellos'
      PROVE  Promise(p)'
    <2>1. CASE p \in Hellos
        BY Zenon, <2>1 DEF TreatInv, Promise
    <2>2. CASE treated[p.conn] = 0
        <3>1. ~(treated'[p.conn] > 0)
            BY <2>2
        <3> QED
            BY Zenon, <3>1 DEF Promise
    <2> QED
        BY Zenon, <1>3, <2>1, <2>2
<1> QED
    BY Zenon, <1>1, <1>2, <1>3 DEF TreatInv

\* Steps that take entries away with what was promised for them, or that had
\* nothing left to promise.
LEMMA PromiseLost ==
    ASSUME FlowInv, TreatInv, NEW room, PartOf(room, policies), claimed' = claimed,
           \/ Lost(room)
           \/ /\ treated' = treated
              /\ \A k \in DOMAIN policies : k \notin DOMAIN room => ~(policies[k].left > 0),
           NEW p \in Hellos, p.port \in DOMAIN room => p.port \in DOMAIN policies'
                                                       /\ policies'[p.port] = policies[p.port]
    PROVE  Promise(p)' /\ (treated'[p.conn] = treated[p.conn] \/ treated'[p.conn] = 0)
<1>1. p.conn \in Conns /\ p.port \in Ports /\ treated[p.conn] \in Nat
    BY Zenon, HelloTypes DEF FlowInv, TreatInv
<1>2. treated'[p.conn] = treated[p.conn] \/ treated'[p.conn] = 0
    BY Zenon, <1>1 DEF Lost
<1>3. ASSUME treated'[p.conn] > 0, claimed'[p.conn] = None
      PROVE  /\ p.port \in DOMAIN policies'
             /\ policies'[p.port].taken = TRUE /\ policies'[p.port].seq = p
             /\ policies'[p.port].left >= treated'[p.conn]
    <2>1. treated'[p.conn] = treated[p.conn]
        BY <1>2, <1>3
    <2>2. /\ p.port \in DOMAIN policies
          /\ policies[p.port].taken = TRUE /\ policies[p.port].seq = p
          /\ policies[p.port].left >= treated[p.conn]
        BY Zenon, <1>3, <2>1 DEF TreatInv, Promise
    <2>3. policies[p.port].left \in Nat
        BY Zenon, <2>2 DEF FlowInv, TypeInv, EntriesOK, Entry
    <2>4. p.port \in DOMAIN room
        <3> SUFFICES ASSUME p.port \notin DOMAIN room PROVE FALSE
            BY Zenon
        <3>1. CASE Lost(room)
            <4>1. policies[p.port].taken /\ policies[p.port].seq.conn = p.conn
                BY Zenon, <2>2
            <4>2. treated'[p.conn] = 0
                BY SMTT(30), <1>1, <2>2, <3>1, <4>1 DEF Lost
            <4> QED
                BY <1>3, <4>2
        <3>2. CASE ~(policies[p.port].left > 0)
            BY <1>1, <1>3, <2>1, <2>2, <2>3, <3>2
        <3> QED
            BY <2>2, <3>1, <3>2
    <2> QED
        BY Zenon, <2>1, <2>2, <2>4
<1> QED
    BY Zenon, <1>2, <1>3 DEF Promise

\* A step that is no dial sends no connection back.
LEMMA SentStays ==
    ASSUME \A d \in Conns : Goes(d)
    PROVE  \A d \in Conns : conn'[d].st \notin SentStages => conn[d].st \notin SentStages
BY Zenon DEF Goes

\* arm() replaces an entry only when no hello on its port is to be treated.
LEMMA ArmKeepsTreat ==
    ASSUME FlowInv, TreatInv, NEW c \in Conns, Arm(c), conn[c].mode # None,
           \A d \in Conns : Goes(d), Hellos' \subseteq Hellos
    PROVE  TreatInv'
<1>1. TypeInv /\ ConnInv /\ EntriesOK(policies)
    BY Zenon DEF FlowInv, TypeInv
<1>2. conn[c].st = "connected" /\ arm(c) /\ claimed' = claimed
    BY Zenon DEF Arm
<1>3. conn[c].port # None
    BY Zenon, <1>1, <1>2 DEF ConnInv
<1> DEFINE k == conn[c].port
<1>4. PICK room :
        /\ PartOf(room, policies) /\ Lost(room)
        /\ DOMAIN policies' = DOMAIN room \cup {k}
        /\ \A x \in DOMAIN policies' : x # k =>
             x \in DOMAIN policies /\ x \in DOMAIN room /\ policies'[x] = policies[x]
    BY SMTT(30), <1>1, <1>2, <1>3, ArmIs
<1>5. /\ treated' \in [Conns -> Nat]
      /\ \A d \in Conns : treated[d] = 0 => treated'[d] = 0
    BY Zenon, <1>4 DEF Lost, TreatInv
<1>6. \A d \in Conns : conn'[d].st \notin SentStages => treated'[d] = 0
    BY Zenon, <1>5, SentStays DEF TreatInv
<1>7. treated[c] = 0
    BY Zenon, <1>2 DEF TreatInv, SentStages
<1>8. ASSUME NEW p \in Hellos'
      PROVE  Promise(p)'
    <2>1. p \in Hellos
        BY Zenon, <1>8
    <2>2. CASE p.port = k
        <3>1. p.conn = c
            BY SMTT(30), <1>2, <2>1, <2>2, HelloOwner
        <3>2. ~(treated'[p.conn] > 0)
            BY SMTT(30), <1>5, <1>7, <3>1
        <3> QED
            BY Zenon, <3>2 DEF Promise
    <2>3. CASE p.port # k
        <3>1. p.port \in DOMAIN room => p.port \in DOMAIN policies'
                                        /\ policies'[p.port] = policies[p.port]
            BY SMTT(30), <1>4, <2>3
        <3> QED
            BY SMTT(30), <1>2, <1>4, <2>1, <3>1, PromiseLost
    <2> QED
        BY Zenon, <2>2, <2>3
<1> QED
    BY <1>5, <1>6, <1>8 DEF TreatInv

\* consumeApplied() removes the entry of a hello that has its answer.
LEMMA ConsumeKeepsTreat ==
    ASSUME FlowInv, RegistryInv, TreatInv, NEW c \in Conns, Consume(c), conn[c].mode # None,
           \A d \in Conns : Goes(d), Hellos' \subseteq Hellos
    PROVE  TreatInv'
<1>1. TypeInv /\ EntriesOK(policies) /\ claimed \in [Conns -> BOOLEAN \cup {None}]
    BY Zenon DEF FlowInv, TypeInv, RegistryInv, ClaimInv
<1> DEFINE k == conn[c].port
           b == current(k) /\ policies[k].applied
<1>2. /\ conn[c].st = "answered" /\ treated' = treated
      /\ claimed' = [claimed EXCEPT ![c] = b]
      /\ policies' = without(policies, {k})
    BY Zenon DEF Consume, consumeApplied
<1>3. b \in BOOLEAN
    BY Zenon
<1> HIDE DEF b
<1>4. claimed'[c] # None /\ \A d \in Conns : d # c => claimed'[d] = claimed[d]
    BY SMTT(30), <1>1, <1>2, <1>3, PacketConstants
<1>5. DOMAIN policies' = DOMAIN policies \ {k} /\ \A x \in DOMAIN policies' : policies'[x] = policies[x]
    BY Zenon, <1>2 DEF without
<1>6. ASSUME NEW p \in Hellos'
      PROVE  Promise(p)'
    <2>1. p \in Hellos /\ p.conn \in Conns
        BY SMTT(30), <1>1, <1>6, HelloTypes
    <2>2. CASE p.port = k
        <3>1. p.conn = c
            BY SMTT(30), <1>2, <2>1, <2>2, HelloOwner
        <3> QED
            BY SMTT(30), <1>4, <3>1 DEF Promise
    <2>3. CASE p.port # k
        <3>1. Promise(p)
            BY Zenon, <2>1 DEF TreatInv
        <3>2. claimed'[p.conn] = None => claimed[p.conn] = None
            BY Zenon, <1>4, <2>1
        <3> QED
            BY Zenon, <1>2, <1>5, <2>3, <3>1, <3>2 DEF Promise
    <2> QED
        BY Zenon, <2>2, <2>3
<1>7. \A d \in Conns : conn'[d].st \notin SentStages => treated'[d] = 0
    BY Zenon, <1>2, SentStays DEF TreatInv
<1> QED
    BY <1>2, <1>6, <1>7 DEF TreatInv

\* take() hands an entry out again only for the packet it was taken for.
LEMMA TakeKeepsTreat ==
    ASSUME FlowInv, TreatInv, Take, Hellos' \subseteq Hellos
    PROVE  TreatInv'
<1> DEFINE h == Head(loop.in)
           k == h.port
<1>1. TypeInv /\ BatchInv /\ EntriesOK(policies)
    BY Zenon DEF FlowInv, TypeInv
<1>2. conn' = conn /\ treated' = treated /\ claimed' = claimed
    BY Zenon DEF Take, relayVars
<1>3. /\ k \in DOMAIN policies /\ grantedFor(k, h)
      /\ DOMAIN policies' = DOMAIN policies
      /\ \A x \in DOMAIN policies : x # k => policies'[x] = policies[x]
      /\ policies'[k].taken = TRUE /\ policies'[k].seq = h
      /\ policies'[k].left = policies[k].left
    BY Zenon, <1>1, TakeIs
<1>4. policies[k].taken = TRUE => policies[k].seq = h
    BY Zenon, <1>3 DEF grantedFor
<1> HIDE DEF k, h
<1>5. ASSUME NEW p \in Hellos'
      PROVE  Promise(p)'
    <2>1. Promise(p)
        BY Zenon, <1>5 DEF TreatInv
    <2> QED
        BY SMTT(30), <1>2, <1>3, <1>4, <2>1 DEF Promise
<1> QED
    BY Zenon, <1>2, <1>5 DEF TreatInv

\* noteApplied() makes the promise for the packet the entry was taken for.
LEMMA TransformKeepsTreat ==
    ASSUME FlowInv, RegistryInv, TreatInv, Transform, Hellos' \subseteq Hellos
    PROVE  TreatInv'
<1> DEFINE h == Head(loop.in)
           k == h.port
           mode == loop.policy.mode
<1>1. TypeInv /\ BatchInv /\ EntriesOK(policies) /\ PipeInv
    BY Zenon DEF FlowInv, TypeInv
<1>2. /\ conn' = conn /\ claimed' = claimed /\ loop.at = "transform"
      /\ IF noted(mode, h.shape) THEN noteApplied(k) ELSE policies' = policies
      /\ treated' = IF hides(mode, h.shape) /\ k \in DOMAIN policies
                    THEN [treated EXCEPT ![h.conn] = kAppliedTtlMs] ELSE treated
    BY Zenon DEF Transform, relayVars
<1>3. h \in Packet /\ h \in Pipe /\ h.conn \in Conns /\ h.kind = "hello"
    BY Zenon, <1>1, <1>2, HeadOfBatch DEF Packet, BatchInv
<1>4. conn[h.conn].st \in SentStages
    BY Zenon, <1>1, <1>3 DEF PipeInv, Fits
<1>5. kAppliedTtlMs \in Nat
    BY Zenon, PacketConstants
<1>6. CASE hides(mode, h.shape) /\ k \in DOMAIN policies
    <2>1. policies[k].taken = TRUE /\ policies[k].seq = h
        BY Zenon, <1>2, <1>6 DEF RegistryInv, TakenStays
    <2>2. PICK y : y = k /\ noteApplied(y)
        BY Zenon, <1>2, <1>6 DEF noted, noteApplied
    <2>3. \A x \in DOMAIN policies : x # y => policies'[x] = policies[x]
        BY Zenon, <2>2 DEF noteApplied
    <2>4. treated' = [treated EXCEPT ![h.conn] = kAppliedTtlMs]
        BY Zenon, <1>2, <1>6
    <2> HIDE DEF k, h, mode
    <2>5. /\ DOMAIN policies' = DOMAIN policies
          /\ policies'[y].left = kAppliedTtlMs
          /\ policies'[y].taken = policies[y].taken /\ policies'[y].seq = policies[y].seq
        BY Zenon, <1>1, <1>6, <2>2, NoteIs
    <2>6. /\ treated' \in [Conns -> Nat] /\ treated'[h.conn] = kAppliedTtlMs
          /\ \A d \in Conns : d # h.conn => treated'[d] = treated[d]
        BY <1>3, <1>5, <2>4 DEF TreatInv
    <2>7. ASSUME NEW p \in Hellos'
          PROVE  Promise(p)'
        <3>1. p \in Hellos /\ p.conn \in Conns /\ Promise(p)
            BY <1>1, <2>7, HelloTypes DEF TreatInv
        <3>2. CASE p.conn = h.conn
            <4>1. p = h
                BY Zenon, <1>3, <3>1, <3>2, HelloIsOne
            <4>2. p.port = y
                BY Zenon, <2>2, <4>1 DEF k
            <4>3. policies'[y].left >= treated'[p.conn]
                BY SMTT(30), <1>5, <2>5, <2>6, <3>2
            <4> QED
                BY SMTT(30), <1>6, <2>1, <2>2, <2>5, <4>1, <4>2, <4>3 DEF Promise
        <3>3. CASE p.conn # h.conn
            <4>1. treated'[p.conn] = treated[p.conn]
                BY <2>6, <3>1, <3>3
            <4>2. treated[p.conn] > 0 /\ claimed[p.conn] = None => p.port # k
                BY Zenon, <2>1, <3>1, <3>3 DEF Promise
            <4> QED
                BY SMTT(30), <1>2, <2>2, <2>3, <2>5, <3>1, <4>1, <4>2 DEF Promise
        <3> QED
            BY Zenon, <3>2, <3>3
    <2>8. \A d \in Conns : conn'[d].st \notin SentStages => treated'[d] = 0
        BY Zenon, <1>2, <1>4, <2>6 DEF TreatInv
    <2> QED
        BY Zenon, <2>6, <2>7, <2>8 DEF TreatInv
<1>7. CASE ~(hides(mode, h.shape) /\ k \in DOMAIN policies)
    <2>1. treated' = treated
        BY Zenon, <1>2, <1>7
    <2>2. policies' = policies
        BY Zenon, <1>2, <1>7 DEF noted, noteApplied
    <2> QED
        BY Zenon, <1>2, <2>1, <2>2, PromiseStays
<1> QED
    BY Zenon, <1>6, <1>7

\* Promises and entries grow old together.
LEMMA TickKeepsTreat ==
    ASSUME FlowInv, TreatInv, Tick, Hellos' \subseteq Hellos
    PROVE  TreatInv'
<1>1. TypeInv /\ EntriesOK(policies)
    BY Zenon DEF FlowInv, TypeInv
<1>2. conn' = conn /\ claimed' = claimed /\ treated' = [c \in Conns |-> before(treated[c])]
    BY Zenon DEF Tick, relayVars
<1>3. /\ DOMAIN policies' = DOMAIN policies
      /\ \A k \in DOMAIN policies :
           /\ policies'[k].left = before(policies[k].left)
           /\ policies'[k].taken = policies[k].taken
           /\ policies'[k].seq = policies[k].seq
    BY Zenon, <1>1, TickIs
<1>4. \A c \in Conns : /\ treated[c] \in Nat /\ treated'[c] \in Nat
                       /\ treated'[c] = before(treated[c])
                       /\ treated[c] = 0 => treated'[c] = 0
                       /\ treated'[c] > 0 => treated[c] > 0
    BY <1>2 DEF TreatInv, before
<1>5. ASSUME NEW p \in Hellos'
      PROVE  Promise(p)'
    <2>1. p \in Hellos /\ p.conn \in Conns /\ Promise(p)
        BY Zenon, <1>1, <1>5, HelloTypes DEF TreatInv
    <2>2. ASSUME treated'[p.conn] > 0, claimed'[p.conn] = None
          PROVE  /\ p.port \in DOMAIN policies'
                 /\ policies'[p.port].taken = TRUE /\ policies'[p.port].seq = p
                 /\ policies'[p.port].left >= treated'[p.conn]
        <3>1. /\ p.port \in DOMAIN policies
              /\ policies[p.port].taken = TRUE /\ policies[p.port].seq = p
              /\ policies[p.port].left >= treated[p.conn]
            BY <1>2, <1>4, <2>1, <2>2 DEF Promise
        <3>2. policies[p.port].left \in Nat
            BY Zenon, <1>1, <3>1 DEF EntriesOK, Entry
        <3>3. before(policies[p.port].left) >= before(treated[p.conn])
            BY <1>4, <2>1, <3>1, <3>2 DEF before
        <3> QED
            BY SMTT(30), <1>3, <1>4, <2>1, <3>1, <3>3
    <2> QED
        BY Zenon, <2>2 DEF Promise
<1>6. treated' \in [Conns -> Nat]
    BY Zenon, <1>2, <1>4
<1> QED
    BY <1>2, <1>4, <1>5, <1>6 DEF TreatInv

\* Only a dial makes a new hello; every other step takes hellos away or sends
\* one of them again.
LEMMA HellosStay ==
    ASSUME FlowInv, [Next]_vars, \A c \in Conns : ~Dial(c)
    PROVE  (\A d \in Conns : Goes(d)) /\ Hellos' \subseteq Hellos
<1>1. TypeInv /\ ConnInv /\ BatchInv /\ EntriesOK(policies) /\ queue \in Seq(Packet)
    BY Zenon DEF FlowInv, TypeInv, BatchInv
<1>2. TypeInv'
    BY Zenon, <1>1, TypesKept
<1>3. ASSUME \A d \in Conns : Goes(d), Pipe' \subseteq Pipe
      PROVE  (\A d \in Conns : Goes(d)) /\ Hellos' \subseteq Hellos
    BY Zenon, <1>3, HellosShrink
<1>4. ASSUME conn' = conn, Pipe' \subseteq Pipe
      PROVE  (\A d \in Conns : Goes(d)) /\ Hellos' \subseteq Hellos
    BY Zenon, <1>3, <1>4, SameGoes
<1>5. CASE UNCHANGED vars
    <2>1. conn' = conn /\ queue' = queue /\ loop' = loop
        BY Zenon, <1>5 DEF vars, relayVars
    <2> QED
        BY Zenon, <1>4, <2>1 DEF Pipe
<1>6. ASSUME NEW c \in Conns, Relay(c)
      PROVE  (\A d \in Conns : Goes(d)) /\ Hellos' \subseteq Hellos
    <2>1. \A d \in Conns : Goes(d)
        BY Zenon, <1>1, <1>6, RelayGoes
    <2>2. loop' = loop
        BY Zenon, <1>1, <1>6, RelayEnqueues
    <2>3. CASE SynAck(c) \/ ServerHello(c)
        <3>1. PICK kind \in {"synack", "reply"} : Enqueue(c, kind) /\ conn[c].st \in {"syn", "sent"}
            BY Zenon, <2>3 DEF SynAck, ServerHello
        <3>2. \E st \in {"synack", "sent"} : St(c, st)
            BY Zenon, <2>3 DEF SynAck, ServerHello
        <3>3. conn'[c].port = conn[c].port
            BY Zenon, <1>1, <3>1, <3>2, StIs DEF Stages
        <3>4. conn'[c].port \in Ports
            BY SMTT(30), <1>1, <3>1, <3>3 DEF ConnInv, Socket
        <3>5. PICK q \in Packet : queue' = Append(queue, q) /\ q.kind = kind
            BY Zenon, <1>1, <3>1, <3>4, EnqueueIs DEF Kinds
        <3>6. Pipe' = Pipe \cup {q} /\ q.kind # "hello"
            BY Zenon, <1>1, <2>2, <3>5, AppendsTo
        <3> QED
            BY Zenon, <2>1, <3>6, HellosShrink
    <2>4. CASE Write(c) \/ Retransmit(c)
        <3>1. /\ conn[c].st \in {"armed", "sent", "closing"}
              /\ conn'[c].port = conn[c].port
            BY Zenon, <1>1, <2>4, CopyIs
        <3>2. conn'[c].port \in Ports /\ conn[c].port # None
            BY Zenon, <1>1, <3>1 DEF ConnInv, Socket
        <3>3. Enqueue(c, "hello")
            BY Zenon, <2>4 DEF Write, Retransmit
        <3>4. PICK q \in Packet :
                /\ queue' = Append(queue, q)
                /\ q = [conn |-> c, kind |-> "hello", port |-> conn'[c].port, shape |-> conn[c].shape]
            BY Zenon, <1>1, <3>2, <3>3, EnqueueIs DEF Kinds
        <3>5. q = helloOf(c)
            BY Zenon, <3>1, <3>4 DEF helloOf
        <3>6. q \in Hellos
            BY Zenon, <3>2, <3>5 DEF Hellos
        <3>7. Pipe' = Pipe \cup {q}
            BY Zenon, <1>1, <2>2, <3>4, AppendsTo
        <3> QED
            BY Zenon, <2>1, <3>6, <3>7, HellosShrink
    <2>5. CASE Arm(c) \/ Consume(c) \/ Close(c) \/ Release(c)
        <3>1. queue' = queue
            BY Zenon, <2>5 DEF Arm, Consume, Close, Release
        <3>2. Pipe' = Pipe
            BY Zenon, <2>2, <3>1 DEF Pipe
        <3> QED
            BY Zenon, <1>3, <2>1, <3>2
    <2> QED
        BY <1>6, <2>3, <2>4, <2>5 DEF Relay
<1>7. CASE Loop
    <2>1. conn' = conn /\ queue' = queue /\ \E st : loop' = [AtRead EXCEPT !.at = st]
        BY Zenon, <1>7 DEF Loop, relayVars
    <2>2. loop'.in = <<>> /\ loop'.out = <<>>
        BY Zenon, <2>1, AtReadIs DEF Batch
    <2> QED
        BY <1>2, <1>4, <2>1, <2>2, StillFlow
<1>8. CASE RecvShut \/ RecvFails \/ BatchBroken
    <2>1. conn' = conn /\ queue' = queue /\ \E st : loop' = [loop EXCEPT !.at = st]
        BY Zenon, <1>8 DEF RecvShut, RecvFails, BatchBroken, relayVars
    <2>2. loop'.in = loop.in /\ loop'.out = loop.out
        BY Zenon, <1>1, <2>1 DEF BatchInv, Batch
    <2> QED
        BY <1>2, <1>4, <2>1, <2>2, StillFlow
<1>9. CASE Recv
    <2>1. conn' = conn
        BY Zenon, <1>9 DEF Recv, relayVars
    <2> QED
        BY <1>2, <1>4, <1>9, <2>1, RecvKeepsFlow
<1>10. CASE Forward
    <2>1. conn' = conn /\ queue' = queue /\ loop.at = "process" /\ Processed(<<"plain">>)
        BY Zenon, <1>10 DEF Forward, relayVars
    <2>2. <<"plain">> \in Seq(Forms)
        BY DEF Forms
    <2> QED
        BY Zenon, <1>2, <1>4, <2>1, <2>2, ProcessKeepsFlow
<1>11. CASE Transform
    <2>1. /\ conn' = conn /\ queue' = queue /\ loop.at = "transform"
          /\ Processed(forms(loop.policy.mode, Head(loop.in).shape))
        BY Zenon, <1>11 DEF Transform, relayVars
    <2> DEFINE fs == forms(loop.policy.mode, Head(loop.in).shape)
    <2>2. fs \in Seq(Forms) /\ Processed(fs)
        BY Zenon, <2>1, FormsAre
    <2> HIDE DEF fs
    <2> QED
        BY <1>2, <1>4, <2>1, <2>2, ProcessKeepsFlow
<1>12. CASE Take
    <2>1. conn' = conn /\ queue' = queue
        BY Zenon, <1>12 DEF Take, relayVars
    <2>2. loop'.in = loop.in /\ loop'.out = loop.out
        BY Zenon, <1>1, <1>12, TakeIs
    <2> QED
        BY <1>2, <1>4, <2>1, <2>2, StillFlow
<1>13. CASE SendBatch \/ SendBatchFails \/ SendOne \/ SendOneFails
    BY Zenon, <1>2, <1>3, <1>13, SendKeepsFlow
<1>14. CASE Stop \/ Shutdown \/ Join \/ Tick
    <2>1. conn' = conn /\ loop' = loop /\ (queue' = queue \/ queue' = <<>>)
        BY Zenon, <1>14 DEF Stop, Shutdown, Join, Tick, relayVars
    <2> QED
        BY <1>2, <1>4, <2>1, StillFlow
<1> QED
    BY SMTT(30), <1>5, <1>6, <1>7, <1>8, <1>9, <1>10, <1>11, <1>12, <1>13, <1>14
       DEF Next, LoopStep, LoopError

\* A dial makes the one hello of a connection that has none yet.
LEMMA DialKeepsTreat ==
    ASSUME FlowInv, TreatInv, NEW c \in Conns, Dial(c)
    PROVE  TreatInv'
<1>1. TypeInv /\ ConnInv /\ queue \in Seq(Packet)
    BY Zenon DEF FlowInv, TypeInv, BatchInv
<1>2. /\ conn[c].st = "idle" /\ conn'[c].st = "dialing" /\ conn'[c].port \in Ports
      /\ \A d \in Conns : d # c => conn'[d] = conn[d]
    BY Zenon, <1>1, DialIs
<1>3. Enqueue(c, "syn") /\ loop' = loop /\ UNCHANGED <<policies, treated, claimed>>
    BY Zenon DEF Dial, registryVars
<1>4. PICK q \in Packet : queue' = Append(queue, q) /\ q.kind = "syn"
    BY Zenon, <1>1, <1>2, <1>3, EnqueueIs DEF Kinds
<1>5. Pipe' = Pipe \cup {q}
    BY Zenon, <1>1, <1>3, <1>4, AppendsTo
<1>6. treated[c] = 0
    BY Zenon, <1>2 DEF TreatInv, SentStages
<1>7. ASSUME NEW p \in Hellos'
      PROVE  p \in Hellos \/ treated[p.conn] = 0
    <2>1. CASE p \in Pipe' /\ p.kind = "hello"
        BY Zenon, <1>4, <1>5, <2>1 DEF Hellos
    <2>2. CASE \E d \in Conns : p = helloOf(d)' /\ conn'[d].port # None
        <3>1. PICK d \in Conns : p = helloOf(d)' /\ conn'[d].port # None
            BY Zenon, <2>2
        <3>2. CASE d = c
            <4>1. p.conn = c
                BY Zenon, <3>1, <3>2 DEF helloOf
            <4> QED
                BY Zenon, <1>6, <4>1
        <3>3. CASE d # c
            <4>1. p = helloOf(d) /\ conn[d].port # None
                BY Zenon, <1>2, <3>1, <3>3 DEF helloOf
            <4> QED
                BY Zenon, <4>1 DEF Hellos
        <3> QED
            BY Zenon, <3>2, <3>3
    <2> QED
        BY Zenon, <1>7, <2>1, <2>2 DEF Hellos
<1>8. \A d \in Conns : conn'[d].st \notin SentStages => conn[d].st \notin SentStages
    BY Zenon, <1>2 DEF SentStages
<1> QED
    BY <1>3, <1>7, <1>8, PromiseStays

\* Every step keeps the promises.
LEMMA TreatKept ==
    ASSUME FlowInv, RegistryInv, TreatInv, [Next]_vars
    PROVE  TreatInv'
<1>1. TypeInv /\ EntriesOK(policies)
    BY Zenon DEF FlowInv, TypeInv
<1>2. CASE \E c \in Conns : Dial(c)
    BY Zenon, <1>2, DialKeepsTreat
<1>3. CASE \A c \in Conns : ~Dial(c)
    <2>1. (\A d \in Conns : Goes(d)) /\ Hellos' \subseteq Hellos
        BY Zenon, <1>3, HellosStay
    <2>2. ASSUME UNCHANGED <<policies, treated, claimed>>
          PROVE  TreatInv'
        BY Zenon, <2>1, <2>2, SentStays, PromiseStays
    <2>3. ASSUME NEW room, PartOf(room, policies), claimed' = claimed,
                 \/ Lost(room)
                 \/ /\ treated' = treated
                    /\ \A k \in DOMAIN policies : k \notin DOMAIN room => ~(policies[k].left > 0),
                 policies' = room
          PROVE  TreatInv'
        <3>1. \A k \in DOMAIN room : k \in DOMAIN policies' /\ policies'[k] = policies[k]
            BY Zenon, <2>3 DEF PartOf
        <3>2. \A p \in Hellos' : Promise(p)'
            BY Zenon, <2>1, <2>3, <3>1, PromiseLost
        <3>3. /\ treated' \in [Conns -> Nat]
              /\ \A d \in Conns : treated[d] = 0 => treated'[d] = 0
            BY <2>3 DEF Lost, TreatInv
        <3>4. \A d \in Conns : conn'[d].st \notin SentStages => treated'[d] = 0
            BY Zenon, <2>1, <3>3, SentStays DEF TreatInv
        <3> QED
            BY Zenon, <3>2, <3>3, <3>4 DEF TreatInv
    <2>4. CASE UNCHANGED vars
        BY Zenon, <2>2, <2>4 DEF vars, relayVars, registryVars
    <2>5. ASSUME NEW c \in Conns, Relay(c)
          PROVE  TreatInv'
        <3>1. CASE Arm(c) /\ conn[c].mode # None
            BY Zenon, <2>1, <3>1, ArmKeepsTreat
        <3>2. CASE Consume(c) /\ conn[c].mode # None
            BY Zenon, <2>1, <3>2, ConsumeKeepsTreat
        <3>3. CASE ~(Arm(c) /\ conn[c].mode # None) /\ ~(Consume(c) /\ conn[c].mode # None)
            <4>1. UNCHANGED <<policies, treated, claimed>>
                BY <1>3, <2>5, <3>3 DEF Relay, SynAck, Arm, Write, Retransmit, ServerHello,
                                        Consume, Close, Release, registryVars
            <4> QED
                BY Zenon, <2>2, <4>1
        <3> QED
            BY Zenon, <3>1, <3>2, <3>3
    <2>6. CASE Loop \/ Recv \/ RecvShut \/ RecvFails \/ BatchBroken
        <3>1. UNCHANGED <<policies, treated, claimed>>
            BY Zenon, <2>6 DEF Loop, Recv, RecvShut, RecvFails, BatchBroken, relayVars, registryVars
        <3> QED
            BY Zenon, <2>2, <3>1
    <2>7. CASE Forward
        <3>1. /\ PartOf(policies', policies)
              /\ \A k \in DOMAIN policies : k \notin DOMAIN policies' => ~(policies[k].left > 0)
              /\ treated' = treated \/ Lost(policies')
            BY Zenon, <1>1, <2>7, ForwardIs
        <3>2. claimed' = claimed
            BY Zenon, <2>7 DEF Forward, relayVars
        <3> QED
            BY Zenon, <2>3, <3>1, <3>2
    <2>8. CASE Take
        BY Zenon, <2>1, <2>8, TakeKeepsTreat
    <2>9. CASE Transform
        BY <2>1, <2>9, TransformKeepsTreat
    <2>10. CASE SendBatch \/ SendBatchFails \/ SendOne \/ SendOneFails
        <3>1. UNCHANGED <<policies, treated, claimed>>
            BY Zenon, <2>10 DEF SendBatch, SendBatchFails, SendOne, SendOneFails, registryVars, relayVars
        <3> QED
            BY <2>2, <3>1
    <2>11. CASE Stop \/ Shutdown
        <3>1. UNCHANGED <<policies, treated, claimed>>
            BY Zenon, <2>11 DEF Stop, Shutdown, relayVars, registryVars
        <3> QED
            BY <2>2, <3>1
    <2>12. CASE Join
        <3>1. policies' = <<>> /\ Lost(<<>>) /\ claimed' = claimed
            BY Zenon, <2>12 DEF Join, relayVars
        <3>2. PartOf(<<>>, policies)
            BY DEF PartOf
        <3> QED
            BY Zenon, <2>3, <3>1, <3>2
    <2>13. CASE Tick
        BY <2>1, <2>13, TickKeepsTreat
    <2> QED
        BY SMTT(30), <2>4, <2>5, <2>6, <2>7, <2>8, <2>9, <2>10, <2>11, <2>12, <2>13
           DEF Next, LoopStep, LoopError
<1> QED
    BY Zenon, <1>2, <1>3

\* Nothing is promised at the start.
LEMMA TreatAtInit ==
    ASSUME Init
    PROVE  TreatInv
<1>1. treated = [c \in Conns |-> 0] /\ conn = [c \in Conns |-> Idle]
    BY Zenon DEF Init
<1>2. TypeInv
    BY Zenon, TypesAtInit
<1>3. ASSUME NEW p \in Hellos
      PROVE  Promise(p)
    <2>1. p.conn \in Conns
        BY Zenon, <1>2, HelloTypes
    <2>2. ~(treated[p.conn] > 0)
        BY <1>1, <2>1
    <2> QED
        BY Zenon, <2>2 DEF Promise
<1> QED
    BY Zenon, <1>1, <1>3 DEF TreatInv

\* The only step that lets a hello pass as it is, is the one that found no
\* entry for it.
LEMMA ClearIsForward ==
    ASSUME TypeInv, Next, NEW c \in Conns, PassesClear(c)
    PROVE  Forward
<1>1. loop.at = "process" /\ loop'.in = Tail(loop.in)
    BY Zenon DEF PassesClear
<1>2. Len(Tail(loop.in)) = Len(loop.in) - 1
    BY Zenon, <1>1, HeadOfBatch
<1>3. ConnInv /\ BatchInv /\ EntriesOK(policies) /\ queue \in Seq(Packet)
    BY Zenon DEF TypeInv, BatchInv
<1>4. Len(loop.in) \in Nat
    BY Zenon, PipeTypes
<1>5. loop'.in # loop.in
    <2> DEFINE s == loop.in
               t == Tail(loop.in)
    <2>1. Len(t) = Len(s) - 1 /\ Len(s) \in Nat
        BY Zenon, <1>2, <1>4
    <2> HIDE DEF s, t
    <2>2. t # s
        BY <2>1
    <2> QED
        BY Zenon, <1>1, <2>2 DEF s, t
<1>6. \A d \in Conns : ~Relay(d)
    BY Zenon, <1>3, <1>5, RelayEnqueues
<1>7. ~(Loop \/ Recv \/ RecvShut \/ Transform \/ SendBatch \/ SendOne \/ BatchBroken
        \/ RecvFails \/ SendBatchFails \/ SendOneFails)
    BY Zenon, <1>1 DEF Loop, Recv, RecvShut, Transform, SendBatch, SendOne, BatchBroken, RecvFails,
                SendBatchFails, SendOneFails
<1>8. ~Take
    BY Zenon, <1>3, <1>5, TakeIs
<1>9. ~(Stop \/ Shutdown \/ Join \/ Tick)
    BY Zenon, <1>5 DEF Stop, Shutdown, Join, Tick
<1> QED
    BY <1>6, <1>7, <1>8, <1>9 DEF Next, LoopStep, LoopError

\* Until the relay has its answer, no copy of a hello that was transformed
\* passes in the clear while its entry lasts, for any number of connections
\* and ports and any sizes of the table and the batch (take, noteApplied).
THEOREM TreatedTheorem == Spec => ProbesStayTreated
<1> DEFINE I == FlowInv /\ RegistryInv /\ TreatInv
           A == \A c \in Conns : PassesClear(c) /\ claimed[c] = None => treated[c] = 0
<1>1. Init => I
    BY Zenon, FlowAtInit, RegistryAtInit, TreatAtInit
<1>2. I /\ [Next]_vars => I'
    BY Zenon, FlowKept, RegistryKept, TreatKept
<1>3. I /\ [Next]_vars => [A]_vars
    <2> SUFFICES ASSUME I, Next, NEW c \in Conns, PassesClear(c), claimed[c] = None
                 PROVE  treated[c] = 0
        BY Zenon
    <2> DEFINE h == Head(loop.in)
    <2>1. TypeInv /\ treated[c] \in Nat
        BY Zenon DEF FlowInv, TreatInv
    <2>2. loop.at = "process" /\ h.conn = c /\ h.kind = "hello"
        BY Zenon DEF PassesClear
    <2>3. Forward
        BY Zenon, <2>1, ClearIsForward
    <2>4. ~grantedFor(h.port, h)
        BY Zenon, <2>2, <2>3 DEF Forward
    <2>5. h \in Pipe
        BY Zenon, <2>1, <2>2, HeadOfBatch
    <2>6. h \in Hellos
        BY Zenon, <2>2, <2>5 DEF Hellos
    <2>7. Promise(h)
        BY Zenon, <2>6 DEF TreatInv
    <2> HIDE DEF h
    <2> SUFFICES ASSUME treated[c] # 0 PROVE FALSE
        BY Zenon
    <2>8. treated[h.conn] > 0 /\ claimed[h.conn] = None
        BY <2>1, <2>2
    <2>9. /\ h.port \in DOMAIN policies /\ policies[h.port].seq = h
          /\ policies[h.port].left >= treated[h.conn]
        BY Zenon, <2>7, <2>8 DEF Promise
    <2>10. policies[h.port].left \in Nat
        BY Zenon, <2>1, <2>9 DEF TypeInv, EntriesOK, Entry
    <2>11. policies[h.port].left > 0
        BY <2>1, <2>2, <2>8, <2>9, <2>10
    <2> QED
        BY Zenon, <2>4, <2>9, <2>11 DEF grantedFor, current
<1> HIDE DEF I
<1>4. Spec => [][A]_vars
    BY <1>1, <1>2, <1>3, PTL DEF Spec
<1> QED
    BY Zenon, <1>4 DEF ProbesStayTreated

=============================================================================
