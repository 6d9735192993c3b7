------------------------- MODULE InterceptorProofs --------------------------
(***************************************************************************)
(* Proofs about the tables and functions of the packet loop, for any number*)
(* of tuples, endpoints, servers and ports and every limit and lifetime:   *)
(* the cuts of a hello (PacketCuts), the TCP flow table and the flow       *)
(* registry (PacketFlows), the process filter (ProcessFilter) and the QUIC *)
(* strategies (QuicStrategy).                                              *)
(***************************************************************************)
EXTENDS PacketFlows, ProcessFilter, QuicStrategy, PacketCuts, FiniteSetTheorems, TLAPS

\* One sequence after another.
LEMMA JoinedSequences ==
    ASSUME NEW S, NEW s \in Seq(S), NEW t \in Seq(S)
    PROVE  /\ s \o t \in Seq(S) /\ Len(s \o t) = Len(s) + Len(t)
           /\ \A i \in 1..(Len(s) + Len(t)) :
                (s \o t)[i] = IF i <= Len(s) THEN s[i] ELSE t[i - Len(s)]
OBVIOUS

\* Sequences with the same elements in the same places are equal.
LEMMA SameSequence ==
    ASSUME NEW S, NEW s \in Seq(S), NEW t \in Seq(S), Len(s) = Len(t),
           \A i \in 1..Len(s) : s[i] = t[i]
    PROVE  s = t
OBVIOUS

-----------------------------------------------------------------------------
(* PacketCuts                                                              *)

\* A cut packet was cut by one of the two strategies, under the policy armed.
CutInv ==
    /\ armed \in Policies
    /\ \/ cut = Uncut
       \/ \E mode \in {"ReverseOrder", "SequenceOverlap"}, overlap \in Overlaps,
             length \in Lengths :
            cut = [by |-> "segments", length |-> length,
                   pieces |-> buildSegments(mode, armed, overlap, length),
                   applied |-> splitsSni(armed, segmentSplit(armed, length))]
       \/ \E header \in HeaderLengths, length \in Lengths, whole \in BOOLEAN :
            cut = [by |-> "fragments", header |-> header, length |-> length,
                   whole |-> whole,
                   boundary |-> ipv4FragmentBoundary(header, armed, length),
                   pieces |-> buildIpv4Fragments(whole, header + length,
                                ipv4FragmentBoundary(header, armed, length))]

\* A hostname begins after the first byte of the hello.
PolicyOK(policy) ==
    /\ policy.splitOffset \in Nat /\ policy.sniBegin \in Nat /\ policy.sniEnd \in Nat
    /\ policy.sniEnd # 0 => 0 < policy.sniBegin /\ policy.sniBegin < policy.sniEnd
    /\ policy.sniEnd = 0 => policy.sniBegin = 0

\* A run of bytes of the payload.
LEMMA BytesAre ==
  ASSUME NEW a \in Nat, NEW b \in Nat, a <= b
  PROVE  /\ Bytes(a, b) \in Seq(Int) /\ Len(Bytes(a, b)) = b - a
         /\ \A i \in 1..(b - a) : Bytes(a, b)[i] = a + i - 1
  BY DEF Bytes

\* Two adjacent runs make one.
LEMMA BytesJoin ==
  ASSUME NEW a \in Nat, NEW b \in Nat, NEW c \in Nat, a <= b, b <= c
  PROVE  Bytes(a, b) \o Bytes(b, c) = Bytes(a, c)
<1> DEFINE s == Bytes(a, b)
           t == Bytes(b, c)
           u == Bytes(a, c)
<1>1. /\ s \in Seq(Int) /\ Len(s) = b - a /\ \A i \in 1..(b - a) : s[i] = a + i - 1
  BY Zenon, BytesAre
<1>2. /\ t \in Seq(Int) /\ Len(t) = c - b /\ \A i \in 1..(c - b) : t[i] = b + i - 1
  BY Zenon, BytesAre
<1>3. /\ u \in Seq(Int) /\ Len(u) = c - a /\ \A i \in 1..(c - a) : u[i] = a + i - 1
  BY BytesAre
<1> HIDE DEF s, t, u
<1>4. /\ s \o t \in Seq(Int) /\ Len(s \o t) = Len(s) + Len(t)
      /\ \A i \in 1..Len(s) + Len(t) :
           (s \o t)[i] = IF i <= Len(s) THEN s[i] ELSE t[i - Len(s)]
  BY Zenon, <1>1, <1>2, JoinedSequences
<1> DEFINE w == s \o t
<1> HIDE DEF w
<1>5. /\ w \in Seq(Int) /\ Len(w) = c - a
      /\ \A i \in 1..(c - a) : w[i] = IF i <= b - a THEN s[i] ELSE t[i - (b - a)]
  BY SMTT(30), <1>1, <1>2, <1>4 DEF w
<1>6. ASSUME NEW i \in 1..(c - a) PROVE w[i] = u[i]
  <2>1. CASE i <= b - a
    BY <1>1, <1>3, <1>5, <2>1
  <2>2. CASE ~(i <= b - a)
    <3>1. w[i] = t[i - (b - a)] /\ i - (b - a) \in 1..(c - b)
      BY <1>5, <2>2
    <3> QED
      BY <1>2, <1>3, <3>1
  <2> QED
    BY Zenon, <2>1, <2>2
<1>7. w = u
  BY Zenon, <1>3, <1>5, <1>6, SameSequence
<1> QED
  BY Zenon, <1>7 DEF s, t, u, w

\* A run behind overlapping bytes that are made up.
LEMMA OverlappedBytes ==
  ASSUME NEW n \in Nat, NEW a \in Nat, NEW b \in Nat, a <= b
  PROVE  LET w == [i \in 1..n |-> Fake] \o Bytes(a, b)
         IN  /\ Len(w) = n + (b - a)
             /\ \A i \in 1..n : w[i] = Fake
             /\ \A i \in (n + 1)..(n + (b - a)) : w[i] = a + (i - n) - 1
<1> DEFINE f == [i \in 1..n |-> Fake]
           s == Bytes(a, b)
<1>1. f \in Seq(Int) /\ Len(f) = n /\ \A i \in 1..n : f[i] = Fake
  BY DEF Fake
<1>2. s \in Seq(Int) /\ Len(s) = b - a /\ \A i \in 1..(b - a) : s[i] = a + i - 1
  BY Zenon, BytesAre
<1> HIDE DEF f, s
<1>3. /\ Len(f \o s) = Len(f) + Len(s)
      /\ \A i \in 1..Len(f) + Len(s) :
           (f \o s)[i] = IF i <= Len(f) THEN f[i] ELSE s[i - Len(f)]
  BY Zenon, <1>1, <1>2, JoinedSequences
<1> DEFINE w == f \o s
<1> HIDE DEF w
<1>4. /\ Len(w) = n + (b - a)
      /\ \A i \in 1..(n + (b - a)) : w[i] = IF i <= n THEN f[i] ELSE s[i - n]
  BY Zenon, <1>1, <1>2, <1>3 DEF w
<1>5. \A i \in 1..n : w[i] = Fake
  BY <1>1, <1>4
<1>6. ASSUME NEW i \in (n + 1)..(n + (b - a)) PROVE w[i] = a + (i - n) - 1
  <2>1. w[i] = s[i - n] /\ i - n \in 1..(b - a)
    BY <1>4
  <2> QED
    BY Zenon, <1>2, <2>1
<1> QED
  BY Zenon, <1>4, <1>5, <1>6 DEF f, s, w

\* The units of 8 that IPv4 counts fragment offsets in.
LEMMA Rounding ==
  ASSUME NEW n \in Nat
  PROVE  /\ roundDown(n) \in Nat /\ roundDown(n) % 8 = 0 /\ roundDown(n) <= n
         /\ roundUp(n) \in Nat /\ roundUp(n) % 8 = 0 /\ roundUp(n) >= n
         /\ \A b \in Nat : b % 8 = 0 /\ b <= n => b <= roundDown(n)
         /\ \A b \in Nat : b % 8 = 0 /\ b >= n => b >= roundUp(n)
         /\ n % 8 = 0 => roundUp(n) = n /\ (n \div 8) * 8 = n
  BY DEF roundDown, roundUp

\* Every policy the strategy makes of a hello.
LEMMA PoliciesOK ==
  ASSUME NEW policy \in Policies PROVE PolicyOK(policy)
<1>1. PICK o \in 1..MaxPayload, l \in 0..(MaxPayload \div 2) : policy = policyForProfile(o, l)
  BY DEF Policies
<1>2. o \in Nat /\ o > 0 /\ l \in Nat
  BY CutConstants
<1>3. CASE l = 0
  BY Zenon, <1>1, <1>3 DEF PolicyOK, policyForProfile
<1>4. CASE l # 0
  <2>1. policy = [splitOffset |-> atLeast(2, o + (l \div 2)), sniBegin |-> o, sniEnd |-> o + l]
    BY Zenon, <1>1, <1>4 DEF policyForProfile
  <2>2. atLeast(2, o + (l \div 2)) \in Nat
    BY <1>2 DEF atLeast
  <2> QED
    BY <1>2, <1>4, <2>1, <2>2 DEF PolicyOK
<1> QED
  BY Zenon, <1>3, <1>4

\* Where a hello is split: never at its ends.
LEMMA SplitIsInside ==
  ASSUME NEW policy, PolicyOK(policy), NEW n \in Nat, n > 1
  PROVE  segmentSplit(policy, n) \in 1..(n - 1)
  BY DEF segmentSplit, PolicyOK, clamp, atLeast, atMost

\* Segments in any order and with any overlap are the hello again, and a split
\* inside the hostname leaves no segment with all of it.
LEMMA SegmentsSound ==
  ASSUME PolicyOK(armed), NEW mode, NEW o \in Nat \ {0}, NEW n \in Nat, n > 1,
         cut = [by |-> "segments", length |-> n,
                pieces |-> buildSegments(mode, armed, o, n),
                applied |-> splitsSni(armed, segmentSplit(armed, n))]
  PROVE  SegmentsCarryTheHello
<1> DEFINE split == segmentSplit(armed, n)
           overlap == IF mode = "ReverseOrder" THEN 0 ELSE clamp(o, 1, split)
           late == [at |-> split - overlap,
                    bytes |-> [i \in 1..overlap |-> Fake] \o Bytes(split, n)]
           early == [at |-> 0, bytes |-> Bytes(0, split)]
<1>1. split \in 1..(n - 1)
  BY Zenon, SplitIsInside
<1> HIDE DEF split
<1>2. overlap \in 0..split
  BY <1>1 DEF clamp, atLeast, atMost
<1> HIDE DEF overlap
<1>3. cut.pieces = <<late, early>>
  <2>1. cut.pieces = buildSegments(mode, armed, o, n) /\ ~(n < 2)
    OBVIOUS
  <2>2. buildSegments(mode, armed, o, n) = IF n < 2 THEN <<>> ELSE <<late, early>>
    BY Zenon DEF buildSegments, split, overlap
  <2> HIDE DEF late, early
  <2> QED
    BY Zenon, <2>1, <2>2
<1>4. cut.pieces[1] = late /\ cut.pieces[2] = early
  <2> HIDE DEF late, early
  <2> QED
    BY <1>3
<1>5. /\ Len(early.bytes) = split /\ early.at = 0
      /\ \A i \in 1..split : early.bytes[i] = i - 1
  <2>1. 0 \in Nat /\ split \in Nat /\ 0 <= split
    BY <1>1
  <2>2. /\ Len(Bytes(0, split)) = split - 0
        /\ \A i \in 1..(split - 0) : Bytes(0, split)[i] = 0 + i - 1
    BY Zenon, <2>1, BytesAre
  <2> QED
    BY <2>1, <2>2
<1>6. /\ late.at = split - overlap
      /\ Len(late.bytes) = overlap + (n - split)
      /\ \A i \in 1..overlap : late.bytes[i] = Fake
      /\ \A i \in (overlap + 1)..(overlap + (n - split)) :
           late.bytes[i] = split + (i - overlap) - 1
  <2>1. overlap \in Nat /\ split \in Nat /\ split <= n
    BY SMTT(30), <1>1, <1>2
  <2> DEFINE w == [i \in 1..overlap |-> Fake] \o Bytes(split, n)
  <2>2. /\ Len(w) = overlap + (n - split)
        /\ \A i \in 1..overlap : w[i] = Fake
        /\ \A i \in (overlap + 1)..(overlap + (n - split)) : w[i] = split + (i - overlap) - 1
    BY Zenon, <2>1, OverlappedBytes
  <2>3. late.at = split - overlap /\ late.bytes = w
    BY Zenon
  <2> HIDE DEF w, late
  <2> QED
    BY Zenon, <2>2, <2>3
<1> HIDE DEF late, early
<1>7. /\ \A i \in Nat : Covers(early, i) <=> i < split
      /\ \A i \in Nat : i < split => ByteAt(early, i) = i
  <2>1. ASSUME NEW i \in Nat
        PROVE  /\ Covers(early, i) <=> 0 <= i /\ i < 0 + split
               /\ ByteAt(early, i) = early.bytes[i - 0 + 1]
    BY Zenon, <1>5 DEF Covers, ByteAt
  <2>2. ASSUME NEW i \in Nat, i < split
        PROVE  early.bytes[i - 0 + 1] = i
    <3>1. i + 1 \in 1..split /\ i - 0 + 1 = i + 1 /\ (i + 1) - 1 = i
      BY <1>1, <2>2
    <3>2. early.bytes[i + 1] = (i + 1) - 1
      BY Zenon, <1>5, <3>1
    <3> QED
      BY Zenon, <3>1, <3>2
  <2>3. split \in Nat
    BY <1>1
  <2> QED
    BY <2>1, <2>2, <2>3
<1>8. /\ \A i \in Nat : Covers(late, i) <=> split - overlap <= i /\ i < n
      /\ \A i \in Nat : split - overlap <= i /\ i < split => ByteAt(late, i) = Fake
      /\ \A i \in Nat : split <= i /\ i < n => ByteAt(late, i) = i
  BY <1>1, <1>2, <1>6 DEF Covers, ByteAt
<1>9. Reassembled(cut.pieces, n) = [i \in 0..(n - 1) |-> i]
  <2>1. ASSUME NEW i \in 0..(n - 1)
        PROVE  (IF Covers(early, i) THEN ByteAt(early, i)
                ELSE IF Covers(late, i) THEN ByteAt(late, i) ELSE Fake) = i
    BY <1>1, <1>2, <1>7, <1>8
  <2> QED
    BY Zenon, <1>4, <2>1 DEF Reassembled
<1>10. ASSUME cut.applied, armed.sniEnd # 0, NEW s \in {late, early},
              \A i \in armed.sniBegin..(armed.sniEnd - 1) : Covers(s, i) /\ ByteAt(s, i) = i
       PROVE  FALSE
  <2>1. split > armed.sniBegin /\ split < armed.sniEnd
    BY Zenon, <1>10 DEF splitsSni, split
  <2>2. armed.sniBegin \in Nat /\ armed.sniEnd \in Nat /\ armed.sniBegin < armed.sniEnd
    BY Zenon, <1>10 DEF PolicyOK
  <2>3. /\ armed.sniBegin \in armed.sniBegin..(armed.sniEnd - 1)
        /\ armed.sniEnd - 1 \in armed.sniBegin..(armed.sniEnd - 1)
    BY <2>2
  <2>4. CASE s = late
    BY SMTT(30), <1>1, <1>2, <1>8, <1>10, <2>1, <2>2, <2>3, <2>4 DEF Fake
  <2>5. CASE s = early
    BY SMTT(30), <1>1, <1>7, <1>10, <2>1, <2>2, <2>3, <2>5
  <2> QED
    BY Zenon, <2>4, <2>5
<1>11. cut.length = n
  BY Zenon
<1> QED
  BY <1>4, <1>9, <1>10, <1>11 DEF SegmentsCarryTheHello

\* The boundary is the multiple of 8 inside the hostname that is nearest to the
\* split, and is missing only where there is none; the fragments cut there are
\* the packet.
LEMMA FragmentsSound ==
  ASSUME PolicyOK(armed), NEW h \in Nat \ {0}, NEW n \in Nat, NEW whole \in BOOLEAN,
         cut = [by |-> "fragments", header |-> h, length |-> n, whole |-> whole,
                boundary |-> ipv4FragmentBoundary(h, armed, n),
                pieces |-> buildIpv4Fragments(whole, h + n,
                             ipv4FragmentBoundary(h, armed, n))]
  PROVE  FragmentsCutTheName
<1> DEFINE sp == armed.splitOffset
           sb == armed.sniBegin
           se == armed.sniEnd
           named == se > sb
           lo == IF named THEN atLeast(1, sb + 1) ELSE 1
           hi == IF named THEN atMost(n - 1, se - 1) ELSE n - 1
           target == h + clamp(sp, lo, hi)
           down == roundDown(target)
           up == roundUp(target)
           fits(b) == b >= h + lo /\ b <= h + hi
           B == ipv4FragmentBoundary(h, armed, n)
           possible == Cuts(h, n)
<1>1. sp \in Nat /\ sb \in Nat /\ se \in Nat
  BY Zenon DEF PolicyOK
<1>2. B = IF n < 2 \/ lo > hi THEN 0
          ELSE IF fits(down) /\ (fits(up) => distance(up, target) >= distance(down, target))
               THEN down
          ELSE IF fits(up) THEN up ELSE 0
  BY Zenon DEF ipv4FragmentBoundary
<1>3. /\ cut.boundary = B /\ cut.header = h /\ cut.length = n /\ cut.whole = whole
      /\ cut.pieces = buildIpv4Fragments(whole, h + n, B)
  BY Zenon
<1> HIDE DEF sp, sb, se, B
<1>4. lo \in Nat \ {0} /\ hi \in Int /\ hi <= n - 1
  BY <1>1 DEF atLeast, atMost
<1>5. \A b : b \in possible <=> b \in Nat /\ b % 8 = 0 /\ n >= 2 /\ fits(b)
  <2>1. \A b : b \in possible <=> /\ b \in (h + 1)..(h + n - 1) /\ b % 8 = 0
                                  /\ se > sb => b > h + sb /\ b < h + se
    BY Zenon DEF Cuts, sb, se
  <2> HIDE DEF possible
  <2>2. CASE named
    BY SMTT(30), <1>1, <2>1, <2>2 DEF atLeast, atMost
  <2>3. CASE ~named
    BY <1>1, <2>1, <2>3 DEF atLeast, atMost
  <2> QED
    BY Zenon, <2>2, <2>3
<1> HIDE DEF possible, lo, hi
<1>6. CASE n < 2 \/ lo > hi
  <2>1. B = 0
    BY Zenon, <1>2, <1>6
  <2>2. possible = {}
    <3>1. ASSUME NEW b \in possible PROVE FALSE
      BY <1>4, <1>5, <1>6
    <3> QED
      BY Zenon, <3>1
  <2> QED
    BY Zenon, <1>3, <2>1, <2>2 DEF FragmentsCutTheName, possible
<1>7. CASE ~(n < 2 \/ lo > hi)
  <2>1. /\ target \in Nat /\ target >= h + lo /\ target <= h + hi
        /\ target = h + sp \/ (target = h + hi /\ h + sp >= target)
             \/ (target = h + lo /\ h + sp <= target)
    BY <1>1, <1>4, <1>7 DEF clamp, atLeast, atMost
  <2> HIDE DEF target
  <2>2. /\ down \in Nat /\ down % 8 = 0 /\ down <= target
        /\ up \in Nat /\ up % 8 = 0 /\ up >= target
        /\ \A b \in Nat : b % 8 = 0 /\ b <= target => b <= down
        /\ \A b \in Nat : b % 8 = 0 /\ b >= target => b >= up
    BY Zenon, <2>1, Rounding
  <2> HIDE DEF down, up
  <2>3. ASSUME NEW c \in possible
        PROVE  /\ c \in Nat /\ fits(c)
               /\ c <= target => c <= down /\ fits(down)
               /\ c >= target => c >= up /\ fits(up)
    BY <1>4, <1>5, <2>1, <2>2
  <2>4. CASE B = 0
    <3>1. ~fits(down) /\ ~fits(up)
      BY SMTT(30), <1>2, <1>4, <1>7, <2>2, <2>4
    <3>2. possible = {}
      BY SMTT(30), <2>1, <2>3, <3>1
    <3> QED
      BY Zenon, <1>3, <2>4, <3>2 DEF FragmentsCutTheName, possible
  <2>5. CASE B # 0
    <3>1. /\ B \in Nat /\ B % 8 = 0 /\ fits(B)
          /\ B = down \/ B = up
          /\ B = up => ~(fits(down) /\ (fits(up) => distance(up, target) >= distance(down, target)))
                       \/ up = down
          /\ B = down => (fits(up) => distance(up, target) >= distance(down, target)) \/ up = down
      BY <1>2, <1>7, <2>2, <2>5
    <3>2. B \in possible
      BY SMTT(30), <1>5, <1>7, <3>1
    <3>3. ASSUME NEW c \in possible PROVE distance(B, h + sp) <= distance(c, h + sp)
      <4>1. /\ c \in Nat /\ fits(c)
            /\ c <= target => c <= down /\ fits(down)
            /\ c >= target => c >= up /\ fits(up)
        BY Zenon, <2>3
      <4>2. distance(B, target) <= distance(c, target)
        BY SMTT(30), <2>1, <2>2, <3>1, <4>1 DEF distance
      <4> QED
        BY <1>1, <1>4, <2>1, <3>1, <4>1, <4>2 DEF distance
    <3>4. ASSUME whole
          PROVE  /\ Len(cut.pieces) = 2 /\ cut.pieces[2].offset * 8 = B
                 /\ cut.pieces[1].bytes \o cut.pieces[2].bytes = Bytes(0, h + n)
      <4>1. roundUp(B) = B /\ (B \div 8) * 8 = B
        BY Zenon, <3>1, Rounding
      <4>2. B < h + n /\ B <= h + n
        BY <1>4, <3>1
      <4>3. cut.pieces = <<[offset |-> 0, more |-> TRUE, bytes |-> Bytes(0, B)],
                           [offset |-> B \div 8, more |-> FALSE, bytes |-> Bytes(B, h + n)]>>
        <5>1. ~(B = 0 \/ B >= h + n)
          BY SMTT(30), <1>4, <2>5, <3>1, <4>2
        <5> QED
          BY Zenon, <1>3, <3>4, <4>1, <5>1 DEF buildIpv4Fragments
      <4>4. Bytes(0, B) \o Bytes(B, h + n) = Bytes(0, h + n)
        <5>1. 0 \in Nat /\ h + n \in Nat /\ 0 <= B
          BY <3>1
        <5> QED
          BY Zenon, <3>1, <4>2, <5>1, BytesJoin
      <4> DEFINE p == [offset |-> 0, more |-> TRUE, bytes |-> Bytes(0, B)]
                 q == [offset |-> B \div 8, more |-> FALSE, bytes |-> Bytes(B, h + n)]
      <4>5. p.bytes = Bytes(0, B) /\ q.bytes = Bytes(B, h + n) /\ q.offset = B \div 8
        BY Zenon
      <4>6. cut.pieces = <<p, q>>
        BY Zenon, <4>3
      <4> HIDE DEF p, q
      <4>7. Len(cut.pieces) = 2 /\ cut.pieces[1] = p /\ cut.pieces[2] = q
        BY <4>6
      <4> QED
        BY Zenon, <4>1, <4>4, <4>5, <4>7
    <3>5. ASSUME ~whole PROVE cut.pieces = <<>>
      BY Zenon, <1>3, <3>5 DEF buildIpv4Fragments
    <3> QED
      BY Zenon, <1>3, <2>5, <3>2, <3>3, <3>4, <3>5 DEF FragmentsCutTheName, possible, sp
  <2> QED
    BY Zenon, <2>4, <2>5
<1> QED
  BY Zenon, <1>6, <1>7

\* However long the hello and wherever its hostname, the pieces of a cut packet
\* are the packet, and one that is reported as applied cuts the hostname.
THEOREM CutsTheorem == CutSpec => []CutsAreSound
<1>1. CutInit => CutInv
  BY Zenon DEF CutInit, CutInv
<1>2. CutInv /\ [CutNext]_cutVars => CutInv'
  <2> SUFFICES ASSUME CutInv, [CutNext]_cutVars PROVE CutInv'
    BY Zenon
  <2>1. armed' = armed
    BY Zenon DEF CutNext, CutSegments, CutFragments, NextHello, cutVars
  <2>2. ASSUME NEW mode \in {"ReverseOrder", "SequenceOverlap"}, NEW overlap \in Overlaps,
               NEW length \in Lengths, CutSegments(mode, overlap, length)
        PROVE  CutInv'
    BY Zenon, <2>1, <2>2 DEF CutInv, CutSegments
  <2>3. ASSUME NEW header \in HeaderLengths, NEW length \in Lengths, NEW whole \in BOOLEAN,
               CutFragments(header, length, whole)
        PROVE  CutInv'
    BY Zenon, <2>1, <2>3 DEF CutInv, CutFragments
  <2>4. CASE NextHello
    BY Zenon, <2>1, <2>4 DEF CutInv, NextHello
  <2>5. CASE UNCHANGED cutVars
    BY Zenon, <2>5 DEF CutInv, cutVars
  <2> QED
    BY Zenon, <2>2, <2>3, <2>4, <2>5 DEF CutNext
<1>3. CutInv => CutsAreSound
  <2> SUFFICES ASSUME CutInv PROVE CutsAreSound
    BY Zenon
  <2>1. PolicyOK(armed)
    BY Zenon, PoliciesOK DEF CutInv
  <2>2. Lengths \subseteq Nat /\ Overlaps \subseteq Nat \ {0} /\ HeaderLengths \subseteq Nat \ {0}
    BY CutConstants DEF Lengths
  <2>3. ASSUME cut.by = "segments", cut.length > 1 PROVE SegmentsCarryTheHello
    <3>1. PICK mode \in {"ReverseOrder", "SequenceOverlap"}, overlap \in Overlaps,
               length \in Lengths :
            cut = [by |-> "segments", length |-> length,
                   pieces |-> buildSegments(mode, armed, overlap, length),
                   applied |-> splitsSni(armed, segmentSplit(armed, length))]
      BY <2>3 DEF CutInv, Uncut
    <3>2. length > 1
      BY Zenon, <2>3, <3>1
    <3> QED
      BY Zenon, <2>1, <2>2, <3>1, <3>2, SegmentsSound
  <2>4. ASSUME cut.by = "fragments" PROVE FragmentsCutTheName
    <3>1. PICK header \in HeaderLengths, length \in Lengths, whole \in BOOLEAN :
            cut = [by |-> "fragments", header |-> header, length |-> length,
                   whole |-> whole,
                   boundary |-> ipv4FragmentBoundary(header, armed, length),
                   pieces |-> buildIpv4Fragments(whole, header + length,
                                ipv4FragmentBoundary(header, armed, length))]
      BY <2>4 DEF CutInv, Uncut
    <3> QED
      BY SMTT(30), <2>1, <2>2, <3>1, FragmentsSound
  <2> QED
    BY Zenon, <2>3, <2>4 DEF CutsAreSound
<1> QED
  BY <1>1, <1>2, <1>3, PTL DEF CutSpec

-----------------------------------------------------------------------------
(* Operators                                                               *)

\* The larger of two numbers, as the ages that stop at zero need it.
LEMMA MaxOfTwo ==
  ASSUME NEW a \in Int, NEW b \in Int
  PROVE  Max({a, b}) = IF a >= b THEN a ELSE b
<1>1. \E x \in {a, b} : \A y \in {a, b} : x >= y
  OBVIOUS
<1>2. Max({a, b}) \in {a, b} /\ \A y \in {a, b} : Max({a, b}) >= y
  BY Zenon, <1>1 DEF Max
<1> QED
  BY <1>2

\* The smaller of two numbers, as the counters with a cap need it.
LEMMA MinOfTwo ==
  ASSUME NEW a \in Int, NEW b \in Int
  PROVE  Min({a, b}) = IF a <= b THEN a ELSE b
<1>1. \E x \in {a, b} : \A y \in {a, b} : x <= y
  OBVIOUS
<1>2. Min({a, b}) \in {a, b} /\ \A y \in {a, b} : Min({a, b}) <= y
  BY Zenon, <1>1 DEF Min
<1> QED
  BY <1>2

\* What a sweep or an eviction leaves of a table is a part of it.
LEMMA RestrictIsPart ==
  ASSUME NEW f, NEW S \in SUBSET (DOMAIN f)
  PROVE  IsRestriction(Restrict(f, S), f) /\ DOMAIN Restrict(f, S) = S
  BY Zenon DEF IsRestriction, Restrict

\* A part of a part is a part.
LEMMA PartOfPart ==
  ASSUME NEW f, NEW g, NEW h, IsRestriction(f, g), IsRestriction(g, h)
  PROVE  IsRestriction(f, h)
  BY Zenon DEF IsRestriction

-----------------------------------------------------------------------------
(* PacketFlows: the flow table                                             *)

FlowEntry == [left : Nat, closing : BOOLEAN]
FlowHistory == [syn : BOOLEAN, fin : BOOLEAN, quiet : Nat]

\* An entry that has not expired says of its tuple what its packets since the
\* SYN say: diverted, closing or not, and silent for what is gone of its
\* lifetime.
EntryTells(e, h) ==
    /\ e \in FlowEntry
    /\ e.left > 0 => /\ h.syn = TRUE /\ h.fin = e.closing
                     /\ e.left + h.quiet = lifetime(e.closing)

TableTells(table, history) ==
    /\ DOMAIN table \subseteq Tuples
    /\ \A k \in DOMAIN table : EntryTells(table[k], history[k])

TableInv ==
    /\ seen \in [Tuples -> FlowHistory]
    /\ TableTells(tcpFlows, seen)
    /\ running = TRUE \/ (running = FALSE /\ DOMAIN tcpFlows = {})

PendingInv ==
    /\ sinceSyn \in [Client -> 0..kPendingFlowTtl] /\ grants \in [Client -> 0..2]
    /\ DOMAIN flows \subseteq Client
    /\ \A p \in DOMAIN flows :
         /\ flows[p] \in Nat
         /\ flows[p] > 0 => flows[p] + sinceSyn[p] = kPendingFlowTtl /\ grants[p] = 0

\* What RewritesAreExact and ClaimsAreExact say of a step.
ExactRewrites ==
    \A k \in Tuples :
       /\ tracked(k)' => Alive(k)'
       /\ (tracked(k) /\ Alive(k)' /\ Cardinality(DOMAIN tcpFlows) < kMaxTcpFlows)
             => tracked(k)'
       /\ tracked(k) /\ Alive(k)' /\ ~tracked(k)'
             => \A j \in DOMAIN tcpFlows \cap DOMAIN tcpFlows' :
                   remaining(k) <= remaining(j)

ExactClaims ==
    \A p \in Client :
       /\ grants'[p] > grants[p] => grants[p] = 0 /\ sinceSyn[p] < kPendingFlowTtl
       /\ /\ authorized(p)
          /\ (sinceSyn[p] < kPendingFlowTtl)'
          /\ grants'[p] = grants[p]
          /\ Cardinality(DOMAIN flows) < kMaxPendingFlows
          => authorized(p)'

\* Lifetimes are positive.
LEMMA LifetimeIsPositive ==
  ASSUME NEW c \in BOOLEAN PROVE lifetime(c) \in Nat \ {0}
  BY Zenon, FlowConstants DEF lifetime

\* Taking keys out of a table leaves a part of it.
LEMMA WithoutIsPart ==
  ASSUME NEW f, NEW S
  PROVE  IsRestriction(without(f, S), f) /\ DOMAIN without(f, S) = DOMAIN f \ S
  BY RestrictIsPart DEF without

\* Whatever makeRoomLocked() sweeps and evicts, it adds and changes nothing.
LEMMA RoomIsPart ==
  ASSUME NEW room \in makeRoomLocked PROVE IsRestriction(room, tcpFlows)
<1> DEFINE swept == without(tcpFlows, expired)
<1>1. IsRestriction(swept, tcpFlows)
  BY Zenon, WithoutIsPart
<1>2. \A E : IsRestriction(without(tcpFlows, E), tcpFlows)
  BY Zenon, WithoutIsPart
<1>3. ASSUME NEW E PROVE IsRestriction(without(swept, E), tcpFlows)
  BY Zenon, <1>1, WithoutIsPart, PartOfPart
<1> HIDE DEF swept
<1>4. \A r \in evictedBy(swept) : IsRestriction(r, tcpFlows)
  BY Zenon, <1>1, <1>3 DEF evictedBy
<1> QED
  BY Zenon, <1>2, <1>4 DEF makeRoomLocked, swept

\* What lives and is evicted is no further from expiry than what stays.
LEMMA OldestGo ==
  ASSUME NEW room \in makeRoomLocked, NEW k \in DOMAIN tcpFlows \ DOMAIN room, tracked(k),
         tcpFlows[k].left \in Nat, NEW j \in DOMAIN room
  PROVE  tcpFlows[k].left <= tcpFlows[j].left
<1> DEFINE swept == without(tcpFlows, expired)
<1>1. ASSUME NEW f, NEW E \in evictable(f), k \in DOMAIN f, room = without(f, E)
      PROVE  f[k].left <= f[j].left
  <2>1. k \in E /\ j \in DOMAIN f \ E
    BY Zenon, <1>1, WithoutIsPart
  <2> QED
    BY Zenon, <2>1 DEF evictable
<1>2. IsRestriction(swept, tcpFlows) /\ DOMAIN swept = DOMAIN tcpFlows \ expired
  BY Zenon, WithoutIsPart
<1>3. k \in DOMAIN swept
  <2>1. tcpFlows[k].left # 0
    BY DEF tracked
  <2> QED
    BY Zenon, <1>2, <2>1 DEF expired
<1> HIDE DEF swept
<1>4. ASSUME room \in evictedBy(swept) PROVE tcpFlows[k].left <= tcpFlows[j].left
  <2>1. PICK E \in evictable(swept) : room = without(swept, E)
    BY Zenon, <1>3, <1>4 DEF evictedBy
  <2>2. swept[k].left <= swept[j].left
    BY Zenon, <1>1, <1>3, <2>1
  <2>3. swept[k] = tcpFlows[k] /\ swept[j] = tcpFlows[j]
    BY Zenon, <1>2, <1>3, <2>1, WithoutIsPart DEF IsRestriction
  <2> QED
    BY Zenon, <2>2, <2>3
<1>5. ASSUME room \notin evictedBy(swept) PROVE tcpFlows[k].left <= tcpFlows[j].left
  <2>1. PICK E \in evictable(tcpFlows) : room = without(tcpFlows, E)
    BY Zenon, <1>5 DEF makeRoomLocked, swept
  <2> QED
    BY Zenon, <1>1, <2>1
<1> QED
  BY Zenon, <1>4, <1>5

\* add() after a SYN: the tuple starts afresh; the others are as they were, all
\* there while the table is not full, and otherwise the ones with the longest to
\* live.
LEMMA AddKeeps ==
  ASSUME TableInv, NEW k \in Tuples, add(k), running = TRUE, running' = TRUE,
         seen' = [seen EXCEPT ![k] = FreshSyn]
  PROVE  TableInv' /\ ExactRewrites
<1> DEFINE new == [left |-> kTcpFlowIdle, closing |-> FALSE]
<1>1. PICK room : /\ tcpFlows' = with(room, k, new) /\ IsRestriction(room, tcpFlows)
                  /\ Cardinality(DOMAIN tcpFlows) < kMaxTcpFlows => room = tcpFlows
                  /\ room = tcpFlows \/ (room \in makeRoomLocked /\ k \notin DOMAIN tcpFlows)
  <2>1. CASE sweeps(k)
    <3>1. PICK room \in makeRoomLocked : tcpFlows' = with(room, k, new)
      BY Zenon, <2>1 DEF add
    <3>2. ~(Cardinality(DOMAIN tcpFlows) < kMaxTcpFlows)
      <4>1. IsFiniteSet(Tuples)
        BY Zenon, FlowConstants, FS_Union DEF Tuples
      <4>2. Cardinality(DOMAIN tcpFlows) \in Nat
        BY Zenon, <4>1, FS_Subset, FS_CardinalityType DEF TableInv, TableTells
      <4> QED
        BY <2>1, <4>2, FlowConstants DEF sweeps
    <3> QED
      BY Zenon, <2>1, <3>1, <3>2, RoomIsPart DEF sweeps
  <2>2. CASE ~sweeps(k)
    <3>1. tcpFlows' = with(tcpFlows, k, new)
      BY Zenon, <2>2 DEF add
    <3> QED
      BY Zenon, <3>1 DEF IsRestriction
  <2> QED
    BY Zenon, <2>1, <2>2
<1>2. /\ DOMAIN tcpFlows' = DOMAIN room \cup {k} /\ tcpFlows'[k] = new
      /\ \A x \in DOMAIN room : x # k => tcpFlows'[x] = tcpFlows[x]
      /\ DOMAIN room \subseteq DOMAIN tcpFlows
  BY Zenon, <1>1 DEF with, IsRestriction
<1>3. EntryTells(new, FreshSyn) /\ new.left > 0 /\ FreshSyn \in FlowHistory
  BY FlowConstants DEF EntryTells, FlowEntry, FlowHistory, FreshSyn, lifetime
<1>4. /\ seen' \in [Tuples -> FlowHistory] /\ seen'[k] = FreshSyn
      /\ \A x \in Tuples : x # k => seen'[x] = seen[x]
  BY Zenon, <1>3 DEF TableInv
<1> HIDE DEF new
<1>5. TableTells(tcpFlows', seen')
  BY Zenon, <1>2, <1>3, <1>4 DEF TableInv, TableTells
<1>6. TableInv'
  BY Zenon, <1>4, <1>5 DEF TableInv, TableTells, EntryTells, lifetime
<1>7. FreshSyn.syn = TRUE
  BY Zenon DEF FreshSyn
<1>8. \A x \in Tuples : tracked(x)' => Alive(x)'
  BY Zenon, <1>2, <1>4, <1>5, <1>7 DEF tracked, Alive, TableTells, EntryTells
<1>9. ASSUME Cardinality(DOMAIN tcpFlows) < kMaxTcpFlows, NEW x \in Tuples, tracked(x)
      PROVE  tracked(x)'
  BY Zenon, <1>1, <1>2, <1>3, <1>9 DEF tracked
<1>10. ASSUME NEW x \in Tuples, tracked(x), ~tracked(x)',
              NEW j \in DOMAIN tcpFlows \cap DOMAIN tcpFlows'
       PROVE  remaining(x) <= remaining(j)
  <2>1. x \in DOMAIN tcpFlows \ DOMAIN room /\ j \in DOMAIN room
    BY Zenon, <1>1, <1>2, <1>3, <1>10 DEF tracked
  <2>2. room \in makeRoomLocked
    BY Zenon, <1>1, <2>1
  <2>3. ASSUME NEW y \in DOMAIN tcpFlows
        PROVE  /\ tcpFlows[y].left \in Nat
               /\ tcpFlows[y].left > 0 => remaining(y) = tcpFlows[y].left
    <3>1. /\ y \in Tuples /\ tcpFlows[y].left \in Nat /\ tcpFlows[y].closing \in BOOLEAN
          /\ tcpFlows[y].left > 0 =>
               /\ seen[y].syn = TRUE /\ seen[y].fin = tcpFlows[y].closing
               /\ tcpFlows[y].left + seen[y].quiet = lifetime(tcpFlows[y].closing)
      BY Zenon DEF TableInv, TableTells, EntryTells, FlowEntry
    <3>2. seen[y].quiet \in Nat /\ lifetime(tcpFlows[y].closing) \in Nat
      BY Zenon, <3>1, LifetimeIsPositive DEF TableInv, FlowHistory
    <3>3. tcpFlows[y].left > 0
            => remaining(y) = lifetime(tcpFlows[y].closing) - seen[y].quiet
      BY Zenon, <3>1 DEF remaining, Alive
    <3> QED
      BY <3>1, <3>2, <3>3
  <2>4. tcpFlows[x].left <= tcpFlows[j].left
    BY Zenon, <1>10, <2>1, <2>2, <2>3, OldestGo
  <2>5. tcpFlows[x].left > 0
    BY Zenon, <1>10 DEF tracked
  <2>6. tcpFlows[j].left > 0
    BY <2>1, <2>3, <2>4, <2>5
  <2> QED
    BY <2>1, <2>3, <2>4, <2>5, <2>6
<1> QED
  BY Zenon, <1>6, <1>8, <1>9, <1>10 DEF ExactRewrites

\* The SYN of a program the process rules leave alone takes its entry out.
LEMMA BypassKeeps ==
  ASSUME TableInv, NEW k \in Tuples, BypassedSyn(k) PROVE TableInv' /\ ExactRewrites
<1>1. /\ IsRestriction(tcpFlows', tcpFlows) /\ DOMAIN tcpFlows' = DOMAIN tcpFlows \ {k}
      /\ seen' = [seen EXCEPT ![k] = NeverSeen] /\ running' = running
  BY Zenon, WithoutIsPart DEF BypassedSyn, remove
<1>2. /\ seen' \in [Tuples -> FlowHistory] /\ seen'[k].syn = FALSE
      /\ \A x \in Tuples : x # k => seen'[x] = seen[x]
  BY Zenon, <1>1 DEF TableInv, NeverSeen, FlowHistory
<1>3. TableTells(tcpFlows', seen')
  BY Zenon, <1>1, <1>2 DEF TableInv, TableTells, IsRestriction
<1>4. TableInv'
  BY Zenon, <1>1, <1>2, <1>3 DEF TableInv, TableTells, EntryTells, lifetime
<1>5. \A x \in Tuples : tracked(x)' => Alive(x)'
  BY Zenon, <1>3 DEF tracked, Alive, TableTells, EntryTells
<1>6. \A x \in Tuples : tracked(x) /\ Alive(x)' => tracked(x)'
  BY Zenon, <1>1, <1>2 DEF tracked, Alive, IsRestriction
<1> QED
  BY Zenon, <1>4, <1>5, <1>6 DEF ExactRewrites

\* Any other packet: an entry that lives is renewed or, on a RST, erased.
LEMMA SegmentKeeps ==
  ASSUME TableInv, NEW k \in Tuples, NEW fin \in BOOLEAN, NEW rst \in BOOLEAN,
         Segment(k, fin, rst)
  PROVE  TableInv' /\ ExactRewrites
<1>1. track(k, fin, rst) /\ Seen(k, fin, rst) /\ running' = running
  BY Zenon DEF Segment
<1> DEFINE h == IF ~Alive(k) \/ rst THEN NeverSeen
                ELSE [syn |-> TRUE, fin |-> fin \/ seen[k].fin, quiet |-> 0]
<1>2. seen' = [seen EXCEPT ![k] = h]
  BY Zenon, <1>1 DEF Seen
<1>3. h \in FlowHistory /\ seen[k] \in FlowHistory
  BY Zenon DEF TableInv, FlowHistory, NeverSeen
<1>4. /\ seen' \in [Tuples -> FlowHistory] /\ seen'[k] = h
      /\ \A x \in Tuples : x # k => seen'[x] = seen[x]
  BY Zenon, <1>2, <1>3 DEF TableInv
<1>5. CASE tracked(k) /\ rst = FALSE
  <2> DEFINE c == fin \/ tcpFlows[k].closing
             new == [left |-> lifetime(c), closing |-> c]
  <2>1. k \in DOMAIN tcpFlows /\ EntryTells(tcpFlows[k], seen[k]) /\ tcpFlows[k].left > 0
    BY Zenon, <1>5 DEF tracked, TableInv, TableTells
  <2>2. tcpFlows' = with(tcpFlows, k, new)
    BY <1>1, <1>5, <2>1 DEF track, EntryTells, FlowEntry
  <2>3. c \in BOOLEAN /\ seen[k].syn = TRUE /\ seen[k].fin = tcpFlows[k].closing
    BY Zenon, <2>1 DEF EntryTells
  <2>4. h = [syn |-> TRUE, fin |-> c, quiet |-> 0]
    BY Zenon, <1>5, <2>3 DEF Alive
  <2> HIDE DEF c, h
  <2>5. EntryTells(new, h) /\ new.left > 0 /\ h.syn = TRUE
    <3>1. lifetime(c) \in Nat \ {0}
      BY Zenon, <2>3, LifetimeIsPositive
    <3> QED
      BY <2>3, <2>4, <3>1 DEF EntryTells, FlowEntry
  <2> HIDE DEF new
  <2>6. /\ DOMAIN tcpFlows' = DOMAIN tcpFlows /\ tcpFlows'[k] = new
        /\ \A x \in DOMAIN tcpFlows : x # k => tcpFlows'[x] = tcpFlows[x]
    BY Zenon, <2>1, <2>2 DEF with
  <2>7. TableTells(tcpFlows', seen')
    BY Zenon, <1>4, <2>5, <2>6 DEF TableInv, TableTells
  <2>8. TableInv'
    BY Zenon, <1>1, <1>4, <2>6, <2>7 DEF TableInv, TableTells, EntryTells, lifetime
  <2>9. \A x \in Tuples : (tracked(x)' => Alive(x)') /\ (tracked(x) => tracked(x)')
    BY Zenon, <2>5, <2>6, <2>7 DEF tracked, Alive, TableTells, EntryTells
  <2> QED
    BY Zenon, <2>8, <2>9 DEF ExactRewrites
<1>6. CASE ~(tracked(k) /\ rst = FALSE)
  <2>1. IsRestriction(tcpFlows', tcpFlows) /\ DOMAIN tcpFlows' = DOMAIN tcpFlows \ {k}
    <3>1. CASE k \notin DOMAIN tcpFlows
      BY Zenon, <1>1, <3>1 DEF track, IsRestriction
    <3>2. CASE k \in DOMAIN tcpFlows
      <4>1. tcpFlows[k].left = 0 \/ rst
        BY <1>6, <3>2 DEF tracked, TableInv, TableTells, EntryTells, FlowEntry
      <4>2. tcpFlows' = without(tcpFlows, {k})
        BY Zenon, <1>1, <3>2, <4>1 DEF track
      <4> QED
        BY Zenon, <4>2, WithoutIsPart
    <3> QED
      BY Zenon, <3>1, <3>2
  <2>2. /\ k \notin DOMAIN tcpFlows'
        /\ \A x \in DOMAIN tcpFlows : x # k => x \in DOMAIN tcpFlows'
    BY Zenon, <2>1
  <2>3. tracked(k) => h.syn = FALSE
    BY Zenon, <1>6 DEF NeverSeen
  <2> HIDE DEF h
  <2>4. TableTells(tcpFlows', seen')
    BY Zenon, <1>4, <2>1, <2>2 DEF TableInv, TableTells, IsRestriction
  <2>5. TableInv'
    BY Zenon, <1>1, <1>4, <2>1, <2>4 DEF TableInv, TableTells, EntryTells, lifetime, IsRestriction
  <2>6. \A x \in Tuples : tracked(x)' => Alive(x)'
    BY Zenon, <2>4 DEF tracked, Alive, TableTells, EntryTells
  <2>7. \A x \in Tuples : tracked(x) /\ Alive(x)' => tracked(x)'
    BY Zenon, <1>4, <2>1, <2>2, <2>3 DEF tracked, Alive, IsRestriction
  <2> QED
    BY Zenon, <2>5, <2>6, <2>7 DEF ExactRewrites
<1> QED
  BY Zenon, <1>5, <1>6

\* A tick: what an entry loses its history gains, and both end together.
LEMMA TableTickKeeps ==
  ASSUME TableInv, Tick PROVE TableInv' /\ ExactRewrites
<1> DEFINE over(k) == seen[k].syn = FALSE \/ seen[k].quiet + 1 >= lifetime(seen[k].fin)
<1>1. /\ tcpFlows' = [k \in DOMAIN tcpFlows |->
                        [tcpFlows[k] EXCEPT !.left = before(tcpFlows[k].left)]]
      /\ seen' = [k \in Tuples |-> IF ~seen[k].syn \/ seen[k].quiet + 1 >= lifetime(seen[k].fin)
                                   THEN NeverSeen
                                   ELSE [seen[k] EXCEPT !.quiet = seen[k].quiet + 1]]
      /\ running' = running
  BY Zenon DEF Tick
<1>2. ASSUME NEW k \in Tuples
      PROVE  /\ seen'[k] \in FlowHistory /\ seen[k] \in FlowHistory
             /\ over(k) => seen'[k].syn = FALSE
             /\ ~over(k) => /\ seen'[k].syn = TRUE /\ seen'[k].fin = seen[k].fin
                            /\ seen'[k].quiet = seen[k].quiet + 1
  <2>1. seen[k] \in FlowHistory
    BY Zenon DEF TableInv
  <2>2. seen'[k] = IF over(k) THEN NeverSeen
                   ELSE [seen[k] EXCEPT !.quiet = seen[k].quiet + 1]
    BY Zenon, <1>1, <2>1 DEF FlowHistory
  <2> HIDE DEF over
  <2>3. CASE over(k)
    BY <2>1, <2>2, <2>3 DEF NeverSeen, FlowHistory
  <2>4. CASE ~over(k)
    <3>1. seen[k].syn = TRUE
      BY Zenon, <2>1, <2>4 DEF over, FlowHistory
    <3> QED
      BY <2>1, <2>2, <2>4, <3>1 DEF FlowHistory
  <2> QED
    BY Zenon, <2>1, <2>3, <2>4
<1>3. seen' \in [Tuples -> FlowHistory]
  <2>1. seen' = [k \in Tuples |-> seen'[k]]
    BY Zenon, <1>1
  <2> QED
    BY Zenon, <1>2, <2>1
<1>4. ASSUME NEW k \in DOMAIN tcpFlows
      PROVE  /\ k \in Tuples /\ EntryTells(tcpFlows'[k], seen'[k])
             /\ tcpFlows[k].left > 0 /\ ~over(k) => tcpFlows'[k].left > 0
  <2> DEFINE e == tcpFlows[k]
  <2>1. k \in Tuples /\ e \in FlowEntry /\ e.left \in Nat /\ e.closing \in BOOLEAN
    BY Zenon DEF TableInv, TableTells, EntryTells, FlowEntry
  <2>2. before(e.left) = IF 0 >= e.left - 1 THEN 0 ELSE e.left - 1
    BY <2>1, MaxOfTwo DEF before
  <2>3. /\ tcpFlows'[k] \in FlowEntry /\ tcpFlows'[k].left = before(e.left)
        /\ tcpFlows'[k].closing = e.closing
    BY <1>1, <2>1, <2>2 DEF FlowEntry
  <2>4. e.left > 0 => /\ seen[k].syn = TRUE /\ seen[k].fin = e.closing
                      /\ e.left + seen[k].quiet = lifetime(e.closing)
    BY Zenon DEF TableInv, TableTells, EntryTells
  <2>5. lifetime(e.closing) \in Nat \ {0}
    BY Zenon, <2>1, LifetimeIsPositive
  <2>6. seen[k].quiet \in Nat
    BY Zenon, <1>2, <2>1 DEF FlowHistory
  <2> HIDE DEF e
  <2>7. e.left > 0 => (over(k) <=> e.left <= 1)
    BY <2>1, <2>4, <2>5, <2>6
  <2> HIDE DEF over
  <2>8. CASE tcpFlows'[k].left > 0
    <3>1. e.left > 1 /\ e.left > 0 /\ tcpFlows'[k].left = e.left - 1
      BY <2>1, <2>2, <2>3, <2>8
    <3>2. ~over(k)
      BY <2>1, <2>7, <3>1
    <3>3. /\ seen'[k].syn = TRUE /\ seen'[k].fin = e.closing
          /\ seen'[k].quiet = seen[k].quiet + 1
      BY Zenon, <1>2, <2>1, <2>4, <3>1, <3>2
    <3>4. tcpFlows'[k].left + seen'[k].quiet = lifetime(e.closing)
      BY <2>1, <2>4, <2>5, <2>6, <3>1, <3>3
    <3> QED
      BY Zenon, <2>1, <2>3, <2>8, <3>3, <3>4 DEF EntryTells
  <2>9. CASE ~(tcpFlows'[k].left > 0)
    <3>1. ~(e.left > 0 /\ ~over(k))
      BY <2>1, <2>2, <2>3, <2>7, <2>9
    <3> QED
      BY Zenon, <2>1, <2>3, <2>9, <3>1 DEF EntryTells, e
  <2> QED
    BY Zenon, <2>8, <2>9
<1>5. DOMAIN tcpFlows' = DOMAIN tcpFlows
  BY Zenon, <1>1
<1> HIDE DEF over
<1>6. TableTells(tcpFlows', seen')
  BY Zenon, <1>4, <1>5 DEF TableTells
<1>7. TableInv'
  BY Zenon, <1>1, <1>3, <1>5, <1>6 DEF TableInv, TableTells, EntryTells, lifetime
<1>8. \A k \in Tuples : tracked(k)' => Alive(k)'
  BY Zenon, <1>6 DEF tracked, Alive, TableTells, EntryTells
<1>9. \A k \in Tuples : tracked(k) /\ Alive(k)' => tracked(k)'
  BY Zenon, <1>2, <1>4, <1>5 DEF tracked, Alive
<1> QED
  BY Zenon, <1>7, <1>8, <1>9 DEF ExactRewrites

\* Stop() and Start() leave an empty table, and nothing of what was tracked
\* while the engine was stopped.
LEMMA TableClearKeeps ==
  ASSUME TableInv, Stop \/ Start PROVE TableInv' /\ ExactRewrites
<1>1. tcpFlows' = <<>>
  BY Zenon DEF Stop, Start
<1>2. DOMAIN tcpFlows' = {}
  BY <1>1
<1>3. \A k \in Tuples : ~tracked(k)'
  BY Zenon, <1>2 DEF tracked
<1>4. CASE Stop
  <2>1. seen' = [k \in Tuples |-> NeverSeen]
    BY Zenon, <1>4 DEF Stop
  <2>2. \A k \in Tuples : ~Alive(k)'
    BY Zenon, <2>1 DEF Alive, NeverSeen
  <2>3. seen' \in [Tuples -> FlowHistory]
    BY Zenon, <2>1 DEF NeverSeen, FlowHistory
  <2> QED
    BY <1>2, <1>3, <2>2, <2>3 DEF TableInv, TableTells, ExactRewrites
<1>5. CASE Start
  <2>1. running # TRUE /\ running' = TRUE /\ seen' = seen
    BY Zenon, <1>5 DEF Start
  <2>2. \A k \in Tuples : ~tracked(k)
    <3>1. DOMAIN tcpFlows = {}
      BY Zenon, <2>1 DEF TableInv
    <3> QED
      BY Zenon, <3>1 DEF tracked
  <2> QED
    BY Zenon, <1>2, <1>3, <2>1, <2>2 DEF TableInv, TableTells, ExactRewrites
<1> QED
  BY Zenon, <1>4, <1>5

-----------------------------------------------------------------------------
(* PacketFlows: the flow registry                                          *)

\* A diverted SYN: its flow is pending from now on, and while the registry is
\* not full no other pending flow is lost to it.
LEMMA ObserveKeeps ==
  ASSUME PendingInv, NEW q \in Client, DivertedSyn(q) PROVE PendingInv' /\ ExactClaims
<1> DEFINE T == kPendingFlowTtl
           M == kMaxPendingFlows
           pruned == IF pruneIn = 0 THEN livePending ELSE flows
           room == IF Cardinality(DOMAIN pruned) >= M THEN livePending ELSE pruned
           small == Cardinality(DOMAIN flows) < M
<1>1. T \in Nat \ {0} /\ M \in Nat \ {0}
  BY Zenon, FlowConstants
<1>2. /\ sinceSyn' = [sinceSyn EXCEPT ![q] = 0] /\ grants' = [grants EXCEPT ![q] = 0]
  BY Zenon DEF DivertedSyn
<1>3. /\ IsRestriction(livePending, flows)
      /\ \A p \in DOMAIN flows : flows[p] > 0 => p \in DOMAIN livePending
  BY Zenon, RestrictIsPart DEF livePending
<1>4. IsFiniteSet(DOMAIN flows)
  BY Zenon, FlowConstants, FS_Subset DEF PendingInv
<1>5. /\ IsRestriction(pruned, flows) /\ IsRestriction(room, flows)
      /\ \A p \in DOMAIN flows : flows[p] > 0 => p \in DOMAIN room
  BY Zenon, <1>3 DEF IsRestriction
<1>6. PICK r : /\ flows' = with(r, q, T) /\ IsRestriction(r, room)
               /\ small => r = room
  <2>1. CASE Cardinality(DOMAIN room) >= M
    <3>1. PICK o : flows' = with(without(room, {o}), q, T)
      BY Zenon, <2>1 DEF DivertedSyn, observe
    <3>2. ~small
      <4>1. DOMAIN room \subseteq DOMAIN flows
        BY Zenon, <1>5 DEF IsRestriction
      <4> HIDE DEF room
      <4>2. /\ Cardinality(DOMAIN room) <= Cardinality(DOMAIN flows)
            /\ Cardinality(DOMAIN room) \in Nat /\ Cardinality(DOMAIN flows) \in Nat
        BY Zenon, <1>4, <4>1, FS_Subset, FS_CardinalityType
      <4> HIDE DEF M
      <4> QED
        BY <1>1, <2>1, <4>2
    <3>3. IsRestriction(without(room, {o}), room)
      BY Zenon, WithoutIsPart
    <3> QED
      BY Zenon, <3>1, <3>2, <3>3
  <2>2. CASE ~(Cardinality(DOMAIN room) >= M)
    <3>1. flows' = with(room, q, T)
      BY Zenon, <2>2 DEF DivertedSyn, observe
    <3>2. IsRestriction(room, room)
      BY Zenon DEF IsRestriction
    <3> QED
      BY Zenon, <3>1, <3>2
  <2> QED
    BY Zenon, <2>1, <2>2
<1> HIDE DEF pruned, room, small
<1>7. IsRestriction(r, flows)
  BY Zenon, <1>5, <1>6, PartOfPart
<1>8. /\ DOMAIN flows' = DOMAIN r \cup {q} /\ flows'[q] = T
      /\ \A p \in DOMAIN r : p # q => flows'[p] = flows[p]
      /\ DOMAIN r \subseteq DOMAIN flows
  BY Zenon, <1>6, <1>7 DEF with, IsRestriction
<1>9. /\ sinceSyn' \in [Client -> 0..T] /\ grants' \in [Client -> 0..2]
      /\ sinceSyn'[q] = 0 /\ grants'[q] = 0
      /\ \A p \in Client : p # q => sinceSyn'[p] = sinceSyn[p] /\ grants'[p] = grants[p]
  BY SMTT(30), <1>1, <1>2 DEF PendingInv
<1> HIDE DEF T, M
<1>10. \A p \in DOMAIN flows' : /\ p \in Client /\ flows'[p] \in Nat
                                /\ flows'[p] > 0 => flows'[p] + sinceSyn'[p] = T /\ grants'[p] = 0
  BY <1>1, <1>8, <1>9 DEF PendingInv, T
<1>11. PendingInv'
  BY Zenon, <1>9, <1>10 DEF PendingInv, T
<1>12. \A p \in Client : ~(grants'[p] > grants[p])
  <2>1. \A p \in Client : grants[p] \in Nat
    BY DEF PendingInv
  <2> QED
    BY <1>9, <2>1
<1>13. ASSUME NEW p \in Client, authorized(p), small PROVE authorized(p)'
  BY <1>1, <1>5, <1>6, <1>8, <1>13 DEF authorized
<1> QED
  BY <1>11, <1>12, <1>13 DEF ExactClaims, small, M

\* A claim: only a flow that is pending grants one, and then it is not pending
\* any more.
LEMMA ClaimKeeps ==
  ASSUME PendingInv, NEW q \in Client, Claim(q) PROVE PendingInv' /\ ExactClaims
<1>1. /\ IsRestriction(flows', flows) /\ DOMAIN flows' = DOMAIN flows \ {q}
      /\ sinceSyn' = sinceSyn
  BY Zenon, WithoutIsPart DEF Claim, claim
<1>2. CASE authorized(q)
  <2>1. grants[q] = 0 /\ sinceSyn[q] < kPendingFlowTtl
    BY SMTT(30), <1>2, FlowConstants DEF authorized, PendingInv
  <2>2. Min({2, grants[q] + 1}) = 1
    BY <2>1, MinOfTwo
  <2>3. grants' = [grants EXCEPT ![q] = 1]
    BY Zenon, <1>2, <2>2 DEF Claim
  <2>4. /\ grants' \in [Client -> 0..2] /\ grants'[q] = 1
        /\ \A p \in Client : p # q => grants'[p] = grants[p]
    BY <2>3 DEF PendingInv
  <2>5. PendingInv'
    BY Zenon, <1>1, <2>4 DEF PendingInv, IsRestriction
  <2>6. \A p \in Client : p # q => grants[p] \in Nat
    BY DEF PendingInv
  <2> QED
    BY SMTT(30), <1>1, <2>1, <2>4, <2>5, <2>6 DEF ExactClaims, authorized, IsRestriction
<1>3. CASE ~authorized(q)
  <2>1. grants' = grants
    BY Zenon, <1>3 DEF Claim
  <2>2. PendingInv'
    BY Zenon, <1>1, <2>1 DEF PendingInv, IsRestriction
  <2>3. \A p \in Client : grants[p] \in Nat
    BY DEF PendingInv
  <2> QED
    BY <1>1, <1>3, <2>1, <2>2, <2>3 DEF ExactClaims, authorized, IsRestriction
<1> QED
  BY Zenon, <1>2, <1>3

\* A tick: a pending flow and the age of its SYN reach the limit together.
LEMMA PendingTickKeeps ==
  ASSUME PendingInv, Tick PROVE PendingInv' /\ ExactClaims
<1> DEFINE T == kPendingFlowTtl
<1>1. T \in Nat \ {0}
  BY Zenon, FlowConstants
<1>2. /\ flows' = [p \in DOMAIN flows |-> before(flows[p])]
      /\ sinceSyn' = [p \in Client |-> Min({T, sinceSyn[p] + 1})]
      /\ grants' = [p \in Client |-> IF sinceSyn'[p] = T THEN 0 ELSE grants[p]]
  BY Zenon DEF Tick
<1> HIDE DEF T
<1>3. ASSUME NEW p \in Client
      PROVE  /\ sinceSyn[p] \in 0..T
             /\ sinceSyn'[p] = IF T <= sinceSyn[p] + 1 THEN T ELSE sinceSyn[p] + 1
             /\ sinceSyn'[p] \in 0..T /\ grants[p] \in 0..2 /\ grants'[p] \in 0..2
             /\ grants'[p] = IF sinceSyn'[p] = T THEN 0 ELSE grants[p]
  <2>1. sinceSyn[p] \in 0..T /\ grants[p] \in 0..2
    BY Zenon DEF PendingInv, T
  <2>2. Min({T, sinceSyn[p] + 1}) = IF T <= sinceSyn[p] + 1 THEN T ELSE sinceSyn[p] + 1
    BY <1>1, <2>1, MinOfTwo
  <2>3. sinceSyn'[p] = IF T <= sinceSyn[p] + 1 THEN T ELSE sinceSyn[p] + 1
    BY Zenon, <1>2, <2>2
  <2>4. grants'[p] = IF sinceSyn'[p] = T THEN 0 ELSE grants[p]
    BY Zenon, <1>2
  <2> QED
    BY <1>1, <2>1, <2>3, <2>4
<1>4. ASSUME NEW p \in DOMAIN flows
      PROVE  /\ p \in Client /\ flows[p] \in Nat
             /\ flows'[p] = IF 0 >= flows[p] - 1 THEN 0 ELSE flows[p] - 1
             /\ flows[p] > 0 => flows[p] + sinceSyn[p] = T /\ grants[p] = 0
  <2>1. p \in Client /\ flows[p] \in Nat /\ flows[p] > 0 => flows[p] + sinceSyn[p] = T /\ grants[p] = 0
    BY Zenon DEF PendingInv, T
  <2>2. flows[p] \in Nat /\ p \in Client
    BY Zenon DEF PendingInv
  <2>3. before(flows[p]) = IF 0 >= flows[p] - 1 THEN 0 ELSE flows[p] - 1
    BY <2>2, MaxOfTwo DEF before
  <2> QED
    BY Zenon, <1>2, <2>1, <2>2, <2>3
<1>5. DOMAIN flows' = DOMAIN flows
  BY Zenon, <1>2
<1>6. ASSUME NEW p \in DOMAIN flows
      PROVE  /\ flows'[p] \in Nat
             /\ flows'[p] > 0 => flows'[p] + sinceSyn'[p] = T /\ grants'[p] = 0
             /\ flows[p] > 0 /\ sinceSyn'[p] < T => flows'[p] > 0
  BY <1>1, <1>3, <1>4
<1>7. sinceSyn' \in [Client -> 0..T] /\ grants' \in [Client -> 0..2]
  BY Zenon, <1>2, <1>3
<1>8. PendingInv'
  BY Zenon, <1>4, <1>5, <1>6, <1>7 DEF PendingInv, T
<1>9. \A p \in Client : ~(grants'[p] > grants[p])
  BY <1>3
<1>10. \A p \in Client : authorized(p) /\ sinceSyn'[p] < T => authorized(p)'
  BY Zenon, <1>5, <1>6 DEF authorized
<1> QED
  BY Zenon, <1>8, <1>9, <1>10 DEF ExactClaims, T

\* stop() leaves no pending flow.
LEMMA PendingStopKeeps ==
  ASSUME PendingInv, Stop PROVE PendingInv' /\ ExactClaims
<1>1. /\ flows' = <<>> /\ sinceSyn' = [p \in Client |-> kPendingFlowTtl]
      /\ grants' = [p \in Client |-> 0]
  BY Zenon DEF Stop
<1>2. DOMAIN flows' = {} /\ kPendingFlowTtl \in Nat
  BY <1>1, FlowConstants
<1>3. PendingInv'
  BY <1>1, <1>2 DEF PendingInv
<1>4. \A p \in Client : grants[p] \in Nat /\ grants'[p] = 0 /\ ~(sinceSyn'[p] < kPendingFlowTtl)
  BY <1>1, <1>2 DEF PendingInv
<1> QED
  BY <1>3, <1>4 DEF ExactClaims

\* What leaves the registry and its history alone keeps both.
LEMMA PendingKept ==
  ASSUME PendingInv, UNCHANGED <<flows, sinceSyn, grants>> PROVE PendingInv' /\ ExactClaims
<1>1. \A p \in Client : grants[p] \in Nat
  BY DEF PendingInv
<1> QED
  BY <1>1 DEF PendingInv, ExactClaims, authorized

\* What leaves the table and its history alone keeps both.
LEMMA TableKept ==
  ASSUME TableInv, UNCHANGED <<tcpFlows, seen, running>> PROVE TableInv' /\ ExactRewrites
  BY Zenon DEF TableInv, TableTells, EntryTells, lifetime, ExactRewrites, tracked, Alive

\* Every step of the packet loop, of the relay and of time.
LEMMA FlowsStep ==
  ASSUME TableInv, PendingInv, [Next]_vars
  PROVE  TableInv' /\ PendingInv' /\ ExactRewrites /\ ExactClaims
<1>1. ASSUME NEW p \in Client, BypassedSyn(p)
      PROVE  TableInv' /\ PendingInv' /\ ExactRewrites /\ ExactClaims
  <2>1. p \in Tuples /\ UNCHANGED <<flows, sinceSyn, grants>>
    BY Zenon, <1>1 DEF Tuples, BypassedSyn
  <2> QED
    BY Zenon, <1>1, <2>1, BypassKeeps, PendingKept
<1>2. ASSUME NEW p \in Client, DivertedSyn(p)
      PROVE  TableInv' /\ PendingInv' /\ ExactRewrites /\ ExactClaims
  <2>1. p \in Tuples /\ add(p) /\ seen' = [seen EXCEPT ![p] = FreshSyn]
    BY Zenon, <1>2 DEF Tuples, DivertedSyn
  <2>2. running = TRUE /\ running' = TRUE
    BY Zenon, <1>2 DEF DivertedSyn, TableInv
  <2> QED
    BY Zenon, <1>2, <2>1, <2>2, AddKeeps, ObserveKeeps
<1>3. ASSUME NEW p \in Client, Claim(p)
      PROVE  TableInv' /\ PendingInv' /\ ExactRewrites /\ ExactClaims
  <2>1. UNCHANGED <<tcpFlows, seen, running>>
    BY Zenon, <1>3 DEF Claim
  <2> QED
    BY Zenon, <1>3, <2>1, TableKept, ClaimKeeps
<1>4. ASSUME NEW u \in Upstream, UpstreamSyn(u)
      PROVE  TableInv' /\ PendingInv' /\ ExactRewrites /\ ExactClaims
  <2>1. /\ u \in Tuples /\ add(u) /\ seen' = [seen EXCEPT ![u] = FreshSyn]
        /\ UNCHANGED <<flows, sinceSyn, grants>>
    BY Zenon, <1>4 DEF Tuples, UpstreamSyn
  <2>2. running = TRUE /\ running' = TRUE
    BY Zenon, <1>4 DEF UpstreamSyn, TableInv
  <2> QED
    BY Zenon, <2>1, <2>2, AddKeeps, PendingKept
<1>5. ASSUME NEW k \in Tuples, NEW fin \in BOOLEAN, NEW rst \in BOOLEAN, Segment(k, fin, rst)
      PROVE  TableInv' /\ PendingInv' /\ ExactRewrites /\ ExactClaims
  <2>1. UNCHANGED <<flows, sinceSyn, grants>>
    BY Zenon, <1>5 DEF Segment
  <2> QED
    BY Zenon, <1>5, <2>1, SegmentKeeps, PendingKept
<1>6. CASE Stop
  BY Zenon, <1>6, TableClearKeeps, PendingStopKeeps
<1>7. CASE Start
  <2>1. UNCHANGED <<flows, sinceSyn, grants>>
    BY Zenon, <1>7 DEF Start
  <2> QED
    BY Zenon, <1>7, <2>1, TableClearKeeps, PendingKept
<1>8. CASE Tick
  BY Zenon, <1>8, TableTickKeeps, PendingTickKeeps
<1>9. CASE UNCHANGED vars
  <2>1. UNCHANGED <<flows, sinceSyn, grants>> /\ UNCHANGED <<tcpFlows, seen, running>>
    BY Zenon, <1>9 DEF vars
  <2> QED
    BY Zenon, <2>1, TableKept, PendingKept
<1> HIDE DEF TableInv, PendingInv, ExactRewrites, ExactClaims
<1> QED
  BY Zenon, <1>1, <1>2, <1>3, <1>4, <1>5, <1>6, <1>7, <1>8, <1>9 DEF Next

\* The invariants of the flow table and of the flow registry.
LEMMA FlowsInvariant == Spec => [](TableInv /\ PendingInv)
<1>1. Init => TableInv /\ PendingInv
  <2> SUFFICES ASSUME Init PROVE TableInv /\ PendingInv
    BY Zenon
  <2>1. DOMAIN tcpFlows = {} /\ DOMAIN flows = {}
    BY DEF Init
  <2> QED
    BY <2>1, FlowConstants
    DEF Init, TableInv, TableTells, PendingInv, FlowHistory, NeverSeen
<1>2. (TableInv /\ PendingInv) /\ [Next]_vars => (TableInv /\ PendingInv)'
  BY Zenon, FlowsStep
<1> QED
  BY <1>1, <1>2, PTL DEF Spec

\* The packet loop rewrites only packets of tuples whose own SYN was diverted,
\* and keeps rewriting those that live while the table is not full, for any
\* number of tuples, every limit and every lifetime.
THEOREM RewritesTheorem == Spec => RewritesAreExact
<1>1. (TableInv /\ PendingInv) /\ [Next]_vars => [ExactRewrites]_vars
  BY Zenon, FlowsStep
<1>2. Spec => [][ExactRewrites]_vars
  BY <1>1, FlowsInvariant, PTL DEF Spec
<1> QED
  BY Zenon, <1>2 DEF RewritesAreExact, ExactRewrites

\* One diverted SYN authorises at most one relay session, within the lifetime
\* of a pending flow, and stays claimable for as long.
THEOREM ClaimsTheorem == Spec => ClaimsAreExact
<1>1. (TableInv /\ PendingInv) /\ [Next]_vars => [ExactClaims]_vars
  BY Zenon, FlowsStep
<1>2. Spec => [][ExactClaims]_vars
  BY <1>1, FlowsInvariant, PTL DEF Spec
<1> QED
  BY Zenon, <1>2 DEF ClaimsAreExact, ExactClaims

-----------------------------------------------------------------------------
(* ProcessFilter                                                           *)

Decision == [intercept : BOOLEAN, left : Nat, resolved : BOOLEAN]
CachedName == [image : Images, left : Nat]

\* The cache of decisions keeps within its limit, and only a decision that was
\* resolved intercepts.
CacheOK(cache) ==
    /\ DOMAIN cache \subseteq Endpoints /\ IsFiniteSet(DOMAIN cache)
    /\ Cardinality(DOMAIN cache) <= kMaximumCachedEndpoints
    /\ \A e \in DOMAIN cache :
         cache[e] \in Decision /\ (cache[e].intercept = TRUE => cache[e].resolved = TRUE)

\* What an intercepted tuple has left and the time since its last packet are
\* together the lifetime of a decision.
IdleOK(cache, since) ==
    /\ since \in [Endpoints -> Nat]
    /\ \A e \in DOMAIN cache :
         cache[e].intercept = TRUE /\ cache[e].left > 0
           => cache[e].left + since[e] = cacheTtl(e)

\* A cached name that the rules allow was the name of its process not longer
\* ago than what is gone of its lifetime.
NamesOK(names, im, refused) ==
    /\ im \in [Pids -> Images] /\ refused \in [Pids -> Nat]
    /\ \A p \in Pids : im[p] = "allowed" => refused[p] = 0
    /\ DOMAIN names \subseteq Pids
    /\ \A p \in DOMAIN names :
         /\ names[p] \in CachedName
         /\ names[p].image = "allowed" /\ names[p].left > 0
              => refused[p] + names[p].left <= kProcessNameTtlMs

FilterInv ==
    CacheOK(endpoints) /\ IdleOK(endpoints, idle) /\ NamesOK(processNames, image, refusedFor)

\* What InterceptionIsOwned says of a step.
OwnedStep ==
    \A e \in Endpoints :
       /\ ~intercepted(e) /\ intercepted(e)' => backed'
       /\ intercepted(e)' => idle'[e] < cacheTtl(e)
       /\ intercepted(e) /\ idle'[e] < cacheTtl(e) /\ RoomToSpare => intercepted(e)'

\* Lifetimes are positive.
LEMMA CacheTtlIsPositive ==
  ASSUME NEW e PROVE cacheTtl(e) \in Nat \ {0}
  BY Zenon, FilterConstants DEF cacheTtl

\* An intercepted tuple has had a packet within the lifetime of its decision.
LEMMA NotIdle ==
  ASSUME FilterInv', NEW e \in Endpoints, intercepted(e)' PROVE idle'[e] < cacheTtl(e)
<1>1. /\ idle'[e] \in Nat /\ endpoints'[e].left \in Nat /\ endpoints'[e].left > 0
      /\ endpoints'[e].left + idle'[e] = cacheTtl(e)
  BY Zenon DEF FilterInv, IdleOK, CacheOK, Decision, intercepted, cached
<1> QED
  BY <1>1, CacheTtlIsPositive

\* An eviction takes at least one entry.
LEMMA EvictsSome ==
  ASSUME NEW f, IsFiniteSet(DOMAIN f) PROVE evicted(f) \in Nat /\ evicted(f) >= 1
<1> DEFINE n == Cardinality(DOMAIN f)
<1>1. n \in Nat
  BY Zenon, FS_CardinalityType
<1> HIDE DEF n
<1>2. n \div 16 \in Nat
  BY <1>1
<1>3. Max({1, n \div 16}) = IF 1 >= n \div 16 THEN 1 ELSE n \div 16
  BY <1>2, MaxOfTwo
<1> QED
  BY <1>2, <1>3 DEF evicted, n

\* The order of eviction: with as many bypassed or expired entries as are
\* evicted, no intercepted tuple is among them.
LEMMA EvictionSpares ==
  ASSUME CacheOK(endpoints), NEW S \in kSubset(evicted(endpoints), DOMAIN endpoints),
         \A a \in S, b \in DOMAIN endpoints \ S : ~goesBefore(b, a),
         Cardinality({x \in DOMAIN endpoints : ~intercepted(x)}) >= evicted(endpoints),
         NEW e \in Endpoints, intercepted(e)
  PROVE  e \notin S
<1> DEFINE N == {x \in DOMAIN endpoints : ~intercepted(x)}
           n == evicted(endpoints)
<1> SUFFICES ASSUME e \in S PROVE FALSE
  BY Zenon
<1>1. /\ e \in DOMAIN endpoints /\ endpoints[e].left > 0 /\ endpoints[e].intercept = TRUE
      /\ endpoints[e] \in Decision
  BY Zenon DEF intercepted, cached, CacheOK, Decision
<1>2. S \subseteq DOMAIN endpoints /\ Cardinality(S) = n
  BY Zenon DEF kSubset
<1>3. IsFiniteSet(S)
  BY Zenon, <1>2, FS_Subset DEF CacheOK
<1>4. ASSUME NEW b \in N PROVE b \in S \ {e}
  <2>1. b \in DOMAIN endpoints /\ endpoints[b] \in Decision
    BY Zenon DEF CacheOK
  <2>2. endpoints[b].intercept = FALSE \/ endpoints[b].left = 0
    BY <2>1 DEF intercepted, cached, Decision
  <2>3. goesBefore(b, e)
    BY Zenon, <1>1, <2>1, <2>2 DEF goesBefore, Decision
  <2>4. b \in S
    BY Zenon, <2>1, <2>3
  <2> QED
    BY Zenon, <2>4
<1>5. N \subseteq S \ {e}
  BY Zenon, <1>4
<1> HIDE DEF N
<1>6. /\ IsFiniteSet(S \ {e}) /\ Cardinality(S \ {e}) = n - 1 /\ n \in Nat
  BY SMTT(30), <1>2, <1>3, FS_RemoveElement, FS_CardinalityType
<1>7. Cardinality(N) <= n - 1 /\ Cardinality(N) \in Nat
  BY <1>5, <1>6, FS_Subset, FS_CardinalityType
<1>8. Cardinality(N) >= n
  BY Zenon DEF N
<1> HIDE DEF n
<1> QED
  BY <1>6, <1>7, <1>8

\* makeRoomLocked() leaves a part of the cache that has room for one more, and
\* every intercepted tuple in it if there is room to spare.
LEMMA FilterRoomIs ==
  ASSUME CacheOK(endpoints), isFull(endpoints), NEW room \in filterRoom
  PROVE  /\ IsRestriction(room, endpoints)
         /\ Cardinality(DOMAIN room) < kMaximumCachedEndpoints
         /\ RoomToSpare => \A e \in Endpoints : intercepted(e) => e \in DOMAIN room
<1> DEFINE swept == IF filterSweepIn = 0 THEN live(endpoints) ELSE endpoints
           K == kMaximumCachedEndpoints
<1>1. K \in Nat \ {0}
  BY Zenon, FilterConstants
<1>2. /\ IsRestriction(swept, endpoints)
      /\ \A e \in Endpoints : intercepted(e) => e \in DOMAIN swept
  BY RestrictIsPart DEF live, intercepted, cached, IsRestriction
<1> HIDE DEF swept
<1>3. DOMAIN swept \subseteq DOMAIN endpoints
  BY Zenon, <1>2 DEF IsRestriction
<1>4. /\ IsFiniteSet(DOMAIN swept) /\ Cardinality(DOMAIN swept) \in Nat
      /\ Cardinality(DOMAIN swept) <= Cardinality(DOMAIN endpoints)
      /\ Cardinality(DOMAIN endpoints) \in Nat
      /\ Cardinality(DOMAIN endpoints) = Cardinality(DOMAIN swept)
           => DOMAIN endpoints = DOMAIN swept
  BY Zenon, <1>3, FS_Subset, FS_CardinalityType DEF CacheOK
<1>5. CASE ~isFull(swept)
  <2>1. room = swept
    BY Zenon, <1>5 DEF filterRoom, swept
  <2>2. Cardinality(DOMAIN swept) < K
    BY <1>1, <1>4, <1>5 DEF isFull
  <2> QED
    BY Zenon, <1>2, <2>1, <2>2
<1>6. CASE isFull(swept)
  <2>1. PICK S \in kSubset(evicted(swept), DOMAIN swept) :
          /\ room = Restrict(swept, DOMAIN swept \ S)
          /\ \A a \in S, b \in DOMAIN swept \ S : ~goesBefore(b, a)
    BY Zenon, <1>6 DEF filterRoom, smallestOf, swept
  <2>2. IsRestriction(room, swept) /\ DOMAIN room = DOMAIN swept \ S
    BY <2>1, RestrictIsPart
  <2>3. IsRestriction(room, endpoints)
    BY Zenon, <1>2, <2>2, PartOfPart
  <2>4. Cardinality(DOMAIN endpoints) = K /\ DOMAIN swept = DOMAIN endpoints
    <3>1. Cardinality(DOMAIN swept) >= K /\ Cardinality(DOMAIN endpoints) <= K
      BY Zenon, <1>6 DEF isFull, CacheOK
    <3> HIDE DEF K
    <3> QED
      BY <1>1, <1>4, <3>1
  <2>5. Cardinality(DOMAIN room) < K
    <3>1. S \subseteq DOMAIN swept /\ Cardinality(S) = evicted(swept)
      BY Zenon, <2>1 DEF kSubset
    <3>2. evicted(swept) \in Nat /\ evicted(swept) >= 1
      BY Zenon, <1>4, EvictsSome
    <3>3. DOMAIN swept \cap S = S
      BY Zenon, <3>1
    <3>4. Cardinality(DOMAIN swept \ S)
            = Cardinality(DOMAIN swept) - Cardinality(DOMAIN swept \cap S)
      BY Zenon, <1>4, FS_Difference
    <3>5. Cardinality(DOMAIN swept \ S) = K - evicted(swept)
      BY Zenon, <2>4, <3>1, <3>3, <3>4
    <3> HIDE DEF K
    <3> QED
      BY <1>1, <2>2, <3>2, <3>5
  <2>6. ASSUME RoomToSpare, NEW e \in Endpoints, intercepted(e) PROVE e \in DOMAIN room
    <3>1. Cardinality({x \in DOMAIN endpoints : ~intercepted(x)}) >= evicted(endpoints)
      BY Zenon, <2>6 DEF RoomToSpare
    <3>2. evicted(swept) = evicted(endpoints)
      BY Zenon, <2>4 DEF evicted
    <3>3. /\ S \in kSubset(evicted(endpoints), DOMAIN endpoints)
          /\ \A a \in S, b \in DOMAIN endpoints \ S : ~goesBefore(b, a)
      BY Zenon, <2>1, <2>4, <3>2
    <3>4. e \notin S
      BY Zenon, <2>6, <3>1, <3>3, EvictionSpares
    <3> QED
      BY Zenon, <1>2, <2>2, <2>6, <3>4
  <2> QED
    BY Zenon, <2>3, <2>5, <2>6
<1> QED
  BY Zenon, <1>5, <1>6

\* What a new decision of e does to the cache.
Entered(e, entry) ==
    /\ CacheOK(endpoints')
    /\ e \in DOMAIN endpoints' /\ endpoints'[e] = entry
    /\ \A x \in DOMAIN endpoints' : x # e => x \in DOMAIN endpoints /\ endpoints'[x] = endpoints[x]
    /\ RoomToSpare => \A x \in Endpoints : x # e /\ intercepted(x) => x \in DOMAIN endpoints'

\* A new decision takes the place of an old one of its tuple, or of an entry
\* that was evicted.
LEMMA EnterEnters ==
  ASSUME CacheOK(endpoints), NEW e \in Endpoints, NEW i \in BOOLEAN, NEW r \in BOOLEAN,
         NEW ttl \in Nat, i = TRUE => r = TRUE, enter(e, i, ttl, r)
  PROVE  Entered(e, [intercept |-> i, left |-> ttl, resolved |-> r])
<1> DEFINE entry == [intercept |-> i, left |-> ttl, resolved |-> r]
           K == kMaximumCachedEndpoints
<1>1. K \in Nat \ {0}
  BY Zenon, FilterConstants
<1>2. entry \in Decision /\ (entry.intercept = TRUE => entry.resolved = TRUE)
  BY Zenon DEF Decision
<1>3. PICK room : /\ endpoints' = entered(room, e, entry) /\ IsRestriction(room, endpoints)
                  /\ e \in DOMAIN room \/ Cardinality(DOMAIN room) < K
                  /\ RoomToSpare => \A x \in Endpoints : intercepted(x) => x \in DOMAIN room
  <2>1. CASE isFull(endpoints) /\ e \notin DOMAIN endpoints
    <3>1. PICK room \in filterRoom : endpoints' = entered(room, e, entry)
      BY Zenon, <2>1 DEF enter
    <3> QED
      BY Zenon, <2>1, <3>1, FilterRoomIs
  <2>2. CASE ~(isFull(endpoints) /\ e \notin DOMAIN endpoints)
    <3>1. endpoints' = entered(endpoints, e, entry)
      BY Zenon, <2>2 DEF enter
    <3>2. Cardinality(DOMAIN endpoints) \in Nat
      BY Zenon, FS_CardinalityType DEF CacheOK
    <3>3. e \in DOMAIN endpoints \/ Cardinality(DOMAIN endpoints) < K
      BY <1>1, <2>2, <3>2 DEF isFull
    <3> QED
      BY Zenon, <3>1, <3>3 DEF IsRestriction, intercepted, cached
  <2> QED
    BY Zenon, <2>1, <2>2
<1>4. DOMAIN room \subseteq DOMAIN endpoints
  BY Zenon, <1>3 DEF IsRestriction
<1>5. /\ DOMAIN endpoints' = DOMAIN room \cup {e} /\ endpoints'[e] = entry
      /\ \A x \in DOMAIN room : x # e => endpoints'[x] = endpoints[x]
  BY Zenon, <1>3 DEF entered, IsRestriction
<1> HIDE DEF entry
<1>6. IsFiniteSet(DOMAIN room) /\ Cardinality(DOMAIN room) <= K /\ Cardinality(DOMAIN room) \in Nat
  <2>1. /\ IsFiniteSet(DOMAIN room) /\ Cardinality(DOMAIN room) <= Cardinality(DOMAIN endpoints)
        /\ Cardinality(DOMAIN endpoints) \in Nat /\ Cardinality(DOMAIN room) \in Nat
        /\ Cardinality(DOMAIN endpoints) <= K
    BY Zenon, <1>4, FS_Subset, FS_CardinalityType DEF CacheOK
  <2> HIDE DEF K
  <2> QED
    BY <1>1, <2>1
<1>7. /\ IsFiniteSet(DOMAIN room \cup {e})
      /\ Cardinality(DOMAIN room \cup {e})
           = IF e \in DOMAIN room THEN Cardinality(DOMAIN room) ELSE Cardinality(DOMAIN room) + 1
  BY Zenon, <1>6, FS_AddElement
<1>8. Cardinality(DOMAIN room \cup {e}) <= K
  <2> HIDE DEF K
  <2> QED
    BY <1>1, <1>3, <1>6, <1>7
<1>9. CacheOK(endpoints')
  BY Zenon, <1>2, <1>4, <1>5, <1>7, <1>8 DEF CacheOK
<1> QED
  BY Zenon, <1>3, <1>4, <1>5, <1>9 DEF Entered, entry

\* The names stay as they are or forget some, and p's may be the new one.
LEMMA NamesKept ==
  ASSUME NamesOK(processNames, image, refusedFor), NEW p \in Pids, NEW name \in Images,
         cachedProcessImage(p, name)
  PROVE  /\ NamesOK(processNames', image, refusedFor)
         /\ name = "allowed" => refusedFor[p] < kProcessNameTtlMs
<1> DEFINE T == kProcessNameTtlMs
<1>1. T \in Nat \ {0}
  BY Zenon, FilterConstants
<1>2. refusedFor[p] \in Nat /\ (image[p] = "allowed" => refusedFor[p] = 0)
  BY Zenon DEF NamesOK
<1>3. CASE p \in DOMAIN processNames /\ processNames[p].left > 0
  <2>1. name = processNames[p].image /\ processNames' = processNames
    BY Zenon, <1>3 DEF cachedProcessImage
  <2>2. processNames[p].left \in Nat
    BY Zenon, <1>3 DEF NamesOK, CachedName
  <2>3. name = "allowed" => refusedFor[p] + processNames[p].left <= T
    BY Zenon, <1>3, <2>1 DEF NamesOK
  <2> HIDE DEF T
  <2>4. name = "allowed" => refusedFor[p] < T
    BY SMTT(30), <1>1, <1>2, <1>3, <2>2, <2>3
  <2> QED
    BY Zenon, <2>1, <2>4 DEF T
<1>4. CASE ~(p \in DOMAIN processNames /\ processNames[p].left > 0)
  <2> DEFINE entry == [image |-> name, left |-> T]
  <2>1. name = image[p]
    BY Zenon, <1>4 DEF cachedProcessImage
  <2>2. PICK room \in nameRoom : processNames' = entered(room, p, entry)
    BY Zenon, <1>4 DEF cachedProcessImage
  <2>3. IsRestriction(room, processNames)
    <3>1. IsRestriction(processNames, processNames)
      BY Zenon DEF IsRestriction
    <3>2. IsRestriction(live(processNames), processNames)
      BY Zenon, RestrictIsPart DEF live
    <3>3. \A q : IsRestriction(Restrict(processNames, DOMAIN processNames \ {q}), processNames)
      BY Zenon, RestrictIsPart
    <3> QED
      BY Zenon, <3>1, <3>2, <3>3 DEF nameRoom
  <2>4. /\ DOMAIN processNames' = DOMAIN room \cup {p} /\ processNames'[p] = entry
        /\ \A q \in DOMAIN room : q # p => processNames'[q] = processNames[q]
        /\ DOMAIN room \subseteq DOMAIN processNames
    BY Zenon, <2>2, <2>3 DEF entered, IsRestriction
  <2>5. /\ entry \in CachedName
        /\ entry.image = "allowed" /\ entry.left > 0 => refusedFor[p] + entry.left <= T
    BY <1>1, <1>2, <2>1 DEF CachedName
  <2> HIDE DEF entry
  <2>6. NamesOK(processNames', image, refusedFor)
    BY Zenon, <2>4, <2>5 DEF NamesOK
  <2> QED
    BY <1>1, <1>2, <2>1, <2>6
<1> QED
  BY Zenon, <1>3, <1>4

\* What a decision about a packet of e does to the caches: what it newly
\* intercepts is e, for an owner that was allowed lately; what it keeps is as it
\* was, and e's own decision starts its lifetime again.
Decides(e, users) ==
    /\ CacheOK(endpoints') /\ NamesOK(processNames', image, refusedFor)
    /\ intercepted(e)' => endpoints'[e].left = cacheTtl(e)
    /\ ~intercepted(e) /\ intercepted(e)'
         => \E p \in Pids : owner(e, users, p) /\ refusedFor[p] < kProcessNameTtlMs
    /\ intercepted(e) => intercepted(e)'
    /\ \A x \in DOMAIN endpoints' : x # e => x \in DOMAIN endpoints /\ endpoints'[x] = endpoints[x]
    /\ RoomToSpare => \A x \in Endpoints : x # e /\ intercepted(x) => x \in DOMAIN endpoints'

\* A decision that is entered for a tuple without one.
LEMMA EnteredDecides ==
  ASSUME FilterInv, NEW e \in Endpoints, NEW users, ~cached(e), NEW entry,
         entry.intercept = TRUE => entry.left = cacheTtl(e) /\
            \E p \in Pids : owner(e, users, p) /\ refusedFor[p] < kProcessNameTtlMs,
         Entered(e, entry), NamesOK(processNames', image, refusedFor)
  PROVE  Decides(e, users)
<1>1. e \in DOMAIN endpoints' /\ endpoints'[e] = entry /\ entry \in Decision
  BY Zenon DEF Entered, CacheOK
<1>2. intercepted(e)' => entry.intercept = TRUE
  BY Zenon, <1>1 DEF intercepted, Decision
<1>3. ~intercepted(e)
  BY Zenon DEF intercepted
<1> QED
  BY Zenon, <1>1, <1>2, <1>3 DEF Decides, Entered

\* shouldIntercept(), in each of its ways.
LEMMA ShouldInterceptDecides ==
  ASSUME FilterInv, NEW e \in Endpoints, NEW first \in BOOLEAN, NEW i \in BOOLEAN,
         NEW users, shouldIntercept(e, first, users, i)
  PROVE  Decides(e, users)
<1>1. cacheTtl(e) \in Nat \ {0} /\ kUnknownCacheTtlMs \in Nat
  BY Zenon, CacheTtlIsPositive, FilterConstants
<1>2. CASE cached(e) /\ endpoints' = refreshed(e) /\ UNCHANGED processNames
  <2> DEFINE d == endpoints[e]
  <2>1. e \in DOMAIN endpoints /\ d \in Decision /\ (d.intercept = TRUE => d.resolved = TRUE)
        /\ d.left \in Nat /\ d.left > 0
    BY Zenon, <1>2 DEF cached, FilterInv, CacheOK, Decision
  <2>1a. d.intercept = TRUE => d.left <= cacheTtl(e)
    <3>1. d.intercept = TRUE => d.left + idle[e] = cacheTtl(e)
      BY Zenon, <2>1 DEF FilterInv, IdleOK
    <3>2. idle[e] \in Nat
      BY Zenon DEF FilterInv, IdleOK
    <3> HIDE DEF d
    <3> QED
      BY <1>1, <2>1, <3>1, <3>2
  <2>2. Max({d.left, cacheTtl(e)}) = IF d.left >= cacheTtl(e) THEN d.left ELSE cacheTtl(e)
    BY <1>1, <2>1, MaxOfTwo
  <2>3. /\ DOMAIN endpoints' = DOMAIN endpoints
        /\ \A x \in DOMAIN endpoints : x # e => endpoints'[x] = endpoints[x]
        /\ endpoints'[e] = IF d.resolved THEN [d EXCEPT !.left = Max({d.left, cacheTtl(e)})]
                           ELSE d
    BY Zenon, <1>2, <2>1 DEF refreshed
  <2> HIDE DEF d
  <2>4. /\ endpoints'[e] \in Decision /\ endpoints'[e].left > 0
        /\ endpoints'[e].intercept = d.intercept /\ endpoints'[e].resolved = d.resolved
        /\ d.intercept = TRUE => endpoints'[e].left = cacheTtl(e)
    BY <1>1, <2>1, <2>1a, <2>2, <2>3 DEF Decision
  <2>5. CacheOK(endpoints')
    BY Zenon, <2>1, <2>3, <2>4 DEF FilterInv, CacheOK
  <2>6. NamesOK(processNames', image, refusedFor)
    BY Zenon, <1>2 DEF FilterInv
  <2>7. intercepted(e) <=> d.intercept = TRUE
    BY Zenon, <2>1 DEF intercepted, cached, d, Decision
  <2>8. intercepted(e)' <=> d.intercept = TRUE
    BY Zenon, <2>1, <2>3, <2>4 DEF intercepted, cached, Decision
  <2>9. \A x \in Endpoints : intercepted(x) => x \in DOMAIN endpoints
    BY Zenon DEF intercepted, cached
  <2> QED
    BY SMTT(30), <2>1, <2>3, <2>4, <2>5, <2>6, <2>7, <2>8, <2>9 DEF Decides
<1>3. CASE ~cached(e) /\ UNCHANGED cacheVars
  <2>1. endpoints' = endpoints /\ processNames' = processNames
    BY Zenon, <1>3 DEF cacheVars
  <2> QED
    BY Zenon, <1>3, <2>1 DEF Decides, FilterInv, intercepted, cached, CacheOK
<1>4. CASE ~cached(e) /\ enter(e, FALSE, kUnknownCacheTtlMs, FALSE) /\ UNCHANGED processNames
  <2> DEFINE entry == [intercept |-> FALSE, left |-> kUnknownCacheTtlMs, resolved |-> FALSE]
  <2>1. Entered(e, entry)
    BY Zenon, <1>1, <1>4, EnterEnters DEF FilterInv
  <2>2. NamesOK(processNames', image, refusedFor)
    BY Zenon, <1>4 DEF FilterInv
  <2>3. entry.intercept = FALSE
    BY Zenon
  <2> HIDE DEF entry
  <2> QED
    BY Zenon, <1>4, <2>1, <2>2, <2>3, EnteredDecides
<1>5. ASSUME NEW p \in Pids, NEW name \in Images, ~cached(e), owner(e, users, p),
             cachedProcessImage(p, name), i = (name = "allowed"),
             IF name = "unreadable" THEN enter(e, FALSE, kUnknownCacheTtlMs, FALSE)
             ELSE enter(e, i, cacheTtl(e), TRUE)
      PROVE  Decides(e, users)
  <2>1. /\ NamesOK(processNames', image, refusedFor)
        /\ name = "allowed" => refusedFor[p] < kProcessNameTtlMs
    BY Zenon, <1>5, NamesKept DEF FilterInv
  <2>2. CASE name = "unreadable"
    <3> DEFINE entry == [intercept |-> FALSE, left |-> kUnknownCacheTtlMs, resolved |-> FALSE]
    <3>1. enter(e, FALSE, kUnknownCacheTtlMs, FALSE)
      BY Zenon, <1>5, <2>2
    <3>2. Entered(e, entry)
      BY Zenon, <1>1, <3>1, EnterEnters DEF FilterInv
    <3>3. entry.intercept = FALSE
      BY Zenon
    <3> HIDE DEF entry
    <3> QED
      BY Zenon, <1>5, <2>1, <3>2, <3>3, EnteredDecides
  <2>3. CASE name # "unreadable"
    <3> DEFINE entry == [intercept |-> i, left |-> cacheTtl(e), resolved |-> TRUE]
    <3>1. enter(e, i, cacheTtl(e), TRUE)
      BY Zenon, <1>5, <2>3
    <3>2. Entered(e, entry)
      BY Zenon, <1>1, <3>1, EnterEnters DEF FilterInv
    <3>3. entry.intercept = i /\ entry.left = cacheTtl(e)
      BY Zenon
    <3>4. i = TRUE => owner(e, users, p) /\ refusedFor[p] < kProcessNameTtlMs
      BY Zenon, <1>5, <2>1
    <3> HIDE DEF entry
    <3>5. entry.intercept = TRUE => entry.left = cacheTtl(e) /\
            \E q \in Pids : owner(e, users, q) /\ refusedFor[q] < kProcessNameTtlMs
      BY <1>1, <3>3, <3>4
    <3> QED
      BY Zenon, <1>5, <2>1, <3>2, <3>5, EnteredDecides
  <2> QED
    BY Zenon, <2>2, <2>3
<1> QED
  BY Zenon, <1>2, <1>3, <1>4, <1>5 DEF shouldIntercept

\* A packet of e after its decision: its time starts again, and nothing else
\* that is intercepted is disturbed.
LEMMA DecidedKeeps ==
  ASSUME FilterInv, NEW e \in Endpoints, NEW users, Decides(e, users), PacketSeen(e, users),
         UNCHANGED <<image, refusedFor>>
  PROVE  FilterInv' /\ OwnedStep
<1>1. idle' = [idle EXCEPT ![e] = 0] /\ idle \in [Endpoints -> Nat]
  BY Zenon DEF PacketSeen, FilterInv, IdleOK
<1>2. /\ idle' \in [Endpoints -> Nat] /\ idle'[e] = 0
      /\ \A x \in Endpoints : x # e => idle'[x] = idle[x]
  BY <1>1
<1>4. ASSUME NEW x \in DOMAIN endpoints',
             endpoints'[x].intercept = TRUE, endpoints'[x].left > 0
      PROVE  endpoints'[x].left + idle'[x] = cacheTtl(x)
  <2>1. x \in Endpoints /\ intercepted(x)' /\ endpoints'[x].left \in Nat /\ cacheTtl(x) \in Nat
    BY Zenon, <1>4, CacheTtlIsPositive DEF Decides, CacheOK, Decision, intercepted, cached
  <2>2. CASE x = e
    <3>1. idle'[x] = 0 /\ endpoints'[x].left = cacheTtl(x)
      BY Zenon, <1>2, <2>1, <2>2 DEF Decides
    <3> QED
      BY <2>1, <3>1
  <2>3. CASE x # e
    <3>1. x \in DOMAIN endpoints /\ endpoints'[x] = endpoints[x]
      BY Zenon, <2>3 DEF Decides
    <3>2. endpoints[x].left + idle[x] = cacheTtl(x)
      BY Zenon, <1>4, <3>1 DEF FilterInv, IdleOK
    <3>3. idle'[x] = idle[x]
      BY Zenon, <1>2, <2>1, <2>3
    <3> QED
      BY Zenon, <3>1, <3>2, <3>3
  <2> QED
    BY Zenon, <2>2, <2>3
<1>5. IdleOK(endpoints', idle')
  BY Zenon, <1>2, <1>4 DEF IdleOK
<1>6. FilterInv'
  <2>1. CacheOK(endpoints') /\ NamesOK(processNames', image', refusedFor')
    BY Zenon DEF Decides
  <2> QED
    BY Zenon, <1>5, <2>1 DEF FilterInv, CacheOK, IdleOK, NamesOK
<1>7. ASSUME NEW x \in Endpoints, ~intercepted(x), intercepted(x)'
      PROVE  backed'
  <2>1. x = e
    BY Zenon, <1>7 DEF Decides, intercepted, cached
  <2> QED
    BY Zenon, <1>7, <2>1 DEF Decides, PacketSeen
<1>8. ASSUME NEW x \in Endpoints, intercepted(x), RoomToSpare PROVE intercepted(x)'
  <2>1. CASE x = e
    BY Zenon, <1>8, <2>1 DEF Decides
  <2>2. CASE x # e
    BY Zenon, <1>8, <2>2 DEF Decides, intercepted, cached
  <2> QED
    BY Zenon, <2>1, <2>2
<1> QED
  BY Zenon, <1>6, <1>7, <1>8, NotIdle DEF OwnedStep

\* What loses decisions only ends interceptions, and says so.
LEMMA FilterForgets ==
  ASSUME FilterInv, NEW F, DOMAIN endpoints' = DOMAIN endpoints \ F,
         \A x \in DOMAIN endpoints' : endpoints'[x] = endpoints[x],
         NamesOK(processNames', image', refusedFor'), idle' \in [Endpoints -> Nat],
         \A x \in Endpoints \ F : idle'[x] = idle[x],
         \A x \in Endpoints \cap F : idle'[x] = cacheTtl(x)
  PROVE  FilterInv' /\ OwnedStep
<1>1. DOMAIN endpoints' \subseteq DOMAIN endpoints
  BY Zenon
<1>2. /\ IsFiniteSet(DOMAIN endpoints')
      /\ Cardinality(DOMAIN endpoints') <= Cardinality(DOMAIN endpoints)
      /\ Cardinality(DOMAIN endpoints') \in Nat /\ Cardinality(DOMAIN endpoints) \in Nat
      /\ Cardinality(DOMAIN endpoints) <= kMaximumCachedEndpoints
  BY Zenon, <1>1, FS_Subset, FS_CardinalityType DEF FilterInv, CacheOK
<1>3. Cardinality(DOMAIN endpoints') <= kMaximumCachedEndpoints
  BY <1>2, FilterConstants
<1>4. CacheOK(endpoints')
  BY Zenon, <1>1, <1>2, <1>3 DEF FilterInv, CacheOK
<1>5. IdleOK(endpoints', idle')
  BY Zenon, <1>1 DEF FilterInv, IdleOK, CacheOK
<1>6. FilterInv'
  BY Zenon, <1>4, <1>5 DEF FilterInv, CacheOK, IdleOK, NamesOK
<1>7. \A x \in Endpoints : intercepted(x)' => intercepted(x)
  BY Zenon, <1>1 DEF intercepted, cached
<1>8. ASSUME NEW x \in Endpoints, intercepted(x), idle'[x] < cacheTtl(x) PROVE intercepted(x)'
  <2>1. cacheTtl(x) \in Nat
    BY Zenon, CacheTtlIsPositive
  <2>2. x \notin F
    BY <1>8, <2>1
  <2> QED
    BY Zenon, <1>8, <2>2 DEF intercepted, cached
<1> QED
  BY Zenon, <1>6, <1>7, <1>8, NotIdle DEF OwnedStep

\* A tick: a decision ends no sooner than the silence of its tuple allows, a
\* name no later than the time its process has been another allows.
LEMMA FilterTickKeeps ==
  ASSUME FilterInv, filterTick PROVE FilterInv' /\ OwnedStep
<1> DEFINE T == kProcessNameTtlMs
<1>1. T \in Nat \ {0}
  BY Zenon, FilterConstants
<1>2. /\ endpoints' = aged(endpoints) /\ processNames' = aged(processNames)
      /\ idle' = [e \in Endpoints |-> Min({cacheTtl(e), idle[e] + 1})]
      /\ refusedFor' = [p \in Pids |-> IF image[p] = "allowed" THEN 0
                                       ELSE Min({T, refusedFor[p] + 1})]
      /\ image' = image
  BY Zenon DEF filterTick
<1> HIDE DEF T
<1>3. DOMAIN endpoints' = DOMAIN endpoints /\ DOMAIN processNames' = DOMAIN processNames
  BY Zenon, <1>2 DEF aged
<1>4. ASSUME NEW n \in Nat PROVE ticked(n) = IF 0 >= n - 1 THEN 0 ELSE n - 1
  BY MaxOfTwo DEF ticked
<1>5. ASSUME NEW e \in Endpoints
      PROVE  /\ idle[e] \in Nat /\ cacheTtl(e) \in Nat
             /\ idle'[e] = IF cacheTtl(e) <= idle[e] + 1 THEN cacheTtl(e) ELSE idle[e] + 1
  <2>1. idle[e] \in Nat /\ cacheTtl(e) \in Nat
    BY Zenon, CacheTtlIsPositive DEF FilterInv, IdleOK
  <2>2. Min({cacheTtl(e), idle[e] + 1})
          = IF cacheTtl(e) <= idle[e] + 1 THEN cacheTtl(e) ELSE idle[e] + 1
    BY <2>1, MinOfTwo
  <2> QED
    BY Zenon, <1>2, <2>1, <2>2
<1>6. ASSUME NEW e \in DOMAIN endpoints
      PROVE  /\ e \in Endpoints /\ endpoints[e] \in Decision /\ endpoints'[e] \in Decision
             /\ endpoints'[e].intercept = endpoints[e].intercept
             /\ endpoints'[e].resolved = endpoints[e].resolved
             /\ endpoints[e].left \in Nat
             /\ endpoints'[e].left = IF 0 >= endpoints[e].left - 1 THEN 0 ELSE endpoints[e].left - 1
  <2>1. e \in Endpoints /\ endpoints[e] \in Decision /\ endpoints[e].left \in Nat
    BY Zenon DEF FilterInv, CacheOK, Decision
  <2>2. ticked(endpoints[e].left) = IF 0 >= endpoints[e].left - 1 THEN 0 ELSE endpoints[e].left - 1
    BY Zenon, <1>4, <2>1
  <2>3. endpoints'[e] = [endpoints[e] EXCEPT !.left = ticked(endpoints[e].left)]
    BY Zenon, <1>2 DEF aged
  <2> QED
    BY <2>1, <2>2, <2>3 DEF Decision
<1>7. CacheOK(endpoints')
  BY Zenon, <1>3, <1>6 DEF FilterInv, CacheOK
<1>8. ASSUME NEW e \in DOMAIN endpoints, endpoints[e].intercept = TRUE, endpoints[e].left > 0
      PROVE  /\ endpoints'[e].left > 0 => endpoints'[e].left + idle'[e] = cacheTtl(e)
             /\ idle'[e] < cacheTtl(e) => endpoints'[e].left > 0
  <2>1. endpoints[e].left + idle[e] = cacheTtl(e)
    BY Zenon, <1>8 DEF FilterInv, IdleOK
  <2> QED
    BY <1>5, <1>6, <1>8, <2>1
<1>9. IdleOK(endpoints', idle')
  <2>1. idle' \in [Endpoints -> Nat]
    BY SMTT(30), <1>2, <1>5
  <2>2. \A e \in DOMAIN endpoints' :
           endpoints'[e].intercept = TRUE /\ endpoints'[e].left > 0
             => endpoints[e].intercept = TRUE /\ endpoints[e].left > 0
    BY SMTT(30), <1>3, <1>6
  <2> QED
    BY Zenon, <1>3, <1>8, <2>1, <2>2 DEF IdleOK
<1>10. ASSUME NEW p \in Pids
       PROVE  /\ refusedFor[p] \in Nat /\ refusedFor'[p] \in Nat
              /\ refusedFor'[p] <= refusedFor[p] + 1
              /\ image[p] = "allowed" => refusedFor'[p] = 0
  <2>1. refusedFor[p] \in Nat
    BY Zenon DEF FilterInv, NamesOK
  <2>2. Min({T, refusedFor[p] + 1}) = IF T <= refusedFor[p] + 1 THEN T ELSE refusedFor[p] + 1
    BY <1>1, <2>1, MinOfTwo
  <2>3. refusedFor'[p] = IF image[p] = "allowed" THEN 0 ELSE Min({T, refusedFor[p] + 1})
    BY Zenon, <1>2
  <2> QED
    BY <1>1, <2>1, <2>2, <2>3
<1>11. ASSUME NEW p \in DOMAIN processNames
       PROVE  /\ p \in Pids /\ processNames'[p] \in CachedName
              /\ processNames'[p].image = "allowed" /\ processNames'[p].left > 0
                   => refusedFor'[p] + processNames'[p].left <= T
  <2> DEFINE c == processNames[p]
  <2>1. p \in Pids /\ c \in CachedName /\ c.left \in Nat
    BY Zenon DEF FilterInv, NamesOK, CachedName
  <2>2. ticked(c.left) = IF 0 >= c.left - 1 THEN 0 ELSE c.left - 1
    BY Zenon, <1>4, <2>1
  <2>3. processNames'[p] = [c EXCEPT !.left = ticked(c.left)]
    BY Zenon, <1>2 DEF aged
  <2>4. c.image = "allowed" /\ c.left > 0 => refusedFor[p] + c.left <= T
    BY Zenon DEF FilterInv, NamesOK, T
  <2> HIDE DEF c
  <2>5. /\ processNames'[p] \in CachedName /\ processNames'[p].image = c.image
        /\ processNames'[p].left = IF 0 >= c.left - 1 THEN 0 ELSE c.left - 1
    BY <2>1, <2>2, <2>3 DEF CachedName
  <2> QED
    BY SMTT(30), <1>1, <1>10, <2>1, <2>4, <2>5
<1>12. NamesOK(processNames', image', refusedFor')
  <2>1. refusedFor' = [p \in Pids |-> refusedFor'[p]]
    BY Zenon, <1>2
  <2>2. refusedFor' \in [Pids -> Nat]
    BY Zenon, <1>10, <2>1
  <2> QED
    BY Zenon, <1>2, <1>3, <1>10, <1>11, <2>2 DEF FilterInv, NamesOK, T
<1>13. FilterInv'
  BY Zenon, <1>7, <1>9, <1>12 DEF FilterInv, CacheOK, IdleOK, NamesOK
<1>14. \A e \in Endpoints : intercepted(e)' => intercepted(e)
  BY <1>3, <1>6 DEF intercepted, cached
<1>15. \A e \in Endpoints : intercepted(e) /\ idle'[e] < cacheTtl(e) => intercepted(e)'
  BY Zenon, <1>3, <1>6, <1>8 DEF intercepted, cached, Decision
<1> QED
  BY Zenon, <1>13, <1>14, <1>15, NotIdle DEF OwnedStep

\* The id of a process passes to another.
LEMMA ReusePidKeeps ==
  ASSUME FilterInv, NEW p \in Pids, ReusePid(p) PROVE NamesOK(processNames', image', refusedFor')
<1>1. PICK name \in Images : image' = [image EXCEPT ![p] = name]
  BY Zenon DEF ReusePid
<1>2. /\ refusedFor' = [refusedFor EXCEPT ![p] =
                          IF "allowed" \in {image[p], image'[p]} THEN 0 ELSE refusedFor[p]]
      /\ processNames' = processNames
  BY Zenon DEF ReusePid, cacheVars
<1>3. image' \in [Pids -> Images] /\ image'[p] = name
  BY Zenon, <1>1 DEF FilterInv, NamesOK
<1>4. \A q \in Pids : /\ refusedFor'[q] \in Nat /\ refusedFor[q] \in Nat
                      /\ refusedFor'[q] <= refusedFor[q]
                      /\ image'[q] = "allowed" => refusedFor'[q] = 0
  BY <1>1, <1>2, <1>3 DEF FilterInv, NamesOK
<1>5. refusedFor' \in [Pids -> Nat]
  BY Zenon, <1>2, <1>4 DEF FilterInv, NamesOK
<1>6. ASSUME NEW q \in DOMAIN processNames, processNames[q].image = "allowed",
             processNames[q].left > 0
      PROVE  refusedFor'[q] + processNames[q].left <= kProcessNameTtlMs
  <2>1. /\ q \in Pids /\ processNames[q].left \in Nat
        /\ refusedFor[q] + processNames[q].left <= kProcessNameTtlMs
    BY Zenon, <1>6 DEF FilterInv, NamesOK, CachedName
  <2> QED
    BY <1>4, <2>1, FilterConstants
<1> QED
  BY Zenon, <1>2, <1>3, <1>4, <1>5, <1>6 DEF FilterInv, NamesOK

\* Every step of the packet loop, of the system and of time.
LEMMA FilterStep ==
  ASSUME FilterInv, [FilterNext]_filterVars PROVE FilterInv' /\ OwnedStep
<1>1. ASSUME NEW e \in Endpoints, NEW users, Datagram(e, users) PROVE FilterInv' /\ OwnedStep
  <2>1. PICK o \in BOOLEAN, i \in BOOLEAN : shouldIntercept(e, o, users, i)
    BY Zenon, <1>1 DEF Datagram
  <2>2. Decides(e, users)
    BY Zenon, <2>1, ShouldInterceptDecides
  <2>3. PacketSeen(e, users) /\ UNCHANGED <<image, refusedFor>>
    BY Zenon, <1>1 DEF Datagram
  <2> QED
    BY Zenon, <2>2, <2>3, DecidedKeeps
<1>2. ASSUME NEW e \in Endpoints, NEW users, ClientSyn(e, users) PROVE FilterInv' /\ OwnedStep
  <2>1. PICK i \in BOOLEAN : shouldIntercept(e, TRUE, users, i)
    BY Zenon, <1>2 DEF ClientSyn
  <2>2. Decides(e, users)
    BY Zenon, <2>1, ShouldInterceptDecides
  <2>3. PacketSeen(e, users) /\ UNCHANGED <<image, refusedFor>>
    BY Zenon, <1>2 DEF ClientSyn
  <2> QED
    BY Zenon, <2>2, <2>3, DecidedKeeps
<1>3. ASSUME NEW e \in Endpoints, ClientRst(e) PROVE FilterInv' /\ OwnedStep
  <2>1. /\ endpoints' = Restrict(endpoints, DOMAIN endpoints \ {e})
        /\ idle' = [idle EXCEPT ![e] = cacheTtl(e)]
        /\ UNCHANGED <<processNames, image, refusedFor>>
    BY Zenon, <1>3 DEF ClientRst
  <2>2. /\ DOMAIN endpoints' = DOMAIN endpoints \ {e}
        /\ \A x \in DOMAIN endpoints' : endpoints'[x] = endpoints[x]
    BY Zenon, <2>1 DEF Restrict
  <2>3. /\ idle' \in [Endpoints -> Nat]
        /\ \A x \in Endpoints \ {e} : idle'[x] = idle[x]
        /\ \A x \in Endpoints \cap {e} : idle'[x] = cacheTtl(x)
    BY Zenon, <2>1, CacheTtlIsPositive DEF FilterInv, IdleOK
  <2>4. NamesOK(processNames', image', refusedFor')
    BY Zenon, <2>1 DEF FilterInv
  <2> QED
    BY Zenon, <2>2, <2>3, <2>4, FilterForgets
<1>4. ASSUME UNCHANGED <<endpoints, idle>>, NamesOK(processNames', image', refusedFor')
      PROVE  FilterInv' /\ OwnedStep
  <2>1. /\ DOMAIN endpoints' = DOMAIN endpoints \ {}
        /\ \A x \in DOMAIN endpoints' : endpoints'[x] = endpoints[x]
        /\ idle' \in [Endpoints -> Nat]
        /\ \A x \in Endpoints \ {} : idle'[x] = idle[x]
        /\ \A x \in Endpoints \cap {} : idle'[x] = cacheTtl(x)
    BY Zenon, <1>4 DEF FilterInv, IdleOK
  <2> QED
    BY Zenon, <1>4, <2>1, FilterForgets
<1>5. ASSUME NEW e \in Endpoints, FlowEnds(e) PROVE FilterInv' /\ OwnedStep
  <2>1. UNCHANGED <<endpoints, idle, processNames, image, refusedFor>>
    BY Zenon, <1>5 DEF FlowEnds, cacheVars
  <2>2. NamesOK(processNames', image', refusedFor')
    BY Zenon, <2>1 DEF FilterInv
  <2> QED
    BY Zenon, <1>4, <2>1, <2>2
<1>6. ASSUME NEW p \in Pids, ReusePid(p) PROVE FilterInv' /\ OwnedStep
  <2>1. UNCHANGED <<endpoints, idle>>
    BY Zenon, <1>6 DEF ReusePid, cacheVars
  <2> QED
    BY Zenon, <1>4, <1>6, <2>1, ReusePidKeeps
<1>7. CASE filterClear
  <2>1. /\ endpoints' = <<>> /\ processNames' = <<>> /\ UNCHANGED <<image, refusedFor>>
        /\ idle' = [e \in Endpoints |-> cacheTtl(e)]
    BY Zenon, <1>7 DEF filterClear
  <2>2. DOMAIN endpoints' = {} /\ DOMAIN processNames' = {}
    BY <2>1
  <2>3. DOMAIN endpoints' = DOMAIN endpoints \ Endpoints
    BY Zenon, <2>2 DEF FilterInv, CacheOK
  <2>4. /\ idle' \in [Endpoints -> Nat]
        /\ \A x \in Endpoints \cap Endpoints : idle'[x] = cacheTtl(x)
    BY Zenon, <2>1, CacheTtlIsPositive
  <2>5. NamesOK(processNames', image', refusedFor')
    BY Zenon, <2>1, <2>2 DEF FilterInv, NamesOK
  <2> QED
    BY Zenon, <2>2, <2>3, <2>4, <2>5, FilterForgets
<1>8. CASE filterTick
  BY Zenon, <1>8, FilterTickKeeps
<1>9. CASE UNCHANGED filterVars
  <2>1. UNCHANGED <<endpoints, idle, processNames, image, refusedFor>>
    BY Zenon, <1>9 DEF filterVars, cacheVars
  <2>2. NamesOK(processNames', image', refusedFor')
    BY Zenon, <2>1 DEF FilterInv
  <2> QED
    BY Zenon, <1>4, <2>1, <2>2
<1> HIDE DEF FilterInv, OwnedStep
<1> QED
  BY <1>1, <1>2, <1>3, <1>5, <1>6, <1>7, <1>8, <1>9 DEF FilterNext

\* The invariant of process_filter::Filter.
LEMMA FilterInvariant == FilterSpec => []FilterInv
<1>1. FilterInit => FilterInv
  <2> SUFFICES ASSUME FilterInit PROVE FilterInv
    BY Zenon
  <2>1. DOMAIN endpoints = {} /\ DOMAIN processNames = {}
    BY SMTT(30) DEF FilterInit
  <2>2. CacheOK(endpoints)
    BY <2>1, FS_EmptySet, FilterConstants DEF CacheOK
  <2>3. IdleOK(endpoints, idle)
    BY Zenon, <2>1, CacheTtlIsPositive DEF FilterInit, IdleOK
  <2>4. NamesOK(processNames, image, refusedFor)
    BY Zenon, <2>1, FilterConstants DEF FilterInit, NamesOK, longAgo
  <2> QED
    BY Zenon, <2>2, <2>3, <2>4 DEF FilterInv
<1>2. FilterInv /\ [FilterNext]_filterVars => FilterInv'
  BY Zenon, FilterStep
<1> QED
  BY <1>1, <1>2, PTL DEF FilterSpec

\* A tuple starts to be intercepted only for an owner that was allowed lately;
\* it stays so while its packets do not pause and the cache has room to spare,
\* and no longer than until a pause or a reset; for any number of tuples and
\* processes, every limit and every lifetime.
THEOREM InterceptionTheorem == FilterSpec => InterceptionIsOwned
<1>1. FilterInv /\ [FilterNext]_filterVars => [OwnedStep]_filterVars
  BY Zenon, FilterStep
<1>2. FilterSpec => [][OwnedStep]_filterVars
  BY <1>1, FilterInvariant, PTL DEF FilterSpec
<1> QED
  BY Zenon, <1>2 DEF InterceptionIsOwned, OwnedStep

-----------------------------------------------------------------------------
(* QuicStrategy                                                            *)

QuicFlow == [started : Nat, touched : Nat, answered : BOOLEAN]

\* A registry whose counter is exact, whose blocks in force each stand for an
\* unanswered flow that a purge will not reach before the block is over, and
\* whose unanswered flows have been silent for as long as it says.
Registry(fl, bl, count, silent) ==
    /\ DOMAIN fl \subseteq Flows /\ IsFiniteSet(DOMAIN fl)
    /\ \A f \in DOMAIN fl : fl[f] \in QuicFlow
    /\ IsFiniteSet(DOMAIN bl) /\ bl \in [DOMAIN bl -> 0..fallbackMs]
    /\ count = Cardinality(unanswered(fl))
    /\ \A s \in DOMAIN bl : bl[s] > 0 =>
         \E f \in unanswered(fl) : f[1] = s /\ fl[f].touched + bl[s] <= fallbackMs
    /\ silent \in [Flows -> Int]
    /\ \A f \in unanswered(fl) : silent[f] >= fl[f].started

\* A record of the five fields of the registry.
IsRegistry(r) ==
    r = [flows |-> r.flows, blocked |-> r.blocked, unanswered |-> r.unanswered,
         published |-> r.published, purgeIn |-> r.purgeIn]

\* A registry whose two counters say what there is.
Sound(r, silent) ==
    /\ IsRegistry(r) /\ r.purgeIn \in Nat
    /\ Registry(r.flows, r.blocked, r.unanswered, silent)
    /\ r.published = Cardinality(DOMAIN r.blocked)

QuicInv == Sound(registry, silentFor)

\* Publishing the number of blocks, field by field.
LEMMA Published ==
  ASSUME NEW r, IsRegistry(r)
  PROVE  publishBlockedLocked(r) =
           [flows |-> r.flows, blocked |-> r.blocked, unanswered |-> r.unanswered,
            published |-> Cardinality(DOMAIN r.blocked), purgeIn |-> r.purgeIn]
<1> DEFINE n == Cardinality(DOMAIN r.blocked)
<1>1. publishBlockedLocked(r) = [r EXCEPT !.published = n]
  BY Zenon DEF publishBlockedLocked
<1> HIDE DEF n
<1>2. [r EXCEPT !.published = n] =
        [flows |-> r.flows, blocked |-> r.blocked, unanswered |-> r.unanswered,
         published |-> n, purgeIn |-> r.purgeIn]
  BY DEF IsRegistry
<1> QED
  BY Zenon, <1>1, <1>2 DEF n

\* Publishing with other blocks.
LEMMA Reblocked ==
  ASSUME NEW r, IsRegistry(r), NEW bl
  PROVE  publishBlockedLocked([r EXCEPT !.blocked = bl]) =
           [flows |-> r.flows, blocked |-> bl, unanswered |-> r.unanswered,
            published |-> Cardinality(DOMAIN bl), purgeIn |-> r.purgeIn]
<1> DEFINE e == [flows |-> r.flows, blocked |-> bl, unanswered |-> r.unanswered,
                 published |-> r.published, purgeIn |-> r.purgeIn]
<1>1. [r EXCEPT !.blocked = bl] = e
  BY DEF IsRegistry
<1>2. IsRegistry(e) /\ e.flows = r.flows /\ e.blocked = bl /\ e.unanswered = r.unanswered
                    /\ e.purgeIn = r.purgeIn
  BY Zenon DEF IsRegistry
<1> HIDE DEF e
<1> QED
  BY Zenon, <1>1, <1>2, Published

\* The unanswered flows are finitely many, and their number says whether there
\* are any.
LEMMA UnansweredIsFinite ==
  ASSUME NEW fl, IsFiniteSet(DOMAIN fl)
  PROVE  /\ IsFiniteSet(unanswered(fl)) /\ Cardinality(unanswered(fl)) \in Nat
         /\ Cardinality(unanswered(fl)) = 0 <=> unanswered(fl) = {}
<1>1. unanswered(fl) \subseteq DOMAIN fl
  BY Zenon DEF unanswered
<1>2. IsFiniteSet(unanswered(fl))
  BY Zenon, <1>1, FS_Subset
<1> QED
  BY Zenon, <1>2, FS_CardinalityType, FS_EmptySet

\* A purge takes away only flows that no block in force stands on, and counts
\* the unanswered ones among them.
LEMMA PurgeLeaves ==
  ASSUME NEW qf, NEW qb, NEW n, NEW si, Registry(qf, qb, n, si),
         NEW old, old = {f \in DOMAIN qf : qf[f].touched > fallbackMs},
         NEW inForce, inForce = {s \in DOMAIN qb : qb[s] > 0}
  PROVE  /\ Registry(Restrict(qf, DOMAIN qf \ old), Restrict(qb, inForce),
                     n - Cardinality(old \cap unanswered(qf)), si)
         /\ IsRestriction(Restrict(qb, inForce), qb)
         /\ IsRestriction(Restrict(qf, DOMAIN qf \ old), qf)
<1> DEFINE fl == Restrict(qf, DOMAIN qf \ old)
           bl == Restrict(qb, inForce)
           gone == old \cap unanswered(qf)
<1>1. /\ DOMAIN fl = DOMAIN qf \ old /\ \A f \in DOMAIN fl : fl[f] = qf[f]
      /\ DOMAIN bl = inForce /\ \A s \in inForce : bl[s] = qb[s]
      /\ bl = [s \in inForce |-> qb[s]]
      /\ DOMAIN fl \subseteq DOMAIN qf /\ inForce \subseteq DOMAIN qb
  BY Zenon DEF Restrict
<1>2. IsRestriction(bl, qb) /\ IsRestriction(fl, qf)
  BY Zenon, <1>1 DEF IsRestriction
<1>3. IsFiniteSet(DOMAIN fl) /\ IsFiniteSet(inForce)
  BY Zenon, <1>1, FS_Subset DEF Registry
<1>4. unanswered(fl) = unanswered(qf) \ old
  BY Zenon, <1>1 DEF unanswered
<1>5. n - Cardinality(gone) = Cardinality(unanswered(fl))
  <2>1. IsFiniteSet(unanswered(qf))
    BY Zenon, UnansweredIsFinite DEF Registry
  <2>2. Cardinality(unanswered(qf) \ old)
          = Cardinality(unanswered(qf)) - Cardinality(unanswered(qf) \cap old)
    BY Zenon, <2>1, FS_Difference
  <2>3. gone = unanswered(qf) \cap old
    BY Zenon
  <2> HIDE DEF gone, fl
  <2> QED
    BY Zenon, <1>4, <2>2, <2>3 DEF Registry
<1>6. ASSUME NEW s \in inForce
      PROVE  \E f \in unanswered(fl) : f[1] = s /\ fl[f].touched + bl[s] <= fallbackMs
  <2>1. PICK f \in unanswered(qf) : f[1] = s /\ qf[f].touched + qb[s] <= fallbackMs
    BY Zenon DEF Registry
  <2>2. f \in DOMAIN qf /\ qf[f].touched \in Nat /\ qb[s] \in 0..fallbackMs
    BY Zenon, <1>1 DEF Registry, QuicFlow, unanswered
  <2>3. f \notin old
    BY <2>1, <2>2, QuicConstants
  <2> QED
    BY Zenon, <1>1, <1>4, <2>1, <2>2, <2>3
<1>7. bl \in [inForce -> 0..fallbackMs]
  BY Zenon, <1>1 DEF Registry
<1>8. \A f \in unanswered(fl) : f \in DOMAIN fl /\ f \in unanswered(qf)
  BY Zenon, <1>1, <1>4 DEF unanswered
<1> HIDE DEF gone, fl, bl
<1>9. Registry(fl, bl, n - Cardinality(gone), si)
  BY Zenon, <1>1, <1>3, <1>5, <1>6, <1>7, <1>8 DEF Registry
<1> QED
  BY Zenon, <1>2, <1>9 DEF gone, fl, bl

\* purgeIfDue() leaves a sound registry, with nothing new in it.
LEMMA PurgeKeeps ==
  ASSUME NEW r, NEW si, Sound(r, si)
  PROVE  /\ Sound(purgeIfDue(r), si) /\ purgeIfDue(r).purgeIn > 0
         /\ IsRestriction(purgeIfDue(r).blocked, r.blocked)
         /\ IsRestriction(purgeIfDue(r).flows, r.flows)
<1>1. CASE r.purgeIn > 0
  BY Zenon, <1>1 DEF purgeIfDue, IsRestriction
<1>2. CASE ~(r.purgeIn > 0)
  <2> DEFINE old == {k \in DOMAIN r.flows : r.flows[k].touched > fallbackMs}
             inForce == {s \in DOMAIN r.blocked : r.blocked[s] > 0}
             fl == Restrict(r.flows, DOMAIN r.flows \ old)
             bl == Restrict(r.blocked, inForce)
             n == r.unanswered - Cardinality(old \cap unanswered(r.flows))
             e == [flows |-> fl, blocked |-> bl, unanswered |-> n,
                   published |-> r.published, purgeIn |-> kQuicPurgeMs]
  <2>1. purgeIfDue(r) = publishBlockedLocked(e)
    BY Zenon, <1>2 DEF purgeIfDue
  <2>2. Registry(fl, bl, n, si) /\ IsRestriction(bl, r.blocked) /\ IsRestriction(fl, r.flows)
    <3> HIDE DEF old, inForce
    <3>1. /\ old = {k \in DOMAIN r.flows : r.flows[k].touched > fallbackMs}
          /\ inForce = {s \in DOMAIN r.blocked : r.blocked[s] > 0}
      BY Zenon DEF old, inForce
    <3>2. Registry(r.flows, r.blocked, r.unanswered, si)
      BY Zenon DEF Sound
    <3> QED
      BY Zenon, <3>1, <3>2, PurgeLeaves
  <2> HIDE DEF fl, bl, n
  <2>3. /\ IsRegistry(e) /\ e.flows = fl /\ e.blocked = bl /\ e.unanswered = n
        /\ e.purgeIn = kQuicPurgeMs
    BY Zenon DEF IsRegistry
  <2> HIDE DEF e
  <2>4. purgeIfDue(r) = [flows |-> fl, blocked |-> bl, unanswered |-> n,
                         published |-> Cardinality(DOMAIN bl), purgeIn |-> kQuicPurgeMs]
    BY Zenon, <2>1, <2>3, Published
  <2>5. /\ purgeIfDue(r).flows = fl /\ purgeIfDue(r).blocked = bl
        /\ purgeIfDue(r).unanswered = n /\ purgeIfDue(r).purgeIn = kQuicPurgeMs
        /\ purgeIfDue(r).published = Cardinality(DOMAIN bl)
        /\ IsRegistry(purgeIfDue(r))
    BY <2>4 DEF IsRegistry
  <2>6. kQuicPurgeMs \in Nat /\ kQuicPurgeMs > 0
    BY QuicConstants
  <2> QED
    BY Zenon, <2>2, <2>5, <2>6 DEF Sound
<1> QED
  BY Zenon, <1>1, <1>2

\* Lifting a block leaves a registry.
LEMMA DropKeeps ==
  ASSUME NEW fl, NEW bl, NEW n, NEW si, Registry(fl, bl, n, si), NEW s
  PROVE  Registry(fl, drop(bl, s), n, si) /\ IsRestriction(drop(bl, s), bl)
<1>1. /\ DOMAIN drop(bl, s) = DOMAIN bl \ {s}
      /\ drop(bl, s) = [x \in DOMAIN bl \ {s} |-> bl[x]]
  BY Zenon DEF drop, Restrict
<1>2. IsFiniteSet(DOMAIN bl \ {s})
  BY Zenon, FS_Subset DEF Registry
<1> HIDE DEF drop
<1> QED
  BY <1>1, <1>2 DEF Registry, IsRestriction

\* The first Initial of a flow: one more flow is unanswered, from now on.
LEMMA NewFlowKeeps ==
  ASSUME NEW fl, NEW bl, NEW n, NEW si, Registry(fl, bl, n, si),
         NEW f \in Flows, f \notin DOMAIN fl
  PROVE  Registry(put(fl, f, [started |-> 0, touched |-> 0, answered |-> FALSE]),
                  bl, n + 1, [si EXCEPT ![f] = 0])
<1> DEFINE new == [started |-> 0, touched |-> 0, answered |-> FALSE]
           fl2 == put(fl, f, new)
           si2 == [si EXCEPT ![f] = 0]
<1>1. /\ DOMAIN fl2 = DOMAIN fl \cup {f} /\ fl2[f] = new
      /\ \A g \in DOMAIN fl : fl2[g] = fl[g]
  BY Zenon DEF put
<1>2. unanswered(fl2) = unanswered(fl) \cup {f} /\ f \notin unanswered(fl)
  BY SMTT(30), <1>1 DEF unanswered
<1>3. IsFiniteSet(DOMAIN fl2)
  BY <1>1, FS_AddElement DEF Registry
<1>4. IsFiniteSet(unanswered(fl))
  BY Zenon, UnansweredIsFinite DEF Registry
<1>5. Cardinality(unanswered(fl2)) = n + 1
  BY <1>2, <1>4, FS_AddElement DEF Registry
<1>6. new \in QuicFlow
  BY Zenon DEF QuicFlow
<1>7. /\ si2 \in [Flows -> Int] /\ si2[f] = 0
      /\ \A g \in Flows : g # f => si2[g] = si[g]
  BY DEF Registry
<1>8. unanswered(fl) \subseteq DOMAIN fl
  BY Zenon DEF unanswered
<1>9. new.started = 0
  BY Zenon
<1> HIDE DEF fl2, si2, new
<1>10. Registry(fl2, bl, n + 1, si2)
  BY SMTT(30), <1>1, <1>2, <1>3, <1>5, <1>6, <1>7, <1>8, <1>9 DEF Registry
<1> QED
  BY Zenon, <1>10 DEF fl2, si2, new

\* A later Initial: the flow is touched, which only delays its purge.
LEMMA TouchKeeps ==
  ASSUME NEW fl, NEW bl, NEW n, NEW si, Registry(fl, bl, n, si), NEW f \in DOMAIN fl
  PROVE  Registry([fl EXCEPT ![f].touched = 0], bl, n, si)
<1> DEFINE fl2 == [fl EXCEPT ![f].touched = 0]
<1>1. /\ DOMAIN fl2 = DOMAIN fl
      /\ \A g \in DOMAIN fl : g # f => fl2[g] = fl[g]
      /\ fl2[f] = [fl[f] EXCEPT !.touched = 0]
  BY Zenon
<1>2. /\ fl2[f] \in QuicFlow /\ fl2[f].touched = 0 /\ fl2[f].started = fl[f].started
      /\ fl2[f].answered = fl[f].answered
  BY <1>1 DEF Registry, QuicFlow
<1> HIDE DEF fl2
<1>3. unanswered(fl2) = unanswered(fl) /\ unanswered(fl) \subseteq DOMAIN fl
  BY Zenon, <1>1, <1>2 DEF unanswered
<1>4. \A g \in DOMAIN fl : /\ fl2[g] \in QuicFlow /\ fl2[g].touched <= fl[g].touched
                           /\ fl2[g].started = fl[g].started
  BY SMTT(30), <1>1, <1>2 DEF Registry, QuicFlow
<1>5. ASSUME NEW s \in DOMAIN bl, bl[s] > 0
      PROVE  \E g \in unanswered(fl2) : g[1] = s /\ fl2[g].touched + bl[s] <= fallbackMs
  <2>1. PICK g \in unanswered(fl) : g[1] = s /\ fl[g].touched + bl[s] <= fallbackMs
    BY Zenon, <1>5 DEF Registry
  <2>2. /\ fl2[g].touched \in Nat /\ fl[g].touched \in Nat /\ bl[s] \in Nat
        /\ fl2[g].touched <= fl[g].touched /\ fallbackMs \in Nat
    BY <1>3, <1>4, QuicConstants DEF Registry, QuicFlow
  <2> QED
    BY <1>3, <2>1, <2>2
<1>6. Registry(fl2, bl, n, si)
  BY Zenon, <1>1, <1>3, <1>4, <1>5 DEF Registry
<1> QED
  BY Zenon, <1>6 DEF fl2

\* A block is put in force for a flow that has just been touched.
LEMMA BlockKeeps ==
  ASSUME NEW fl, NEW bl, NEW n, NEW si, Registry(fl, bl, n, si),
         NEW f \in unanswered(fl), fl[f].touched = 0
  PROVE  Registry(fl, put(bl, f[1], fallbackMs), n, si)
<1> DEFINE bl2 == put(bl, f[1], fallbackMs)
<1>1. /\ DOMAIN bl2 = DOMAIN bl \cup {f[1]} /\ bl2[f[1]] = fallbackMs
      /\ \A s \in DOMAIN bl : s # f[1] => bl2[s] = bl[s]
      /\ bl2 = [s \in DOMAIN bl2 |-> bl2[s]]
  BY Zenon DEF put
<1>2. IsFiniteSet(DOMAIN bl2)
  BY <1>1, FS_AddElement DEF Registry
<1> HIDE DEF bl2
<1>3. fallbackMs \in Nat
  BY Zenon, QuicConstants
<1>4. bl2 \in [DOMAIN bl2 -> 0..fallbackMs]
  <2>1. \A s \in DOMAIN bl2 : bl2[s] \in 0..fallbackMs
    BY SMTT(30), <1>1, <1>3 DEF Registry
  <2> QED
    BY Zenon, <1>1, <2>1
<1>5. Registry(fl, bl2, n, si)
  BY <1>1, <1>2, <1>3, <1>4 DEF Registry
<1> QED
  BY Zenon, <1>5 DEF bl2

\* An answer: its flow is answered, it leaves the count if it was in it, and
\* its server is not blocked any more.
LEMMA AnswerKeeps ==
  ASSUME NEW fl, NEW bl, NEW n, NEW si, Registry(fl, bl, n, si), NEW f \in DOMAIN fl
  PROVE  Registry([fl EXCEPT ![f].answered = TRUE, ![f].touched = 0], drop(bl, f[1]),
                  IF fl[f].answered THEN n ELSE n - 1, [si EXCEPT ![f] = Answered])
<1> DEFINE fl2 == [fl EXCEPT ![f].answered = TRUE, ![f].touched = 0]
           bl2 == drop(bl, f[1])
           si2 == [si EXCEPT ![f] = Answered]
           n2 == IF fl[f].answered THEN n ELSE n - 1
<1>1. /\ DOMAIN fl2 = DOMAIN fl
      /\ \A g \in DOMAIN fl : g # f => fl2[g] = fl[g]
  BY Zenon
<1>2. fl2[f] \in QuicFlow /\ fl2[f].answered = TRUE
  <2>1. fl[f] \in QuicFlow
    BY Zenon DEF Registry
  <2> DEFINE a == [fl[f] EXCEPT !.answered = TRUE]
  <2>2. a \in QuicFlow /\ a.answered = TRUE
    BY Zenon, <2>1 DEF QuicFlow
  <2>3. fl2[f] = [a EXCEPT !.touched = 0]
    BY Zenon, <2>1 DEF QuicFlow
  <2> HIDE DEF a, fl2
  <2> QED
    BY <2>2, <2>3 DEF QuicFlow
<1>3. DOMAIN bl2 = DOMAIN bl \ {f[1]} /\ \A s \in DOMAIN bl2 : bl2[s] = bl[s]
  BY Zenon DEF drop, Restrict
<1>4. Registry(fl, bl2, n, si)
  BY Zenon, DropKeeps
<1>5. /\ si2 \in [Flows -> Int]
      /\ \A g \in Flows : g # f => si2[g] = si[g]
  BY DEF Registry, Answered
<1> HIDE DEF fl2, bl2, si2
<1>6. unanswered(fl2) = unanswered(fl) \ {f} /\ unanswered(fl) \subseteq DOMAIN fl
  BY Zenon, <1>1, <1>2 DEF unanswered
<1>7. n2 = Cardinality(unanswered(fl2))
  <2>1. IsFiniteSet(unanswered(fl)) /\ Cardinality(unanswered(fl)) \in Nat
    BY Zenon, UnansweredIsFinite DEF Registry
  <2>2. CASE fl[f].answered
    <3>1. unanswered(fl2) = unanswered(fl)
      BY Zenon, <1>6, <2>2 DEF unanswered
    <3> QED
      BY Zenon, <2>2, <3>1 DEF Registry
  <2>3. CASE ~fl[f].answered
    <3>1. f \in unanswered(fl)
      BY Zenon, <2>3 DEF unanswered
    <3>2. Cardinality(unanswered(fl) \ {f}) = Cardinality(unanswered(fl)) - 1
      BY Zenon, <2>1, <3>1, FS_RemoveElement
    <3> QED
      BY <1>6, <2>3, <3>2 DEF Registry
  <2> QED
    BY Zenon, <2>2, <2>3
<1>8. ASSUME NEW s \in DOMAIN bl2, bl2[s] > 0
      PROVE  \E g \in unanswered(fl2) : g[1] = s /\ fl2[g].touched + bl2[s] <= fallbackMs
  <2>1. PICK g \in unanswered(fl) : g[1] = s /\ fl[g].touched + bl2[s] <= fallbackMs
    BY <1>4, <1>8 DEF Registry
  <2>2. g # f
    BY Zenon, <1>3, <2>1
  <2> QED
    BY Zenon, <1>1, <1>6, <2>1, <2>2
<1> HIDE DEF n2
<1>9. Registry(fl2, bl2, n2, si2)
  BY SMTT(30), <1>1, <1>2, <1>4, <1>5, <1>6, <1>7, <1>8 DEF Registry
<1> QED
  BY Zenon, <1>9 DEF fl2, bl2, si2, n2

\* An answer to a flow the registry does not know changes nothing in it.
LEMMA StrangerKeeps ==
  ASSUME NEW fl, NEW bl, NEW n, NEW si, Registry(fl, bl, n, si),
         NEW f \in Flows, f \notin unanswered(fl)
  PROVE  Registry(fl, bl, n, [si EXCEPT ![f] = Answered])
<1>1. unanswered(fl) \subseteq Flows
  BY Zenon DEF Registry, unanswered
<1> QED
  BY <1>1 DEF Registry, Answered


\* What a call leaves becomes the registry.
LEMMA LeaveKeeps ==
  ASSUME NEW r, Leave(r), Sound(r, silentFor')
  PROVE  QuicInv' /\ blocked' = r.blocked
<1>1. /\ quicFlows' = r.flows /\ blocked' = r.blocked /\ quicPurgeIn' = r.purgeIn
      /\ unansweredFlows' = r.unanswered /\ blockedServers' = r.published
  BY Zenon DEF Leave
<1>2. registry' = r
  BY Zenon, <1>1 DEF registry, Sound, IsRegistry
<1> QED
  BY Zenon, <1>1, <1>2 DEF QuicInv

\* Lifting a block of a sound registry.
LEMMA LiftKeeps ==
  ASSUME NEW r, NEW si, Sound(r, si), NEW s
  PROVE  /\ Sound(lift(r, s), si) /\ IsRestriction(lift(r, s).blocked, r.blocked)
         /\ lift(r, s).flows = r.flows
<1> DEFINE bl == drop(r.blocked, s)
<1>1. lift(r, s) = [flows |-> r.flows, blocked |-> bl, unanswered |-> r.unanswered,
                    published |-> Cardinality(DOMAIN bl), purgeIn |-> r.purgeIn]
  BY Zenon, Reblocked DEF lift, Sound
<1>2. Registry(r.flows, bl, r.unanswered, si) /\ IsRestriction(bl, r.blocked)
  BY Zenon, DropKeeps DEF Sound
<1> HIDE DEF bl
<1>3. /\ lift(r, s).flows = r.flows /\ lift(r, s).blocked = bl
      /\ lift(r, s).unanswered = r.unanswered /\ lift(r, s).purgeIn = r.purgeIn
      /\ lift(r, s).published = Cardinality(DOMAIN bl) /\ IsRegistry(lift(r, s))
  BY <1>1 DEF IsRegistry
<1> QED
  BY Zenon, <1>2, <1>3 DEF Sound

\* The key of a flow is the flow.
LEMMA KeyIsFlow ==
  ASSUME NEW f \in Flows
  PROVE  flowKey(f[1], f[2]) = f
  BY DEF Flows, flowKey

\* The blocks after an Initial are a part of the ones before, but for the one
\* of its server, and then it was silent for the response timeout.
Explained(bl2, bl, f) ==
    \/ IsRestriction(bl2, bl)
    \/ /\ \A t \in DOMAIN bl2 : t # f[1] => t \in DOMAIN bl /\ bl2[t] = bl[t]
       /\ silentFor[f] >= responseTimeoutMs

\* An Initial to a server that is not blocked.
LEMMA LearnKeeps ==
  ASSUME NEW r, Sound(r, silentFor), NEW f \in Flows, NEW si,
         si = IF learn(r, f).decision = "PrimeAndPass"
              THEN [silentFor EXCEPT ![f] = 0] ELSE silentFor
  PROVE  Sound(learn(r, f).left, si) /\ Explained(learn(r, f).left.blocked, r.blocked, f)
<1> DEFINE fl == r.flows
           n == r.unanswered
           touchedFlows == [fl EXCEPT ![f].touched = 0]
           newFlows == put(fl, f, [started |-> 0, touched |-> 0, answered |-> FALSE])
           touched == [flows |-> touchedFlows, blocked |-> r.blocked, unanswered |-> n,
                       published |-> r.published, purgeIn |-> r.purgeIn]
           new == [flows |-> newFlows, blocked |-> r.blocked, unanswered |-> n + 1,
                   published |-> r.published, purgeIn |-> r.purgeIn]
           bl == put(r.blocked, f[1], fallbackMs)
           blocking == [flows |-> touchedFlows, blocked |-> bl, unanswered |-> n,
                        published |-> Cardinality(DOMAIN bl), purgeIn |-> r.purgeIn]
           decided == learn(r, f)
<1>1. /\ IsRegistry(r) /\ Registry(fl, r.blocked, n, silentFor)
      /\ r.published = Cardinality(DOMAIN r.blocked) /\ r.purgeIn \in Nat
      /\ IsRestriction(r.blocked, r.blocked)
  BY Zenon DEF Sound, IsRestriction
<1>2. /\ [r EXCEPT !.flows = touchedFlows] = touched
      /\ [r EXCEPT !.flows = newFlows, !.unanswered = n + 1] = new
  <2> HIDE DEF touchedFlows, newFlows, n
  <2>1. /\ [r EXCEPT !.flows = touchedFlows] =
             [flows |-> touchedFlows, blocked |-> r.blocked, unanswered |-> r.unanswered,
              published |-> r.published, purgeIn |-> r.purgeIn]
        /\ [r EXCEPT !.flows = newFlows] =
             [flows |-> newFlows, blocked |-> r.blocked, unanswered |-> r.unanswered,
              published |-> r.published, purgeIn |-> r.purgeIn]
    BY <1>1 DEF IsRegistry
  <2> DEFINE e == [r EXCEPT !.flows = newFlows]
  <2>2. [r EXCEPT !.flows = newFlows, !.unanswered = n + 1] = [e EXCEPT !.unanswered = n + 1]
    BY Zenon
  <2> HIDE DEF e
  <2>3. [e EXCEPT !.unanswered = n + 1] =
          [flows |-> newFlows, blocked |-> r.blocked, unanswered |-> n + 1,
           published |-> r.published, purgeIn |-> r.purgeIn]
    <3>1. e = [flows |-> newFlows, blocked |-> r.blocked, unanswered |-> r.unanswered,
               published |-> r.published, purgeIn |-> r.purgeIn]
      BY Zenon, <2>1 DEF e
    <3> QED
      BY <3>1
  <2> QED
    BY Zenon, <2>1, <2>2, <2>3 DEF n
<1>3. /\ IsRegistry(touched) /\ touched.flows = touchedFlows /\ touched.blocked = r.blocked
      /\ touched.unanswered = n /\ touched.published = r.published /\ touched.purgeIn = r.purgeIn
      /\ IsRegistry(new) /\ new.flows = newFlows /\ new.blocked = r.blocked
      /\ new.unanswered = n + 1 /\ new.published = r.published /\ new.purgeIn = r.purgeIn
      /\ IsRegistry(blocking) /\ blocking.flows = touchedFlows /\ blocking.blocked = bl
      /\ blocking.unanswered = n /\ blocking.published = Cardinality(DOMAIN bl)
      /\ blocking.purgeIn = r.purgeIn
  BY Zenon DEF IsRegistry
<1>4. block(touched, f[1]) = blocking
  <2> HIDE DEF touched, touchedFlows, n
  <2> QED
    BY Zenon, <1>3, Reblocked DEF block
<1>5. CASE f \notin DOMAIN fl
  <2>1. decided = [decision |-> "PrimeAndPass", left |-> new]
    BY Zenon, <1>2, <1>5 DEF learn
  <2> HIDE DEF new
  <2>2. decided.left = new /\ si = [silentFor EXCEPT ![f] = 0]
    BY <2>1
  <2>3. Registry(newFlows, r.blocked, n + 1, si)
    <3>1. Registry(newFlows, r.blocked, n + 1, [silentFor EXCEPT ![f] = 0])
      BY Zenon, <1>1, <1>5, NewFlowKeeps
    <3> QED
      BY Zenon, <2>2, <3>1
  <2>4. Sound(new, si)
    BY Zenon, <1>1, <1>3, <2>3 DEF Sound
  <2> QED
    BY Zenon, <1>1, <1>3, <2>2, <2>4 DEF Explained
<1>6. CASE f \in DOMAIN fl /\ (fl[f].answered \/ fl[f].started < responseTimeoutMs)
  <2>1. decided = [decision |-> "Pass", left |-> touched]
    BY Zenon, <1>2, <1>6 DEF learn
  <2> HIDE DEF touched
  <2>2. decided.left = touched /\ si = silentFor
    BY <2>1
  <2>3. Registry(touchedFlows, r.blocked, n, si)
    BY Zenon, <1>1, <1>6, <2>2, TouchKeeps
  <2>4. Sound(touched, si)
    BY Zenon, <1>1, <1>3, <2>3 DEF Sound
  <2> QED
    BY Zenon, <1>1, <1>3, <2>2, <2>4 DEF Explained
<1>7. CASE f \in DOMAIN fl /\ ~(fl[f].answered \/ fl[f].started < responseTimeoutMs)
  <2>1. decided = [decision |-> "Drop", left |-> blocking]
    BY Zenon, <1>2, <1>4, <1>7 DEF learn
  <2> HIDE DEF blocking
  <2>2. decided.left = blocking /\ si = silentFor
    BY <2>1
  <2>3. Registry(touchedFlows, r.blocked, n, si)
    BY Zenon, <1>1, <1>7, <2>2, TouchKeeps
  <2>4. f \in unanswered(touchedFlows) /\ touchedFlows[f].touched = 0
    <3>1. fl[f] \in QuicFlow
      BY Zenon, <1>1, <1>7 DEF Registry
    <3> HIDE DEF fl
    <3> QED
      BY <1>7, <3>1 DEF unanswered, QuicFlow
  <2>5. silentFor[f] >= responseTimeoutMs
    <3>1. f \in unanswered(fl) /\ fl[f].started \in Nat /\ silentFor[f] \in Int
      BY Zenon, <1>1, <1>7 DEF unanswered, Registry, QuicFlow
    <3>2. silentFor[f] >= fl[f].started
      BY Zenon, <1>1, <3>1 DEF Registry
    <3> HIDE DEF fl
    <3> QED
      BY <1>7, <3>1, <3>2, QuicConstants
  <2> HIDE DEF touchedFlows
  <2>6. Registry(touchedFlows, bl, n, si)
    BY Zenon, <2>3, <2>4, BlockKeeps
  <2>7. Sound(blocking, si)
    BY Zenon, <1>1, <1>3, <2>6 DEF Sound
  <2>8. \A t \in DOMAIN bl : t # f[1] => t \in DOMAIN r.blocked /\ bl[t] = r.blocked[t]
    BY Zenon DEF put
  <2> HIDE DEF bl
  <2> QED
    BY Zenon, <1>3, <2>2, <2>5, <2>7, <2>8 DEF Explained
<1> QED
  BY Zenon, <1>5, <1>6, <1>7

\* outbound() of a sound registry.
LEMMA OutboundKeeps ==
  ASSUME NEW r, Sound(r, silentFor), NEW f \in Flows, NEW initial \in BOOLEAN, NEW si,
         si = IF outbound(r, f, initial).decision = "PrimeAndPass"
              THEN [silentFor EXCEPT ![f] = 0] ELSE silentFor
  PROVE  /\ Sound(outbound(r, f, initial).left, si)
         /\ Explained(outbound(r, f, initial).left.blocked, r.blocked, f)
         /\ ~initial => IsRestriction(outbound(r, f, initial).left.blocked, r.blocked)
<1> DEFINE due == purgeIfDue(r)
           lifted == IF f[1] \in DOMAIN due.blocked THEN lift(due, f[1]) ELSE due
           asked == outbound(r, f, initial)
<1>1. Sound(due, silentFor) /\ IsRestriction(due.blocked, r.blocked)
  BY Zenon, PurgeKeeps
<1>2. Sound(lifted, silentFor) /\ IsRestriction(lifted.blocked, r.blocked)
  <2> HIDE DEF due
  <2>1. CASE f[1] \in DOMAIN due.blocked
    <3>1. lifted = lift(due, f[1])
      BY Zenon, <2>1
    <3>2. Sound(lifted, silentFor) /\ IsRestriction(lifted.blocked, due.blocked)
      BY Zenon, <1>1, <3>1, LiftKeeps
    <3> HIDE DEF lifted
    <3> QED
      BY Zenon, <1>1, <3>2, PartOfPart
  <2>2. CASE f[1] \notin DOMAIN due.blocked
    BY Zenon, <1>1, <2>2
  <2> QED
    BY Zenon, <2>1, <2>2
<1>3. CASE isBlocked(due, f[1])
  <2>1. asked = [decision |-> "Drop", left |-> due]
    BY Zenon, <1>3 DEF outbound
  <2> HIDE DEF due, asked
  <2>2. asked.left = due /\ asked.decision = "Drop"
    BY Zenon, <2>1
  <2>3. si = silentFor
    BY Zenon, <2>2 DEF asked
  <2> QED
    BY Zenon, <1>1, <2>2, <2>3 DEF Explained, asked
<1>4. CASE ~isBlocked(due, f[1]) /\ ~initial
  <2>1. asked = [decision |-> "Pass", left |-> lifted]
    BY Zenon, <1>4 DEF outbound
  <2> HIDE DEF due, lifted, asked
  <2>2. asked.left = lifted /\ asked.decision = "Pass"
    BY Zenon, <2>1
  <2>3. si = silentFor
    BY Zenon, <2>2 DEF asked
  <2> QED
    BY Zenon, <1>2, <2>2, <2>3 DEF Explained, asked
<1>5. CASE ~isBlocked(due, f[1]) /\ initial
  <2>1. asked = learn(lifted, f)
    BY Zenon, <1>5, KeyIsFlow DEF outbound
  <2> HIDE DEF due, lifted, asked
  <2>2. si = IF learn(lifted, f).decision = "PrimeAndPass"
             THEN [silentFor EXCEPT ![f] = 0] ELSE silentFor
    BY Zenon, <2>1 DEF asked
  <2>3. Sound(asked.left, si) /\ Explained(asked.left.blocked, lifted.blocked, f)
    BY Zenon, <1>2, <2>1, <2>2, LearnKeeps
  <2> QED
    BY Zenon, <1>2, <1>5, <2>3 DEF Explained, IsRestriction, asked
<1> QED
  BY Zenon, <1>3, <1>4, <1>5

\* A datagram to a server, also when the counter says that the registry need
\* not be asked.
LEMMA SendKeeps ==
  ASSUME QuicInv, NEW f \in Flows, NEW initial \in BOOLEAN, SendQuic(f, initial)
  PROVE  /\ QuicInv' /\ Explained(blocked', blocked, f)
         /\ ~initial => IsRestriction(blocked', blocked)
<1> DEFINE asked == outbound(registry, f, initial)
<1>1. CASE ~needsOutbound(initial)
  <2>1. UNCHANGED quicVars
    BY Zenon, <1>1 DEF SendQuic
  <2>2. registry' = registry /\ silentFor' = silentFor /\ blocked' = blocked
    BY Zenon, <2>1 DEF quicVars, registryVars, registry
  <2> QED
    BY Zenon, <2>2 DEF QuicInv, Explained, IsRestriction
<1>2. CASE needsOutbound(initial)
  <2>1. /\ Leave(asked.left)
        /\ silentFor' = IF asked.decision = "PrimeAndPass"
                        THEN [silentFor EXCEPT ![f] = 0] ELSE silentFor
    BY Zenon, <1>2 DEF SendQuic
  <2>2. registry.blocked = blocked
    BY Zenon DEF registry
  <2>3. /\ Sound(asked.left, silentFor') /\ Explained(asked.left.blocked, blocked, f)
        /\ ~initial => IsRestriction(asked.left.blocked, blocked)
    BY Zenon, <2>1, <2>2, OutboundKeeps DEF QuicInv
  <2> HIDE DEF asked
  <2> QED
    BY Zenon, <2>1, <2>3, LeaveKeeps
<1> QED
  BY Zenon, <1>1, <1>2

\* What inbound() leaves of a flow that the registry knows.
LEMMA HeardIs ==
  ASSUME NEW r, NEW si, Sound(r, si), NEW k \in DOMAIN r.flows, NEW s
  PROVE  lift([r EXCEPT !.flows = [@ EXCEPT ![k].answered = TRUE, ![k].touched = 0],
                        !.unanswered = IF r.flows[k].answered THEN @ ELSE @ - 1], s) =
           [flows |-> [r.flows EXCEPT ![k].answered = TRUE, ![k].touched = 0],
            blocked |-> drop(r.blocked, s),
            unanswered |-> IF r.flows[k].answered THEN r.unanswered ELSE r.unanswered - 1,
            published |-> Cardinality(DOMAIN drop(r.blocked, s)), purgeIn |-> r.purgeIn]
<1> DEFINE fl == [r.flows EXCEPT ![k].answered = TRUE, ![k].touched = 0]
           n == IF r.flows[k].answered THEN r.unanswered ELSE r.unanswered - 1
           a == [r EXCEPT !.flows = fl]
           e == [flows |-> fl, blocked |-> r.blocked, unanswered |-> n,
                 published |-> r.published, purgeIn |-> r.purgeIn]
           heard == [r EXCEPT !.flows = fl, !.unanswered = n]
<1>1. IsRegistry(r)
  BY Zenon DEF Sound
<1>2. heard = [a EXCEPT !.unanswered = n]
  BY Zenon
<1>3. [r EXCEPT !.flows = [@ EXCEPT ![k].answered = TRUE, ![k].touched = 0],
                !.unanswered = IF r.flows[k].answered THEN @ ELSE @ - 1] = heard
  BY Zenon
<1> HIDE DEF fl, n
<1>4. a = [flows |-> fl, blocked |-> r.blocked, unanswered |-> r.unanswered,
           published |-> r.published, purgeIn |-> r.purgeIn]
  BY <1>1 DEF IsRegistry
<1> HIDE DEF a, heard
<1>5. heard = e
  BY <1>2, <1>4
<1>6. IsRegistry(e) /\ e.flows = fl /\ e.blocked = r.blocked /\ e.unanswered = n
                    /\ e.purgeIn = r.purgeIn
  BY Zenon DEF IsRegistry
<1> HIDE DEF e
<1>7. lift(e, s) = [flows |-> fl, blocked |-> drop(r.blocked, s), unanswered |-> n,
                    published |-> Cardinality(DOMAIN drop(r.blocked, s)), purgeIn |-> r.purgeIn]
  BY Zenon, <1>6, Reblocked DEF lift
<1> QED
  BY Zenon, <1>3, <1>5, <1>7 DEF fl, n

\* inbound() of a sound registry: the flow it is for, if the registry knows it,
\* is answered.
LEMMA InboundKeeps ==
  ASSUME NEW r, NEW si, Sound(r, si), NEW f \in Flows
  PROVE  /\ Sound(inbound(r, f), [si EXCEPT ![f] = Answered])
         /\ IsRestriction(inbound(r, f).blocked, purgeIfDue(r).blocked)
         /\ inbound(r, f).purgeIn > 0
         /\ DOMAIN inbound(r, f).flows = DOMAIN purgeIfDue(r).flows
         /\ \A k \in DOMAIN purgeIfDue(r).flows :
               purgeIfDue(r).flows[k].answered => inbound(r, f).flows[k].answered
<1> DEFINE due == purgeIfDue(r)
           left == inbound(r, f)
           si2 == [si EXCEPT ![f] = Answered]
<1>1. Sound(due, si) /\ due.purgeIn > 0
  BY Zenon, PurgeKeeps
<1>2. flowKey(f[1], f[2]) = f
  BY Zenon, KeyIsFlow
<1>3. CASE f \notin DOMAIN due.flows
  <2>1. left = due
    BY Zenon, <1>2, <1>3 DEF inbound
  <2> HIDE DEF due, left
  <2>2. f \notin unanswered(due.flows)
    BY Zenon, <1>3 DEF unanswered
  <2>3. Registry(due.flows, due.blocked, due.unanswered, si2)
    BY Zenon, <1>1, <2>2, StrangerKeeps DEF Sound
  <2>4. Sound(due, si2)
    BY Zenon, <1>1, <2>3 DEF Sound
  <2> QED
    BY Zenon, <1>1, <2>1, <2>4 DEF IsRestriction, due, left
<1>4. CASE f \in DOMAIN due.flows
  <2> DEFINE fl == [due.flows EXCEPT ![f].answered = TRUE, ![f].touched = 0]
             bl == drop(due.blocked, f[1])
             n == IF due.flows[f].answered THEN due.unanswered ELSE due.unanswered - 1
             e == [flows |-> fl, blocked |-> bl, unanswered |-> n,
                   published |-> Cardinality(DOMAIN bl), purgeIn |-> due.purgeIn]
  <2>1. left = lift([due EXCEPT
                       !.flows = [@ EXCEPT ![f].answered = TRUE, ![f].touched = 0],
                       !.unanswered = IF due.flows[f].answered THEN @ ELSE @ - 1], f[1])
    BY Zenon, <1>2, <1>4 DEF inbound
  <2> HIDE DEF due, left
  <2>2. left = e
    BY Zenon, <1>1, <1>4, <2>1, HeardIs
  <2>3. Registry(due.flows, due.blocked, due.unanswered, si)
    BY Zenon, <1>1 DEF Sound
  <2>4. Registry(fl, bl, n, si2) /\ IsRestriction(bl, due.blocked)
    BY Zenon, <1>4, <2>3, AnswerKeeps, DropKeeps
  <2>5. /\ DOMAIN fl = DOMAIN due.flows
        /\ \A k \in DOMAIN due.flows : due.flows[k].answered => fl[k].answered
    <3>1. due.flows[f] \in QuicFlow
      BY Zenon, <1>4, <2>3 DEF Registry
    <3>2. fl[f].answered = TRUE
      <4> DEFINE a == [due.flows[f] EXCEPT !.answered = TRUE]
      <4>1. a \in QuicFlow /\ a.answered = TRUE
        BY Zenon, <3>1 DEF QuicFlow
      <4>2. fl[f] = [a EXCEPT !.touched = 0]
        BY Zenon, <1>4, <3>1 DEF QuicFlow
      <4> HIDE DEF a, fl
      <4> QED
        BY <4>1, <4>2 DEF QuicFlow
    <3>3. \A k \in DOMAIN due.flows : k # f => fl[k] = due.flows[k]
      BY Zenon
    <3>4. DOMAIN fl = DOMAIN due.flows
      BY Zenon
    <3> HIDE DEF fl
    <3> QED
      BY Zenon, <3>2, <3>3, <3>4
  <2> HIDE DEF fl, bl, n
  <2>6. /\ left.flows = fl /\ left.blocked = bl /\ left.unanswered = n
        /\ left.published = Cardinality(DOMAIN bl) /\ left.purgeIn = due.purgeIn
        /\ IsRegistry(left)
    BY <2>2 DEF IsRegistry
  <2>7. Sound(left, si2)
    BY Zenon, <1>1, <2>4, <2>6 DEF Sound
  <2> QED
    BY Zenon, <1>1, <2>4, <2>5, <2>6, <2>7 DEF due, left
<1> QED
  BY Zenon, <1>3, <1>4

\* The invariant, field by field.
LEMMA FieldByField ==
  QuicInv <=> /\ Registry(quicFlows, blocked, unansweredFlows, silentFor)
              /\ blockedServers = Cardinality(DOMAIN blocked) /\ quicPurgeIn \in Nat
<1>1. /\ registry.flows = quicFlows /\ registry.blocked = blocked
      /\ registry.unanswered = unansweredFlows /\ registry.published = blockedServers
      /\ registry.purgeIn = quicPurgeIn /\ IsRegistry(registry)
  BY DEF registry, IsRegistry
<1> QED
  BY Zenon, <1>1 DEF QuicInv, Sound

\* The same of the next state.
LEMMA FieldByFieldAfter ==
  QuicInv' <=> /\ Registry(quicFlows', blocked', unansweredFlows', silentFor')
               /\ blockedServers' = Cardinality(DOMAIN blocked') /\ quicPurgeIn' \in Nat
<1>1. /\ registry'.flows = quicFlows' /\ registry'.blocked = blocked'
      /\ registry'.unanswered = unansweredFlows' /\ registry'.published = blockedServers'
      /\ registry'.purgeIn = quicPurgeIn' /\ IsRegistry(registry')
  BY DEF registry, IsRegistry
<1>2. QuicInv' <=> Sound(registry', silentFor')
  BY Zenon DEF QuicInv
<1> QED
  BY Zenon, <1>1, <1>2 DEF Sound

\* Where no flow waits for an answer, no block is in force.
LEMMA NothingToHear ==
  ASSUME NEW r, NEW si, Sound(r, si), r.unanswered = 0
  PROVE  unanswered(r.flows) = {} /\ \A s : ~isBlocked(r, s)
<1>1. unanswered(r.flows) = {}
  BY Zenon, UnansweredIsFinite DEF Sound, Registry
<1> QED
  BY Zenon, <1>1 DEF Sound, Registry, isBlocked

\* A datagram from a server: skipping it while nothing is unanswered keeps the
\* registry sound.
LEMMA ReceiveQuicKeeps ==
  ASSUME QuicInv, NEW f \in Flows, ReceiveQuic(f)
  PROVE  QuicInv' /\ IsRestriction(blocked', blocked)
<1>1. silentFor' = [silentFor EXCEPT ![f] = Answered]
  BY Zenon DEF ReceiveQuic
<1>2. registry.blocked = blocked /\ registry.unanswered = unansweredFlows
  BY DEF registry
<1>3. CASE ~needsInbound
  <2>1. registry' = registry /\ blocked' = blocked
    BY Zenon, <1>3 DEF ReceiveQuic, registryVars, registry
  <2>2. f \notin unanswered(registry.flows)
    BY Zenon, <1>2, <1>3, NothingToHear DEF needsInbound, QuicInv
  <2>3. Registry(registry.flows, registry.blocked, registry.unanswered, silentFor')
    BY Zenon, <1>1, <2>2, StrangerKeeps DEF QuicInv, Sound
  <2>4. Sound(registry, silentFor')
    BY Zenon, <2>3 DEF QuicInv, Sound
  <2> QED
    BY Zenon, <2>1, <2>4 DEF QuicInv, IsRestriction
<1>4. CASE needsInbound
  <2> DEFINE left == inbound(registry, f)
  <2>1. Leave(left)
    BY Zenon, <1>4 DEF ReceiveQuic
  <2>2. /\ Sound(left, silentFor') /\ IsRestriction(left.blocked, purgeIfDue(registry).blocked)
    BY Zenon, <1>1, InboundKeeps DEF QuicInv
  <2>3. IsRestriction(purgeIfDue(registry).blocked, blocked)
    BY Zenon, <1>2, PurgeKeeps DEF QuicInv
  <2> HIDE DEF left
  <2>4. QuicInv' /\ blocked' = left.blocked
    BY Zenon, <2>1, <2>2, LeaveKeeps
  <2>5. IsRestriction(left.blocked, blocked)
    BY Zenon, <2>2, <2>3, PartOfPart
  <2> QED
    BY Zenon, <2>4, <2>5
<1> QED
  BY Zenon, <1>3, <1>4

\* A tick: a block runs out as fast as its flow ages.
LEMMA QuicTickKeeps ==
  ASSUME QuicInv, quicTick
  PROVE  /\ QuicInv'
         /\ \A s \in DOMAIN blocked' : blocked'[s] # fallbackMs
<1>0. /\ Registry(quicFlows, blocked, unansweredFlows, silentFor)
      /\ blockedServers = Cardinality(DOMAIN blocked) /\ quicPurgeIn \in Nat
  BY Zenon, FieldByField
<1> DEFINE R == responseTimeoutMs
           F == fallbackMs
<1>1. R \in Nat \ {0} /\ F \in Nat \ {0}
  BY Zenon, QuicConstants
<1>2. ASSUME NEW a \in Int
      PROVE  /\ older(a, R) = IF R <= a + 1 THEN R ELSE a + 1
             /\ older(a, F + 1) = IF F + 1 <= a + 1 THEN F + 1 ELSE a + 1
             /\ sooner(a) = IF 0 >= a - 1 THEN 0 ELSE a - 1
  <2>1. Min({R, a + 1}) = IF R <= a + 1 THEN R ELSE a + 1
    BY <1>1, MinOfTwo
  <2>2. Min({F + 1, a + 1}) = IF F + 1 <= a + 1 THEN F + 1 ELSE a + 1
    BY <1>1, MinOfTwo
  <2>3. Max({0, a - 1}) = IF 0 >= a - 1 THEN 0 ELSE a - 1
    BY MaxOfTwo
  <2> QED
    BY Zenon, <2>1, <2>2, <2>3 DEF older, sooner
<1>3. /\ DOMAIN quicFlows' = DOMAIN quicFlows
      /\ DOMAIN blocked' = DOMAIN blocked
      /\ \A f \in DOMAIN quicFlows : quicFlows'[f] =
            [quicFlows[f] EXCEPT !.started = older(quicFlows[f].started, R),
                                 !.touched = older(quicFlows[f].touched, F + 1)]
  BY Zenon DEF quicTick
<1> DEFINE si == [f \in Flows |-> IF silentFor[f] = Answered THEN Answered
                                  ELSE older(silentFor[f], R)]
<1>3a. /\ blocked' = [s \in DOMAIN blocked |-> sooner(blocked[s])]
       /\ DOMAIN quicFlows' = DOMAIN quicFlows /\ DOMAIN blocked' = DOMAIN blocked
       /\ silentFor' = si
       /\ unansweredFlows' = unansweredFlows /\ blockedServers' = blockedServers
  BY Zenon DEF quicTick
<1> HIDE DEF R, F
<1>4. ASSUME NEW f \in DOMAIN quicFlows
      PROVE  /\ quicFlows'[f] \in QuicFlow /\ quicFlows'[f].answered = quicFlows[f].answered
             /\ quicFlows'[f].started = older(quicFlows[f].started, R)
             /\ quicFlows'[f].touched <= quicFlows[f].touched + 1
  <2> DEFINE c == quicFlows[f]
             st == older(c.started, R)
             to == older(c.touched, F + 1)
             e == [c EXCEPT !.started = st]
  <2>1. c \in QuicFlow
    BY Zenon, <1>0 DEF Registry
  <2>2. c.started \in Nat /\ c.touched \in Nat
    BY Zenon, <2>1 DEF QuicFlow
  <2> HIDE DEF c
  <2>3. st \in Nat /\ to \in Nat /\ to <= c.touched + 1
    BY <1>1, <1>2, <2>2
  <2>4. quicFlows'[f] = [c EXCEPT !.started = st, !.touched = to]
    BY Zenon, <1>3 DEF c
  <2> HIDE DEF st, to
  <2>5. e = [started |-> st, touched |-> c.touched, answered |-> c.answered]
    BY <2>1 DEF QuicFlow
  <2>6. [c EXCEPT !.started = st, !.touched = to] = [e EXCEPT !.touched = to]
    BY Zenon
  <2> HIDE DEF e
  <2>7. quicFlows'[f] = [started |-> st, touched |-> to, answered |-> c.answered]
    BY Zenon, <2>4, <2>5, <2>6
  <2>8. c.answered \in BOOLEAN
    BY Zenon, <2>1 DEF QuicFlow
  <2> QED
    BY <2>3, <2>7, <2>8 DEF QuicFlow, c, st
<1>5. unanswered(quicFlows') = unanswered(quicFlows) /\ unanswered(quicFlows) \subseteq DOMAIN quicFlows
  BY Zenon, <1>3a, <1>4 DEF unanswered
<1>6. ASSUME NEW s \in DOMAIN blocked
      PROVE  /\ blocked[s] \in 0..F
             /\ blocked'[s] \in 0..F /\ blocked'[s] < F
             /\ blocked'[s] > 0 => blocked'[s] = blocked[s] - 1
  <2>1. blocked[s] \in 0..F
    BY Zenon, <1>0 DEF Registry, F
  <2>2. blocked'[s] = IF 0 >= blocked[s] - 1 THEN 0 ELSE blocked[s] - 1
    BY <1>2, <1>3a, <2>1
  <2> QED
    BY <1>1, <2>1, <2>2
<1>7. blocked' \in [DOMAIN blocked' -> 0..F]
  BY Zenon, <1>3a, <1>6
<1>8. ASSUME NEW s \in DOMAIN blocked, blocked'[s] > 0
      PROVE  \E f \in unanswered(quicFlows') : f[1] = s /\ quicFlows'[f].touched + blocked'[s] <= F
  <2>1. blocked[s] > 0 /\ blocked'[s] = blocked[s] - 1 /\ blocked[s] \in Nat
    BY <1>1, <1>6, <1>8
  <2>2. PICK f \in unanswered(quicFlows) : f[1] = s /\ quicFlows[f].touched + blocked[s] <= F
    BY Zenon, <2>1, <1>0 DEF Registry, F
  <2>3. quicFlows[f].touched \in Nat /\ quicFlows'[f].touched \in Nat
    BY Zenon, <1>4, <1>5, <1>0 DEF Registry, QuicFlow
  <2>4. quicFlows'[f].touched <= quicFlows[f].touched + 1
    BY Zenon, <1>4, <1>5
  <2> QED
    BY SMTT(30), <1>1, <1>5, <2>1, <2>2, <2>3, <2>4
<1>9. silentFor' \in [Flows -> Int]
  <2>1. \A f \in Flows : silentFor[f] \in Int
    BY Zenon, <1>0 DEF Registry
  <2>2. \A f \in Flows : older(silentFor[f], R) \in Int
    BY SMTT(30), <1>1, <1>2, <2>1
  <2> QED
    BY <1>3a, <2>2 DEF Answered
<1>10. ASSUME NEW f \in unanswered(quicFlows) PROVE silentFor'[f] >= quicFlows'[f].started
  <2>1. /\ quicFlows[f].started \in Nat /\ silentFor[f] \in Int /\ f \in Flows
        /\ silentFor[f] >= quicFlows[f].started
    BY Zenon, <1>5, <1>0 DEF Registry, QuicFlow
  <2>2. silentFor'[f] = older(silentFor[f], R)
    BY SMTT(30), <1>3a, <2>1 DEF Answered
  <2>3. quicFlows'[f].started = older(quicFlows[f].started, R)
    BY SMTT(30), <1>4, <1>5
  <2> QED
    BY SMTT(30), <1>1, <1>2, <2>1, <2>2, <2>3
<1>11. Registry(quicFlows', blocked', unansweredFlows', silentFor')
  <2>1. /\ DOMAIN quicFlows \subseteq Flows /\ IsFiniteSet(DOMAIN quicFlows)
        /\ IsFiniteSet(DOMAIN blocked) /\ unansweredFlows = Cardinality(unanswered(quicFlows))
    BY Zenon, <1>0 DEF Registry
  <2>2. \A f \in DOMAIN quicFlows' : quicFlows'[f] \in QuicFlow
    BY Zenon, <1>3a, <1>4
  <2>3. \A s \in DOMAIN blocked' : blocked'[s] > 0 =>
          \E f \in unanswered(quicFlows') : f[1] = s /\ quicFlows'[f].touched + blocked'[s] <= F
    BY Zenon, <1>3a, <1>8
  <2>4. \A f \in unanswered(quicFlows') : silentFor'[f] >= quicFlows'[f].started
    BY Zenon, <1>5, <1>10
  <2> QED
    BY Zenon, <1>3a, <1>5, <1>7, <1>9, <2>1, <2>2, <2>3, <2>4 DEF Registry, F
<1> QED
  <2>1. quicPurgeIn' \in Nat
    <3>1. quicPurgeIn' = sooner(quicPurgeIn)
      BY Zenon DEF quicTick
    <3> QED
      BY <1>0, <1>2, <3>1
  <2>2. blockedServers' = Cardinality(DOMAIN blocked')
    BY Zenon, <1>0, <1>3a
  <2>3. QuicInv'
    BY Zenon, <1>11, <2>1, <2>2, FieldByFieldAfter
  <2>4. \A s \in DOMAIN blocked' : blocked'[s] # F
    BY <1>1, <1>6, <1>3a
  <2> QED
    BY Zenon, <2>3, <2>4 DEF F

\* The empty registry, before the first packet and after stop().
LEMMA QuicEmpty ==
  ASSUME NEW si, si = [f \in Flows |-> Answered]
  PROVE  Registry(<<>>, <<>>, 0, si) /\ Cardinality(DOMAIN <<>>) = 0
<1>1. DOMAIN <<>> = {} /\ <<>> \in [{} -> 0..fallbackMs]
  OBVIOUS
<1>2. unanswered(<<>>) = {}
  BY Zenon, <1>1 DEF unanswered
<1> QED
  BY <1>1, <1>2, FS_EmptySet DEF Registry, Answered

\* Every step of the packet loop and of time keeps the registry sound, and a
\* block that comes into force is explained.
LEMMA QuicStep ==
  ASSUME QuicInv, [QuicNext]_quicVars
  PROVE  /\ QuicInv'
         /\ \A s \in Servers : Blocks(s) =>
              /\ \E f \in Flows : f[1] = s /\ SendQuic(f, TRUE)
              /\ \A f \in Flows : f[1] = s /\ SendQuic(f, TRUE)
                    => silentFor[f] >= responseTimeoutMs
<1>1. ASSUME NEW f \in Flows, NEW initial \in BOOLEAN, SendQuic(f, initial)
      PROVE  /\ QuicInv' /\ Explained(blocked', blocked, f)
             /\ ~initial => IsRestriction(blocked', blocked)
  BY Zenon, <1>1, SendKeeps
<1>2. ASSUME NEW f \in Flows, ReceiveQuic(f) PROVE QuicInv' /\ IsRestriction(blocked', blocked)
  BY Zenon, <1>2, ReceiveQuicKeeps
<1>3. ASSUME NEW s, Blocks(s) PROVE ~IsRestriction(blocked', blocked)
  BY Zenon, <1>3 DEF Blocks, IsRestriction
<1>4. ASSUME NEW s \in Servers, Blocks(s), NEW f \in Flows, f[1] = s, SendQuic(f, TRUE)
      PROVE  silentFor[f] >= responseTimeoutMs
  BY Zenon, <1>1, <1>3, <1>4 DEF Explained
<1>5. CASE \E f \in Flows, initial \in BOOLEAN : SendQuic(f, initial)
  <2>1. PICK f \in Flows, initial \in BOOLEAN : SendQuic(f, initial)
    BY Zenon, <1>5
  <2>2. ASSUME NEW s \in Servers, Blocks(s) PROVE f[1] = s /\ SendQuic(f, TRUE)
    <3>1. Explained(blocked', blocked, f) /\ ~IsRestriction(blocked', blocked) /\ initial
      BY Zenon, <1>1, <1>3, <2>1, <2>2
    <3>2. f[1] = s
      BY Zenon, <2>2, <3>1 DEF Explained, Blocks
    <3>3. initial = TRUE
      BY Zenon, <3>1
    <3> QED
      BY Zenon, <2>1, <3>2, <3>3
  <2> QED
    BY Zenon, <1>1, <1>4, <2>1, <2>2
<1>6. CASE \E f \in Flows : ReceiveQuic(f)
  BY Zenon, <1>2, <1>3, <1>6
<1>7. CASE quicClear
  <2>1. /\ quicFlows' = <<>> /\ blocked' = <<>> /\ unansweredFlows' = 0 /\ blockedServers' = 0
        /\ quicPurgeIn' = 0 /\ silentFor' = [f \in Flows |-> Answered]
    BY Zenon, <1>7 DEF quicClear
  <2>2. Registry(<<>>, <<>>, 0, silentFor') /\ Cardinality(DOMAIN <<>>) = 0
    BY Zenon, <2>1, QuicEmpty
  <2>3. DOMAIN blocked' = {} /\ 0 \in Nat
    BY <2>1
  <2>4. QuicInv'
    BY Zenon, <2>1, <2>2, <2>3, FieldByFieldAfter
  <2> QED
    BY Zenon, <2>3, <2>4 DEF Blocks
<1>8. CASE quicTick
  BY Zenon, <1>8, QuicTickKeeps DEF Blocks
<1>9. CASE UNCHANGED quicVars
  <2>1. registry' = registry /\ silentFor' = silentFor /\ blocked' = blocked
    BY Zenon, <1>9 DEF quicVars, registryVars, registry
  <2> QED
    BY Zenon, <2>1 DEF QuicInv, Blocks
<1> QED
  BY Zenon, <1>5, <1>6, <1>7, <1>8, <1>9 DEF QuicNext

\* The invariant of AdaptiveRegistry.
LEMMA QuicInvariant == QuicSpec => []QuicInv
<1>1. QuicInit => QuicInv
  <2> SUFFICES ASSUME QuicInit PROVE QuicInv
    OBVIOUS
  <2>1. Registry(<<>>, <<>>, 0, silentFor) /\ Cardinality(DOMAIN <<>>) = 0
    BY Zenon, QuicEmpty DEF QuicInit
  <2>2. 0 \in Nat
    OBVIOUS
  <2> QED
    BY Zenon, <2>1, <2>2, FieldByField DEF QuicInit
<1>2. QuicInv /\ [QuicNext]_quicVars => QuicInv'
  BY Zenon, QuicStep
<1> QED
  BY <1>1, <1>2, PTL DEF QuicSpec

\* The verdict of outbound() on a flow, from the registry its purge leaves.
Judged(due, g, initial) ==
    IF isBlocked(due, g[1]) THEN "Drop"
    ELSE IF ~initial THEN "Pass"
    ELSE IF g \notin DOMAIN due.flows THEN "PrimeAndPass"
    ELSE IF due.flows[g].answered \/ due.flows[g].started < responseTimeoutMs THEN "Pass"
    ELSE "Drop"

\* outbound() gives that verdict.
LEMMA VerdictIs ==
  ASSUME NEW r, NEW si, Sound(r, si), NEW g \in Flows, NEW initial \in BOOLEAN
  PROVE  outbound(r, g, initial).decision = Judged(purgeIfDue(r), g, initial)
<1> DEFINE due == purgeIfDue(r)
           lifted == IF g[1] \in DOMAIN due.blocked THEN lift(due, g[1]) ELSE due
<1>1. lifted.flows = due.flows
  <2>1. Sound(due, si)
    BY Zenon, PurgeKeeps
  <2> HIDE DEF due
  <2> QED
    BY Zenon, <2>1, LiftKeeps
<1>2. CASE isBlocked(due, g[1])
  <2>1. outbound(r, g, initial) = [decision |-> "Drop", left |-> due]
    BY Zenon, <1>2 DEF outbound
  <2>2. Judged(due, g, initial) = "Drop"
    BY Zenon, <1>2 DEF Judged
  <2> HIDE DEF due
  <2> QED
    BY <2>1, <2>2 DEF due
<1>3. CASE ~isBlocked(due, g[1]) /\ ~initial
  <2>1. outbound(r, g, initial) = [decision |-> "Pass", left |-> lifted]
    BY Zenon, <1>3 DEF outbound
  <2>2. Judged(due, g, initial) = "Pass"
    BY Zenon, <1>3 DEF Judged
  <2> HIDE DEF due, lifted
  <2> QED
    BY <2>1, <2>2 DEF due
<1>4. CASE ~isBlocked(due, g[1]) /\ initial
  <2>1. outbound(r, g, initial) = learn(lifted, g)
    BY Zenon, <1>4, KeyIsFlow DEF outbound
  <2> HIDE DEF due, lifted
  <2>2. learn(lifted, g).decision =
          IF g \notin DOMAIN due.flows THEN "PrimeAndPass"
          ELSE IF due.flows[g].answered \/ due.flows[g].started < responseTimeoutMs
          THEN "Pass" ELSE "Drop"
    BY Zenon, <1>1 DEF learn
  <2> QED
    BY Zenon, <1>4, <2>1, <2>2 DEF Judged, due
<1> QED
  BY Zenon, <1>2, <1>3, <1>4

\* A purge that is not due does nothing.
LEMMA NotDue ==
  ASSUME NEW r, r.purgeIn > 0
  PROVE  purgeIfDue(r) = r
  BY Zenon DEF purgeIfDue

\* While no flow waits for an answer, an answer changes no verdict.
LEMMA SkippedInbound ==
  ASSUME NEW r, NEW si, Sound(r, si), r.unanswered = 0, NEW f \in Flows,
         NEW g \in Flows, NEW initial \in BOOLEAN
  PROVE  outbound(inbound(r, f), g, initial).decision = outbound(r, g, initial).decision
<1> DEFINE due == purgeIfDue(r)
           left == inbound(r, f)
<1>1. /\ Sound(due, si) /\ IsRestriction(due.blocked, r.blocked)
      /\ IsRestriction(due.flows, r.flows)
  BY Zenon, PurgeKeeps
<1>2. /\ Sound(left, [si EXCEPT ![f] = Answered]) /\ IsRestriction(left.blocked, due.blocked)
      /\ left.purgeIn > 0 /\ DOMAIN left.flows = DOMAIN due.flows
      /\ \A k \in DOMAIN due.flows : due.flows[k].answered => left.flows[k].answered
  BY Zenon, InboundKeeps
<1>3. unanswered(r.flows) = {} /\ \A s : ~isBlocked(r, s)
  BY Zenon, NothingToHear
<1>4. /\ outbound(r, g, initial).decision = Judged(due, g, initial)
      /\ outbound(left, g, initial).decision = Judged(left, g, initial)
  <2>1. outbound(r, g, initial).decision = Judged(due, g, initial)
    BY Zenon, VerdictIs
  <2> HIDE DEF left
  <2>2. outbound(left, g, initial).decision = Judged(purgeIfDue(left), g, initial)
    BY Zenon, <1>2, VerdictIs
  <2> QED
    BY Zenon, <1>2, <2>1, <2>2, NotDue
<1> HIDE DEF due, left
<1>5. ~isBlocked(due, g[1]) /\ ~isBlocked(left, g[1])
  BY Zenon, <1>1, <1>2, <1>3 DEF isBlocked, IsRestriction
<1>6. g \in DOMAIN due.flows => due.flows[g].answered /\ left.flows[g].answered
  BY Zenon, <1>1, <1>2, <1>3 DEF unanswered, IsRestriction
<1>7. Judged(left, g, initial) = Judged(due, g, initial)
  BY Zenon, <1>2, <1>5, <1>6 DEF Judged
<1> QED
  BY Zenon, <1>4, <1>7 DEF left

\* While no block is published, a datagram that is no Initial passes and changes
\* no verdict.
LEMMA SkippedOutbound ==
  ASSUME NEW r, NEW si, Sound(r, si), r.published = 0, NEW f \in Flows,
         NEW g \in Flows, NEW initial \in BOOLEAN
  PROVE  /\ outbound(r, f, FALSE).decision = "Pass"
         /\ outbound(outbound(r, f, FALSE).left, g, initial).decision
               = outbound(r, g, initial).decision
<1> DEFINE due == purgeIfDue(r)
           asked == outbound(r, f, FALSE)
<1>1. Sound(due, si) /\ IsRestriction(due.blocked, r.blocked) /\ due.purgeIn > 0
  BY Zenon, PurgeKeeps
<1>2. DOMAIN r.blocked = {}
  BY Zenon, FS_EmptySet DEF Sound, Registry
<1>3. f[1] \notin DOMAIN due.blocked /\ ~isBlocked(due, f[1])
  BY Zenon, <1>1, <1>2 DEF isBlocked, IsRestriction
<1>4. asked = [decision |-> "Pass", left |-> due]
  BY Zenon, <1>3 DEF outbound
<1> HIDE DEF due, asked
<1>5. asked.decision = "Pass" /\ asked.left = due
  BY <1>4
<1>6. outbound(r, g, initial).decision = Judged(due, g, initial)
  BY Zenon, VerdictIs DEF due
<1>7. outbound(due, g, initial).decision = Judged(due, g, initial)
  BY Zenon, <1>1, VerdictIs, NotDue
<1> QED
  BY Zenon, <1>5, <1>6, <1>7 DEF asked

\* Where a counter lets the packet loop skip a call of the QUIC registry, the
\* verdict on every datagram of that moment is the one it would be after the
\* call, for any number of servers and flows and every timeout.
THEOREM QuicCountersTheorem == QuicSpec => []SkippedCallsChangeNoVerdict
<1>1. QuicInv => SkippedCallsChangeNoVerdict
  <2> SUFFICES ASSUME QuicInv PROVE SkippedCallsChangeNoVerdict
    BY Zenon
  <2>1. Sound(registry, silentFor)
    BY Zenon DEF QuicInv
  <2>2. registry.unanswered = unansweredFlows /\ registry.published = blockedServers
    BY DEF registry
  <2>3. ASSUME ~needsInbound, NEW f \in Flows, NEW g \in Flows, NEW initial \in BOOLEAN
        PROVE  outbound(inbound(registry, f), g, initial).decision
                 = outbound(registry, g, initial).decision
    BY Zenon, <2>1, <2>2, <2>3, SkippedInbound DEF needsInbound
  <2>4. ASSUME ~needsOutbound(FALSE), NEW f \in Flows, NEW g \in Flows,
               NEW initial \in BOOLEAN
        PROVE  /\ outbound(registry, f, FALSE).decision = "Pass"
               /\ outbound(outbound(registry, f, FALSE).left, g, initial).decision
                    = outbound(registry, g, initial).decision
    BY Zenon, <2>1, <2>2, <2>4, SkippedOutbound DEF needsOutbound
  <2> QED
    BY Zenon, <2>3, <2>4 DEF SkippedCallsChangeNoVerdict
<1> QED
  BY <1>1, QuicInvariant, PTL

\* A server is blocked only by an Initial of a flow whose own earlier Initial
\* went unanswered for the response timeout.
THEOREM QuicBlocksTheorem == QuicSpec => BlocksAreExplained
<1>1. QuicInv /\ [QuicNext]_quicVars =>
        [\A s \in Servers : Blocks(s) =>
            /\ \E f \in Flows : f[1] = s /\ SendQuic(f, TRUE)
            /\ \A f \in Flows : f[1] = s /\ SendQuic(f, TRUE)
                  => silentFor[f] >= responseTimeoutMs]_quicVars
  BY Zenon, QuicStep
<1> QED
  BY <1>1, QuicInvariant, PTL DEF QuicSpec, BlocksAreExplained

=============================================================================
