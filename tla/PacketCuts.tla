----------------------------- MODULE PacketCuts -----------------------------
(***************************************************************************)
(* Where the packet profiles cut a ClientHello (src/src/PacketStrategy.cpp)*)
(* and what the pieces carry, as functions checked against what a receiver *)
(* puts together again.  A byte of the payload is its offset; a byte that  *)
(* is made up is Fake.                                                     *)
(***************************************************************************)
EXTENDS Integers, Sequences, FiniteSets

CONSTANTS
    MaxPayload,         \* bound on the bytes of the packet that is cut
    HeaderLengths,      \* lengths of the TCP header
    Overlaps            \* overlapBytes

ASSUME CutConstants ==
    /\ MaxPayload \in Nat \ {0, 1}
    /\ HeaderLengths \subseteq Nat \ {0}
    /\ Overlaps \subseteq Nat \ {0}

Fake == -1

VARIABLES
    armed,      \* the Policy armed for the connection
    cut         \* the packet the loop cut last, and what it made of it

cutVars == <<armed, cut>>

atLeast(a, b) == IF a < b THEN b ELSE a
atMost(a, b) == IF a > b THEN b ELSE a
clamp(x, lo, hi) == atMost(atLeast(x, lo), hi)

\* A policy for a hello whose hostname is at sniOffset; length 0 is no hostname.
policyForProfile(sniOffset, sniLength) ==
    IF sniLength = 0 THEN [splitOffset |-> 2, sniBegin |-> 0, sniEnd |-> 0]
    ELSE [splitOffset |-> atLeast(2, sniOffset + (sniLength \div 2)),
          sniBegin |-> sniOffset, sniEnd |-> sniOffset + sniLength]

segmentSplit(policy, length) ==
    IF length < 2 THEN 0 ELSE clamp(policy.splitOffset, 1, length - 1)

\* A cut at the edge of the hostname counts.
splitsSniLoosely(policy, split) ==
    policy.sniEnd = 0 \/ (split >= policy.sniBegin /\ split < policy.sniEnd)

splitsSni(policy, split) ==
    policy.sniEnd = 0 \/ (split > policy.sniBegin /\ split < policy.sniEnd)

Bytes(from, to) == [i \in 1..(to - from) |-> from + i - 1]

\* The segments in the order they are sent, at their place in the stream.
buildSegments(mode, policy, overlapBytes, length) ==
    LET split == segmentSplit(policy, length)
        overlap == IF mode = "ReverseOrder" THEN 0 ELSE clamp(overlapBytes, 1, split)
    IN  IF length < 2 THEN <<>>
        ELSE <<[at |-> split - overlap,
                bytes |-> [i \in 1..overlap |-> Fake] \o Bytes(split, length)],
               [at |-> 0, bytes |-> Bytes(0, split)]>>

roundDown(n) == n - (n % 8)
roundUp(n) == roundDown(n + 7)
distance(a, b) == IF a > b THEN a - b ELSE b - a

\* The multiple of 8 that is nearest to the split, if one is inside the name.
ipv4FragmentBoundary(header, policy, length) ==
    LET named == policy.sniEnd > policy.sniBegin
        lo == IF named THEN atLeast(1, policy.sniBegin + 1) ELSE 1
        hi == IF named THEN atMost(length - 1, policy.sniEnd - 1) ELSE length - 1
        target == header + clamp(policy.splitOffset, lo, hi)
        down == roundDown(target)
        up == roundUp(target)
        fits(b) == b >= header + lo /\ b <= header + hi
    IN  IF length < 2 \/ lo > hi THEN 0
        ELSE IF fits(down) /\ (fits(up) => distance(up, target) >= distance(down, target))
             THEN down
        ELSE IF fits(up) THEN up ELSE 0

\* The two fragments of an IP payload cut at boundary: the offset field of
\* each, counted in units of 8, and the bytes it carries.  A packet that is a
\* fragment itself is not cut again; its version and its size are right, since
\* the loop only passes IPv4 packets of the driver.
buildIpv4Fragments(whole, ipPayloadLength, boundary) ==
    LET first == roundUp(boundary)
    IN  IF \/ ~whole \/ boundary = 0 \/ boundary >= ipPayloadLength
           \/ first >= ipPayloadLength
        THEN <<>>
        ELSE <<[offset |-> 0, more |-> TRUE, bytes |-> Bytes(0, first)],
               [offset |-> first \div 8, more |-> FALSE,
                bytes |-> Bytes(first, ipPayloadLength)]>>

Lengths == 0..MaxPayload

\* Hellos whose hostname may reach past the packet that is cut.
Policies == {policyForProfile(o, l) : o \in 1..MaxPayload, l \in 0..(MaxPayload \div 2)}

Uncut == [by |-> "nothing"]

CutInit == armed \in Policies /\ cut = Uncut

\* ReverseOrder and SequenceOverlap: applied is what the loop reports.
CutSegments(mode, overlap, length) ==
    /\ cut = Uncut
    /\ cut' = [by |-> "segments", length |-> length,
               pieces |-> buildSegments(mode, armed, overlap, length),
               applied |-> splitsSni(armed, segmentSplit(armed, length))]
    /\ UNCHANGED armed

\* IpFragment, over IPv4.
CutFragments(header, length, whole) ==
    LET boundary == ipv4FragmentBoundary(header, armed, length)
    IN  /\ cut = Uncut
        /\ cut' = [by |-> "fragments", header |-> header, length |-> length,
                   whole |-> whole, boundary |-> boundary,
                   pieces |-> buildIpv4Fragments(whole, header + length, boundary)]
        /\ UNCHANGED armed

NextHello == cut # Uncut /\ cut' = Uncut /\ UNCHANGED armed

CutNext ==
    \/ \E mode \in {"ReverseOrder", "SequenceOverlap"}, overlap \in Overlaps,
          length \in Lengths : CutSegments(mode, overlap, length)
    \/ \E header \in HeaderLengths, length \in Lengths, whole \in BOOLEAN :
          CutFragments(header, length, whole)
    \/ NextHello

CutSpec == CutInit /\ [][CutNext]_cutVars

-----------------------------------------------------------------------------
(* What a receiver makes of it                                             *)

Covers(s, i) == s.at <= i /\ i < s.at + Len(s.bytes)
ByteAt(s, i) == s.bytes[i - s.at + 1]

\* A stream in which the segment that starts the stream is never overwritten.
Reassembled(segments, length) ==
    [i \in 0..(length - 1) |->
        IF Covers(segments[2], i) THEN ByteAt(segments[2], i)
        ELSE IF Covers(segments[1], i) THEN ByteAt(segments[1], i) ELSE Fake]

\* The segments put together are the hello itself, whatever overlap was put
\* in, and if the loop reports the profile as applied no segment carries a
\* whole hostname.
SegmentsCarryTheHello ==
    /\ Reassembled(cut.pieces, cut.length) = [i \in 0..(cut.length - 1) |-> i]
    /\ cut.applied /\ armed.sniEnd # 0
         => \A s \in {cut.pieces[1], cut.pieces[2]} :
              ~\A i \in armed.sniBegin..(armed.sniEnd - 1) :
                  Covers(s, i) /\ ByteAt(s, i) = i

\* The places where an IPv4 packet can be cut inside the hostname.
Cuts(header, length) ==
    {b \in (header + 1)..(header + length - 1) :
       /\ b % 8 = 0
       /\ armed.sniEnd > armed.sniBegin =>
            b > header + armed.sniBegin /\ b < header + armed.sniEnd}

\* There is no boundary only for a hostname that no fragment boundary cuts;
\* otherwise no better place exists, the place is not moved when the
\* fragments are built, and the fragments are the packet.  A packet that
\* already is a fragment is left as it is.
FragmentsCutTheName ==
    LET possible == Cuts(cut.header, cut.length)
        split == cut.header + armed.splitOffset
    IN  IF cut.boundary = 0 THEN possible = {}
        ELSE /\ cut.boundary \in possible
             /\ \A c \in possible : distance(cut.boundary, split) <= distance(c, split)
             /\ IF cut.whole
                THEN /\ Len(cut.pieces) = 2 /\ cut.pieces[2].offset * 8 = cut.boundary
                     /\ cut.pieces[1].bytes \o cut.pieces[2].bytes
                          = Bytes(0, cut.header + cut.length)
                ELSE cut.pieces = <<>>

\* However long the hello and wherever its hostname, a profile never loses,
\* doubles or moves a byte of it, and one that is reported as applied really
\* cuts the hostname (buildSegments, splitsSni, ipv4FragmentBoundary,
\* buildIpv4Fragments).
CutsAreSound ==
    /\ cut.by = "segments" /\ cut.length > 1 => SegmentsCarryTheHello
    /\ cut.by = "fragments" => FragmentsCutTheName

=============================================================================
