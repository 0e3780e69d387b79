--------------------------- MODULE FrameLogProofs ---------------------------
(***************************************************************************)
(* The log of one frame, for every frame: any octets, of any length.       *)
(***************************************************************************)
EXTENDS FrameLog, WellFoundedInduction, TLAPS

Headers == {"bvlc", "npdu", "dest", "src", "hop", "type"}
Late == {"dest", "src", "hop", "type", "apdu", "object", "property", "index"}

\* No read leaves the frame, and the fields filled lie within it.
Within ==
    /\ lastRead < frameLength
    /\ \A f \in DOMAIN decoded :
          decoded[f].at \in Nat /\ decoded[f].count \in Nat /\ decoded[f].at + decoded[f].count <= frameLength
    /\ at \in {"type", "apdu"} => offset < frameLength
    /\ at = "property" => offset >= 4

\* A destination announced by the control octet was read before anything behind it.
RouteRead ==
    /\ at \in Headers => ~Filled("pduType")
    /\ (at \in Late \ {"dest"} \/ Filled("pduType")) /\ hasDest => Filled("dnet")

Safe == TypeOK /\ Within

(***************************************************************************)
(* The headers of an Original-NPDU as IsStackChosenBroadcast reads them:   *)
(* facts about the frame alone, with which the walk is compared.           *)
(***************************************************************************)
Original == frameLength >= 4 /\ Octet(0) = 129 /\ Octet(1) \in {10, 11}
Control == Octet(5)
AfterDest == IF Bit(Control, 32) THEN 9 + Octet(8) ELSE 6
AfterSrc == IF Bit(Control, 8) THEN AfterDest + 3 + Octet(AfterDest + 2) ELSE AfterDest
Start == IF Bit(Control, 32) THEN AfterSrc + 1 ELSE AfterSrc
DestFits == Bit(Control, 32) => 9 <= frameLength
SrcFits == Bit(Control, 8) => AfterDest + 3 <= frameLength

\* Where the walk found the BVLC function and the NPDU's version and control octet.
HeaderRead ==
    /\ Filled("bvlcFunction") => decoded["bvlcFunction"].at = 1 /\ frameLength >= 4 /\ Octet(0) = 129
    /\ at # "bvlc" /\ frameLength >= 4 /\ Octet(0) = 129 => Filled("bvlcFunction")
    /\ at = "npdu" \/ Filled("npduControl") => Filled("bvlcFunction")
    /\ Filled("npduVersion") <=> Filled("npduControl")
    /\ Original =>
         /\ at = "npdu" => offset = 4
         /\ Filled("npduControl") =>
              frameLength >= 6 /\ decoded["npduVersion"].at = 4 /\ decoded["npduControl"].at = 5
         /\ at \in Late \/ (at = "done" /\ frameLength >= 6) => Filled("npduControl")

\* The part of an Original-NPDU the walk has come to is where the transport looks for it.
StandsWhere ==
    /\ at \in Headers \cup {"apdu"} => ~Filled("serviceChoice")
    /\ at \in Headers => ~Filled("networkMessageType")
    /\ Original =>
         /\ at = "dest" => offset = 6
         /\ at = "src" => offset = AfterDest /\ DestFits
         /\ at = "hop" => offset = AfterSrc /\ DestFits /\ SrcFits
         /\ at \in {"type", "apdu"} => offset = Start /\ DestFits /\ SrcFits
         /\ at \in {"apdu", "object", "property", "index"} => Filled("pduType")
         /\ at \in {"object", "property", "index"} => pduType # 1

\* What it found there, and that it did not stop before.
FoundWhat ==
    Original =>
        /\ Filled("networkMessageType") => Bit(Control, 128) /\ DestFits /\ SrcFits
        /\ Filled("pduType") => decoded["pduType"].at = Start /\ ~Bit(Control, 128) /\ DestFits /\ SrcFits
        /\ Filled("pduType") /\ pduType = 1 /\ Filled("serviceChoice") =>
             decoded["serviceChoice"].at = Start + 1 /\ Start + 2 <= frameLength
        /\ /\ at = "done" /\ frameLength >= 6 /\ DestFits /\ SrcFits
           /\ Start + 2 <= frameLength /\ ~Bit(Control, 128)
           => Filled("pduType") /\ (pduType = 1 => Filled("serviceChoice"))

WalkInv == Safe /\ RouteRead /\ HeaderRead /\ StandsWhere /\ FoundWhat

-----------------------------------------------------------------------------
\* An element of a sequence.
LEMMA ElementOfSeq ==
    ASSUME NEW S, NEW s \in Seq(S), NEW k \in 1..Len(s)
    PROVE  s[k] \in S
OBVIOUS

\* An octet of the frame is one.
LEMMA OctetFacts ==
    ASSUME frame \in Seq(0..255), NEW i \in Nat
    PROVE  Octet(i) \in Nat /\ frameLength \in Nat
<1>1. frameLength \in Nat
    BY DEF frameLength
<1>2. CASE i < frameLength
    <2>1. i + 1 \in 1..Len(frame)
        BY <1>1, <1>2 DEF frameLength
    <2>2. frame[i + 1] \in 0..255
        BY <2>1, ElementOfSeq, Zenon
    <2>3. Octet(i) = frame[i + 1]
        BY <1>2 DEF Octet
    <2>4. 0..255 \subseteq Nat
        OBVIOUS
    <2>. QED BY <1>1, <2>2, <2>3, <2>4, Zenon
<1>3. CASE ~(i < frameLength)
    BY <1>1, <1>3 DEF Octet
<1>. QED BY <1>2, <1>3

\* What a step of the walk does to the fields.
LEMMA AdvanceFacts ==
    ASSUME NEW next, NEW off, NEW fields, NEW last, Advance(next, off, fields, last)
    PROVE  /\ at' = next /\ offset' = off /\ frame' = frame /\ frameLength' = frameLength
           /\ \A f : f \in DOMAIN decoded' <=> f \in DOMAIN decoded \/ f \in DOMAIN fields
           /\ \A f \in DOMAIN fields : decoded'[f] = fields[f]
           /\ \A f \in DOMAIN decoded : f \notin DOMAIN fields => decoded'[f] = decoded[f]
BY DEF Advance, With, frameLength

\* A field the step does not fill keeps its value.
LEMMA ValueKept ==
    ASSUME NEW next, NEW off, NEW fields, NEW last, Advance(next, off, fields, last),
           NEW f, f \notin DOMAIN fields
    PROVE  /\ Filled(f)' <=> Filled(f)
           /\ Value(f)' = Value(f)
           /\ Filled(f) => decoded'[f] = decoded[f]
BY AdvanceFacts DEF Value, Filled, Octet

\* A step to a place within the frame that fills fields from within the frame.
LEMMA AdvanceKeepsSafe ==
    ASSUME Safe, NEW next, NEW off \in Nat, NEW fields, NEW last \in Int,
           Advance(next, off, fields, last),
           next \in Headers \cup Late \cup {"done"},
           next \notin {"npdu", "done"} => off <= frameLength,
           next \in {"type", "apdu"} => off < frameLength,
           next = "property" => off >= 4,
           last < frameLength,
           \A f \in DOMAIN fields : fields[f].at \in Nat /\ fields[f].count \in Nat
                                    /\ fields[f].at + fields[f].count <= frameLength
    PROVE  Safe'
<1>1. /\ at' = next /\ offset' = off /\ frame' = frame /\ frameLength' = frameLength
      /\ lastRead' = last \/ lastRead' = lastRead
    BY AdvanceFacts DEF Advance
<1>2. TypeOK'
    BY <1>1 DEF Safe, TypeOK, Headers, Late
<1>3. \A f \in DOMAIN decoded' :
         /\ decoded'[f].at \in Nat /\ decoded'[f].count \in Nat
         /\ decoded'[f].at + decoded'[f].count <= frameLength
    BY AdvanceFacts DEF Safe, Within
<1>4. lastRead' < frameLength
    BY <1>1 DEF Safe, Within
<1>5. /\ next \in {"type", "apdu"} => off < frameLength
      /\ next = "property" => off >= 4
    OBVIOUS
<1>6. Within'
    BY <1>1, <1>3, <1>4, <1>5 DEF Within
<1>. QED BY <1>2, <1>6 DEF Safe

\* The walk may stop anywhere.
LEMMA ReturnKeepsSafe ==
    ASSUME Safe, Return
    PROVE  Safe'
<1>1. Advance("done", offset, Nothing, lastRead)
    BY DEF Return
<1>2. offset \in Nat /\ lastRead \in Int /\ lastRead < frameLength
    BY DEF Safe, TypeOK, Within
<1>3. DOMAIN Nothing = {}
    BY DEF Nothing
<1>. QED BY <1>1, <1>2, <1>3, AdvanceKeepsSafe, Zenon

\* DecodeTagHeader never reads beyond the frame, and the header of a tag it accepts
\* ends within it.
LEMMA TagFacts ==
    ASSUME frame \in Seq(0..255), NEW off \in Nat
    PROVE  LET tag == DecodeTagHeader(off) IN
           /\ tag.last \in Int /\ tag.last < frameLength
           /\ tag.ok => tag.end \in Nat /\ tag.length \in Nat
<1>. DEFINE extended == Octet(off) \div 16 = 15
            pos == IF extended THEN off + 2 ELSE off + 1
            lvt == Octet(off) % 8
            context == Bit(Octet(off), 8)
            number == IF extended THEN Octet(off + 1) ELSE Octet(off) \div 16
            Tag(length, end) == [ok |-> TRUE, context |-> context, number |-> number,
                                 length |-> length, end |-> end, last |-> end - 1]
            tag == DecodeTagHeader(off)
            Good == /\ tag.last \in Int /\ tag.last < frameLength
                    /\ tag.ok => tag.end \in Nat /\ tag.length \in Nat
<1>. SUFFICES Good
    OBVIOUS
<1>0. frameLength \in Nat /\ \A i \in Nat : Octet(i) \in Nat
    <2>1. frameLength \in Nat
        BY OctetFacts
    <2>. SUFFICES ASSUME NEW i \in Nat PROVE Octet(i) \in Nat
        BY <2>1
    <2>. QED BY OctetFacts, Zenon
<1>1. ASSUME NEW last \in Int, last < frameLength, tag = NoTag(last)
      PROVE  Good
    BY <1>1 DEF NoTag
<1>2. ASSUME NEW length \in Nat, NEW end \in Nat, end <= frameLength, tag = Tag(length, end)
      PROVE  Good
    <2>1. tag.last = end - 1 /\ tag.end = end /\ tag.length = length
        BY <1>2
    <2>. QED BY <2>1, <1>2, <1>0
<1>3. CASE off >= frameLength
    <2>1. tag = NoTag(-1)
        BY <1>3 DEF DecodeTagHeader
    <2>. QED BY <2>1, <1>0, <1>1
<1>4. CASE off < frameLength
    <2>1. pos \in Nat /\ off < pos /\ (~extended \/ off + 1 < frameLength => pos <= frameLength)
        BY <1>0, <1>4
    <2>2. lvt \in Nat
        <3>1. Octet(off) \in Nat
            BY <1>0
        <3>. QED BY <3>1
    <2>. HIDE DEF pos, lvt, context, number, Good
    <2>3. tag =
          IF extended /\ off + 1 >= frameLength THEN NoTag(off)
          ELSE IF lvt <= 4 THEN Tag(lvt, pos)
          ELSE IF lvt > 5 THEN IF context THEN Tag(0, pos) ELSE NoTag(pos - 1)
          ELSE IF pos >= frameLength THEN NoTag(pos - 1)
          ELSE IF Octet(pos) < 254 THEN Tag(Octet(pos), pos + 1)
          ELSE IF Octet(pos) = 254
               THEN IF pos + 3 > frameLength THEN NoTag(pos)
                    ELSE Tag(Octet(pos + 1) * 256 + Octet(pos + 2), pos + 3)
          ELSE IF pos + 5 > frameLength THEN NoTag(pos) ELSE Tag(LongLength(pos + 1), pos + 5)
        BY <1>0, <1>4 DEF DecodeTagHeader, pos, lvt, context, number
    <2>4. Octet(pos) \in Nat /\ Octet(pos + 1) \in Nat /\ Octet(pos + 2) \in Nat
        BY <1>0, <2>1
    <2>5. Octet(pos + 1) * 256 + Octet(pos + 2) \in Nat
        BY <2>4
    <2>6. LongLength(pos + 1) \in Nat
        <3>1. Octet(pos + 2) \in Nat /\ Octet(pos + 3) \in Nat /\ Octet(pos + 4) \in Nat
            <4>1. pos + 2 \in Nat /\ pos + 3 \in Nat /\ pos + 4 \in Nat
                BY <2>1
            <4>. QED BY <1>0, <4>1, Zenon
        <3>2. (pos + 1) + 1 = pos + 2 /\ (pos + 1) + 2 = pos + 3 /\ (pos + 1) + 3 = pos + 4
            BY <2>1
        <3>. QED BY <3>1, <3>2 DEF LongLength
    <2>. HIDE DEF tag, extended, Tag
    <2>7. CASE extended /\ off + 1 >= frameLength
        <3>1. tag = NoTag(off)
            BY <2>3, <2>7
        <3>. QED BY <3>1, <1>1, <1>4
    <2>8. CASE ~(extended /\ off + 1 >= frameLength)
        <3>0. pos <= frameLength
            BY <1>0, <2>1, <2>8
        <3>1. CASE lvt <= 4
            <4>1. tag = Tag(lvt, pos)
                BY <2>3, <2>8, <3>1
            <4>. QED BY <4>1, <3>0, <2>1, <2>2, <1>2
        <3>2. CASE lvt > 5
            <4>1. tag = Tag(0, pos) \/ tag = NoTag(pos - 1)
                BY <2>3, <2>2, <2>8, <3>2
            <4>. QED BY <4>1, <3>0, <2>1, <1>0, <1>1, <1>2
        <3>3. CASE ~(lvt <= 4) /\ ~(lvt > 5) /\ pos >= frameLength
            <4>1. tag = NoTag(pos - 1)
                BY <2>3, <2>8, <3>3
            <4>. QED BY <4>1, <3>0, <2>1, <1>0, <1>1
        <3>4. CASE ~(lvt <= 4) /\ ~(lvt > 5) /\ ~(pos >= frameLength)
            <4>0. pos < frameLength
                BY <3>4, <2>1, <1>0
            <4>1. \/ tag = Tag(Octet(pos), pos + 1)
                  \/ tag = NoTag(pos)
                  \/ ~(pos + 3 > frameLength) /\ tag = Tag(Octet(pos + 1) * 256 + Octet(pos + 2), pos + 3)
                  \/ ~(pos + 5 > frameLength) /\ tag = Tag(LongLength(pos + 1), pos + 5)
                BY <2>3, <2>8, <3>4
            <4>2. CASE tag = Tag(Octet(pos), pos + 1)
                BY <4>0, <4>2, <2>1, <2>4, <1>0, <1>2
            <4>3. CASE tag = NoTag(pos)
                BY <4>0, <4>3, <2>1, <1>1
            <4>4. CASE ~(pos + 3 > frameLength) /\ tag = Tag(Octet(pos + 1) * 256 + Octet(pos + 2), pos + 3)
                BY <4>4, <2>1, <2>5, <1>0, <1>2
            <4>5. CASE ~(pos + 5 > frameLength) /\ tag = Tag(LongLength(pos + 1), pos + 5)
                BY <4>5, <2>1, <2>6, <1>0, <1>2
            <4>. QED BY <4>1, <4>2, <4>3, <4>4, <4>5
        <3>. QED BY <3>1, <3>2, <3>3, <3>4
    <2>. QED BY <2>7, <2>8
<1>. QED BY <1>3, <1>4, <1>0

-----------------------------------------------------------------------------
\* What is known of the frame stays known: it does not change.
LEMMA FrameKept ==
    ASSUME frame' = frame
    PROVE  /\ frameLength' = frameLength
           /\ \A i : Octet(i)' = Octet(i)
           /\ Original' <=> Original
           /\ Control' = Control /\ AfterDest' = AfterDest /\ AfterSrc' = AfterSrc /\ Start' = Start
           /\ DestFits' <=> DestFits
           /\ SrcFits' <=> SrcFits
<1>1. frameLength' = frameLength
    BY DEF frameLength
<1>2. \A i : Octet(i)' = Octet(i)
    BY <1>1 DEF Octet
<1>3. Control' = Control
    BY <1>2 DEF Control
<1>4. AfterDest' = AfterDest
    BY <1>2, <1>3 DEF AfterDest
<1>5. AfterSrc' = AfterSrc
    BY <1>1, <1>3, <1>4 DEF AfterSrc, Octet
<1>6. Start' = Start
    BY <1>3, <1>5 DEF Start
<1>7. Original' <=> Original
    BY <1>1, <1>2 DEF Original
<1>8. (DestFits' <=> DestFits) /\ (SrcFits' <=> SrcFits)
    BY <1>1, <1>3, <1>4 DEF DestFits, SrcFits
<1>. QED BY <1>1, <1>2, <1>3, <1>4, <1>5, <1>6, <1>7, <1>8

\* Behind the fixed part of the NPDU the header stays read.
LEMMA LateKeepsHeader ==
    ASSUME WalkInv, at \in Late, NEW next, NEW off, NEW fields, NEW last,
           Advance(next, off, fields, last), next \in Late \cup {"done"},
           "bvlcFunction" \notin DOMAIN fields, "npduVersion" \notin DOMAIN fields,
           "npduControl" \notin DOMAIN fields
    PROVE  /\ HeaderRead'
           /\ hasDest' <=> hasDest
           /\ hasSrc' <=> hasSrc
           /\ isNetworkMessage' <=> isNetworkMessage
<1>1. \A f \in {"bvlcFunction", "npduVersion", "npduControl"} :
         /\ Filled(f)' <=> Filled(f)
         /\ Value(f)' = Value(f)
         /\ Filled(f) => decoded'[f] = decoded[f]
    BY ValueKept
<1>2. at' = next /\ offset' = off /\ frame' = frame
    BY AdvanceFacts
<1>3. next # "bvlc" /\ next # "npdu" /\ at # "bvlc" /\ at # "npdu" /\ at # "done"
    BY DEF Late
<1>4. HeaderRead'
    BY <1>1, <1>2, <1>3, FrameKept DEF HeaderRead, WalkInv
<1>5. /\ hasDest' <=> hasDest
      /\ hasSrc' <=> hasSrc
      /\ isNetworkMessage' <=> isNetworkMessage
    BY <1>1 DEF hasDest, hasSrc, isNetworkMessage, Bit
<1>. QED BY <1>4, <1>5

\* For an Original-NPDU whose control octet was read the walk's flags are the
\* transport's.
LEMMA ControlFlags ==
    ASSUME WalkInv, Original, Filled("npduControl")
    PROVE  /\ hasDest <=> Bit(Control, 32)
           /\ hasSrc <=> Bit(Control, 8)
           /\ isNetworkMessage <=> Bit(Control, 128)
           /\ frameLength >= 6
<1>1. decoded["npduControl"].at = 5 /\ frameLength >= 6
    BY DEF WalkInv, HeaderRead
<1>2. Value("npduControl") = Control
    BY <1>1 DEF Value, Control
<1>. QED BY <1>1, <1>2 DEF hasDest, hasSrc, isNetworkMessage

\* The places the transport looks at lie one behind the other.
LEMMA PlacesAscend ==
    ASSUME frame \in Seq(0..255)
    PROVE  /\ AfterDest \in Nat /\ AfterSrc \in Nat /\ Start \in Nat
           /\ 6 <= AfterDest /\ AfterDest <= AfterSrc /\ AfterSrc <= Start
           /\ Bit(Control, 8) => AfterDest + 3 <= AfterSrc
<1>1. Octet(8) \in Nat
    BY OctetFacts
<1>2. AfterDest \in Nat /\ 6 <= AfterDest
    BY <1>1 DEF AfterDest
<1>3. Octet(AfterDest + 2) \in Nat
    <2>1. AfterDest + 2 \in Nat
        BY <1>2
    <2>. QED BY <2>1, OctetFacts, Zenon
<1>4. /\ AfterSrc \in Nat /\ AfterDest <= AfterSrc
      /\ Bit(Control, 8) => AfterDest + 3 <= AfterSrc
    BY <1>2, <1>3 DEF AfterSrc
<1>. QED BY <1>2, <1>4 DEF Start

-----------------------------------------------------------------------------
\* The fields the log and the transport are compared by.
Key == {"bvlcFunction", "npduVersion", "npduControl", "networkMessageType", "pduType", "serviceChoice"}

\* A step that fills none of some fields.
LEMMA KeyKept ==
    ASSUME NEW next, NEW off, NEW fields, NEW last, Advance(next, off, fields, last),
           NEW K, K \cap DOMAIN fields = {}
    PROVE  /\ \A f \in K : /\ Filled(f)' <=> Filled(f)
                           /\ Value(f)' = Value(f)
                           /\ Filled(f) => decoded'[f] = decoded[f]
           /\ "pduType" \in K => pduType' = pduType
<1>1. \A f \in K : /\ Filled(f)' <=> Filled(f)
                   /\ Value(f)' = Value(f)
                   /\ Filled(f) => decoded'[f] = decoded[f]
    BY ValueKept
<1>. QED BY <1>1 DEF pduType

\* The walk may stop behind the fixed part of the NPDU if what the transport looks
\* for is not there or was found.
LEMMA StopKeepsWalk ==
    ASSUME WalkInv, at \in Late, NEW off, NEW fields, NEW last, Advance("done", off, fields, last), Safe',
           DOMAIN fields \cap Key = {},
           Original =>
               \/ ~(DestFits /\ SrcFits /\ Start + 2 <= frameLength /\ ~Bit(Control, 128))
               \/ Filled("pduType") /\ (pduType = 1 => Filled("serviceChoice"))
    PROVE  WalkInv'
<1>1. at' = "done" /\ frame' = frame /\ \A f : Filled(f) => Filled(f)'
    BY AdvanceFacts DEF Filled
<1>2. \A f \in Key : /\ Filled(f)' <=> Filled(f)
                     /\ Filled(f) => decoded'[f] = decoded[f]
    BY KeyKept
<1>3. pduType' = pduType
    BY KeyKept DEF Key
<1>4. HeaderRead' /\ (hasDest' <=> hasDest)
    BY LateKeepsHeader DEF Key
<1>5. RouteRead'
    BY <1>1, <1>2, <1>4 DEF WalkInv, RouteRead, Key, Headers, Late
<1>6. StandsWhere'
    BY <1>1 DEF StandsWhere, Headers
<1>7. FoundWhat'
    BY <1>1, <1>2, <1>3, FrameKept DEF WalkInv, FoundWhat, Key
<1>. QED BY <1>4, <1>5, <1>6, <1>7 DEF WalkInv

\* The same for a return without a field.
LEMMA ReturnKeepsWalk ==
    ASSUME WalkInv, at \in Late, Return,
           Original =>
               \/ ~(DestFits /\ SrcFits /\ Start + 2 <= frameLength /\ ~Bit(Control, 128))
               \/ Filled("pduType") /\ (pduType = 1 => Filled("serviceChoice"))
    PROVE  WalkInv'
<1>1. Advance("done", offset, Nothing, lastRead) /\ DOMAIN Nothing \cap Key = {}
    BY DEF Return, Nothing
<1>2. Safe'
    BY ReturnKeepsSafe DEF WalkInv
<1>. QED BY <1>1, <1>2, StopKeepsWalk, Zenon

-----------------------------------------------------------------------------
\* DecodeBvlc.
LEMMA BvlcKeepsWalk ==
    ASSUME WalkInv, DecodeBvlc
    PROVE  WalkInv'
<1>1. /\ at = "bvlc" /\ frame \in Seq(0..255) /\ frameLength \in Nat /\ Safe
      /\ \A f \in {"pduType", "networkMessageType", "serviceChoice"} : ~Filled(f)
    BY OctetFacts DEF DecodeBvlc, WalkInv, Safe, TypeOK, RouteRead, StandsWhere, Headers
<1>2. ASSUME NEW last \in {-1, 0}, ~(frameLength >= 4 /\ Octet(0) = 129), last < frameLength,
             Advance("done", 0, Nothing, last)
      PROVE  WalkInv'
    <2>1. DOMAIN Nothing = {}
        BY DEF Nothing
    <2>2. Safe'
        <3>1. last \in Int /\ 0 \in Nat
            BY <1>2
        <3>. QED BY <1>1, <1>2, <2>1, <3>1, AdvanceKeepsSafe, Zenon
    <2>3. \A f \in Key : (Filled(f)' <=> Filled(f)) /\ (Filled(f) => decoded'[f] = decoded[f])
        BY <1>2, <2>1, KeyKept
    <2>4. at' = "done" /\ frame' = frame
        BY <1>2, AdvanceFacts
    <2>5. ~Original
        BY <1>2 DEF Original
    <2>6. RouteRead'
        BY <1>1, <2>3, <2>4 DEF RouteRead, Headers, Late, Key
    <2>7. HeaderRead'
        BY <1>2, <2>3, <2>4, <2>5, FrameKept DEF WalkInv, HeaderRead, Key
    <2>8. StandsWhere' /\ FoundWhat'
        BY <2>4, <2>5, FrameKept DEF StandsWhere, FoundWhat, Headers
    <2>. QED BY <2>2, <2>6, <2>7, <2>8 DEF WalkInv
<1>3. ASSUME frameLength >= 4, Octet(0) = 129, NEW next \in {"npdu", "done"}, NEW off \in Nat,
             Advance(next, off, [bvlcFunction |-> Octets(1, 1)], 1),
             Octet(1) \in {10, 11} => next = "npdu" /\ off = 4
      PROVE  WalkInv'
    <2>. DEFINE fields == [bvlcFunction |-> Octets(1, 1)]
    <2>1. DOMAIN fields = {"bvlcFunction"} /\ fields["bvlcFunction"] = Octets(1, 1)
        OBVIOUS
    <2>2. Octets(1, 1).at = 1 /\ Octets(1, 1).count = 1
        BY DEF Octets
    <2>. HIDE DEF fields
    <2>3. Advance(next, off, fields, 1)
        BY <1>3 DEF fields
    <2>4. at' = next /\ offset' = off /\ frame' = frame /\ Filled("bvlcFunction")'
          /\ decoded'["bvlcFunction"].at = 1
        BY <2>1, <2>2, <2>3, AdvanceFacts DEF Filled
    <2>5. Safe'
        <3>1. next \in Headers \cup Late \cup {"done"} /\ next \notin {"type", "apdu", "property"}
              /\ ~(next \notin {"npdu", "done"})
            BY <1>3 DEF Headers
        <3>2. 1 \in Int /\ 1 < frameLength
            BY <1>1, <1>3
        <3>3. \A f \in DOMAIN fields : fields[f].at \in Nat /\ fields[f].count \in Nat
                                    /\ fields[f].at + fields[f].count <= frameLength
            BY <1>1, <1>3, <2>1, <2>2
        <3>. QED BY <1>1, <2>3, <3>1, <3>2, <3>3, AdvanceKeepsSafe
    <2>6. \A f \in Key \ {"bvlcFunction"} : (Filled(f)' <=> Filled(f)) /\ (Filled(f) => decoded'[f] = decoded[f])
        <3>1. (Key \ {"bvlcFunction"}) \cap DOMAIN fields = {}
            BY <2>1
        <3>. QED BY <2>3, <3>1, KeyKept
    <2>7. RouteRead'
        BY <1>1, <1>3, <2>4, <2>6 DEF RouteRead, Headers, Late, Key
    <2>8. HeaderRead'
        <3>1. at' \notin Late /\ (Original' => at' = "npdu" /\ offset' = 4)
            BY <1>3, <2>4, FrameKept DEF Original, Late
        <3>2. /\ Filled("npduVersion")' <=> Filled("npduVersion")
              /\ Filled("npduControl")' <=> Filled("npduControl")
              /\ Filled("npduVersion") => decoded'["npduVersion"] = decoded["npduVersion"]
              /\ Filled("npduControl") => decoded'["npduControl"] = decoded["npduControl"]
            BY <2>6 DEF Key
        <3>. QED BY <1>3, <2>4, <3>1, <3>2, FrameKept DEF WalkInv, HeaderRead
    <2>9. /\ ~Filled("serviceChoice")' /\ ~Filled("networkMessageType")' /\ ~Filled("pduType")'
        BY <1>1, <2>6 DEF Key
    <2>10. StandsWhere' /\ FoundWhat'
        <3>1. Original' => at' = "npdu"
            BY <1>3, <2>4, FrameKept DEF Original
        <3>. QED BY <1>3, <2>4, <2>9, <3>1 DEF StandsWhere, FoundWhat
    <2>. QED BY <2>5, <2>7, <2>8, <2>10 DEF WalkInv
<1>4. CASE frameLength < 4 \/ Octet(0) # 129
    <2>1. Advance("done", 0, Nothing, IF frameLength < 4 THEN -1 ELSE 0)
        BY <1>1, <1>4 DEF DecodeBvlc
    <2>2. ~(frameLength >= 4 /\ Octet(0) = 129)
        BY <1>1, <1>4
    <2>3. CASE frameLength < 4
        BY <1>1, <1>2, <2>1, <2>2, <2>3
    <2>4. CASE ~(frameLength < 4)
        BY <1>1, <1>2, <2>1, <2>2, <2>4
    <2>. QED BY <2>3, <2>4
<1>5. CASE frameLength >= 4 /\ Octet(0) = 129
    <2>1. CASE Octet(1) \in {10, 11}
        <3>1. Advance("npdu", 4, [bvlcFunction |-> Octets(1, 1)], 1)
            BY <1>1, <1>5, <2>1 DEF DecodeBvlc
        <3>. QED BY <1>3, <1>5, <2>1, <3>1
    <2>2. CASE Octet(1) = 4
        <3>1. Advance("npdu", 10, [bvlcFunction |-> Octets(1, 1)], 1)
            BY <1>1, <1>5, <2>2 DEF DecodeBvlc
        <3>. QED BY <1>3, <1>5, <2>2, <3>1
    <2>3. CASE Octet(1) \notin {10, 11} /\ Octet(1) # 4
        <3>1. Advance("done", 0, [bvlcFunction |-> Octets(1, 1)], 1)
            BY <1>1, <1>5, <2>3 DEF DecodeBvlc
        <3>. QED BY <1>3, <1>5, <2>3, <3>1
    <2>. QED BY <2>1, <2>2, <2>3
<1>. QED BY <1>1, <1>4, <1>5

\* DecodeNpdu.
LEMMA NpduKeepsWalk ==
    ASSUME WalkInv, DecodeNpdu
    PROVE  WalkInv'
<1>1. /\ at = "npdu" /\ frame \in Seq(0..255) /\ frameLength \in Nat /\ offset \in Nat /\ Safe
      /\ \A f \in {"pduType", "networkMessageType", "serviceChoice"} : ~Filled(f)
      /\ Original => offset = 4
    BY OctetFacts DEF DecodeNpdu, WalkInv, Safe, TypeOK, RouteRead, StandsWhere, HeaderRead, Headers
<1>2. CASE offset + 2 > frameLength
    <2>1. Return
        BY <1>1, <1>2 DEF DecodeNpdu
    <2>2. Advance("done", offset, Nothing, lastRead) /\ DOMAIN Nothing = {}
        BY <2>1 DEF Return, Nothing
    <2>3. Safe'
        BY <1>1, <2>1, ReturnKeepsSafe
    <2>4. \A f \in Key : (Filled(f)' <=> Filled(f)) /\ (Filled(f) => decoded'[f] = decoded[f])
        BY <2>2, KeyKept
    <2>5. at' = "done" /\ frame' = frame
        BY <2>2, AdvanceFacts
    <2>6. Original => ~(frameLength >= 6)
        BY <1>1, <1>2
    <2>7. RouteRead'
        BY <1>1, <2>4, <2>5 DEF RouteRead, Headers, Late, Key
    <2>8. HeaderRead'
        BY <1>1, <2>4, <2>5, <2>6, FrameKept DEF WalkInv, HeaderRead, Key, Late
    <2>9. ~Filled("serviceChoice")' /\ ~Filled("networkMessageType")' /\ ~Filled("pduType")'
        BY <1>1, <2>4 DEF Key
    <2>10. StandsWhere' /\ FoundWhat'
        BY <2>5, <2>6, <2>9, FrameKept DEF StandsWhere, FoundWhat, Headers
    <2>. QED BY <2>3, <2>7, <2>8, <2>10 DEF WalkInv
<1>3. CASE ~(offset + 2 > frameLength)
    <2>. DEFINE fields == [npduVersion |-> Octets(offset, 1), npduControl |-> Octets(offset + 1, 1)]
    <2>1. /\ DOMAIN fields = {"npduVersion", "npduControl"}
          /\ fields["npduVersion"] = Octets(offset, 1) /\ fields["npduControl"] = Octets(offset + 1, 1)
        OBVIOUS
    <2>2. \A i : Octets(i, 1).at = i /\ Octets(i, 1).count = 1
        BY DEF Octets
    <2>3. Advance("dest", offset + 2, fields, offset + 1)
        BY <1>1, <1>3 DEF DecodeNpdu
    <2>. HIDE DEF fields
    <2>4. /\ at' = "dest" /\ offset' = offset + 2 /\ frame' = frame
          /\ Filled("npduVersion")' /\ decoded'["npduVersion"].at = offset
          /\ Filled("npduControl")' /\ decoded'["npduControl"].at = offset + 1
        BY <2>1, <2>2, <2>3, AdvanceFacts DEF Filled
    <2>5. Safe'
        <3>1. "dest" \in Headers \cup Late \cup {"done"}
            BY DEF Headers
        <3>2. offset + 1 \in Int /\ offset + 1 < frameLength /\ offset + 2 \in Nat /\ offset + 2 <= frameLength
            BY <1>1, <1>3
        <3>3. \A f \in DOMAIN fields : fields[f].at \in Nat /\ fields[f].count \in Nat
                                    /\ fields[f].at + fields[f].count <= frameLength
            BY <1>1, <1>3, <2>1, <2>2
        <3>. QED BY <1>1, <2>3, <3>1, <3>2, <3>3, AdvanceKeepsSafe
    <2>6. \A f \in Key \ {"npduVersion", "npduControl"} :
             (Filled(f)' <=> Filled(f)) /\ (Filled(f) => decoded'[f] = decoded[f])
        <3>1. (Key \ {"npduVersion", "npduControl"}) \cap DOMAIN fields = {}
            BY <2>1
        <3>. QED BY <2>3, <3>1, KeyKept
    <2>7. ~Filled("serviceChoice")' /\ ~Filled("networkMessageType")' /\ ~Filled("pduType")'
        BY <1>1, <2>6 DEF Key
    <2>8. RouteRead'
        BY <2>4, <2>7 DEF RouteRead
    <2>9. HeaderRead'
        <3>1. /\ Filled("bvlcFunction")' <=> Filled("bvlcFunction")
              /\ Filled("bvlcFunction") => decoded'["bvlcFunction"] = decoded["bvlcFunction"]
            BY <2>6 DEF Key
        <3>2. Original => offset = 4 /\ frameLength >= 6
            BY <1>1, <1>3
        <3>. QED BY <1>1, <2>4, <3>1, <3>2, FrameKept DEF WalkInv, HeaderRead
    <2>10. StandsWhere' /\ FoundWhat'
        BY <1>1, <2>4, <2>7, FrameKept DEF StandsWhere, FoundWhat
    <2>. QED BY <2>5, <2>8, <2>9, <2>10 DEF WalkInv
<1>. QED BY <1>2, <1>3

-----------------------------------------------------------------------------
\* The four ways through a destination or source specifier; none leaves the frame.
LEMMA AddressCases ==
    ASSUME Safe, NEW part, NEW next \in {"src", "hop"}, NEW present \in BOOLEAN, NEW net, NEW adr, net # adr,
           part \notin {"npdu", "done"},
           DecodeAddress(part, next, present, net, adr)
    PROVE  /\ Safe'
           /\ \/ ~present /\ Advance(next, offset, Nothing, lastRead)
              \/ present /\ offset + 3 > frameLength /\ Return
              \/ /\ present /\ offset + 3 <= frameLength
                 /\ offset + 3 + Octet(offset + 2) > frameLength
                 /\ \E off, fields, last : DOMAIN fields = {net} /\ Advance("done", off, fields, last)
              \/ /\ present /\ offset + 3 <= frameLength
                 /\ \E fields, last : /\ DOMAIN fields = {net, adr}
                                      /\ Advance(next, offset + 3 + Octet(offset + 2), fields, last)
<1>. DEFINE length == Octet(offset + 2)
            start == offset + 3
            cut == [f \in {net} |-> Octets(offset, 2)]
            whole == [f \in {net, adr} |-> IF f = net THEN Octets(offset, 2) ELSE Octets(start, length)]
<1>1. /\ at = part /\ offset \in Nat /\ frameLength \in Nat /\ offset <= frameLength
      /\ lastRead \in Int /\ lastRead < frameLength /\ frame \in Seq(0..255)
    BY OctetFacts DEF DecodeAddress, Safe, TypeOK, Within
<1>2. length \in Nat /\ start \in Nat
    <2>1. offset + 2 \in Nat
        BY <1>1
    <2>. QED BY <1>1, <2>1, OctetFacts
<1>3. next \in Headers \cup Late \cup {"done"} /\ next \notin {"type", "apdu", "property"}
    BY DEF Headers
<1>4. \A i, n : Octets(i, n).at = i /\ Octets(i, n).count = n
    BY DEF Octets
<1>. HIDE DEF length
<1>5. CASE ~present
    <2>1. Advance(next, offset, Nothing, lastRead)
        BY <1>5 DEF DecodeAddress
    <2>2. DOMAIN Nothing = {}
        BY DEF Nothing
    <2>3. Safe'
        BY <1>1, <1>3, <2>1, <2>2, AdvanceKeepsSafe
    <2>. QED BY <1>5, <2>1, <2>3
<1>6. CASE present /\ offset + 3 > frameLength
    <2>1. Return
        BY <1>6 DEF DecodeAddress
    <2>. QED BY <1>6, <2>1, ReturnKeepsSafe
<1>7. CASE present /\ ~(offset + 3 > frameLength) /\ start + length > frameLength
    <2>1. Advance("done", start, cut, offset + 2)
        BY <1>7 DEF DecodeAddress, length
    <2>2. DOMAIN cut = {net} /\ cut[net] = Octets(offset, 2)
        OBVIOUS
    <2>3. offset + 2 \in Int /\ offset + 2 < frameLength /\ offset + 3 <= frameLength
        BY <1>1, <1>7
    <2>. HIDE DEF cut, start
    <2>4. \A f \in DOMAIN cut : cut[f].at \in Nat /\ cut[f].count \in Nat
                                /\ cut[f].at + cut[f].count <= frameLength
        BY <1>1, <1>4, <2>2, <2>3
    <2>5. Safe'
        BY <1>1, <1>2, <2>1, <2>3, <2>4, AdvanceKeepsSafe
    <2>6. offset + 3 + Octet(offset + 2) > frameLength
        BY <1>7 DEF start, length
    <2>. QED BY <1>7, <2>1, <2>2, <2>3, <2>5, <2>6
<1>8. CASE present /\ ~(offset + 3 > frameLength) /\ ~(start + length > frameLength)
    <2>1. Advance(next, start + length, whole, offset + 2)
        BY <1>8 DEF DecodeAddress, length
    <2>2. DOMAIN whole = {net, adr} /\ whole[net] = Octets(offset, 2) /\ whole[adr] = Octets(start, length)
        OBVIOUS
    <2>3. /\ offset + 2 \in Int /\ offset + 2 < frameLength /\ offset + 3 <= frameLength
          /\ start + length \in Nat /\ start + length <= frameLength
        BY <1>1, <1>2, <1>8
    <2>. HIDE DEF whole
    <2>4. \A f \in DOMAIN whole : whole[f].at \in Nat /\ whole[f].count \in Nat
                                  /\ whole[f].at + whole[f].count <= frameLength
        BY <1>1, <1>2, <1>4, <2>2, <2>3
    <2>5. Safe'
        BY <1>1, <1>2, <1>3, <2>1, <2>3, <2>4, AdvanceKeepsSafe
    <2>6. Advance(next, offset + 3 + Octet(offset + 2), whole, offset + 2)
        BY <2>1 DEF start, length
    <2>. QED BY <1>8, <2>2, <2>3, <2>5, <2>6
<1>. QED BY <1>5, <1>6, <1>7, <1>8

\* DecodeDestination.
LEMMA DestinationKeepsWalk ==
    ASSUME WalkInv, DecodeDestination
    PROVE  WalkInv'
<1>1. /\ at = "dest" /\ Safe /\ frame \in Seq(0..255) /\ frameLength \in Nat
      /\ Original => offset = 6 /\ Filled("npduControl")
    BY OctetFacts DEF DecodeDestination, DecodeAddress, WalkInv, StandsWhere, HeaderRead, Safe, TypeOK, Late
<1>2. ~Filled("serviceChoice") /\ ~Filled("networkMessageType") /\ ~Filled("pduType")
    BY <1>1 DEF WalkInv, StandsWhere, RouteRead, Headers
<1>3. at \in Late /\ hasDest \in BOOLEAN
    BY <1>1 DEF Late, hasDest, Bit
<1>4. /\ Safe'
      /\ \/ ~hasDest /\ Advance("src", offset, Nothing, lastRead)
         \/ hasDest /\ offset + 3 > frameLength /\ Return
         \/ /\ hasDest /\ offset + 3 <= frameLength
            /\ offset + 3 + Octet(offset + 2) > frameLength
            /\ \E off, fields, last : DOMAIN fields = {"dnet"} /\ Advance("done", off, fields, last)
         \/ /\ hasDest /\ offset + 3 <= frameLength
            /\ \E fields, last : /\ DOMAIN fields = {"dnet", "dadr"}
                                 /\ Advance("src", offset + 3 + Octet(offset + 2), fields, last)
    <2>1. DecodeAddress("dest", "src", hasDest, "dnet", "dadr")
        BY DEF DecodeDestination
    <2>2. "src" \in {"src", "hop"} /\ "dnet" # "dadr" /\ "dest" \notin {"npdu", "done"}
        OBVIOUS
    <2>. QED BY <1>1, <1>3, <2>1, <2>2, AddressCases, Zenon
<1>5. Original => /\ hasDest <=> Bit(Control, 32)
                  /\ hasDest => AfterDest = offset + 3 + Octet(offset + 2) /\ Octet(offset + 2) \in Nat
                  /\ ~hasDest => AfterDest = offset
    <2>. SUFFICES ASSUME Original
                  PROVE  /\ hasDest <=> Bit(Control, 32)
                         /\ hasDest => AfterDest = offset + 3 + Octet(offset + 2) /\ Octet(offset + 2) \in Nat
                         /\ ~hasDest => AfterDest = offset
        OBVIOUS
    <2>1. hasDest <=> Bit(Control, 32)
        BY <1>1, ControlFlags
    <2>2. offset + 2 = 8 /\ offset + 3 = 9 /\ Octet(8) \in Nat
        BY <1>1, OctetFacts
    <2>. QED BY <1>1, <2>1, <2>2 DEF AfterDest
<1>6. AfterDest \in Nat /\ AfterDest <= Start /\ Start \in Nat
    BY <1>1, PlacesAscend
<1>7. ASSUME NEW off, NEW fields, NEW last, Advance("src", off, fields, last), DOMAIN fields \cap Key = {},
             hasDest => "dnet" \in DOMAIN fields, Original => off = AfterDest /\ DestFits
      PROVE  WalkInv'
    <2>1. at' = "src" /\ offset' = off /\ frame' = frame /\ (hasDest => Filled("dnet")')
        BY <1>7, AdvanceFacts DEF Filled
    <2>2. HeaderRead' /\ (hasDest' <=> hasDest)
        BY <1>3, <1>7, LateKeepsHeader DEF Key, Late
    <2>3. ~Filled("serviceChoice")' /\ ~Filled("networkMessageType")' /\ ~Filled("pduType")'
        <3>1. \A f \in Key : Filled(f)' <=> Filled(f)
            BY <1>7, KeyKept
        <3>. QED BY <1>2, <3>1 DEF Key
    <2>4. RouteRead'
        BY <2>1, <2>2, <2>3 DEF RouteRead
    <2>5. StandsWhere' /\ FoundWhat'
        BY <1>7, <2>1, <2>3, FrameKept DEF StandsWhere, FoundWhat
    <2>. QED BY <1>4, <2>2, <2>4, <2>5 DEF WalkInv
<1>8. CASE ~hasDest /\ Advance("src", offset, Nothing, lastRead)
    <2>1. DOMAIN Nothing \cap Key = {}
        BY DEF Nothing
    <2>2. Original => offset = AfterDest /\ DestFits
        BY <1>5, <1>8 DEF DestFits
    <2>. QED BY <1>7, <1>8, <2>1, <2>2
<1>9. CASE hasDest /\ offset + 3 > frameLength /\ Return
    <2>1. Original => ~DestFits
        BY <1>1, <1>5, <1>9 DEF DestFits
    <2>. QED BY <1>3, <1>9, <2>1, ReturnKeepsWalk
<1>10. CASE /\ hasDest /\ offset + 3 <= frameLength
            /\ offset + 3 + Octet(offset + 2) > frameLength
            /\ \E off, fields, last : DOMAIN fields = {"dnet"} /\ Advance("done", off, fields, last)
    <2>1. PICK off, fields, last : DOMAIN fields = {"dnet"} /\ Advance("done", off, fields, last)
        BY <1>10
    <2>2. DOMAIN fields \cap Key = {}
        BY <2>1 DEF Key
    <2>3. Original => ~(Start + 2 <= frameLength)
        BY <1>1, <1>5, <1>6, <1>10
    <2>. QED BY <1>3, <1>4, <2>1, <2>2, <2>3, StopKeepsWalk
<1>11. CASE /\ hasDest /\ offset + 3 <= frameLength
            /\ \E fields, last : /\ DOMAIN fields = {"dnet", "dadr"}
                                 /\ Advance("src", offset + 3 + Octet(offset + 2), fields, last)
    <2>1. PICK fields, last : /\ DOMAIN fields = {"dnet", "dadr"}
                              /\ Advance("src", offset + 3 + Octet(offset + 2), fields, last)
        BY <1>11
    <2>2. DOMAIN fields \cap Key = {} /\ "dnet" \in DOMAIN fields
        BY <2>1 DEF Key
    <2>3. Original => offset + 3 + Octet(offset + 2) = AfterDest /\ DestFits
        BY <1>1, <1>5, <1>11 DEF DestFits
    <2>. QED BY <1>7, <2>1, <2>2, <2>3
<1>. QED BY <1>4, <1>8, <1>9, <1>10, <1>11

\* DecodeSource.
LEMMA SourceKeepsWalk ==
    ASSUME WalkInv, DecodeSource
    PROVE  WalkInv'
<1>1. /\ at = "src" /\ Safe /\ frame \in Seq(0..255) /\ frameLength \in Nat /\ offset \in Nat
      /\ Original => offset = AfterDest /\ DestFits /\ Filled("npduControl")
      /\ hasDest => Filled("dnet")
    BY OctetFacts DEF DecodeSource, DecodeAddress, WalkInv, StandsWhere, HeaderRead, RouteRead, Safe, TypeOK, Late
<1>2. ~Filled("serviceChoice") /\ ~Filled("networkMessageType") /\ ~Filled("pduType")
    BY <1>1 DEF WalkInv, StandsWhere, RouteRead, Headers
<1>3. at \in Late /\ hasSrc \in BOOLEAN
    BY <1>1 DEF Late, hasSrc, Bit
<1>4. /\ Safe'
      /\ \/ ~hasSrc /\ Advance("hop", offset, Nothing, lastRead)
         \/ hasSrc /\ offset + 3 > frameLength /\ Return
         \/ /\ hasSrc /\ offset + 3 <= frameLength
            /\ offset + 3 + Octet(offset + 2) > frameLength
            /\ \E off, fields, last : DOMAIN fields = {"snet"} /\ Advance("done", off, fields, last)
         \/ /\ hasSrc /\ offset + 3 <= frameLength
            /\ \E fields, last : /\ DOMAIN fields = {"snet", "sadr"}
                                 /\ Advance("hop", offset + 3 + Octet(offset + 2), fields, last)
    <2>1. DecodeAddress("src", "hop", hasSrc, "snet", "sadr")
        BY DEF DecodeSource
    <2>2. "hop" \in {"src", "hop"} /\ "snet" # "sadr" /\ "src" \notin {"npdu", "done"}
        OBVIOUS
    <2>. QED BY <1>1, <1>3, <2>1, <2>2, AddressCases, Zenon
<1>5. Original => /\ hasSrc <=> Bit(Control, 8)
                  /\ hasSrc => AfterSrc = offset + 3 + Octet(offset + 2)
                  /\ ~hasSrc => AfterSrc = offset
    BY <1>1, ControlFlags DEF AfterSrc
<1>6. AfterSrc \in Nat /\ AfterSrc <= Start /\ Start \in Nat
    BY <1>1, PlacesAscend
<1>7. ASSUME NEW off, NEW fields, NEW last, Advance("hop", off, fields, last), DOMAIN fields \cap Key = {},
             Original => off = AfterSrc /\ SrcFits
      PROVE  WalkInv'
    <2>1. at' = "hop" /\ offset' = off /\ frame' = frame /\ (Filled("dnet") => Filled("dnet")')
        BY <1>7, AdvanceFacts DEF Filled
    <2>2. HeaderRead' /\ (hasDest' <=> hasDest)
        BY <1>3, <1>7, LateKeepsHeader DEF Key, Late
    <2>3. ~Filled("serviceChoice")' /\ ~Filled("networkMessageType")' /\ ~Filled("pduType")'
        <3>1. \A f \in Key : Filled(f)' <=> Filled(f)
            BY <1>7, KeyKept
        <3>. QED BY <1>2, <3>1 DEF Key
    <2>4. RouteRead'
        BY <1>1, <2>1, <2>2, <2>3 DEF RouteRead
    <2>5. StandsWhere' /\ FoundWhat'
        BY <1>1, <1>7, <2>1, <2>3, FrameKept DEF StandsWhere, FoundWhat
    <2>. QED BY <1>4, <2>2, <2>4, <2>5 DEF WalkInv
<1>8. CASE ~hasSrc /\ Advance("hop", offset, Nothing, lastRead)
    <2>1. DOMAIN Nothing \cap Key = {}
        BY DEF Nothing
    <2>2. Original => offset = AfterSrc /\ SrcFits
        BY <1>5, <1>8 DEF SrcFits
    <2>. QED BY <1>7, <1>8, <2>1, <2>2
<1>9. CASE hasSrc /\ offset + 3 > frameLength /\ Return
    <2>1. Original => ~SrcFits
        BY <1>1, <1>5, <1>9 DEF SrcFits
    <2>. QED BY <1>3, <1>9, <2>1, ReturnKeepsWalk
<1>10. CASE /\ hasSrc /\ offset + 3 <= frameLength
            /\ offset + 3 + Octet(offset + 2) > frameLength
            /\ \E off, fields, last : DOMAIN fields = {"snet"} /\ Advance("done", off, fields, last)
    <2>1. PICK off, fields, last : DOMAIN fields = {"snet"} /\ Advance("done", off, fields, last)
        BY <1>10
    <2>2. DOMAIN fields \cap Key = {}
        BY <2>1 DEF Key
    <2>3. Original => ~(Start + 2 <= frameLength)
        BY <1>1, <1>5, <1>6, <1>10
    <2>. QED BY <1>3, <1>4, <2>1, <2>2, <2>3, StopKeepsWalk
<1>11. CASE /\ hasSrc /\ offset + 3 <= frameLength
            /\ \E fields, last : /\ DOMAIN fields = {"snet", "sadr"}
                                 /\ Advance("hop", offset + 3 + Octet(offset + 2), fields, last)
    <2>1. PICK fields, last : /\ DOMAIN fields = {"snet", "sadr"}
                              /\ Advance("hop", offset + 3 + Octet(offset + 2), fields, last)
        BY <1>11
    <2>2. DOMAIN fields \cap Key = {}
        BY <2>1 DEF Key
    <2>3. Original => offset + 3 + Octet(offset + 2) = AfterSrc /\ SrcFits
        BY <1>1, <1>5, <1>11 DEF SrcFits
    <2>. QED BY <1>7, <2>1, <2>2, <2>3
<1>. QED BY <1>4, <1>8, <1>9, <1>10, <1>11

\* SkipHopCount.
LEMMA HopKeepsWalk ==
    ASSUME WalkInv, SkipHopCount
    PROVE  WalkInv'
<1>. DEFINE next == offset + (IF hasDest THEN 1 ELSE 0)
<1>1. /\ at = "hop" /\ at \in Late /\ Safe /\ frame \in Seq(0..255) /\ frameLength \in Nat /\ offset \in Nat
      /\ lastRead \in Int /\ lastRead < frameLength
      /\ Original => offset = AfterSrc /\ DestFits /\ SrcFits /\ Filled("npduControl")
      /\ hasDest => Filled("dnet")
    BY OctetFacts DEF SkipHopCount, WalkInv, StandsWhere, HeaderRead, RouteRead, Safe, TypeOK, Within, Late
<1>2. ~Filled("serviceChoice") /\ ~Filled("networkMessageType") /\ ~Filled("pduType")
    BY <1>1 DEF WalkInv, StandsWhere, RouteRead, Headers
<1>3. next \in Nat
    BY <1>1
<1>4. Original => next = Start
    BY <1>1, ControlFlags DEF Start
<1>5. (next >= frameLength /\ Return) \/ (next < frameLength /\ Advance("type", next, Nothing, lastRead))
    BY <1>1, <1>3 DEF SkipHopCount
<1>. HIDE DEF next
<1>6. CASE next >= frameLength /\ Return
    <2>1. Original => ~(Start + 2 <= frameLength)
        BY <1>1, <1>3, <1>4, <1>6
    <2>. QED BY <1>1, <1>6, <2>1, ReturnKeepsWalk
<1>7. CASE next < frameLength /\ Advance("type", next, Nothing, lastRead)
    <2>1. DOMAIN Nothing = {}
        BY DEF Nothing
    <2>2. at' = "type" /\ offset' = next /\ frame' = frame /\ (Filled("dnet") => Filled("dnet")')
        BY <1>7, AdvanceFacts DEF Filled
    <2>3. HeaderRead' /\ (hasDest' <=> hasDest)
        BY <1>1, <1>7, <2>1, LateKeepsHeader DEF Late
    <2>4. ~Filled("serviceChoice")' /\ ~Filled("networkMessageType")' /\ ~Filled("pduType")'
        <3>1. \A f \in Key : Filled(f)' <=> Filled(f)
            BY <1>7, <2>1, KeyKept
        <3>. QED BY <1>2, <3>1 DEF Key
    <2>5. Safe'
        <3>1. "type" \in Headers \cup Late \cup {"done"} /\ next <= frameLength
            BY <1>1, <1>3, <1>7 DEF Headers
        <3>. QED BY <1>1, <1>3, <1>7, <2>1, <3>1, AdvanceKeepsSafe
    <2>6. RouteRead'
        BY <1>1, <2>2, <2>3, <2>4 DEF RouteRead
    <2>7. StandsWhere' /\ FoundWhat'
        BY <1>1, <1>4, <2>2, <2>4, FrameKept DEF StandsWhere, FoundWhat
    <2>. QED BY <2>3, <2>5, <2>6, <2>7 DEF WalkInv
<1>. QED BY <1>5, <1>6, <1>7

\* DecodeType.
LEMMA TypeKeepsWalk ==
    ASSUME WalkInv, DecodeType
    PROVE  WalkInv'
<1>1. /\ at = "type" /\ at \in Late /\ Safe /\ frame \in Seq(0..255) /\ frameLength \in Nat /\ offset \in Nat
      /\ offset < frameLength
      /\ Original => offset = Start /\ DestFits /\ SrcFits /\ Filled("npduControl")
      /\ hasDest => Filled("dnet")
    BY OctetFacts DEF DecodeType, WalkInv, StandsWhere, HeaderRead, RouteRead, Safe, TypeOK, Within, Late
<1>2. ~Filled("serviceChoice") /\ ~Filled("networkMessageType") /\ ~Filled("pduType")
    BY <1>1 DEF WalkInv, StandsWhere, RouteRead, Headers
<1>3. Original => (isNetworkMessage <=> Bit(Control, 128))
    BY <1>1, ControlFlags
<1>4. ASSUME NEW next \in {"done", "apdu"}, NEW fields, NEW name \in {"networkMessageType", "pduType"},
             DOMAIN fields = {name}, fields[name] = Octets(offset, 1),
             Advance(next, offset, fields, offset)
      PROVE  /\ Safe' /\ HeaderRead' /\ (hasDest' <=> hasDest)
             /\ at' = next /\ offset' = offset /\ frame' = frame
             /\ Filled("dnet") => Filled("dnet")'
             /\ Filled(name)' /\ decoded'[name].at = offset
             /\ \A f \in Key \ {name} : Filled(f)' <=> Filled(f)
    <2>1. Octets(offset, 1).at = offset /\ Octets(offset, 1).count = 1
        BY DEF Octets
    <2>2. Safe'
        <3>1. next \in Headers \cup Late \cup {"done"} /\ next # "property" /\ offset <= frameLength
              /\ offset \in Int
            BY <1>1, <1>4 DEF Late
        <3>2. \A f \in DOMAIN fields : fields[f].at \in Nat /\ fields[f].count \in Nat
                                       /\ fields[f].at + fields[f].count <= frameLength
            BY <1>1, <1>4, <2>1
        <3>. QED BY <1>1, <1>4, <3>1, <3>2, AdvanceKeepsSafe
    <2>3. HeaderRead' /\ (hasDest' <=> hasDest)
        BY <1>1, <1>4, LateKeepsHeader DEF Late
    <2>4. /\ at' = next /\ offset' = offset /\ frame' = frame /\ (Filled("dnet") => Filled("dnet")')
          /\ Filled(name)' /\ decoded'[name].at = offset
        BY <1>4, <2>1, AdvanceFacts DEF Filled
    <2>5. \A f \in Key \ {name} : Filled(f)' <=> Filled(f)
        <3>1. (Key \ {name}) \cap DOMAIN fields = {}
            BY <1>4
        <3>. QED BY <1>4, <3>1, KeyKept
    <2>. QED BY <2>2, <2>3, <2>4, <2>5
<1>5. CASE isNetworkMessage
    <2>. DEFINE fields == [networkMessageType |-> Octets(offset, 1)]
    <2>1. DOMAIN fields = {"networkMessageType"} /\ fields["networkMessageType"] = Octets(offset, 1)
        OBVIOUS
    <2>2. Advance("done", offset, fields, offset)
        BY <1>5 DEF DecodeType
    <2>. HIDE DEF fields
    <2>3. /\ Safe' /\ HeaderRead'
          /\ at' = "done" /\ frame' = frame
          /\ \A f \in Key \ {"networkMessageType"} : Filled(f)' <=> Filled(f)
        BY <1>4, <2>1, <2>2
    <2>4. ~Filled("serviceChoice")' /\ ~Filled("pduType")'
        BY <1>2, <2>3 DEF Key
    <2>5. RouteRead' /\ StandsWhere'
        BY <2>3, <2>4 DEF RouteRead, StandsWhere, Headers, Late
    <2>6. FoundWhat'
        BY <1>1, <1>3, <1>5, <2>3, <2>4, FrameKept DEF FoundWhat
    <2>. QED BY <2>3, <2>5, <2>6 DEF WalkInv
<1>6. CASE ~isNetworkMessage
    <2>. DEFINE fields == [pduType |-> Octets(offset, 1)]
    <2>1. DOMAIN fields = {"pduType"} /\ fields["pduType"] = Octets(offset, 1)
        OBVIOUS
    <2>2. Advance("apdu", offset, fields, offset)
        BY <1>6 DEF DecodeType
    <2>. HIDE DEF fields
    <2>3. /\ Safe' /\ HeaderRead' /\ (hasDest' <=> hasDest)
          /\ at' = "apdu" /\ offset' = offset /\ frame' = frame
          /\ Filled("dnet") => Filled("dnet")'
          /\ Filled("pduType")' /\ decoded'["pduType"].at = offset
          /\ \A f \in Key \ {"pduType"} : Filled(f)' <=> Filled(f)
        BY <1>4, <2>1, <2>2
    <2>4. ~Filled("serviceChoice")' /\ ~Filled("networkMessageType")'
        BY <1>2, <2>3 DEF Key
    <2>5. RouteRead'
        BY <1>1, <2>3 DEF RouteRead, Headers
    <2>6. StandsWhere'
        BY <1>1, <2>3, <2>4, FrameKept DEF StandsWhere, Headers
    <2>7. FoundWhat'
        BY <1>1, <1>3, <1>6, <2>3, <2>4, FrameKept DEF FoundWhat
    <2>. QED BY <2>3, <2>5, <2>6, <2>7 DEF WalkInv
<1>. QED BY <1>5, <1>6

-----------------------------------------------------------------------------
\* Behind the PDU type the walk fills what belongs to that type.
LEMMA ApduAdvance ==
    ASSUME WalkInv, at = "apdu", NEW next \in {"object", "done"}, NEW off, NEW fields, NEW last,
           Advance(next, off, fields, last), Safe',
           DOMAIN fields \subseteq {"invokeId", "serviceChoice", "reason"},
           pduType = 1 =>
               /\ next = "done" /\ "serviceChoice" \in DOMAIN fields
               /\ fields["serviceChoice"].at = offset + 1 /\ offset + 2 <= frameLength
    PROVE  WalkInv'
<1>1. /\ at \in Late
      /\ Original => offset = Start /\ DestFits /\ SrcFits /\ Filled("pduType")
      /\ hasDest => Filled("dnet")
    BY DEF WalkInv, StandsWhere, RouteRead, Late
<1>2. /\ at' = next /\ frame' = frame /\ (Filled("dnet") => Filled("dnet")')
      /\ pduType = 1 => Filled("serviceChoice")' /\ decoded'["serviceChoice"].at = offset + 1
    BY AdvanceFacts DEF Filled
<1>3. HeaderRead' /\ (hasDest' <=> hasDest)
    BY <1>1, LateKeepsHeader DEF Late
<1>4. /\ \A f \in Key \ {"serviceChoice"} : (Filled(f)' <=> Filled(f)) /\ (Filled(f) => decoded'[f] = decoded[f])
      /\ pduType' = pduType
    <2>1. (Key \ {"serviceChoice"}) \cap DOMAIN fields = {} /\ "pduType" \in Key \ {"serviceChoice"}
        BY DEF Key
    <2>. QED BY <2>1, KeyKept
<1>5. /\ Filled("pduType")' <=> Filled("pduType")
      /\ Filled("networkMessageType")' <=> Filled("networkMessageType")
      /\ Filled("pduType") => decoded'["pduType"] = decoded["pduType"]
    BY <1>4 DEF Key
<1>6. RouteRead'
    BY <1>1, <1>2, <1>3 DEF RouteRead, Headers
<1>7. StandsWhere'
    BY <1>1, <1>2, <1>4, <1>5, FrameKept DEF StandsWhere, Headers
<1>8. FoundWhat'
    BY <1>1, <1>2, <1>4, <1>5, FrameKept DEF WalkInv, FoundWhat
<1>. QED BY <1>3, <1>6, <1>7, <1>8 DEF WalkInv

\* DecodeRequest: the places of the invoke id and the service choice.
LEMMA RequestKeepsWalk ==
    ASSUME WalkInv, at = "apdu", pduType # 1, NEW invokeAt \in Nat, NEW serviceAt \in Nat, NEW withObject,
           DecodeRequest(invokeAt, serviceAt, withObject)
    PROVE  WalkInv'
<1>. DEFINE service == offset + serviceAt
            one == [invokeId |-> Octets(offset + invokeAt, 1)]
            both == [invokeId |-> Octets(offset + invokeAt, 1), serviceChoice |-> Octets(service, 1)]
<1>1. /\ Safe /\ frameLength \in Nat /\ offset \in Nat /\ at \in Late
      /\ Original => Filled("pduType")
    BY OctetFacts DEF WalkInv, StandsWhere, Safe, TypeOK, Late
<1>2. \A i : Octets(i, 1).at = i /\ Octets(i, 1).count = 1
    BY DEF Octets
<1>3. CASE offset + invokeAt >= frameLength
    <2>1. Return
        BY <1>3 DEF DecodeRequest
    <2>. QED BY <1>1, <2>1, ReturnKeepsWalk
<1>4. CASE ~(offset + invokeAt >= frameLength) /\ service >= frameLength
    <2>1. Advance("done", offset, one, offset + invokeAt)
        BY <1>4 DEF DecodeRequest
    <2>2. DOMAIN one = {"invokeId"} /\ one["invokeId"] = Octets(offset + invokeAt, 1)
        OBVIOUS
    <2>3. offset + invokeAt \in Int /\ offset + invokeAt < frameLength
        BY <1>1, <1>4
    <2>. HIDE DEF one
    <2>4. \A f \in DOMAIN one : one[f].at \in Nat /\ one[f].count \in Nat
                                /\ one[f].at + one[f].count <= frameLength
        BY <1>1, <1>2, <2>2, <2>3
    <2>5. Safe'
        BY <1>1, <2>1, <2>3, <2>4, AdvanceKeepsSafe
    <2>6. DOMAIN one \subseteq {"invokeId", "serviceChoice", "reason"}
        BY <2>2
    <2>. QED BY <2>1, <2>5, <2>6, ApduAdvance
<1>5. CASE ~(offset + invokeAt >= frameLength) /\ ~(service >= frameLength)
    <2>1. PICK next \in {"object", "done"} : Advance(next, service + 1, both, service)
        BY <1>5 DEF DecodeRequest
    <2>2. /\ DOMAIN both = {"invokeId", "serviceChoice"} /\ both["invokeId"] = Octets(offset + invokeAt, 1)
          /\ both["serviceChoice"] = Octets(service, 1)
        OBVIOUS
    <2>3. /\ offset + invokeAt \in Nat /\ offset + invokeAt < frameLength
          /\ service \in Nat /\ service < frameLength /\ service + 1 \in Nat /\ service + 1 <= frameLength
          /\ service \in Int
        BY <1>1, <1>5
    <2>. HIDE DEF both, service
    <2>4. \A f \in DOMAIN both : both[f].at \in Nat /\ both[f].count \in Nat
                                 /\ both[f].at + both[f].count <= frameLength
        BY <1>1, <1>2, <2>2, <2>3
    <2>5. next \in Headers \cup Late \cup {"done"} /\ next \notin {"type", "apdu", "property"}
        BY DEF Late
    <2>6. Safe'
        BY <1>1, <2>1, <2>3, <2>4, <2>5, AdvanceKeepsSafe
    <2>7. DOMAIN both \subseteq {"invokeId", "serviceChoice", "reason"}
        BY <2>2
    <2>. QED BY <2>1, <2>6, <2>7, ApduAdvance
<1>. QED BY <1>3, <1>4, <1>5

\* DecodeAnswer.
LEMMA AnswerKeepsWalk ==
    ASSUME WalkInv, at = "apdu", pduType # 1, NEW field \in {"serviceChoice", "reason"}, DecodeAnswer(field)
    PROVE  WalkInv'
<1>. DEFINE both == [f \in {"invokeId", field} |-> Octets(IF f = "invokeId" THEN offset + 1 ELSE offset + 2, 1)]
<1>1. /\ Safe /\ frameLength \in Nat /\ offset \in Nat /\ at \in Late
      /\ Original => Filled("pduType")
    BY OctetFacts DEF WalkInv, StandsWhere, Safe, TypeOK, Late
<1>2. CASE offset + 2 >= frameLength
    <2>1. Return
        BY <1>2 DEF DecodeAnswer
    <2>. QED BY <1>1, <2>1, ReturnKeepsWalk
<1>3. CASE ~(offset + 2 >= frameLength)
    <2>1. Advance("done", offset, both, offset + 2)
        BY <1>3 DEF DecodeAnswer
    <2>2. /\ DOMAIN both \subseteq {"invokeId", "serviceChoice", "reason"}
          /\ \A f \in DOMAIN both : both[f] = Octets(offset + 1, 1) \/ both[f] = Octets(offset + 2, 1)
        OBVIOUS
    <2>3. offset + 2 \in Int /\ offset + 2 < frameLength
        BY <1>1, <1>3
    <2>. HIDE DEF both
    <2>4. \A f \in DOMAIN both : both[f].at \in Nat /\ both[f].count \in Nat
                                 /\ both[f].at + both[f].count <= frameLength
        BY <1>1, <2>2, <2>3 DEF Octets
    <2>5. Safe'
        BY <1>1, <2>1, <2>3, <2>4, AdvanceKeepsSafe
    <2>. QED BY <2>1, <2>2, <2>5, ApduAdvance
<1>. QED BY <1>2, <1>3

\* DecodeApdu.
LEMMA ApduKeepsWalk ==
    ASSUME WalkInv, DecodeApdu
    PROVE  WalkInv'
<1>1. /\ at = "apdu" /\ at \in Late /\ Safe /\ frameLength \in Nat /\ offset \in Nat
      /\ Original => Filled("pduType") /\ offset = Start
    BY OctetFacts DEF DecodeApdu, WalkInv, StandsWhere, Safe, TypeOK, Late
<1>2. CASE pduType = 0
    <2>1. PICK serviceAt \in Nat : DecodeRequest(2, serviceAt, {12, 15})
        <3>1. DecodeRequest(2, IF segmented THEN 5 ELSE 3, {12, 15})
            BY <1>2 DEF DecodeApdu
        <3>2. (IF segmented THEN 5 ELSE 3) \in Nat
            OBVIOUS
        <3>. QED BY <3>1, <3>2
    <2>2. pduType # 1
        BY <1>2
    <2>. QED BY <1>1, <2>1, <2>2, RequestKeepsWalk
<1>3. CASE pduType = 1
    <2>1. CASE offset + 1 >= frameLength
        <3>1. Return
            BY <1>3, <2>1 DEF DecodeApdu
        <3>2. Original => ~(Start + 2 <= frameLength)
            BY <1>1, <2>1
        <3>. QED BY <1>1, <3>1, <3>2, ReturnKeepsWalk
    <2>2. CASE ~(offset + 1 >= frameLength)
        <3>. DEFINE fields == [serviceChoice |-> Octets(offset + 1, 1)]
        <3>1. Advance("done", offset, fields, offset + 1)
            BY <1>3, <2>2 DEF DecodeApdu
        <3>2. DOMAIN fields = {"serviceChoice"} /\ fields["serviceChoice"] = Octets(offset + 1, 1)
            OBVIOUS
        <3>3. offset + 1 \in Int /\ offset + 1 < frameLength /\ offset + 2 <= frameLength
            BY <1>1, <2>2
        <3>4. Octets(offset + 1, 1).at = offset + 1 /\ Octets(offset + 1, 1).count = 1
            BY DEF Octets
        <3>. HIDE DEF fields
        <3>5. \A f \in DOMAIN fields : fields[f].at \in Nat /\ fields[f].count \in Nat
                                       /\ fields[f].at + fields[f].count <= frameLength
            BY <1>1, <3>2, <3>3, <3>4
        <3>6. Safe'
            BY <1>1, <3>1, <3>3, <3>5, AdvanceKeepsSafe
        <3>7. DOMAIN fields \subseteq {"invokeId", "serviceChoice", "reason"} /\ "serviceChoice" \in DOMAIN fields
              /\ fields["serviceChoice"].at = offset + 1
            BY <3>2, <3>4
        <3>. QED BY <1>1, <3>1, <3>3, <3>6, <3>7, ApduAdvance
    <2>. QED BY <2>1, <2>2
<1>4. CASE pduType = 3
    <2>1. PICK serviceAt \in Nat : DecodeRequest(1, serviceAt, {12})
        <3>1. DecodeRequest(1, IF segmented THEN 4 ELSE 2, {12})
            BY <1>4 DEF DecodeApdu
        <3>2. (IF segmented THEN 4 ELSE 2) \in Nat
            OBVIOUS
        <3>. QED BY <3>1, <3>2
    <2>2. pduType # 1
        BY <1>4
    <2>. QED BY <1>1, <2>1, <2>2, RequestKeepsWalk
<1>5. CASE pduType \in {2, 5}
    <2>1. DecodeAnswer("serviceChoice") /\ pduType # 1
        BY <1>5 DEF DecodeApdu
    <2>. QED BY <1>1, <2>1, AnswerKeepsWalk
<1>6. CASE pduType \in {6, 7}
    <2>1. DecodeAnswer("reason") /\ pduType # 1
        BY <1>6 DEF DecodeApdu
    <2>. QED BY <1>1, <2>1, AnswerKeepsWalk
<1>7. CASE pduType \notin {0, 1, 2, 3, 5, 6, 7}
    <2>1. Return /\ pduType # 1
        BY <1>7 DEF DecodeApdu
    <2>. QED BY <1>1, <2>1, ReturnKeepsWalk
<1>. QED BY <1>2, <1>3, <1>4, <1>5, <1>6, <1>7

-----------------------------------------------------------------------------
\* Behind the service choice the walk fills none of the fields the transport reads.
LEMMA ParametersAdvance ==
    ASSUME WalkInv, at \in {"object", "property", "index"}, NEW next \in {"property", "index", "done"},
           NEW off, NEW fields, NEW last, Advance(next, off, fields, last), Safe',
           DOMAIN fields \cap Key = {}
    PROVE  WalkInv'
<1>1. /\ at \in Late
      /\ Original => Filled("pduType") /\ pduType # 1
      /\ hasDest => Filled("dnet")
    BY DEF WalkInv, StandsWhere, RouteRead, Late
<1>2. at' = next /\ frame' = frame /\ (Filled("dnet") => Filled("dnet")')
    BY AdvanceFacts DEF Filled
<1>3. HeaderRead' /\ (hasDest' <=> hasDest)
    BY <1>1, LateKeepsHeader DEF Late, Key
<1>4. /\ \A f \in Key : (Filled(f)' <=> Filled(f)) /\ (Filled(f) => decoded'[f] = decoded[f])
      /\ pduType' = pduType
    <2>1. Key \cap DOMAIN fields = {} /\ "pduType" \in Key
        BY DEF Key
    <2>. QED BY <2>1, KeyKept
<1>5. RouteRead'
    BY <1>1, <1>2, <1>3 DEF RouteRead, Headers
<1>6. StandsWhere'
    BY <1>1, <1>2, <1>4, FrameKept DEF StandsWhere, Headers, Key
<1>7. FoundWhat'
    BY <1>1, <1>2, <1>4, FrameKept DEF WalkInv, FoundWhat, Key
<1>. QED BY <1>3, <1>5, <1>6, <1>7 DEF WalkInv

\* Stopping at a tag that is not the one expected.
LEMMA TagRefused ==
    ASSUME WalkInv, at \in {"object", "property", "index"},
           Advance("done", offset, Nothing, DecodeTagHeader(offset).last)
    PROVE  WalkInv'
<1>1. Safe /\ frame \in Seq(0..255) /\ offset \in Nat
    BY DEF WalkInv, Safe, TypeOK
<1>2. DecodeTagHeader(offset).last \in Int /\ DecodeTagHeader(offset).last < frameLength
    BY <1>1, TagFacts
<1>3. DOMAIN Nothing = {}
    BY DEF Nothing
<1>4. Safe'
    BY <1>1, <1>2, <1>3, AdvanceKeepsSafe, Zenon
<1>5. DOMAIN Nothing \cap Key = {}
    BY <1>3
<1>. QED BY <1>4, <1>5, ParametersAdvance

\* DecodeObject.
LEMMA ObjectKeepsWalk ==
    ASSUME WalkInv, DecodeObject
    PROVE  WalkInv'
<1>. DEFINE tag == DecodeTagHeader(offset)
<1>1. Safe /\ frame \in Seq(0..255) /\ offset \in Nat /\ frameLength \in Nat /\ at = "object"
    BY OctetFacts DEF WalkInv, Safe, TypeOK, DecodeObject
<1>2. tag.ok => tag.end \in Nat /\ tag.length \in Nat
    BY <1>1, TagFacts
<1>3. CASE Fits(tag, 0, 4)
    <2>1. Advance("property", tag.end + 4, Nothing, tag.end + 3)
        BY <1>3 DEF DecodeObject
    <2>. HIDE DEF tag
    <2>2. /\ tag.end + 4 \in Nat /\ tag.end + 4 <= frameLength /\ tag.end + 4 >= 4
          /\ tag.end + 3 \in Int /\ tag.end + 3 < frameLength
        BY <1>1, <1>2, <1>3 DEF Fits
    <2>3. DOMAIN Nothing = {} /\ "property" \in Headers \cup Late \cup {"done"}
        BY DEF Nothing, Late
    <2>4. Safe'
        BY <1>1, <2>1, <2>2, <2>3, AdvanceKeepsSafe
    <2>5. DOMAIN Nothing \cap Key = {}
        BY <2>3
    <2>. QED BY <1>1, <2>1, <2>4, <2>5, ParametersAdvance
<1>4. CASE ~Fits(tag, 0, 4)
    BY <1>1, <1>4, TagRefused DEF DecodeObject
<1>. QED BY <1>3, <1>4

\* DecodeProperty.
LEMMA PropertyKeepsWalk ==
    ASSUME WalkInv, DecodeProperty
    PROVE  WalkInv'
<1>. DEFINE tag == DecodeTagHeader(offset)
            fields == [objectIdentifier |-> Octets(offset - 4, 4), propertyId |-> Octets(tag.end, tag.length)]
<1>1. /\ Safe /\ frame \in Seq(0..255) /\ offset \in Nat /\ frameLength \in Nat /\ at = "property"
      /\ offset >= 4 /\ offset <= frameLength
    BY OctetFacts DEF WalkInv, Safe, TypeOK, Within, DecodeProperty
<1>2. tag.ok => tag.end \in Nat /\ tag.length \in Nat
    BY <1>1, TagFacts
<1>3. CASE Fits(tag, 1, 1)
    <2>1. Advance("index", tag.end + tag.length, fields, tag.end + tag.length - 1)
        BY <1>3 DEF DecodeProperty
    <2>. HIDE DEF tag
    <2>2. /\ tag.end \in Nat /\ tag.length \in Nat
          /\ tag.end + tag.length \in Nat /\ tag.end + tag.length <= frameLength
          /\ tag.end + tag.length - 1 \in Int /\ tag.end + tag.length - 1 < frameLength
        BY <1>1, <1>2, <1>3 DEF Fits
    <2>3. /\ DOMAIN fields = {"objectIdentifier", "propertyId"}
          /\ fields["objectIdentifier"] = Octets(offset - 4, 4)
          /\ fields["propertyId"] = Octets(tag.end, tag.length)
        OBVIOUS
    <2>4. \A i, n : Octets(i, n).at = i /\ Octets(i, n).count = n
        BY DEF Octets
    <2>. HIDE DEF fields
    <2>5. \A f \in DOMAIN fields : fields[f].at \in Nat /\ fields[f].count \in Nat
                                   /\ fields[f].at + fields[f].count <= frameLength
        BY <1>1, <2>2, <2>3, <2>4
    <2>6. "index" \in Headers \cup Late \cup {"done"} /\ DOMAIN fields \cap Key = {}
        BY <2>3 DEF Late, Key
    <2>7. Safe'
        BY <1>1, <2>1, <2>2, <2>5, <2>6, AdvanceKeepsSafe
    <2>. QED BY <1>1, <2>1, <2>6, <2>7, ParametersAdvance
<1>4. CASE ~Fits(tag, 1, 1)
    BY <1>1, <1>4, TagRefused DEF DecodeProperty
<1>. QED BY <1>3, <1>4

\* DecodeIndex.
LEMMA IndexKeepsWalk ==
    ASSUME WalkInv, DecodeIndex
    PROVE  WalkInv'
<1>. DEFINE tag == DecodeTagHeader(offset)
            fields == [arrayIndex |-> Octets(tag.end, tag.length)]
<1>1. Safe /\ frame \in Seq(0..255) /\ offset \in Nat /\ frameLength \in Nat /\ at = "index"
    BY OctetFacts DEF WalkInv, Safe, TypeOK, DecodeIndex
<1>2. tag.ok => tag.end \in Nat /\ tag.length \in Nat
    BY <1>1, TagFacts
<1>3. CASE Fits(tag, 2, 1)
    <2>1. Advance("done", offset, fields, tag.end + tag.length - 1)
        BY <1>3 DEF DecodeIndex
    <2>. HIDE DEF tag
    <2>2. /\ tag.end \in Nat /\ tag.length \in Nat /\ tag.end + tag.length <= frameLength
          /\ tag.end + tag.length - 1 \in Int /\ tag.end + tag.length - 1 < frameLength
        BY <1>1, <1>2, <1>3 DEF Fits
    <2>3. DOMAIN fields = {"arrayIndex"} /\ fields["arrayIndex"] = Octets(tag.end, tag.length)
        OBVIOUS
    <2>4. Octets(tag.end, tag.length).at = tag.end /\ Octets(tag.end, tag.length).count = tag.length
        BY DEF Octets
    <2>. HIDE DEF fields
    <2>5. \A f \in DOMAIN fields : fields[f].at \in Nat /\ fields[f].count \in Nat
                                   /\ fields[f].at + fields[f].count <= frameLength
        BY <1>1, <2>2, <2>3, <2>4
    <2>6. DOMAIN fields \cap Key = {}
        BY <2>3 DEF Key
    <2>7. Safe'
        BY <1>1, <2>1, <2>2, <2>5, AdvanceKeepsSafe
    <2>. QED BY <1>1, <2>1, <2>6, <2>7, ParametersAdvance
<1>4. CASE ~Fits(tag, 2, 1)
    BY <1>1, <1>4, TagRefused DEF DecodeIndex
<1>. QED BY <1>3, <1>4

-----------------------------------------------------------------------------
\* Before the walk nothing is read.
LEMMA InitIsWalk == Init => WalkInv
<1>. SUFFICES ASSUME Init PROVE WalkInv
    OBVIOUS
<1>1. DOMAIN decoded = {} /\ at = "bvlc" /\ offset = 0 /\ lastRead = -1
    BY DEF Init, Nothing
<1>2. frame \in Seq(0..255)
    BY FramesAssumption DEF Init
<1>3. frameLength \in Nat
    BY <1>2, OctetFacts
<1>4. Safe
    BY <1>1, <1>2, <1>3 DEF Safe, TypeOK, Within
<1>5. \A f : ~Filled(f)
    BY <1>1 DEF Filled
<1>. QED BY <1>1, <1>4, <1>5 DEF WalkInv, RouteRead, HeaderRead, StandsWhere, FoundWhat, Headers, Late

\* Every step of the walk keeps what is known of it.
LEMMA NextKeepsWalk == WalkInv /\ [Next]_vars => WalkInv'
<1>. SUFFICES ASSUME WalkInv, [Next]_vars PROVE WalkInv'
    OBVIOUS
<1>1. CASE UNCHANGED vars
    <2>1. /\ frame' = frame /\ at' = at /\ offset' = offset /\ lastRead' = lastRead /\ decoded' = decoded
        BY <1>1 DEF vars
    <2>2. \A f : (Filled(f)' <=> Filled(f)) /\ Value(f)' = Value(f)
        BY <2>1 DEF Filled, Value, Octet, frameLength
    <2>3. (hasDest' <=> hasDest) /\ pduType' = pduType
        BY <2>2 DEF hasDest, pduType, Bit
    <2>4. Safe'
        BY <2>1 DEF WalkInv, Safe, TypeOK, Within, frameLength
    <2>5. RouteRead' /\ HeaderRead'
        BY <2>1, <2>2, <2>3, FrameKept DEF WalkInv, RouteRead, HeaderRead
    <2>6. StandsWhere' /\ FoundWhat'
        BY <2>1, <2>2, <2>3, FrameKept DEF WalkInv, StandsWhere, FoundWhat
    <2>. QED BY <2>4, <2>5, <2>6 DEF WalkInv
<1>2. CASE Next
    BY <1>2, BvlcKeepsWalk, NpduKeepsWalk, DestinationKeepsWalk, SourceKeepsWalk, HopKeepsWalk,
       TypeKeepsWalk, ApduKeepsWalk, ObjectKeepsWalk, PropertyKeepsWalk, IndexKeepsWalk DEF Next
<1>. QED BY <1>1, <1>2

\* Asking for a name or searching for one leaves the decoded frame alone.
LEMMA LogStepWalks == [LogNext]_logVars => [Next]_vars
BY DEF LogNext, Decode, AskForName, Search, logVars

\* The log of a frame keeps the walk's invariant.
LEMMA LogWalks == LogSpec => []WalkInv
<1>1. LogInit => WalkInv
    BY InitIsWalk DEF LogInit
<1>2. WalkInv /\ [LogNext]_logVars => WalkInv'
    BY LogStepWalks, NextKeepsWalk
<1>. QED BY <1>1, <1>2, PTL DEF LogSpec

-----------------------------------------------------------------------------
\* DecodeBacnetFrame reads no octet beyond the frame, and fills no field from one,
\* whatever the frame is.
THEOREM ReadsWithinFrame == LogSpec => []NeverReadsPastFrame
<1>1. WalkInv => NeverReadsPastFrame
    BY DEF WalkInv, Safe, Within, NeverReadsPastFrame
<1>. QED BY <1>1, LogWalks, PTL

\* The XML block states every field the one-line summary does, and the summary only
\* what the frame held.
THEOREM ViewsAgree == LogSpec => []LogStatesTheFrame
<1>1. WalkInv => LogStatesTheFrame
    <2>. SUFFICES ASSUME WalkInv, at = "done"
                  PROVE  /\ Summary \ {"?"} \subseteq XmlBlock
                         /\ Summary \ {"?"} \subseteq
                              DOMAIN decoded \cup (IF isNetworkMessage THEN {"networkMessageType", "dnet"} ELSE {})
        BY DEF LogStatesTheFrame
    <2>1. Filled("pduType") /\ hasDest => Filled("dnet")
        BY DEF WalkInv, RouteRead
    <2>2. RouteSuffix \subseteq {"dnet"} \cup DOMAIN decoded /\ (~hasDest => RouteSuffix = {})
          /\ RouteSuffix = Specifier(hasDest, "dnet", "dadr")
        BY DEF RouteSuffix, Specifier
    <2>3. CASE ~Filled("bvlcFunction")
        <3>1. ~Filled("npduControl")
            BY <2>3 DEF WalkInv, HeaderRead
        <3>. QED BY <2>3, <3>1 DEF Summary
    <2>4. CASE Filled("bvlcFunction") /\ ~Filled("npduControl")
        BY <2>4 DEF Summary, XmlBlock, Filled
    <2>5. CASE Filled("bvlcFunction") /\ Filled("npduControl") /\ isNetworkMessage
        <3>1. Summary = {"networkMessageType"} \cup RouteSuffix
            BY <2>5 DEF Summary
        <3>2. XmlBlock = {"bvlcFunction", "npduVersion", "npduControl"}
                \cup Specifier(hasDest, "dnet", "dadr") \cup Specifier(hasSrc, "snet", "sadr")
                \cup {"networkMessageType"}
            BY <2>5 DEF XmlBlock
        <3>. QED BY <2>2, <2>5, <3>1, <3>2
    <2>6. CASE Filled("bvlcFunction") /\ Filled("npduControl") /\ ~isNetworkMessage /\ ~Filled("pduType")
        BY <2>6 DEF Summary
    <2>7. CASE Filled("bvlcFunction") /\ Filled("npduControl") /\ ~isNetworkMessage /\ Filled("pduType")
        <3>1. Summary = {IF pduType < 8 THEN "pduType" ELSE "?"} \cup RouteSuffix
                \cup (DOMAIN decoded \cap {"serviceChoice", "reason", "objectIdentifier", "propertyId", "arrayIndex"})
            BY <2>7 DEF Summary
        <3>2. XmlBlock = {"bvlcFunction", "npduVersion", "npduControl"}
                \cup Specifier(hasDest, "dnet", "dadr") \cup Specifier(hasSrc, "snet", "sadr")
                \cup (DOMAIN decoded \cap {"pduType", "invokeId", "serviceChoice", "reason",
                                           "objectIdentifier", "propertyId", "arrayIndex"})
            BY <2>7 DEF XmlBlock
        <3>3. RouteSuffix \subseteq DOMAIN decoded
            BY <2>1, <2>2, <2>7 DEF Filled
        <3>. QED BY <2>2, <2>7, <3>1, <3>2, <3>3 DEF Filled
    <2>. QED BY <2>3, <2>4, <2>5, <2>6, <2>7
<1>. QED BY <1>1, LogWalks, PTL

-----------------------------------------------------------------------------
\* Behind the address specifiers.
Behind == {"hop", "type", "apdu", "object", "property", "index"}

\* An address specifier is found by the walk exactly when the transport finds it.
RouteFound ==
    Original =>
        /\ Filled("dnet") => DestFits
        /\ Filled("snet") => SrcFits
        /\ at \in Behind /\ hasSrc => Filled("snet")
        /\ at = "done" /\ frameLength >= 6 /\ DestFits /\ SrcFits =>
             (hasDest => Filled("dnet")) /\ (hasSrc => Filled("snet"))

\* What the walk fills behind the specifiers.
Others == {"networkMessageType", "pduType", "invokeId", "serviceChoice", "reason",
           "objectIdentifier", "propertyId", "arrayIndex"}

\* A step that fills none of the fields in front of it.
Leaves == \E next \in Behind \cup {"done"} : \E off, fields, last :
              DOMAIN fields \subseteq Others /\ Advance(next, off, fields, last)

\* Behind the specifiers every step is such a step.
LEMMA BehindLeaves ==
    ASSUME SkipHopCount \/ DecodeType \/ DecodeApdu \/ DecodeObject \/ DecodeProperty \/ DecodeIndex
    PROVE  at \in Behind /\ Leaves
<1>1. at \in Behind
    BY DEF SkipHopCount, DecodeType, DecodeApdu, DecodeObject, DecodeProperty, DecodeIndex, Behind
<1>2. DOMAIN Nothing \subseteq Others
    BY DEF Nothing
<1>3. ASSUME NEW next \in Behind \cup {"done"}, NEW off, NEW fields, NEW last,
             Advance(next, off, fields, last), DOMAIN fields \subseteq Others
      PROVE  Leaves
    BY <1>3 DEF Leaves
<1>4. "done" \in Behind \cup {"done"} /\ Behind \subseteq Behind \cup {"done"}
    OBVIOUS
<1>5. Return => Leaves
    BY <1>2, <1>3, <1>4 DEF Return
<1>6. CASE SkipHopCount
    BY <1>1, <1>2, <1>3, <1>5, <1>6 DEF SkipHopCount, Behind
<1>7. CASE DecodeType
    <2>. DEFINE message == [networkMessageType |-> Octets(offset, 1)]
                type == [pduType |-> Octets(offset, 1)]
    <2>1. DOMAIN message \subseteq Others /\ DOMAIN type \subseteq Others
        BY DEF Others
    <2>2. Advance("done", offset, message, offset) \/ Advance("apdu", offset, type, offset)
        BY <1>7 DEF DecodeType
    <2>. HIDE DEF message, type
    <2>. QED BY <1>1, <1>3, <2>1, <2>2 DEF Behind
<1>8. ASSUME NEW invokeAt, NEW serviceAt, NEW withObject, DecodeRequest(invokeAt, serviceAt, withObject)
      PROVE  Leaves
    <2>. DEFINE one == [invokeId |-> Octets(offset + invokeAt, 1)]
                both == [invokeId |-> Octets(offset + invokeAt, 1),
                         serviceChoice |-> Octets(offset + serviceAt, 1)]
    <2>1. DOMAIN one \subseteq Others /\ DOMAIN both \subseteq Others
        BY DEF Others
    <2>2. \/ Return
          \/ Advance("done", offset, one, offset + invokeAt)
          \/ Advance("object", offset + serviceAt + 1, both, offset + serviceAt)
          \/ Advance("done", offset + serviceAt + 1, both, offset + serviceAt)
        BY <1>8 DEF DecodeRequest
    <2>. HIDE DEF one, both
    <2>. QED BY <1>3, <1>5, <2>1, <2>2 DEF Behind
<1>9. ASSUME NEW field \in {"serviceChoice", "reason"}, DecodeAnswer(field)
      PROVE  Leaves
    <2>. DEFINE both == [f \in {"invokeId", field} |->
                            Octets(IF f = "invokeId" THEN offset + 1 ELSE offset + 2, 1)]
    <2>1. DOMAIN both \subseteq Others
        BY DEF Others
    <2>2. Return \/ Advance("done", offset, both, offset + 2)
        BY <1>9 DEF DecodeAnswer
    <2>. HIDE DEF both
    <2>. QED BY <1>3, <1>5, <2>1, <2>2
<1>10. CASE DecodeApdu
    <2>. DEFINE choice == [serviceChoice |-> Octets(offset + 1, 1)]
    <2>1. DOMAIN choice \subseteq Others
        BY DEF Others
    <2>2. \/ \E i, n, S : DecodeRequest(i, n, S)
          \/ \E f \in {"serviceChoice", "reason"} : DecodeAnswer(f)
          \/ Return
          \/ Advance("done", offset, choice, offset + 1)
        BY <1>10 DEF DecodeApdu
    <2>. HIDE DEF choice
    <2>. QED BY <1>1, <1>3, <1>5, <1>8, <1>9, <2>1, <2>2
<1>11. CASE DecodeObject \/ DecodeProperty \/ DecodeIndex
    <2>. DEFINE tag == DecodeTagHeader(offset)
                object == [objectIdentifier |-> Octets(offset - 4, 4),
                           propertyId |-> Octets(tag.end, tag.length)]
                index == [arrayIndex |-> Octets(tag.end, tag.length)]
    <2>1. DOMAIN object \subseteq Others /\ DOMAIN index \subseteq Others
        BY DEF Others
    <2>2. \/ \E next \in {"property", "done"} : \E off, last : Advance(next, off, Nothing, last)
          \/ \E off, last : Advance("index", off, object, last)
          \/ \E off, last : Advance("done", off, index, last)
        <3>. HIDE DEF tag
        <3>1. CASE DecodeObject
            BY <3>1 DEF DecodeObject, tag
        <3>2. CASE DecodeProperty
            BY <3>2 DEF DecodeProperty, tag
        <3>3. CASE DecodeIndex
            BY <3>3 DEF DecodeIndex, tag
        <3>. QED BY <1>11, <3>1, <3>2, <3>3
    <2>. HIDE DEF object, index
    <2>. QED BY <1>1, <1>2, <1>3, <2>1, <2>2 DEF Behind
<1>. QED BY <1>1, <1>6, <1>7, <1>10, <1>11

\* A step behind the specifiers leaves them as they were found.
LEMMA LeavesKeepsRoute ==
    ASSUME WalkInv, RouteFound, at \in Behind, Leaves
    PROVE  RouteFound'
<1>1. PICK next, off, fields, last :
          next \in Behind \cup {"done"} /\ DOMAIN fields \subseteq Others /\ Advance(next, off, fields, last)
    BY DEF Leaves
<1>2. at' = next /\ frame' = frame
    BY <1>1, AdvanceFacts
<1>3. (Filled("dnet")' <=> Filled("dnet")) /\ (Filled("snet")' <=> Filled("snet"))
    BY <1>1, ValueKept DEF Others
<1>4. (hasDest' <=> hasDest) /\ (hasSrc' <=> hasSrc)
    <2>1. at \in Late /\ next \in Late \cup {"done"}
        BY <1>1 DEF Behind, Late
    <2>2. /\ "bvlcFunction" \notin DOMAIN fields /\ "npduVersion" \notin DOMAIN fields
          /\ "npduControl" \notin DOMAIN fields
        BY <1>1 DEF Others
    <2>. QED BY <1>1, <2>1, <2>2, LateKeepsHeader
<1>5. hasDest => Filled("dnet")
    BY DEF WalkInv, RouteRead, Behind, Late
<1>6. Original => (hasSrc => Filled("snet"))
    BY DEF RouteFound
<1>. QED BY <1>2, <1>3, <1>4, <1>5, <1>6, FrameKept DEF RouteFound

\* A step that reads a specifier, or what stands in front of it.
LEMMA HeaderKeepsRoute ==
    ASSUME WalkInv, RouteFound, DecodeBvlc \/ DecodeNpdu
    PROVE  RouteFound'
<1>1. frame \in Seq(0..255) /\ frameLength \in Nat
    BY OctetFacts DEF WalkInv, Safe, TypeOK
<1>2. CASE DecodeBvlc
    <2>. DEFINE function == [bvlcFunction |-> Octets(1, 1)]
    <2>1. DOMAIN Nothing = {} /\ DOMAIN function = {"bvlcFunction"}
        BY DEF Nothing
    <2>2. PICK next, off, fields, last :
              /\ next \in {"done", "npdu"} /\ fields \in {Nothing, function} /\ Advance(next, off, fields, last)
              /\ Original => next = "npdu"
        <3>1. CASE Original
            <4>1. Advance("npdu", 4, function, 1)
                BY <1>1, <1>2, <3>1 DEF DecodeBvlc, Original
            <4>. HIDE DEF function
            <4>. QED BY <4>1
        <3>2. CASE ~Original
            <4>1. \/ \E last : Advance("done", 0, Nothing, last)
                  \/ Advance("npdu", 10, function, 1)
                  \/ Advance("done", 0, function, 1)
                BY <1>1, <1>2, <3>2 DEF DecodeBvlc, Original
            <4>. HIDE DEF function
            <4>. QED BY <3>2, <4>1
        <3>. QED BY <3>1, <3>2
    <2>. HIDE DEF function
    <2>3. at' = next /\ frame' = frame
        BY <2>2, AdvanceFacts
    <2>4. "dnet" \notin DOMAIN fields /\ "snet" \notin DOMAIN fields
        BY <2>1, <2>2
    <2>5. (Filled("dnet")' <=> Filled("dnet")) /\ (Filled("snet")' <=> Filled("snet"))
        BY <2>2, <2>4, ValueKept
    <2>. QED BY <2>2, <2>3, <2>5, FrameKept DEF RouteFound, Behind
<1>3. CASE DecodeNpdu
    <2>. DEFINE header == [npduVersion |-> Octets(offset, 1), npduControl |-> Octets(offset + 1, 1)]
    <2>1. DOMAIN Nothing = {} /\ DOMAIN header = {"npduVersion", "npduControl"}
        BY DEF Nothing
    <2>2. Original => offset = 4
        BY <1>3 DEF DecodeNpdu, WalkInv, HeaderRead
    <2>3. PICK next, off, fields, last :
              /\ next \in {"done", "dest"} /\ fields \in {Nothing, header} /\ Advance(next, off, fields, last)
              /\ next = "done" => offset + 2 > frameLength
        BY <1>3 DEF DecodeNpdu, Return
    <2>. HIDE DEF header
    <2>4. at' = next /\ frame' = frame
        BY <2>3, AdvanceFacts
    <2>5. "dnet" \notin DOMAIN fields /\ "snet" \notin DOMAIN fields
        BY <2>1, <2>3
    <2>6. (Filled("dnet")' <=> Filled("dnet")) /\ (Filled("snet")' <=> Filled("snet"))
        BY <2>3, <2>5, ValueKept
    <2>7. Original => (next = "done" => ~(frameLength >= 6))
        BY <1>1, <2>2, <2>3
    <2>. QED BY <2>3, <2>4, <2>6, <2>7, FrameKept DEF RouteFound, Behind
<1>. QED BY <1>2, <1>3

\* A specifier that fits is found; one that does not ends the walk.
LEMMA AddressKeepsRoute ==
    ASSUME WalkInv, RouteFound, DecodeDestination \/ DecodeSource
    PROVE  RouteFound'
<1>1. /\ Safe /\ frame \in Seq(0..255) /\ frameLength \in Nat /\ offset \in Nat
      /\ AfterDest \in Nat
    BY OctetFacts, PlacesAscend DEF WalkInv, Safe, TypeOK
<1>2. hasDest \in BOOLEAN /\ hasSrc \in BOOLEAN
    BY DEF hasDest, hasSrc, Bit
<1>3. DOMAIN Nothing = {}
    BY DEF Nothing
<1>4. ASSUME at \in {"dest", "src"}, NEW next \in {"src", "hop", "done"}, NEW off, NEW fields, NEW last,
             Advance(next, off, fields, last), DOMAIN fields \subseteq {"dnet", "dadr", "snet", "sadr"}
      PROVE  /\ at' = next /\ frame' = frame /\ (hasDest' <=> hasDest) /\ (hasSrc' <=> hasSrc)
             /\ Filled("dnet")' <=> Filled("dnet") \/ "dnet" \in DOMAIN fields
             /\ Filled("snet")' <=> Filled("snet") \/ "snet" \in DOMAIN fields
    <2>1. at \in Late /\ next \in Late \cup {"done"}
        BY <1>4 DEF Late
    <2>2. /\ "bvlcFunction" \notin DOMAIN fields /\ "npduVersion" \notin DOMAIN fields
          /\ "npduControl" \notin DOMAIN fields
        BY <1>4
    <2>3. (hasDest' <=> hasDest) /\ (hasSrc' <=> hasSrc)
        BY <1>4, <2>1, <2>2, LateKeepsHeader
    <2>4. /\ at' = next /\ frame' = frame
          /\ \A f : f \in DOMAIN decoded' <=> f \in DOMAIN decoded \/ f \in DOMAIN fields
        BY <1>4, AdvanceFacts
    <2>. QED BY <2>3, <2>4 DEF Filled
<1>5. CASE DecodeDestination
    <2>1. at = "dest" /\ (Original => offset = 6 /\ Filled("npduControl"))
        BY <1>5 DEF DecodeDestination, DecodeAddress, WalkInv, StandsWhere, HeaderRead, Late
    <2>2. Original => (hasDest <=> Bit(Control, 32)) /\ (hasSrc <=> Bit(Control, 8))
        BY <2>1, ControlFlags
    <2>3. Original /\ hasDest => AfterDest = offset + 3 + Octet(offset + 2)
        <3>1. Original => offset + 2 = 8 /\ offset + 3 = 9
            BY <2>1
        <3>. QED BY <2>2, <3>1 DEF AfterDest
    <2>4. /\ \/ ~hasDest /\ Advance("src", offset, Nothing, lastRead)
             \/ hasDest /\ offset + 3 > frameLength /\ Return
             \/ /\ hasDest /\ offset + 3 <= frameLength
                /\ offset + 3 + Octet(offset + 2) > frameLength
                /\ \E off, fields, last : DOMAIN fields = {"dnet"} /\ Advance("done", off, fields, last)
             \/ /\ hasDest /\ offset + 3 <= frameLength
                /\ \E fields, last : /\ DOMAIN fields = {"dnet", "dadr"}
                                     /\ Advance("src", offset + 3 + Octet(offset + 2), fields, last)
        <3>1. DecodeAddress("dest", "src", hasDest, "dnet", "dadr")
            BY <1>5 DEF DecodeDestination
        <3>2. "src" \in {"src", "hop"} /\ "dnet" # "dadr" /\ "dest" \notin {"npdu", "done"}
            OBVIOUS
        <3>. QED BY <1>1, <1>2, <3>1, <3>2, AddressCases, Zenon
    <2>5. CASE ~hasDest /\ Advance("src", offset, Nothing, lastRead)
        <3>1. /\ at' = "src" /\ frame' = frame
              /\ (Filled("dnet")' <=> Filled("dnet")) /\ (Filled("snet")' <=> Filled("snet"))
            BY <1>3, <1>4, <2>1, <2>5
        <3>. QED BY <3>1, FrameKept DEF RouteFound, Behind
    <2>6. CASE hasDest /\ offset + 3 > frameLength /\ Return
        <3>1. /\ at' = "done" /\ frame' = frame
              /\ (Filled("dnet")' <=> Filled("dnet")) /\ (Filled("snet")' <=> Filled("snet"))
            BY <1>3, <1>4, <2>1, <2>6 DEF Return
        <3>2. Original => ~DestFits
            BY <1>1, <2>1, <2>2, <2>6 DEF DestFits
        <3>. QED BY <3>1, <3>2, FrameKept DEF RouteFound, Behind
    <2>7. CASE /\ hasDest /\ offset + 3 <= frameLength
               /\ offset + 3 + Octet(offset + 2) > frameLength
               /\ \E off, fields, last : DOMAIN fields = {"dnet"} /\ Advance("done", off, fields, last)
        <3>1. PICK off, fields, last : DOMAIN fields = {"dnet"} /\ Advance("done", off, fields, last)
            BY <2>7
        <3>2. /\ at' = "done" /\ frame' = frame /\ (hasSrc' <=> hasSrc)
              /\ Filled("dnet")' /\ (Filled("snet")' <=> Filled("snet"))
            BY <1>4, <2>1, <3>1
        <3>3. Original => DestFits
            BY <1>1, <2>1, <2>7 DEF DestFits
        <3>4. Original => (hasSrc => ~SrcFits)
            BY <1>1, <2>2, <2>3, <2>7 DEF SrcFits
        <3>. QED BY <3>2, <3>3, <3>4, FrameKept DEF RouteFound, Behind
    <2>8. CASE /\ hasDest /\ offset + 3 <= frameLength
               /\ \E fields, last : /\ DOMAIN fields = {"dnet", "dadr"}
                                    /\ Advance("src", offset + 3 + Octet(offset + 2), fields, last)
        <3>1. PICK off, fields, last : DOMAIN fields = {"dnet", "dadr"} /\ Advance("src", off, fields, last)
            BY <2>8
        <3>2. /\ at' = "src" /\ frame' = frame
              /\ Filled("dnet")' /\ (Filled("snet")' <=> Filled("snet"))
            BY <1>4, <2>1, <3>1
        <3>3. Original => DestFits
            BY <1>1, <2>1, <2>8 DEF DestFits
        <3>. QED BY <3>2, <3>3, FrameKept DEF RouteFound, Behind
    <2>. QED BY <2>4, <2>5, <2>6, <2>7, <2>8
<1>6. CASE DecodeSource
    <2>1. /\ at = "src" /\ (Original => offset = AfterDest /\ Filled("npduControl"))
          /\ hasDest => Filled("dnet")
        BY <1>6 DEF DecodeSource, DecodeAddress, WalkInv, StandsWhere, HeaderRead, RouteRead, Late
    <2>2. Original => (hasSrc <=> Bit(Control, 8))
        BY <2>1, ControlFlags
    <2>4. /\ \/ ~hasSrc /\ Advance("hop", offset, Nothing, lastRead)
             \/ hasSrc /\ offset + 3 > frameLength /\ Return
             \/ /\ hasSrc /\ offset + 3 <= frameLength
                /\ offset + 3 + Octet(offset + 2) > frameLength
                /\ \E off, fields, last : DOMAIN fields = {"snet"} /\ Advance("done", off, fields, last)
             \/ /\ hasSrc /\ offset + 3 <= frameLength
                /\ \E fields, last : /\ DOMAIN fields = {"snet", "sadr"}
                                     /\ Advance("hop", offset + 3 + Octet(offset + 2), fields, last)
        <3>1. DecodeAddress("src", "hop", hasSrc, "snet", "sadr")
            BY <1>6 DEF DecodeSource
        <3>2. "hop" \in {"src", "hop"} /\ "snet" # "sadr" /\ "src" \notin {"npdu", "done"}
            OBVIOUS
        <3>. QED BY <1>1, <1>2, <3>1, <3>2, AddressCases, Zenon
    <2>5. CASE ~hasSrc /\ Advance("hop", offset, Nothing, lastRead)
        <3>1. /\ at' = "hop" /\ frame' = frame /\ ~hasSrc'
              /\ (Filled("dnet")' <=> Filled("dnet")) /\ (Filled("snet")' <=> Filled("snet"))
            BY <1>3, <1>4, <2>1, <2>5
        <3>. QED BY <3>1, FrameKept DEF RouteFound, Behind
    <2>6. CASE hasSrc /\ offset + 3 > frameLength /\ Return
        <3>1. /\ at' = "done" /\ frame' = frame
              /\ (Filled("dnet")' <=> Filled("dnet")) /\ (Filled("snet")' <=> Filled("snet"))
            BY <1>3, <1>4, <2>1, <2>6 DEF Return
        <3>2. Original => ~SrcFits
            BY <1>1, <2>1, <2>2, <2>6 DEF SrcFits
        <3>. QED BY <3>1, <3>2, FrameKept DEF RouteFound, Behind
    <2>7. CASE \E next \in {"hop", "done"} : \E off, fields, last :
                  /\ hasSrc /\ offset + 3 <= frameLength /\ "snet" \in DOMAIN fields
                  /\ DOMAIN fields \subseteq {"snet", "sadr"} /\ Advance(next, off, fields, last)
        <3>1. PICK next, off, fields, last :
                  /\ next \in {"hop", "done"} /\ hasSrc /\ offset + 3 <= frameLength /\ "snet" \in DOMAIN fields
                  /\ DOMAIN fields \subseteq {"snet", "sadr"} /\ Advance(next, off, fields, last)
            BY <2>7
        <3>2. /\ at' = next /\ frame' = frame /\ (hasDest' <=> hasDest)
              /\ Filled("snet")' /\ (Filled("dnet")' <=> Filled("dnet"))
            BY <1>4, <2>1, <3>1
        <3>3. Original => SrcFits
            BY <1>1, <2>1, <3>1 DEF SrcFits
        <3>. QED BY <2>1, <3>2, <3>3, FrameKept DEF RouteFound, Behind
    <2>. QED BY <2>4, <2>5, <2>6, <2>7
<1>. QED BY <1>5, <1>6

\* The log of a frame finds its address specifiers where the transport does.
LEMMA LogFindsRoute == LogSpec => []RouteFound
<1>1. LogInit => RouteFound
    <2>1. Init => RouteFound
        BY DEF Init, Nothing, RouteFound, Filled, Behind
    <2>. QED BY <2>1 DEF LogInit
<1>2. WalkInv /\ RouteFound /\ [LogNext]_logVars => RouteFound'
    <2>. SUFFICES ASSUME WalkInv, RouteFound, [Next]_vars PROVE RouteFound'
        BY LogStepWalks
    <2>1. CASE UNCHANGED vars
        <3>1. frame' = frame /\ at' = at /\ decoded' = decoded
            BY <2>1 DEF vars
        <3>2. \A f : (Filled(f)' <=> Filled(f)) /\ Value(f)' = Value(f)
            BY <3>1 DEF Filled, Value, Octet, frameLength
        <3>3. (hasDest' <=> hasDest) /\ (hasSrc' <=> hasSrc)
            BY <3>2 DEF hasDest, hasSrc, Bit
        <3>. QED BY <3>1, <3>2, <3>3, FrameKept DEF RouteFound
    <2>2. CASE Next
        BY <2>2, BehindLeaves, LeavesKeepsRoute, HeaderKeepsRoute, AddressKeepsRoute DEF Next
    <2>. QED BY <2>1, <2>2
<1>. QED BY <1>1, <1>2, LogWalks, PTL DEF LogSpec

\* IsStackChosenBroadcast says yes to exactly the frames DecodeBacnetFrame reads as an
\* Original-NPDU with an I-Am, an I-Have or a network message, less those of another
\* NPDU version and those that end before the network and length of an address.
THEOREM TransportReadsAsLog == LogSpec => []TransportAgreesWithLog
<1>1. WalkInv /\ RouteFound => TransportAgreesWithLog
    <2>. DEFINE announces == /\ pduType = 1 /\ Filled("pduType")
                             /\ Filled("serviceChoice") /\ Value("serviceChoice") \in {0, 1}
                logged == Value("bvlcFunction") \in {10, 11} /\ (isNetworkMessage \/ announces)
                cutOff == (hasDest /\ ~Filled("dnet")) \/ (hasSrc /\ ~Filled("snet"))
                taken == logged /\ Value("npduVersion") = 1 /\ ~cutOff
    <2>. SUFFICES ASSUME WalkInv, RouteFound, at = "done"
                  PROVE  IsStackChosenBroadcast <=> taken
        BY DEF TransportAgreesWithLog
    <2>1. HeaderRead /\ StandsWhere /\ FoundWhat /\ frameLength \in Nat /\ frame \in Seq(0..255)
        BY OctetFacts DEF WalkInv, Safe, TypeOK
    <2>2. IsStackChosenBroadcast <=>
            /\ Original /\ frameLength >= 6 /\ Octet(4) = 1 /\ DestFits /\ SrcFits
            /\ \/ Bit(Control, 128)
               \/ Start + 2 <= frameLength /\ Octet(Start) \div 16 = 1 /\ Octet(Start + 1) \in {0, 1}
        BY <2>1 DEF IsStackChosenBroadcast, Original, Control, AfterDest, AfterSrc, Start, DestFits, SrcFits
    <2>3. Value("bvlcFunction") \in {10, 11} /\ Value("npduVersion") = 1 =>
            Original /\ frameLength >= 6 /\ Octet(4) = 1 /\ Filled("npduControl")
        BY <2>1 DEF HeaderRead, Value, Original
    <2>4. Original /\ frameLength >= 6 => /\ Value("bvlcFunction") \in {10, 11}
                                          /\ Filled("npduControl") /\ Value("npduVersion") = Octet(4)
        BY <2>1 DEF HeaderRead, Value, Original
    <2>5. Original /\ Filled("npduControl") => /\ isNetworkMessage <=> Bit(Control, 128)
                                               /\ hasDest <=> Bit(Control, 32)
                                               /\ hasSrc <=> Bit(Control, 8)
        BY ControlFlags
    <2>6. Original /\ Filled("pduType") => pduType = Octet(Start) \div 16
        BY <2>1 DEF FoundWhat, pduType, Value
    <2>7. Original /\ Filled("pduType") /\ pduType = 1 /\ Filled("serviceChoice") =>
            Value("serviceChoice") = Octet(Start + 1) /\ Start + 2 <= frameLength
        BY <2>1 DEF FoundWhat, Value
    <2>8. Original /\ frameLength >= 6 => (DestFits /\ SrcFits <=> ~cutOff)
        BY <2>4, <2>5 DEF RouteFound, DestFits, SrcFits
    <2>. HIDE DEF cutOff
    <2>9. ASSUME IsStackChosenBroadcast PROVE taken
        <3>1. /\ Value("bvlcFunction") \in {10, 11} /\ Value("npduVersion") = 1 /\ ~cutOff
              /\ Original /\ Filled("npduControl")
            BY <2>2, <2>4, <2>8, <2>9
        <3>2. CASE Bit(Control, 128)
            BY <2>5, <3>1, <3>2
        <3>3. CASE ~Bit(Control, 128)
            <4>1. Filled("pduType") /\ (pduType = 1 => Filled("serviceChoice"))
                BY <2>1, <2>2, <2>9, <3>3 DEF FoundWhat
            <4>. QED BY <2>2, <2>6, <2>7, <2>9, <3>1, <3>3, <4>1
        <3>. QED BY <3>2, <3>3
    <2>10. ASSUME taken PROVE IsStackChosenBroadcast
        <3>1. Original /\ frameLength >= 6 /\ Octet(4) = 1 /\ Filled("npduControl") /\ DestFits /\ SrcFits
            BY <2>3, <2>8, <2>10
        <3>2. CASE isNetworkMessage
            BY <2>2, <2>5, <3>1, <3>2
        <3>3. CASE announces
            BY <2>2, <2>6, <2>7, <3>1, <3>3
        <3>. QED BY <2>10, <3>2, <3>3
    <2>. QED BY <2>9, <2>10
<1>. QED BY <1>1, LogWalks, LogFindsRoute, PTL

-----------------------------------------------------------------------------
(***************************************************************************)
(* The names of the line: the binary search, for every ascending table and *)
(* every number the frame can hold.                                        *)
(***************************************************************************)
\* The search's variables, whatever the number looked up.
InTable ==
    /\ table \in Tables \cup {<<>>} /\ id \in Nat
    /\ lo \in 0..count /\ hi \in 0..count
    /\ result \in {"none", "search", "name", "NULL"}
    /\ row \in Nat /\ (count > 0 => row < count)

\* What the search has ruled out: the rows before lo are smaller, the rows
\* from hi on are larger.
RuledOut ==
    /\ lo <= hi
    /\ \A i \in 1..lo : table[i] < id
    /\ \A i \in (hi + 1)..count : table[i] > id

LookUpInv == InTable /\ RuledOut /\ FindsExactlyTheId

\* The halving of the while loop stays inside the range it halves.
LEMMA MiddleInRange ==
    ASSUME NEW l \in Nat, NEW h \in Nat, l < h
    PROVE  /\ l + (h - l) \div 2 \in Nat
           /\ l <= l + (h - l) \div 2
           /\ l + (h - l) \div 2 < h
  OBVIOUS

\* What the array's declaration gives: a table's rows ascend.
LEMMA RowFacts ==
    ASSUME InTable
    PROVE  /\ count \in Nat
           /\ id \in Nat
           /\ \A i \in 1..count : table[i] \in Nat
           /\ \A i, j \in 1..count : i < j => table[i] < table[j]
  BY NameLookupAssumption DEF InTable, count

\* In the search the row looked at is a row of the table.
LEMMA MiddleRow ==
    ASSUME InTable, lo < hi
    PROVE  /\ mid \in Nat /\ lo <= mid /\ mid < hi
           /\ mid < count /\ mid + 1 \in 1..count
           /\ Row(mid) = table[mid + 1]
  <1>1. lo \in Nat /\ hi \in Nat /\ hi <= count /\ count \in Nat
    BY RowFacts DEF InTable
  <1>2. mid \in Nat /\ lo <= mid /\ mid < hi
    BY <1>1, MiddleInRange DEF mid
  <1> QED
    BY <1>1, <1>2 DEF Row

\* At the start nothing is ruled out.
LEMMA LookUpInitIsInv == LookUpInit => LookUpInv
  <1> SUFFICES ASSUME LookUpInit PROVE LookUpInv
    OBVIOUS
  <1>1. table = <<>> /\ count = 0
    BY DEF LookUpInit, count
  <1>2. InTable
    BY <1>1 DEF LookUpInit, InTable
  <1>3. RuledOut
    BY <1>1 DEF LookUpInit, RuledOut
  <1>4. FindsExactlyTheId
    BY DEF LookUpInit, FindsExactlyTheId
  <1> QED
    BY <1>2, <1>3, <1>4 DEF LookUpInv

\* Every turn of the loop keeps what was ruled out.
LEMMA LookUpStepKeepsInv ==
    ASSUME LookUpInv,
           Turn \/ (\E t \in Tables, i \in Nat : LookUpIdName(t, i)) \/ UNCHANGED lookUp
    PROVE  LookUpInv'
  <1> USE DEF LookUpInv
  <1>0. lo \in Nat /\ hi \in Nat /\ count \in Nat /\ id \in Nat /\ hi <= count
    BY RowFacts DEF InTable
  <1>1. CASE Found
    <2>1. mid < count /\ mid \in Nat /\ Row(mid) = id /\ count' = count
      BY <1>1, MiddleRow DEF Found, count
    <2>2. InTable'
      BY <1>0, <1>1, <2>1 DEF Found, InTable
    <2>3. RuledOut'
      BY <1>1, <2>1 DEF Found, RuledOut
    <2>4. FindsExactlyTheId'
      BY <1>1, <2>1 DEF Found, FindsExactlyTheId, Row
    <2> QED
      BY <2>2, <2>3, <2>4
  <1>2. CASE GoRight
    <2>1. /\ mid \in Nat /\ lo <= mid /\ mid < hi /\ mid + 1 \in 1..count
          /\ table[mid + 1] < id /\ count' = count
      BY <1>2, MiddleRow DEF GoRight, count
    <2>2. InTable'
      BY <1>0, <1>2, <2>1 DEF GoRight, InTable
    <2>3. \A i \in 1..(mid + 1) : table[i] < id
      <3>1. TAKE i \in 1..(mid + 1)
      <3>2. i = mid + 1 \/ table[i] < table[mid + 1]
        BY <1>0, <2>1, <3>1, RowFacts
      <3>3. table[i] \in Nat /\ table[mid + 1] \in Nat
        BY <1>0, <2>1, <3>1, RowFacts
      <3> QED
        BY <1>0, <2>1, <3>2, <3>3
    <2>4. RuledOut'
      BY <1>0, <1>2, <2>1, <2>3 DEF GoRight, RuledOut
    <2>5. FindsExactlyTheId'
      BY <1>2 DEF GoRight, FindsExactlyTheId
    <2> QED
      BY <2>2, <2>4, <2>5
  <1>3. CASE GoLeft
    <2>1. /\ mid \in Nat /\ lo <= mid /\ mid < hi /\ mid + 1 \in 1..count
          /\ table[mid + 1] > id /\ count' = count
      BY <1>3, MiddleRow DEF GoLeft, count
    <2>2. InTable'
      BY <1>0, <1>3, <2>1 DEF GoLeft, InTable
    <2>3. \A i \in (mid + 1)..count : table[i] > id
      <3>1. TAKE i \in (mid + 1)..count
      <3>2. i = mid + 1 \/ table[mid + 1] < table[i]
        BY <1>0, <2>1, <3>1, RowFacts
      <3>3. table[i] \in Nat /\ table[mid + 1] \in Nat
        BY <1>0, <2>1, <3>1, RowFacts
      <3> QED
        BY <1>0, <2>1, <3>2, <3>3
    <2>4. RuledOut'
      BY <1>0, <1>3, <2>1, <2>3 DEF GoLeft, RuledOut
    <2>5. FindsExactlyTheId'
      BY <1>3 DEF GoLeft, FindsExactlyTheId
    <2> QED
      BY <2>2, <2>4, <2>5
  <1>4. CASE NotFound
    <2>1. lo = hi /\ count' = count
      BY <1>0, <1>4 DEF NotFound, RuledOut, count
    <2>2. InTable' /\ RuledOut'
      BY <1>4, <2>1 DEF NotFound, InTable, RuledOut
    <2>3. \A i \in 1..count : table[i] # id
      <3>1. TAKE i \in 1..count
      <3>2. table[i] \in Nat
        BY <3>1, RowFacts
      <3>3. i \in 1..lo \/ i \in (hi + 1)..count
        BY <1>0, <2>1, <3>1
      <3> QED
        BY <1>0, <3>2, <3>3 DEF RuledOut
    <2>4. FindsExactlyTheId'
      BY <1>4, <2>1, <2>3 DEF NotFound, FindsExactlyTheId
    <2> QED
      BY <2>2, <2>4
  <1>5. CASE \E t \in Tables, i \in Nat : LookUpIdName(t, i)
    <2>1. PICK t \in Tables, i \in Nat : LookUpIdName(t, i)
      BY <1>5
    <2>2. t \in Seq(Nat) /\ Len(t) \in Nat /\ count' = Len(t)
      BY <2>1, NameLookupAssumption DEF LookUpIdName, count
    <2>3. InTable'
      BY <2>1, <2>2 DEF LookUpIdName, InTable
    <2>4. RuledOut'
      BY <2>1, <2>2 DEF LookUpIdName, RuledOut
    <2>5. FindsExactlyTheId'
      BY <2>1 DEF LookUpIdName, FindsExactlyTheId
    <2> QED
      BY <2>3, <2>4, <2>5
  <1>6. CASE UNCHANGED lookUp
    BY <1>6 DEF lookUp, InTable, RuledOut, FindsExactlyTheId, count, Row
  <1> QED
    BY <1>1, <1>2, <1>3, <1>4, <1>5, <1>6 DEF Turn

\* The search answers for exactly the id it was asked for, whatever the table.
THEOREM LookUpIsRight == LookUpSpec => []FindsExactlyTheId
  <1>1. LookUpInv => FindsExactlyTheId
    BY DEF LookUpInv
  <1>2. LookUpInv /\ [LookUpNext]_lookUp => LookUpInv'
    BY LookUpStepKeepsInv, NameLookupAssumption DEF LookUpNext
  <1> QED
    BY <1>1, <1>2, LookUpInitIsInv, PTL DEF LookUpSpec

\* No read leaves the table.
THEOREM LookUpTypeCorrect == LookUpSpec => []RowsAreInTable
  <1> DEFINE Asked == id \in Ids \cup {0}
  <1>1. LookUpInv /\ [LookUpNext]_lookUp => LookUpInv'
    BY LookUpStepKeepsInv, NameLookupAssumption DEF LookUpNext
  <1>2. LookUpInit => Asked
    BY DEF LookUpInit
  <1>3. Asked /\ [LookUpNext]_lookUp => Asked'
    BY DEF LookUpNext, LookUpIdName, Turn, Found, GoRight, GoLeft, NotFound, lookUp
  <1>4. LookUpInv /\ Asked => RowsAreInTable
    BY DEF LookUpInv, InTable, RowsAreInTable
  <1> QED
    BY <1>1, <1>2, <1>3, <1>4, LookUpInitIsInv, PTL DEF LookUpSpec

-----------------------------------------------------------------------------
\* Induction over the naturals, stated for a set.
LEMMA NatSetInduction ==
    ASSUME NEW S, 0 \in S, \A n \in Nat : n \in S => n + 1 \in S
    PROVE  Nat \subseteq S
<1>1. SUFFICES ASSUME Nat \ S # {} PROVE FALSE
    OBVIOUS
<1>. DEFINE T == Nat \ S
<1>2. PICK m \in T : \A y \in T : ~(<<y, m>> \in OpToRel(<, Nat))
    <2>1. T \subseteq Nat /\ T # {}
        BY <1>1
    <2>. HIDE DEF T
    <2>. QED BY <2>1, NatLessThanWellFounded, WFMin
<1>3. m \in Nat /\ m # 0 /\ m \notin S
    OBVIOUS
<1>4. m - 1 \in Nat /\ m - 1 < m /\ (m - 1) + 1 = m
    BY <1>3
<1>5. m - 1 \notin S
    BY <1>3, <1>4
<1>6. <<m - 1, m>> \in OpToRel(<, Nat)
    BY <1>3, <1>4 DEF OpToRel
<1>. QED BY <1>2, <1>4, <1>5, <1>6

\* One turn of the loop that puts octets together, the turns before it being g.
OctetStep(g, octets, k) == IF k = 0 THEN 0 ELSE g[k - 1] * 256 + Octet(octets.at + k - 1)

\* The loop has a result after every number of turns, and it is a natural number.
LEMMA UnsignedIsNat ==
    ASSUME frame \in Seq(0..255), NEW octets, octets.at \in Nat, octets.count \in Nat
    PROVE  Unsigned(octets) \in Nat
<1>. DEFINE Loop(g, n) == g = [k \in 0..n |-> OctetStep(g, octets, k)]
            S == {n \in Nat : \E g : Loop(g, n)}
<1>1. 0 \in S
    <2>. DEFINE g == [k \in 0..0 |-> 0]
    <2>1. g = [k \in 0..0 |-> OctetStep(g, octets, k)]
        BY DEF OctetStep
    <2>. HIDE DEF g
    <2>. QED BY <2>1
<1>2. ASSUME NEW n \in Nat, n \in S
      PROVE  n + 1 \in S
    <2>1. PICK g : g = [k \in 0..n |-> OctetStep(g, octets, k)]
        BY <1>2
    <2>. DEFINE h == [k \in 0..(n+1) |-> IF k = n + 1 THEN OctetStep(g, octets, k) ELSE g[k]]
    <2>2. \A k \in 0..(n+1) : OctetStep(h, octets, k) = OctetStep(g, octets, k)
        <3>1. \A k \in 0..n : h[k] = g[k]
            OBVIOUS
        <3>2. \A k \in 1..(n+1) : k - 1 \in 0..n
            OBVIOUS
        <3>. HIDE DEF h
        <3>. QED BY <3>1, <3>2 DEF OctetStep
    <2>3. \A k \in 0..(n+1) : h[k] = OctetStep(g, octets, k)
        BY <2>1
    <2>4. h = [k \in 0..(n+1) |-> h[k]]
        OBVIOUS
    <2>. HIDE DEF h
    <2>5. h = [k \in 0..(n+1) |-> OctetStep(h, octets, k)]
        BY <2>2, <2>3, <2>4
    <2>. QED BY <2>5
<1>. HIDE DEF S
<1>3. octets.count \in S
    BY <1>1, <1>2, NatSetInduction
<1>. DEFINE value == CHOOSE g : Loop(g, octets.count)
<1>4. value = [k \in 0..octets.count |-> OctetStep(value, octets, k)]
    <2>1. \E g : Loop(g, octets.count)
        BY <1>3 DEF S
    <2>. QED BY <2>1
<1>5. Unsigned(octets) = value[octets.count]
    BY DEF Unsigned, OctetStep
<1>. HIDE DEF value
<1>. DEFINE T == {k \in Nat : k <= octets.count => value[k] \in Nat}
<1>6. 0 \in T
    BY <1>4 DEF OctetStep
<1>7. ASSUME NEW k \in Nat, k \in T
      PROVE  k + 1 \in T
    <2>. SUFFICES ASSUME k + 1 <= octets.count PROVE value[k + 1] \in Nat
        OBVIOUS
    <2>1. value[k] \in Nat /\ (k + 1) - 1 = k /\ k + 1 # 0 /\ k + 1 \in 0..octets.count
        BY <1>7
    <2>2. octets.at + (k + 1) - 1 \in Nat
        OBVIOUS
    <2>3. Octet(octets.at + (k + 1) - 1) \in Nat
        BY <2>2, OctetFacts
    <2>4. value[k + 1] = value[k] * 256 + Octet(octets.at + (k + 1) - 1)
        BY <1>4, <2>1 DEF OctetStep
    <2>. QED BY <2>1, <2>3, <2>4
<1>. HIDE DEF T
<1>8. octets.count \in T
    BY <1>6, <1>7, NatSetInduction
<1>. QED BY <1>5, <1>8 DEF T

\* An object identifier's type is a natural number.
LEMMA ObjectTypeIsNat ==
    ASSUME frame \in Seq(0..255), NEW octets, octets.at \in Nat
    PROVE  ObjectType(octets) \in Nat
<1>1. Octet(octets.at) \in Nat
    BY OctetFacts
<1>2. Octet(octets.at + 1) \in Nat
    <2>1. octets.at + 1 \in Nat
        OBVIOUS
    <2>. QED BY <2>1, OctetFacts
<1>. QED BY <1>1, <1>2 DEF ObjectType

\* DecodeObjectAndProperty fills object and property together.
Paired == Filled("propertyId") => Filled("objectIdentifier")

\* No other step fills either.
LEMMA PairKept ==
    ASSUME NEW next, NEW off, NEW fields, NEW last, Advance(next, off, fields, last), Paired,
           "propertyId" \in DOMAIN fields => "objectIdentifier" \in DOMAIN fields
    PROVE  Paired'
BY AdvanceFacts DEF Paired, Filled

\* Every step of the walk keeps them paired.
LEMMA NextKeepsPaired ==
    ASSUME Paired, Next
    PROVE  Paired'
<1>1. DOMAIN Nothing = {}
    BY DEF Nothing
<1>2. ASSUME Return PROVE Paired'
    BY <1>1, <1>2, PairKept DEF Return
<1>3. CASE DecodeBvlc
    BY <1>1, <1>3, PairKept DEF DecodeBvlc
<1>4. CASE DecodeNpdu
    BY <1>2, <1>4, PairKept DEF DecodeNpdu
<1>5. CASE DecodeDestination
    BY <1>1, <1>2, <1>5, PairKept DEF DecodeDestination, DecodeAddress
<1>6. CASE DecodeSource
    BY <1>1, <1>2, <1>6, PairKept DEF DecodeSource, DecodeAddress
<1>7. CASE SkipHopCount
    BY <1>1, <1>2, <1>7, PairKept DEF SkipHopCount
<1>8. CASE DecodeType
    BY <1>8, PairKept DEF DecodeType
<1>9. CASE DecodeApdu
    <2>1. ASSUME NEW i, NEW s, NEW w, DecodeRequest(i, s, w) PROVE Paired'
        BY <1>2, <2>1, PairKept DEF DecodeRequest
    <2>2. ASSUME NEW f \in {"serviceChoice", "reason"}, DecodeAnswer(f) PROVE Paired'
        BY <1>2, <2>2, PairKept DEF DecodeAnswer
    <2>3. CASE pduType = 0
        BY <1>9, <2>1, <2>3 DEF DecodeApdu
    <2>4. CASE pduType = 1
        BY <1>2, <1>9, <2>4, PairKept DEF DecodeApdu
    <2>5. CASE pduType = 3
        BY <1>9, <2>1, <2>5 DEF DecodeApdu
    <2>6. CASE pduType \in {2, 5}
        BY <1>9, <2>2, <2>6 DEF DecodeApdu
    <2>7. CASE pduType \in {6, 7}
        BY <1>9, <2>2, <2>7 DEF DecodeApdu
    <2>8. CASE pduType \notin {0, 1, 2, 3, 5, 6, 7}
        BY <1>2, <1>9, <2>8 DEF DecodeApdu
    <2>. QED BY <2>3, <2>4, <2>5, <2>6, <2>7, <2>8
<1>10. CASE DecodeObject
    BY <1>1, <1>10, PairKept DEF DecodeObject
<1>11. CASE DecodeProperty
    BY <1>1, <1>11, PairKept DEF DecodeProperty
<1>12. CASE DecodeIndex
    BY <1>1, <1>12, PairKept DEF DecodeIndex
<1>. QED BY <1>3, <1>4, <1>5, <1>6, <1>7, <1>8, <1>9, <1>10, <1>11, <1>12 DEF Next

LogInv == WalkInv /\ Paired /\ LookUpInv /\ named \in Nat

\* What is looked up is a number the frame holds.
LEMMA AskedIsNat ==
    ASSUME LogInv, named < Len(ToName)
    PROVE  ToName[named + 1] \in Nat
<1>1. CASE Filled("propertyId")
    <2>. DEFINE a == ObjectType(decoded.objectIdentifier)
                b == Unsigned(decoded.propertyId)
    <2>1. /\ frame \in Seq(0..255)
          /\ decoded.objectIdentifier.at \in Nat
          /\ decoded.propertyId.at \in Nat /\ decoded.propertyId.count \in Nat
        BY <1>1 DEF LogInv, Paired, WalkInv, Safe, TypeOK, Within, Filled
    <2>2. a \in Nat /\ b \in Nat
        BY <2>1, UnsignedIsNat, ObjectTypeIsNat
    <2>3. ToName = <<a, b>>
        BY <1>1 DEF ToName
    <2>. HIDE DEF a, b
    <2>4. named \in Nat
        BY DEF LogInv
    <2>5. named + 1 = 1 \/ named + 1 = 2
        BY <2>3, <2>4
    <2>. QED BY <2>2, <2>3, <2>5
<1>2. CASE ~Filled("propertyId")
    BY <1>2 DEF ToName, LogInv
<1>. QED BY <1>1, <1>2

\* The names the log prints are those of the object type and the property in the
\* frame, or NULL where the table has no row for them.
THEOREM LineNamesAreRight == LogSpec => []FindsExactlyTheId
<1>1. LogInit => LogInv
    <2>1. LogInit => Paired
        BY DEF LogInit, Init, Nothing, Paired, Filled
    <2>. QED BY <2>1, InitIsWalk, LookUpInitIsInv DEF LogInit, LogInv
<1>2. LogInv /\ [LogNext]_logVars => LogInv'
    <2>. SUFFICES ASSUME LogInv, [LogNext]_logVars PROVE LogInv'
        OBVIOUS
    <2>1. WalkInv'
        BY LogStepWalks, NextKeepsWalk DEF LogInv
    <2>2. CASE Decode
        <3>1. Paired'
            BY <2>2, NextKeepsPaired DEF LogInv, Decode
        <3>2. LookUpInv' /\ named' \in Nat
            BY <2>2, LookUpStepKeepsInv DEF LogInv, Decode
        <3>. QED BY <2>1, <3>1, <3>2 DEF LogInv
    <2>3. CASE \E t \in Tables : AskForName(t)
        <3>1. PICK t \in Tables : AskForName(t)
            BY <2>3
        <3>2. Paired' /\ named' \in Nat
            BY <3>1 DEF LogInv, AskForName, Paired, Filled, vars
        <3>3. LookUpIdName(t, ToName[named + 1]) /\ ToName[named + 1] \in Nat
            BY <3>1, AskedIsNat DEF AskForName
        <3>4. LookUpInv'
            BY <3>3, LookUpStepKeepsInv DEF LogInv
        <3>. QED BY <2>1, <3>2, <3>4 DEF LogInv
    <2>4. CASE Search
        <3>1. Paired' /\ named' \in Nat
            BY <2>4 DEF LogInv, Search, Paired, Filled, vars
        <3>2. LookUpInv'
            BY <2>4, LookUpStepKeepsInv DEF LogInv, Search
        <3>. QED BY <2>1, <3>1, <3>2 DEF LogInv
    <2>5. CASE UNCHANGED logVars
        <3>1. Paired' /\ named' \in Nat
            BY <2>5 DEF LogInv, Paired, Filled, vars, logVars
        <3>2. LookUpInv'
            BY <2>5, LookUpStepKeepsInv DEF LogInv, logVars
        <3>. QED BY <2>1, <3>1, <3>2 DEF LogInv
    <2>. QED BY <2>2, <2>3, <2>4, <2>5 DEF LogNext
<1>3. LogInv => FindsExactlyTheId
    BY DEF LogInv, LookUpInv
<1>. QED BY <1>1, <1>2, <1>3, PTL DEF LogSpec
=============================================================================
