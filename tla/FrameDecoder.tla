---------------------------- MODULE FrameDecoder ----------------------------
(***************************************************************************)
(* The decoder behind the RX/TX log (common/CASExampleHelper.cpp:          *)
(* DecodeTagHeader, DecodeObjectAndProperty, DecodeBacnetFrame,            *)
(* SummarizeBacnetFrame, PrintFrameAsXml) and the transport's own walk of  *)
(* the same octets, IsStackChosenBroadcast.                                *)
(*                                                                         *)
(* A frame is whatever arrived: the lengths in it need not be true and it  *)
(* may end anywhere.  The walk advances one part of the frame per step.    *)
(* The struct DecodedFrame is the function decoded: a field that was       *)
(* filled is in its domain, mapped to the octets it was filled from.  The  *)
(* three flags that are copied from the control octet are operators.       *)
(***************************************************************************)
EXTENDS Integers, Sequences

CONSTANT Frames  \* the datagrams that arrive

ASSUME FramesAssumption == Frames \subseteq Seq(0..255)

VARIABLES
    frame,     \* const uint8_t* frame, frameLength
    at,        \* the part of the frame the walk has come to
    offset,    \* where that part starts
    decoded,   \* DecodedFrame
    lastRead   \* the highest index read so far (history)

vars == <<frame, at, offset, decoded, lastRead>>

-----------------------------------------------------------------------------
frameLength == Len(frame)

\* frame[i].  An index past the end is an undefined read; lastRead reports it.
Octet(i) == IF i < frameLength THEN frame[i + 1] ELSE 0

Bit(octet, b) == (octet \div b) % 2 = 1
Filled(field) == field \in DOMAIN decoded
Octets(first, count) == [at |-> first, count |-> count]

\* The value of a one-octet field; the constructor's 0 when it was not filled.
Value(field) == IF Filled(field) THEN Octet(decoded[field].at) ELSE 0

hasDest == Bit(Value("npduControl"), 32)
hasSrc == Bit(Value("npduControl"), 8)
isNetworkMessage == Bit(Value("npduControl"), 128)

With(fields) ==
    [f \in DOMAIN decoded \cup DOMAIN fields |->
        IF f \in DOMAIN fields THEN fields[f] ELSE decoded[f]]

\* The walk goes on to the part `next` at `off`, having read up to index `last`.
Advance(next, off, fields, last) ==
    /\ at' = next
    /\ offset' = off
    /\ decoded' = With(fields)
    /\ lastRead' = IF last > lastRead THEN last ELSE lastRead
    /\ UNCHANGED frame

Nothing == [f \in {} |-> Octets(0, 0)]
Return == Advance("done", offset, Nothing, lastRead)

-----------------------------------------------------------------------------
\* BVLC: an NPDU follows an Original-Unicast/Broadcast header, and the six-octet
\* address of a Forwarded-NPDU.
DecodeBvlc ==
    /\ at = "bvlc"
    /\ \/ /\ frameLength < 4 \/ Octet(0) # 129
          /\ Advance("done", 0, Nothing, IF frameLength < 4 THEN -1 ELSE 0)
       \/ /\ frameLength >= 4 /\ Octet(0) = 129
          /\ LET function == [bvlcFunction |-> Octets(1, 1)]
             IN  CASE Octet(1) \in {10, 11} -> Advance("npdu", 4, function, 1)
                   [] Octet(1) = 4 -> Advance("npdu", 10, function, 1)
                   [] OTHER -> Advance("done", 0, function, 1)

DecodeNpdu ==
    /\ at = "npdu"
    /\ IF offset + 2 > frameLength THEN Return
       ELSE Advance("dest", offset + 2,
                    [npduVersion |-> Octets(offset, 1), npduControl |-> Octets(offset + 1, 1)],
                    offset + 1)

\* Destination and source specifier: network, length, and that many octets.
DecodeAddress(part, next, present, net, adr) ==
    /\ at = part
    /\ IF ~present THEN Advance(next, offset, Nothing, lastRead)
       ELSE IF offset + 3 > frameLength THEN Return
       ELSE LET start == offset + 3
                length == Octet(offset + 2)
            IN  IF start + length > frameLength
                THEN Advance("done", start, [f \in {net} |-> Octets(offset, 2)], offset + 2)
                ELSE Advance(next, start + length,
                             [f \in {net, adr} |->
                                 IF f = net THEN Octets(offset, 2) ELSE Octets(start, length)],
                             offset + 2)

DecodeDestination == DecodeAddress("dest", "src", hasDest, "dnet", "dadr")
DecodeSource == DecodeAddress("src", "hop", hasSrc, "snet", "sadr")

\* Mutant: the hop count is there whether or not there is a destination.
AlwaysHopCount ==
    /\ at = "hop"
    /\ IF offset + 1 >= frameLength THEN Return
       ELSE Advance("type", offset + 1, Nothing, lastRead)

\* The hop count is present whenever there is a destination.
SkipHopCount ==
    /\ at = "hop"
    /\ LET next == offset + (IF hasDest THEN 1 ELSE 0)
       IN  IF next >= frameLength THEN Return ELSE Advance("type", next, Nothing, lastRead)

DecodeType ==
    /\ at = "type"
    /\ IF isNetworkMessage
       THEN Advance("done", offset, [networkMessageType |-> Octets(offset, 1)], offset)
       ELSE Advance("apdu", offset, [pduType |-> Octets(offset, 1)], offset)

-----------------------------------------------------------------------------
pduType == Value("pduType") \div 16
segmented == Bit(Value("pduType"), 8)

\* Mutant: the octet after the last one is taken for the service choice.
DecodeRequestOffByOne(invokeAt, serviceAt, withObject) ==
    IF offset + invokeAt >= frameLength THEN Return
    ELSE LET invokeId == Octets(offset + invokeAt, 1)
             service == offset + serviceAt
         IN  IF service > frameLength
             THEN Advance("done", offset, [invokeId |-> invokeId], offset + invokeAt)
             ELSE Advance(IF Octet(service) \in withObject THEN "object" ELSE "done", service + 1,
                          [invokeId |-> invokeId, serviceChoice |-> Octets(service, 1)], service)

\* Confirmed-Request and ComplexACK: invoke id and service choice, and for the
\* services whose parameters begin with an object and a property, those.
DecodeRequest(invokeAt, serviceAt, withObject) ==
    IF offset + invokeAt >= frameLength THEN Return
    ELSE LET invokeId == Octets(offset + invokeAt, 1)
             service == offset + serviceAt
         IN  IF service >= frameLength
             THEN Advance("done", offset, [invokeId |-> invokeId], offset + invokeAt)
             ELSE Advance(IF Octet(service) \in withObject THEN "object" ELSE "done", service + 1,
                          [invokeId |-> invokeId, serviceChoice |-> Octets(service, 1)], service)

\* SimpleACK, Error, Reject and Abort: invoke id and one more octet.
DecodeAnswer(field) ==
    IF offset + 2 >= frameLength THEN Return
    ELSE Advance("done", offset,
                 [f \in {"invokeId", field} |->
                     Octets(IF f = "invokeId" THEN offset + 1 ELSE offset + 2, 1)],
                 offset + 2)

\* ReadProperty = 12, WriteProperty = 15.
DecodeApdu ==
    /\ at = "apdu"
    /\ CASE pduType = 0 -> DecodeRequest(2, IF segmented THEN 5 ELSE 3, {12, 15})
         [] pduType = 1 ->
              IF offset + 1 >= frameLength THEN Return
              ELSE Advance("done", offset, [serviceChoice |-> Octets(offset + 1, 1)], offset + 1)
         [] pduType = 3 -> DecodeRequest(1, IF segmented THEN 4 ELSE 2, {12})
         [] pduType \in {2, 5} -> DecodeAnswer("serviceChoice")
         [] pduType \in {6, 7} -> DecodeAnswer("reason")
         [] OTHER -> Return

-----------------------------------------------------------------------------
\* Four octets as a length; every value from 2^24 up is as good as any other, as
\* all lengths above 4 are refused.
LongLength(i) ==
    IF Octet(i) # 0 THEN 2^24
    ELSE Octet(i + 1) * 65536 + Octet(i + 2) * 256 + Octet(i + 3)

NoTag(last) == [ok |-> FALSE, context |-> FALSE, number |-> 0, length |-> 0, end |-> 0, last |-> last]

\* DecodeTagHeader; end is offset + headerLength, last the highest index it read.
DecodeTagHeader(off) ==
    IF off >= frameLength THEN NoTag(-1)
    ELSE
    LET extended == Octet(off) \div 16 = 15
        pos == IF extended THEN off + 2 ELSE off + 1
        lvt == Octet(off) % 8
        context == Bit(Octet(off), 8)
        Tag(length, end) == [ok |-> TRUE, context |-> context,
                             number |-> IF extended THEN Octet(off + 1) ELSE Octet(off) \div 16,
                             length |-> length, end |-> end, last |-> end - 1]
    IN  IF extended /\ off + 1 >= frameLength THEN NoTag(off)
        ELSE IF lvt <= 4 THEN Tag(lvt, pos)
        ELSE IF lvt > 5 THEN IF context THEN Tag(0, pos) ELSE NoTag(pos - 1)
        ELSE IF pos >= frameLength THEN NoTag(pos - 1)
        ELSE IF Octet(pos) < 254 THEN Tag(Octet(pos), pos + 1)
        ELSE IF Octet(pos) = 254
             THEN IF pos + 3 > frameLength THEN NoTag(pos)
                  ELSE Tag(Octet(pos + 1) * 256 + Octet(pos + 2), pos + 3)
        ELSE IF pos + 5 > frameLength THEN NoTag(pos) ELSE Tag(LongLength(pos + 1), pos + 5)

\* The tag is the one expected and its value lies within the frame.
Fits(tag, number, shortest) ==
    /\ tag.ok /\ tag.context /\ tag.number = number
    /\ tag.length >= shortest /\ tag.length <= 4
    /\ tag.end + tag.length <= frameLength

\* DecodeObjectAndProperty: object identifier, property identifier and perhaps an
\* array index.  Object and property are kept only if both are there.
DecodeObject ==
    /\ at = "object"
    /\ LET tag == DecodeTagHeader(offset)
       IN  IF Fits(tag, 0, 4)
           THEN Advance("property", tag.end + 4, Nothing, tag.end + 3)
           ELSE Advance("done", offset, Nothing, tag.last)

DecodeProperty ==
    /\ at = "property"
    /\ LET tag == DecodeTagHeader(offset)
       IN  IF Fits(tag, 1, 1)
           THEN Advance("index", tag.end + tag.length,
                        [objectIdentifier |-> Octets(offset - 4, 4),
                         propertyId |-> Octets(tag.end, tag.length)],
                        tag.end + tag.length - 1)
           ELSE Advance("done", offset, Nothing, tag.last)

DecodeIndex ==
    /\ at = "index"
    /\ LET tag == DecodeTagHeader(offset)
       IN  IF Fits(tag, 2, 1)
           THEN Advance("done", offset, [arrayIndex |-> Octets(tag.end, tag.length)],
                        tag.end + tag.length - 1)
           ELSE Advance("done", offset, Nothing, tag.last)

Init ==
    /\ frame \in Frames
    /\ at = "bvlc"
    /\ offset = 0
    /\ decoded = Nothing
    /\ lastRead = -1

Next ==
    \/ DecodeBvlc \/ DecodeNpdu \/ DecodeDestination \/ DecodeSource
    \/ SkipHopCount \/ DecodeType \/ DecodeApdu
    \/ DecodeObject \/ DecodeProperty \/ DecodeIndex

-----------------------------------------------------------------------------
\* A network number and, when there is one, the address on it.
Specifier(present, net, adr) ==
    IF ~present THEN {}
    ELSE {net} \cup {f \in {adr} \cap DOMAIN decoded : decoded[f].count > 0}

\* AppendRouteSuffix: what the tail of the one-line summary states.
RouteSuffix == Specifier(hasDest, "dnet", "dadr")

\* SummarizeBacnetFrame: the fields whose value the line states, or "?".
Summary ==
    CASE ~Filled("bvlcFunction") -> {"?"}
      [] Filled("bvlcFunction") /\ ~Filled("npduControl") -> {"bvlcFunction"}
      [] Filled("npduControl") /\ isNetworkMessage -> {"networkMessageType"} \cup RouteSuffix
      [] Filled("npduControl") /\ ~isNetworkMessage /\ ~Filled("pduType") -> {"?"}
      [] OTHER ->
           {IF pduType < 8 THEN "pduType" ELSE "?"} \cup RouteSuffix
           \cup (DOMAIN decoded \cap {"serviceChoice", "reason", "objectIdentifier", "propertyId", "arrayIndex"})

\* Mutant: the block leaves out a destination whose address was cut off.
XmlBlockWhole ==
    IF ~Filled("npduControl") THEN DOMAIN decoded
    ELSE (DOMAIN decoded \ (IF Filled("dadr") THEN {} ELSE {"dnet"}))
         \cup (IF isNetworkMessage THEN {"networkMessageType"} ELSE {})

\* PrintFrameAsXml: the fields the XML block states.
XmlBlock ==
    IF ~Filled("npduControl") THEN DOMAIN decoded
    ELSE {"bvlcFunction", "npduVersion", "npduControl"}
         \cup Specifier(hasDest, "dnet", "dadr") \cup Specifier(hasSrc, "snet", "sadr")
         \cup (IF isNetworkMessage THEN {"networkMessageType"}
               ELSE DOMAIN decoded \cap {"pduType", "invokeId", "serviceChoice", "reason",
                                         "objectIdentifier", "propertyId", "arrayIndex"})

\* IsStackChosenBroadcast: the transport's test for an answer the stack addresses
\* itself, a walk of its own over the same octets.
IsStackChosenBroadcast ==
    /\ frameLength >= 6 /\ Octet(0) = 129
    /\ Octet(1) \in {10, 11}
    /\ Octet(4) = 1
    /\ LET control == Octet(5)
           afterDest == IF Bit(control, 32) THEN 9 + Octet(8) ELSE 6
           afterSrc == IF Bit(control, 8) THEN afterDest + 3 + Octet(afterDest + 2) ELSE afterDest
           i == IF Bit(control, 32) THEN afterSrc + 1 ELSE afterSrc
       IN  /\ Bit(control, 32) => 9 <= frameLength
           /\ Bit(control, 8) => afterDest + 3 <= frameLength
           /\ \/ Bit(control, 128)
              \/ i + 2 <= frameLength /\ Octet(i) \div 16 = 1 /\ Octet(i + 1) \in {0, 1}

-----------------------------------------------------------------------------
(***************************************************************************)
(* Properties.                                                             *)
(***************************************************************************)
\* Every variable has its type; past the headers the walk stands within the frame.
TypeOK ==
    /\ frame \in Seq(0..255)
    /\ at \in {"bvlc", "npdu", "dest", "src", "hop", "type", "apdu", "object", "property", "index", "done"}
    /\ offset \in Nat
    /\ at \notin {"npdu", "done"} => offset <= frameLength
    /\ lastRead \in Int

\* "Never reads past frameLength" (DecodeBacnetFrame, SummarizeBacnetFrame): however
\* wrong the lengths in the frame are and wherever it ends, no octet beyond it is
\* read, neither by the walk nor later through the fields it filled (the XML block
\* prints an address from its pointer and length).
NeverReadsPastFrame ==
    /\ TypeOK
    /\ lastRead < frameLength
    /\ \A f \in DOMAIN decoded : decoded[f].at + decoded[f].count <= frameLength

\* The log and the transport walk the same octets with code of their own.  Of the
\* Original-NPDUs the log calls a network message, an I-Am or an I-Have the transport
\* copies to a peer exactly those with NPDU version 1 that do not end before the network
\* and length of an address the control octet announces; it copies no other frame.  So
\* the two do disagree on frames of another version and on a network message cut off
\* there (the log looks at its control octet alone), and on no others.
TransportAgreesWithLog ==
    at = "done" =>
        LET announces == /\ pduType = 1 /\ Filled("pduType")
                         /\ Filled("serviceChoice") /\ Value("serviceChoice") \in {0, 1}
            logged == Value("bvlcFunction") \in {10, 11} /\ (isNetworkMessage \/ announces)
            cutOff == (hasDest /\ ~Filled("dnet")) \/ (hasSrc /\ ~Filled("snet"))
        IN  IsStackChosenBroadcast <=> logged /\ Value("npduVersion") = 1 /\ ~cutOff

\* "the two views can never disagree with each other about what a frame contains"
\* (DecodedFrame): the XML block states every field the summary does, for a frame
\* that ends anywhere.  Nor does the summary state what the frame did not hold ("degrades
\* to "?" rather than being mis-parsed", CASExampleHelper.h), except for a network message
\* that ends too early, whose type and network read as 0.
LogStatesTheFrame ==
    at = "done" =>
        /\ Summary \ {"?"} \subseteq XmlBlock
        /\ Summary \ {"?"} \subseteq
             DOMAIN decoded \cup (IF isNetworkMessage THEN {"networkMessageType", "dnet"} ELSE {})
=============================================================================
