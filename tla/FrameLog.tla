------------------------------ MODULE FrameLog ------------------------------
(***************************************************************************)
(* One line of the RX/TX log: the frame is decoded (FrameDecoder), then    *)
(* the names of the object type and the property it holds are looked up    *)
(* (NameLookup).                                                           *)
(***************************************************************************)
EXTENDS FrameDecoder, NameLookup

VARIABLE named  \* how many of the line's names have been asked for

logVars == <<vars, lookUp, named>>

-----------------------------------------------------------------------------
\* A big-endian number of one to four octets.
Unsigned(octets) ==
    LET value[k \in 0..octets.count] ==
            IF k = 0 THEN 0 ELSE value[k - 1] * 256 + Octet(octets.at + k - 1)
    IN  value[octets.count]

\* The upper ten bits of an object identifier.
ObjectType(octets) == Octet(octets.at) * 4 + Octet(octets.at + 1) \div 64

\* What the line names: ObjectTypeName and PropertyName are called for a frame with
\* an object and a property.
ToName ==
    IF Filled("propertyId")
    THEN <<ObjectType(decoded.objectIdentifier), Unsigned(decoded.propertyId)>>
    ELSE <<>>

Decode == Next /\ UNCHANGED <<lookUp, named>>

AskForName(t) ==
    /\ at = "done" /\ named < Len(ToName)
    /\ LookUpIdName(t, ToName[named + 1])
    /\ named' = named + 1
    /\ UNCHANGED vars

Search == Turn /\ UNCHANGED <<vars, named>>

Printed == at = "done" /\ named = Len(ToName) /\ result # "search"

LogInit == Init /\ LookUpInit /\ named = 0

LogNext ==
    \/ Decode
    \/ \E t \in Tables : AskForName(t)
    \/ Search
    \/ Printed /\ UNCHANGED logVars

\* Logging a frame is one call without a wait in it.
LogSpec == LogInit /\ [][LogNext]_logVars /\ WF_logVars(LogNext)

-----------------------------------------------------------------------------
\* Whatever lengths the frame states and wherever its ids lie in the tables, both
\* walks come to an end: one frame never holds up the main loop.
EveryFrameIsPrinted == <>Printed
=============================================================================
