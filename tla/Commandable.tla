----------------------------- MODULE Commandable -----------------------------
(***************************************************************************)
(* The three commandable outputs (main.cpp, F-OUTPUTS): Analog Output 1    *)
(* (Chartreuse), Binary Output 1 (Fuchsia) and Multi-State Output 1        *)
(* (Indigo).  Their writes come through one callback per datatype, from    *)
(* clients and from the schedule alike, and their reads through the typed  *)
(* getters and GetPropertyBool, from which the stack resolves              *)
(* Present_Value.                                                          *)
(*                                                                         *)
(* The doubles are the naturals that stand for them; 0 is the 0.0 every    *)
(* slot starts with.                                                       *)
(***************************************************************************)
EXTENDS Integers

CONSTANTS
    BACNET_PRIORITY_ARRAY_SIZE,
    MULTI_STATE_OUTPUT_NUMBER_OF_STATES,
    Reals,          \* the values commanded to the Analog Output
    Default,        \* the Analog Output's Relinquish_Default
    WrittenStates,  \* the enumerated and unsigned values clients write
    WrittenPriorities,
    Null

ASSUME CommandableAssumption ==
    /\ BACNET_PRIORITY_ARRAY_SIZE \in Nat \ {0}
    /\ MULTI_STATE_OUTPUT_NUMBER_OF_STATES \in Nat \ {0}
    /\ Reals \subseteq Nat /\ Default \in Nat
    /\ WrittenStates \subseteq Nat
    /\ WrittenPriorities \subseteq Nat
    /\ Null \notin Nat

VARIABLES
    isSet,   \* Commandable::isSet, for each output
    value,   \* Commandable::value
    request  \* what the stack last called a callback for (not kept by the code)

outputs == <<isSet, value>>
vars == <<outputs, request>>

-----------------------------------------------------------------------------
Outputs == {"AO", "BO", "MSO"}
Objects == Outputs \cup {"AI"}
Slots == 1..BACNET_PRIORITY_ARRAY_SIZE

relinquishDefault == [o \in Outputs |-> IF o = "AO" THEN Default ELSE IF o = "BO" THEN 0 ELSE 1]

\* What an output can be commanded to.
Range == [o \in Outputs |->
    IF o = "AO" THEN Reals ELSE IF o = "BO" THEN 0..1 ELSE 1..MULTI_STATE_OUTPUT_NUMBER_OF_STATES]

\* Mutant: a priority that is none of the array's is taken for the highest.
EffectivePriorityHighest(priority) == IF priority \in Slots THEN priority ELSE 1

EffectivePriority(priority) ==
    IF priority \in Slots THEN priority ELSE BACNET_PRIORITY_ARRAY_SIZE

GetCommandable(object) == object \in Outputs

CommandWrite(o, priority, v) ==
    LET p == EffectivePriority(priority)
    IN  /\ isSet' = [isSet EXCEPT ![o][p] = TRUE]
        /\ value' = [value EXCEPT ![o][p] = v]

\* The slot keeps its value.
CommandRelinquish(o, priority) ==
    /\ isSet' = [isSet EXCEPT ![o][EffectivePriority(priority)] = FALSE]
    /\ UNCHANGED value

Decline == UNCHANGED outputs

\* WriteProperty of a REAL, an ENUMERATED, an UNSIGNED and a NULL to the
\* Present_Value of an object; each datatype has its own output.
SetPropertyReal(object, v, priority) ==
    IF GetCommandable(object) /\ object = "AO" THEN CommandWrite(object, priority, v) ELSE Decline

SetPropertyEnumerated(object, v, priority) ==
    IF GetCommandable(object) /\ object = "BO" /\ v <= 1
    THEN CommandWrite(object, priority, v) ELSE Decline

SetPropertyUnsignedInteger(object, v, priority) ==
    IF GetCommandable(object) /\ object = "MSO" /\ v >= 1 /\ v <= MULTI_STATE_OUTPUT_NUMBER_OF_STATES
    THEN CommandWrite(object, priority, v) ELSE Decline

SetPropertyNull(object, priority) ==
    IF GetCommandable(object) THEN CommandRelinquish(object, priority) ELSE Decline

PowerOnIsSet == [o \in Outputs |-> [p \in Slots |-> FALSE]]
PowerOnValue == [o \in Outputs |-> [p \in Slots |-> 0]]

\* A COLDSTART restores the power-on state; a WARMSTART keeps the commands.
ColdStart == isSet' = PowerOnIsSet /\ value' = PowerOnValue
WarmStart == UNCHANGED outputs

Asked(object, datatype, v, priority) ==
    [object |-> object, datatype |-> datatype, value |-> v, priority |-> priority]
Restarted(kind) == Asked("Device", kind, Null, 0)

Init ==
    /\ isSet = PowerOnIsSet /\ value = PowerOnValue
    /\ request = Restarted("PowerOn")

\* The stack calls the callback of the value's datatype, whatever the object is.
WriteReal(object, v, priority) ==
    SetPropertyReal(object, v, priority) /\ request' = Asked(object, "Real", v, priority)
WriteEnumerated(object, v, priority) ==
    SetPropertyEnumerated(object, v, priority) /\ request' = Asked(object, "Enumerated", v, priority)
WriteUnsigned(object, v, priority) ==
    SetPropertyUnsignedInteger(object, v, priority) /\ request' = Asked(object, "Unsigned", v, priority)
WriteNull(object, priority) ==
    SetPropertyNull(object, priority) /\ request' = Asked(object, "Null", Null, priority)

Write(object, priority) ==
    \/ \E v \in Reals : WriteReal(object, v, priority)
    \/ \E v \in WrittenStates : WriteEnumerated(object, v, priority) \/ WriteUnsigned(object, v, priority)
    \/ WriteNull(object, priority)

Next ==
    \/ \E object \in Objects, priority \in WrittenPriorities : Write(object, priority)
    \/ ColdStart /\ request' = Restarted("PowerOn")
    \/ WarmStart /\ request' = Restarted("WarmStart")

Spec == Init /\ [][Next]_vars

-----------------------------------------------------------------------------
(***************************************************************************)
(* Reads.                                                                  *)
(***************************************************************************)
\* ReadPrioritySlot behind GetPropertyReal, GetPropertyEnumerated and
\* GetPropertyUnsignedInteger: the slot's value, or nothing for a null slot.
GetSlot(o, p) == IF isSet[o][p] THEN value[o][p] ELSE Null

\* Mutant: a slot that holds zero is reported null.
SlotIsZero(o, p) == value[o][p] = 0

\* GetPropertyBool of Priority_Array[p]: is the slot null?
SlotIsNull(o, p) == ~isSet[o][p]

\* How the stack resolves Present_Value: it skips the slots GetPropertyBool calls
\* null and reads the first other one; without one it reads Relinquish_Default.
PresentValue(o) ==
    LET commanded == {p \in Slots : ~SlotIsNull(o, p)}
    IN  IF commanded = {} THEN relinquishDefault[o]
        ELSE GetSlot(o, CHOOSE p \in commanded : \A q \in commanded : p <= q)

-----------------------------------------------------------------------------
(***************************************************************************)
(* Properties.                                                             *)
(***************************************************************************)
DatatypeOf == [o \in Outputs |-> IF o = "AO" THEN "Real" ELSE IF o = "BO" THEN "Enumerated" ELSE "Unsigned"]

Promise == INSTANCE PriorityArray WITH
    N <- BACNET_PRIORITY_ARRAY_SIZE,
    Datatype <- DatatypeOf,
    slots <- [o \in Outputs |-> [p \in Slots |-> IF isSet[o][p] THEN value[o][p] ELSE Null]]

\* Every variable has its type: a slot holds a value its output can take, or the 0 it
\* started with.
TypeOK ==
    /\ isSet \in [Outputs -> [Slots -> BOOLEAN]]
    /\ value \in [Outputs -> [Slots -> Nat]]
    /\ \A o \in Outputs, p \in Slots : value[o][p] \in Range[o] \cup {0}
    /\ request \in [object : Objects \cup {"Device"},
                    datatype : {"Real", "Enumerated", "Unsigned", "Null", "PowerOn", "WarmStart"},
                    value : Nat \cup {Null},
                    priority : Nat]

\* The outputs keep what PriorityArray promises of each request: EffectivePriority and
\* the four callbacks change the slot the request names and no other, slot 16 when it
\* names none; they obey every value the output can take and refuse every other one;
\* a relinquished slot holds nothing although its value stays.
ImplementsPriorityArray == Promise!Spec

\* While a priority of an output is commanded, nothing asked at a lower one and nothing
\* asked of another object moves the Present_Value the stack resolves from
\* GetPropertyBool and the typed getters, whatever the slots below hold or held and
\* also when what is commanded is zero; only a COLDSTART ends that without a request.
HigherPriorityHolds ==
    [][\A o \in Outputs, p \in Slots :
         \/ ~isSet[o][p]
         \/ request'.datatype = "PowerOn"
         \/ request'.object = o /\ Promise!NamedPriority(request') <= p
         \/ PresentValue(o)' = PresentValue(o)]_vars

\* Whatever was written, refused, relinquished or reset, an output stands at a value
\* it can take: 0 is what an MSO slot starts with and no state of it.
InRange ==
    \A o \in Outputs : PresentValue(o) \in Range[o] \cup {relinquishDefault[o]}
=============================================================================
