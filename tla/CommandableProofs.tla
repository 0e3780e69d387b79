-------------------------- MODULE CommandableProofs --------------------------
(***************************************************************************)
(* The commandable outputs implement PriorityArray, for every length of    *)
(* the array, every priority and every value written.                      *)
(***************************************************************************)
EXTENDS Commandable, WellFoundedInduction, TLAPS

\* Whatever is commanded is a value of its output: 0 is only ever in a null slot
\* of the Multi-State Output.
CommandedInRange == \A o \in Outputs, p \in Slots : isSet[o][p] => value[o][p] \in Range[o]

\* The slots' part of TypeOK.
SlotsOK ==
    /\ isSet \in [Outputs -> [Slots -> BOOLEAN]]
    /\ value \in [Outputs -> [Slots -> Nat]]
    /\ \A o \in Outputs, p \in Slots : value[o][p] \in Range[o] \cup {0}

\* The request's part of TypeOK.
Requests == [object : Objects \cup {"Device"},
             datatype : {"Real", "Enumerated", "Unsigned", "Null", "PowerOn", "WarmStart"},
             value : Nat \cup {Null},
             priority : Nat]

IInv == SlotsOK /\ CommandedInRange /\ request \in Requests

-----------------------------------------------------------------------------
\* The values an output can take are naturals, and Null is not one.
LEMMA RangeFacts ==
    ASSUME NEW o \in Outputs
    PROVE  /\ Range[o] \subseteq Nat
           /\ relinquishDefault[o] \in Nat
           /\ Null \notin Range[o]
<1>1. Range["AO"] = Reals /\ Range["BO"] = 0..1 /\ Range["MSO"] = 1..MULTI_STATE_OUTPUT_NUMBER_OF_STATES
    BY DEF Range, Outputs
<1>2. Range[o] \subseteq Nat
    <2>1. CASE o = "AO"
        BY <1>1, <2>1, CommandableAssumption
    <2>2. CASE o = "BO"
        BY <1>1, <2>2
    <2>3. CASE o = "MSO"
        BY <1>1, <2>3, CommandableAssumption
    <2>. QED BY <2>1, <2>2, <2>3 DEF Outputs
<1>3. relinquishDefault[o] \in Nat
    BY CommandableAssumption DEF relinquishDefault, Outputs
<1>. QED BY <1>2, <1>3, CommandableAssumption

\* EffectivePriority always names a slot of the array.
LEMMA EffectiveIsSlot == \A priority : EffectivePriority(priority) \in Slots
BY CommandableAssumption DEF EffectivePriority, Slots

\* Of some slots one comes first.
LEMMA FirstSlot ==
    ASSUME NEW S, S \subseteq Slots, S # {}
    PROVE  \E p \in S : \A q \in S : p <= q
<1>1. Slots \subseteq Nat
    BY CommandableAssumption DEF Slots
<1>2. PICK p \in S : \A q \in S : ~(<<q, p>> \in OpToRel(<, Nat))
    BY <1>1, NatLessThanWellFounded, WFMin
<1>3. \A q \in S : p <= q
    <2>. TAKE q \in S
    <2>1. p \in Nat /\ q \in Nat
        BY <1>1
    <2>2. ~(q < p)
        BY <1>2, <2>1 DEF OpToRel
    <2>. QED BY <2>1, <2>2
<1>. QED BY <1>3

-----------------------------------------------------------------------------
\* What the slots are known to hold.
SlotsInv == SlotsOK /\ CommandedInRange

\* Every slot is null at power-on.
LEMMA PowerOnIsGood ==
    ASSUME isSet = PowerOnIsSet, value = PowerOnValue
    PROVE  SlotsInv
BY RangeFacts, Zenon DEF PowerOnIsSet, PowerOnValue, SlotsInv, SlotsOK, CommandedInRange

\* CommandWrite of a value its output can take.
LEMMA WriteKeepsSlots ==
    ASSUME SlotsInv, NEW o \in Outputs, NEW priority, NEW v \in Range[o], CommandWrite(o, priority, v)
    PROVE  SlotsInv'
<1>. DEFINE p == EffectivePriority(priority)
<1>1. p \in Slots /\ v \in Nat
    BY EffectiveIsSlot, RangeFacts
<1>2. isSet' = [isSet EXCEPT ![o][p] = TRUE] /\ value' = [value EXCEPT ![o][p] = v]
    BY DEF CommandWrite
<1>. HIDE DEF p
<1>3. isSet' \in [Outputs -> [Slots -> BOOLEAN]] /\ value' \in [Outputs -> [Slots -> Nat]]
    BY <1>1, <1>2 DEF SlotsInv, SlotsOK
<1>4. \A x \in Outputs, q \in Slots :
         /\ value'[x][q] = IF x = o /\ q = p THEN v ELSE value[x][q]
         /\ ~(x = o /\ q = p) => isSet'[x][q] = isSet[x][q]
    BY <1>1, <1>2 DEF SlotsInv, SlotsOK
<1>5. \A x \in Outputs, q \in Slots : value'[x][q] \in Range[x] \cup {0}
    BY <1>4 DEF SlotsInv, SlotsOK
<1>6. \A x \in Outputs, q \in Slots : isSet'[x][q] => value'[x][q] \in Range[x]
    BY <1>4 DEF SlotsInv, CommandedInRange
<1>. QED BY <1>3, <1>5, <1>6 DEF SlotsInv, SlotsOK, CommandedInRange

\* CommandRelinquish leaves the value behind.
LEMMA RelinquishKeepsSlots ==
    ASSUME SlotsInv, NEW o \in Outputs, NEW priority, CommandRelinquish(o, priority)
    PROVE  SlotsInv'
<1>. DEFINE p == EffectivePriority(priority)
<1>1. p \in Slots
    BY EffectiveIsSlot
<1>2. isSet' = [isSet EXCEPT ![o][p] = FALSE] /\ value' = value
    BY DEF CommandRelinquish
<1>. HIDE DEF p
<1>3. isSet' \in [Outputs -> [Slots -> BOOLEAN]]
    BY <1>1, <1>2 DEF SlotsInv, SlotsOK
<1>4. \A x \in Outputs, q \in Slots : isSet'[x][q] => isSet[x][q]
    BY <1>1, <1>2 DEF SlotsInv, SlotsOK
<1>. QED BY <1>2, <1>3, <1>4 DEF SlotsInv, SlotsOK, CommandedInRange

\* Each callback commands an output of its own datatype with a value of its range if
\* PriorityArray obeys the request, relinquishes if it is a NULL for an output, and
\* declines otherwise.
LEMMA WriteCases ==
    ASSUME NEW object \in Objects, NEW priority \in Nat, Write(object, priority)
    PROVE  /\ request' \in Requests
           /\ request'.object = object /\ request'.priority = priority /\ request'.datatype # "PowerOn"
           /\ \/ /\ object \in Outputs /\ Promise!Obeyed(request') /\ request'.value \in Range[object]
                 /\ CommandWrite(object, priority, request'.value)
              \/ /\ object \in Outputs /\ Promise!Obeyed(request') /\ request'.value = Null
                 /\ CommandRelinquish(object, priority)
              \/ ~Promise!Obeyed(request') /\ UNCHANGED outputs
<1>. USE DEF GetCommandable, Decline, Asked, Requests, Promise!Obeyed
<1>0. /\ Range["AO"] = Reals /\ Range["BO"] = 0..1 /\ Range["MSO"] = 1..MULTI_STATE_OUTPUT_NUMBER_OF_STATES
      /\ DatatypeOf["AO"] = "Real" /\ DatatypeOf["BO"] = "Enumerated" /\ DatatypeOf["MSO"] = "Unsigned"
    BY DEF Range, Outputs, DatatypeOf
<1>1. CASE \E v \in Reals : WriteReal(object, v, priority)
    <2>1. PICK v \in Reals : SetPropertyReal(object, v, priority) /\ request' = Asked(object, "Real", v, priority)
        BY <1>1 DEF WriteReal
    <2>2. v \in Nat
        BY CommandableAssumption
    <2>3. CASE object = "AO"
        BY <1>0, <2>1, <2>2, <2>3 DEF SetPropertyReal, Outputs
    <2>4. CASE object # "AO"
        BY <1>0, <2>1, <2>2, <2>4 DEF SetPropertyReal, Outputs
    <2>. QED BY <2>3, <2>4
<1>2. CASE \E v \in WrittenStates : WriteEnumerated(object, v, priority)
    <2>1. PICK v \in WrittenStates : /\ SetPropertyEnumerated(object, v, priority)
                                     /\ request' = Asked(object, "Enumerated", v, priority)
        BY <1>2 DEF WriteEnumerated
    <2>2. v \in Nat /\ (v <= 1 <=> v \in 0..1)
        BY CommandableAssumption
    <2>3. CASE object = "BO"
        BY <1>0, <2>1, <2>2, <2>3 DEF SetPropertyEnumerated, Outputs
    <2>4. CASE object # "BO"
        BY <1>0, <2>1, <2>2, <2>4 DEF SetPropertyEnumerated, Outputs
    <2>. QED BY <2>3, <2>4
<1>3. CASE \E v \in WrittenStates : WriteUnsigned(object, v, priority)
    <2>1. PICK v \in WrittenStates : /\ SetPropertyUnsignedInteger(object, v, priority)
                                     /\ request' = Asked(object, "Unsigned", v, priority)
        BY <1>3 DEF WriteUnsigned
    <2>2. /\ v \in Nat
          /\ (v >= 1 /\ v <= MULTI_STATE_OUTPUT_NUMBER_OF_STATES) <=> v \in 1..MULTI_STATE_OUTPUT_NUMBER_OF_STATES
        BY CommandableAssumption
    <2>3. CASE object = "MSO"
        BY <1>0, <2>1, <2>2, <2>3 DEF SetPropertyUnsignedInteger, Outputs
    <2>4. CASE object # "MSO"
        BY <1>0, <2>1, <2>2, <2>4 DEF SetPropertyUnsignedInteger, Outputs
    <2>. QED BY <2>3, <2>4
<1>4. CASE WriteNull(object, priority)
    BY <1>0, <1>4 DEF WriteNull, SetPropertyNull, Outputs
<1>. QED BY <1>1, <1>2, <1>3, <1>4 DEF Write

\* The two restarts, seen as requests.
LEMMA RestartedFacts ==
    \A kind \in {"PowerOn", "WarmStart"} :
        /\ Restarted(kind) \in Requests
        /\ Restarted(kind).datatype = kind
        /\ ~Promise!Obeyed(Restarted(kind))
BY DEF Restarted, Asked, Requests, Promise!Obeyed, Outputs

\* Every callback and every restart keeps the invariant.
LEMMA NextIInv == IInv /\ [Next]_vars => IInv'
<1>. SUFFICES ASSUME IInv, [Next]_vars PROVE IInv'
    OBVIOUS
<1>0. SlotsInv
    BY DEF IInv, SlotsInv
<1>1. ASSUME NEW object \in Objects, NEW priority \in WrittenPriorities, Write(object, priority)
      PROVE  SlotsInv' /\ request' \in Requests
    <2>0. priority \in Nat
        BY CommandableAssumption
    <2>1. CASE object \in Outputs /\ request'.value \in Range[object] /\ CommandWrite(object, priority, request'.value)
        BY <1>0, <1>1, <2>0, <2>1, WriteKeepsSlots, WriteCases
    <2>2. CASE object \in Outputs /\ CommandRelinquish(object, priority)
        BY <1>0, <1>1, <2>0, <2>2, RelinquishKeepsSlots, WriteCases
    <2>3. CASE UNCHANGED outputs
        <3>1. SlotsInv'
            BY <1>0, <2>3 DEF outputs, SlotsInv, SlotsOK, CommandedInRange
        <3>. QED BY <1>1, <2>0, <3>1, WriteCases
    <2>. QED BY <1>1, <2>0, <2>1, <2>2, <2>3, WriteCases
<1>2. CASE ColdStart /\ request' = Restarted("PowerOn")
    <2>1. SlotsInv'
        BY <1>2, RangeFacts, Zenon DEF ColdStart, PowerOnIsSet, PowerOnValue, SlotsInv, SlotsOK, CommandedInRange
    <2>. QED BY <1>2, <2>1, RestartedFacts DEF IInv, SlotsInv
<1>3. CASE WarmStart /\ request' = Restarted("WarmStart")
    <2>1. SlotsInv'
        BY <1>0, <1>3 DEF WarmStart, outputs, SlotsInv, SlotsOK, CommandedInRange
    <2>. QED BY <1>3, <2>1, RestartedFacts DEF IInv, SlotsInv
<1>4. CASE UNCHANGED vars
    BY <1>4 DEF vars, outputs, IInv, SlotsOK, CommandedInRange
<1>5. (SlotsInv' /\ request' \in Requests) => IInv'
    BY DEF IInv, SlotsInv
<1>. QED BY <1>1, <1>2, <1>3, <1>4, <1>5 DEF Next

\* So the invariant holds throughout.
LEMMA SpecIInv == Spec => []IInv
<1>1. Init => IInv
    BY PowerOnIsGood, RestartedFacts DEF Init, IInv, SlotsInv
<1>. QED BY <1>1, NextIInv, PTL DEF Spec

-----------------------------------------------------------------------------
\* The slots keep their types: no refused value is ever stored.
THEOREM OutputsTypeCorrect == Spec => []TypeOK
<1>1. IInv => TypeOK
    BY DEF IInv, SlotsOK, Requests, TypeOK
<1>. QED BY <1>1, SpecIInv, PTL

\* An output stands at a value it can take, whatever was written and relinquished.
THEOREM OutputsInRange == Spec => []InRange
<1>1. IInv => InRange
    <2>. SUFFICES ASSUME IInv, NEW o \in Outputs
                  PROVE  PresentValue(o) \in Range[o] \cup {relinquishDefault[o]}
        BY DEF InRange
    <2>. DEFINE commanded == {p \in Slots : ~SlotIsNull(o, p)}
                first == CHOOSE p \in commanded : \A q \in commanded : p <= q
    <2>1. PresentValue(o) = IF commanded = {} THEN relinquishDefault[o] ELSE GetSlot(o, first)
        BY DEF PresentValue
    <2>2. CASE commanded = {}
        BY <2>1, <2>2
    <2>3. CASE commanded # {}
        <3>1. first \in commanded
            <4>1. commanded \subseteq Slots
                OBVIOUS
            <4>. HIDE DEF commanded
            <4>. QED BY <2>3, <4>1, FirstSlot
        <3>2. first \in Slots /\ isSet[o][first]
            BY <3>1 DEF SlotIsNull
        <3>. HIDE DEF first
        <3>3. GetSlot(o, first) \in Range[o]
            BY <3>2 DEF GetSlot, IInv, CommandedInRange
        <3>. QED BY <2>1, <2>3, <3>3
    <2>. QED BY <2>2, <2>3
<1>. QED BY <1>1, SpecIInv, PTL

\* The first commanded slot decides: two arrays of an output that agree in the slots up
\* to one that is commanded give it the same Present_Value.
LEMMA FirstSlotDecides ==
    ASSUME IInv, IInv', NEW o \in Outputs, NEW p \in Slots, isSet[o][p],
           \A q \in Slots : q <= p => isSet'[o][q] = isSet[o][q] /\ value'[o][q] = value[o][q]
    PROVE  PresentValue(o)' = PresentValue(o)
<1>. DEFINE before == {q \in Slots : ~SlotIsNull(o, q)}
            after == {q \in Slots : ~(SlotIsNull(o, q)')}
            First(S) == CHOOSE q \in S : \A x \in S : q <= x
<1>0. \A q \in Slots : q \in Nat
    BY CommandableAssumption DEF Slots
<1>1. /\ PresentValue(o) = IF before = {} THEN relinquishDefault[o]
                           ELSE IF isSet[o][First(before)] THEN value[o][First(before)] ELSE Null
      /\ PresentValue(o)' = IF after = {} THEN relinquishDefault[o]
                            ELSE IF isSet'[o][First(after)] THEN value'[o][First(after)] ELSE Null
    <2>1. PresentValue(o) = IF before = {} THEN relinquishDefault[o] ELSE GetSlot(o, First(before))
        BY DEF PresentValue
    <2>2. PresentValue(o)' = IF after = {} THEN relinquishDefault[o]
                             ELSE IF isSet'[o][First(after)] THEN value'[o][First(after)] ELSE Null
        BY DEF PresentValue, GetSlot
    <2>. HIDE DEF First, before, after
    <2>. QED BY <2>1, <2>2 DEF GetSlot
<1>2. /\ \A q \in Slots : (q \in before <=> isSet[o][q]) /\ (q \in after <=> isSet'[o][q])
      /\ p \in before /\ p \in after
    <2>1. p <= p
        BY <1>0
    <2>. QED BY <2>1 DEF SlotIsNull
<1>3. /\ First(before) \in before /\ \A x \in before : First(before) <= x
      /\ First(after) \in after /\ \A x \in after : First(after) <= x
    <2>1. before \subseteq Slots /\ after \subseteq Slots /\ before # {} /\ after # {}
        BY <1>2
    <2>. HIDE DEF before, after
    <2>. QED BY <2>1, FirstSlot
<1>4. First(before) = First(after) /\ First(before) <= p /\ First(before) \in Slots
    <2>. DEFINE b == First(before)
                a == First(after)
    <2>1. b \in before /\ a \in after /\ b <= p /\ a <= p /\ (\A x \in before : b <= x) /\ (\A x \in after : a <= x)
        BY <1>2, <1>3
    <2>. HIDE DEF a, b
    <2>2. b \in Nat /\ a \in Nat /\ b \in after /\ a \in before
        BY <1>0, <1>2, <2>1
    <2>3. b <= a /\ a <= b
        BY <2>1, <2>2
    <2>4. b = a /\ b <= p /\ b \in Slots
        BY <2>1, <2>2, <2>3
    <2>. QED BY <2>4 DEF a, b
<1>. HIDE DEF First
<1>. QED BY <1>1, <1>2, <1>3, <1>4

\* A callback changes the slot its request names, or none.
LEMMA WriteChangesItsSlot ==
    ASSUME IInv, NEW object \in Objects, NEW priority \in Nat, Write(object, priority),
           NEW o \in Outputs, NEW q \in Slots, ~(request'.object = o /\ Promise!NamedPriority(request') = q)
    PROVE  isSet'[o][q] = isSet[o][q] /\ value'[o][q] = value[o][q]
<1>. DEFINE p == EffectivePriority(priority)
<1>1. p \in Slots /\ Promise!NamedPriority(request') = p /\ request'.object = object
    BY WriteCases, EffectiveIsSlot DEF Promise!NamedPriority, EffectivePriority, Slots, Promise!Priorities
<1>2. CASE object \in Outputs /\ CommandWrite(object, priority, request'.value)
    <2>1. /\ isSet' = [isSet EXCEPT ![object][p] = TRUE]
          /\ value' = [value EXCEPT ![object][p] = request'.value]
        BY <1>2 DEF CommandWrite
    <2>. HIDE DEF p
    <2>. QED BY <1>1, <1>2, <2>1 DEF IInv, SlotsOK
<1>3. CASE object \in Outputs /\ CommandRelinquish(object, priority)
    <2>1. isSet' = [isSet EXCEPT ![object][p] = FALSE] /\ value' = value
        BY <1>3 DEF CommandRelinquish
    <2>. HIDE DEF p
    <2>. QED BY <1>1, <1>3, <2>1 DEF IInv, SlotsOK
<1>4. CASE UNCHANGED outputs
    BY <1>4 DEF outputs
<1>. QED BY <1>2, <1>3, <1>4, WriteCases

\* While a priority is commanded, only what is asked of the same output at that priority
\* or a higher one, or a COLDSTART, moves its Present_Value.
THEOREM OutputsHoldHigherPriority == Spec => HigherPriorityHolds
<1>. DEFINE Holds == \A o \in Outputs, p \in Slots :
                       \/ ~isSet[o][p]
                       \/ request'.datatype = "PowerOn"
                       \/ request'.object = o /\ Promise!NamedPriority(request') <= p
                       \/ PresentValue(o)' = PresentValue(o)
<1>1. ASSUME IInv, IInv', Next PROVE Holds
    <2>. SUFFICES ASSUME NEW o \in Outputs, NEW p \in Slots, isSet[o][p],
                         request'.datatype # "PowerOn",
                         ~(request'.object = o /\ Promise!NamedPriority(request') <= p)
                  PROVE  PresentValue(o)' = PresentValue(o)
        OBVIOUS
    <2>1. \A q \in Slots : q <= p => isSet'[o][q] = isSet[o][q] /\ value'[o][q] = value[o][q]
        <3>. SUFFICES ASSUME NEW q \in Slots, q <= p
                      PROVE  isSet'[o][q] = isSet[o][q] /\ value'[o][q] = value[o][q]
            OBVIOUS
        <3>1. ~(request'.object = o /\ Promise!NamedPriority(request') = q)
            OBVIOUS
        <3>2. CASE \E object \in Objects, priority \in WrittenPriorities : Write(object, priority)
            <4>1. PICK object \in Objects, priority \in Nat : Write(object, priority)
                BY <3>2, CommandableAssumption
            <4>. QED BY <1>1, <3>1, <4>1, WriteChangesItsSlot
        <3>3. CASE WarmStart
            BY <3>3 DEF WarmStart, outputs
        <3>4. ~(request' = Restarted("PowerOn"))
            BY RestartedFacts
        <3>. QED BY <1>1, <3>2, <3>3, <3>4 DEF Next
    <2>. QED BY <1>1, <2>1, FirstSlotDecides
<1>2. IInv /\ IInv' /\ [Next]_vars => [Holds]_vars
    BY <1>1
<1>. HIDE DEF Holds
<1>3. Spec => [][Holds]_vars
    BY <1>2, SpecIInv, PTL DEF Spec
<1>. QED BY <1>3 DEF HigherPriorityHolds, Holds

-----------------------------------------------------------------------------
\* Every step of the callbacks is the step PriorityArray makes of the request.
LEMMA StepRefines ==
    ASSUME IInv, Next
    PROVE  Promise!Next
<1>. DEFINE slots == [o \in Outputs |-> [p \in Slots |-> IF isSet[o][p] THEN value[o][p] ELSE Null]]
<1>1. ASSUME NEW object \in Objects, NEW priority \in Nat, Write(object, priority)
      PROVE  Promise!Next
    <2>. DEFINE p == EffectivePriority(priority)
    <2>1. p \in Slots /\ Promise!NamedPriority(request') = p /\ request'.object = object /\ request'.datatype # "PowerOn"
        BY <1>1, WriteCases, EffectiveIsSlot
           DEF Promise!NamedPriority, EffectivePriority, Slots, Promise!Priorities
    <2>2. CASE /\ object \in Outputs /\ Promise!Obeyed(request') /\ request'.value \in Range[object]
               /\ CommandWrite(object, priority, request'.value)
        <3>1. /\ isSet' = [isSet EXCEPT ![object][p] = TRUE]
              /\ value' = [value EXCEPT ![object][p] = request'.value]
            BY <2>2 DEF CommandWrite
        <3>. HIDE DEF p
        <3>2. slots' = [slots EXCEPT ![object][p] = request'.value]
            BY <2>1, <2>2, <3>1 DEF IInv, SlotsOK
        <3>. HIDE DEF slots
        <3>3. slots' = [slots EXCEPT ![request'.object][Promise!NamedPriority(request')] = request'.value]
            BY <2>1, <3>2
        <3>. QED BY <2>1, <2>2, <3>3 DEF Promise!Next, slots
    <2>3. CASE /\ object \in Outputs /\ Promise!Obeyed(request') /\ request'.value = Null
               /\ CommandRelinquish(object, priority)
        <3>1. isSet' = [isSet EXCEPT ![object][p] = FALSE] /\ value' = value
            BY <2>3 DEF CommandRelinquish
        <3>. HIDE DEF p
        <3>2. slots' = [slots EXCEPT ![object][p] = Null]
            BY <2>1, <2>3, <3>1 DEF IInv, SlotsOK
        <3>. HIDE DEF slots
        <3>3. slots' = [slots EXCEPT ![request'.object][Promise!NamedPriority(request')] = request'.value]
            BY <2>1, <2>3, <3>2
        <3>. QED BY <2>1, <2>3, <3>3 DEF Promise!Next, slots
    <2>4. CASE ~Promise!Obeyed(request') /\ UNCHANGED outputs
        BY <2>1, <2>4 DEF outputs, Promise!Next
    <2>. QED BY <1>1, <2>2, <2>3, <2>4, WriteCases
<1>2. CASE ColdStart /\ request' = Restarted("PowerOn")
    <2>1. slots' = Promise!AllNull
        BY <1>2 DEF ColdStart, PowerOnIsSet, PowerOnValue, Promise!AllNull, Promise!Priorities, Slots
    <2>. QED BY <1>2, <2>1, RestartedFacts DEF Promise!Next
<1>3. CASE WarmStart /\ request' = Restarted("WarmStart")
    <2>1. request'.datatype # "PowerOn" /\ ~Promise!Obeyed(request')
        BY <1>3, RestartedFacts
    <2>. QED BY <1>3, <2>1 DEF WarmStart, outputs, Promise!Next
<1>. QED BY <1>1, <1>2, <1>3, CommandableAssumption DEF Next

\* The outputs implement PriorityArray (safety and all: it promises no more).
THEOREM OutputsImplementPriorityArray == Spec => ImplementsPriorityArray
<1>1. Init => Promise!Init
    BY RestartedFacts
       DEF Init, PowerOnIsSet, PowerOnValue, Promise!Init, Promise!AllNull, Promise!Priorities, Slots
<1>2. IInv /\ [Next]_vars => [Promise!Next]_<<[o \in Outputs |-> [p \in Slots |-> IF isSet[o][p] THEN value[o][p] ELSE Null]], request>>
    BY StepRefines DEF vars, outputs
<1>. QED BY <1>1, <1>2, SpecIInv, PTL DEF Spec, ImplementsPriorityArray, Promise!Spec
=============================================================================
