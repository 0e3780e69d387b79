---------------------------- MODULE PropertyReads ----------------------------
(***************************************************************************)
(* The program from its first call to the reads it answers: start-up       *)
(* (Startup), and how a ReadProperty is answered once the loop runs.  The  *)
(* stack (external) puts a value together from several calls of the        *)
(* application's callbacks, a length and then the elements of an array, a  *)
(* page at a time of a list, the slots of a priority array in turn, and    *)
(* takes a declined call, or a callback nobody registered, for "no such    *)
(* value".  A read is answered within one BACnetStack_Tick, so the device  *)
(* does not change meanwhile; before it, it may have come to any state.    *)
(***************************************************************************)
EXTENDS Startup

CONSTANTS
    BACNET_PRIORITY_ARRAY_SIZE,
    MULTI_STATE_INPUT_NUMBER_OF_STATES,
    LIFT_NUMBER_OF_DOORS,
    AnalogValues,      \* the instances clients create
    CallLists,         \* what g_liftCar.calls holds
    Slots,             \* the sets of slots in which an output is commanded
    Calls,             \* the landing calls
    NoCall,            \* Landing_Call_Control before any call: floor 0, direction none
    None

\* 16, 3 and 1 in the code, where a list has room for 8 calls.
ASSUME ReadsAssumption ==
    /\ BACNET_PRIORITY_ARRAY_SIZE \in Nat \ {0}
    /\ MULTI_STATE_INPUT_NUMBER_OF_STATES \in Nat
    /\ LIFT_NUMBER_OF_DOORS \in Nat \ {0}
    /\ AnalogValues \cap Named = {}
    /\ CallLists \subseteq Seq(Calls)
    /\ Slots \subseteq SUBSET (1..BACNET_PRIORITY_ARRAY_SIZE)

VARIABLES
    calls, control,              \* g_liftCar.calls, g_lastLandingCallControl
    commanded, created,          \* Commandable::isSet, g_createdAnalogValues
    object, property,            \* what is read
    at,                          \* the kind of call the stack makes next, "none" before the read
    index,                       \* its array index or the element's offset
    length,                      \* the array's length, once known
    answer                       \* the elements so far

device == <<calls, control, commanded, created>>
read == <<object, property, at, index, length, answer>>
vars == <<startup, device, read>>

-----------------------------------------------------------------------------
Type(o) == IF o \in AnalogValues THEN "Analog_Value" ELSE o

Branches ==
    [GetPropertyReal |-> GetPropertyReal, GetPropertyEnumerated |-> GetPropertyEnumerated,
     GetPropertyUnsignedInteger |-> GetPropertyUnsignedInteger, GetPropertyBool |-> GetPropertyBool,
     GetPropertyOctetString |-> GetPropertyOctetString, GetPropertyDate |-> GetPropertyDate,
     GetPropertyTime |-> GetPropertyTime, GetPropertyCharacterString |-> GetPropertyCharString]

\* A callback answers for a pair it has a branch for, within the bounds the branch
\* sets: a null slot and an index out of range are declined.
Answers(callback, i) ==
    /\ <<"Register", callback>> \in done
    /\ <<Type(object), property>> \in Branches[callback]
    /\ object \in AnalogValues => object \in created
    /\ property = "Priority_Array" =>
          i \in 1..BACNET_PRIORITY_ARRAY_SIZE /\ (callback = "GetPropertyBool" \/ i \in commanded[object])
    /\ property = "State_Text" =>
          IF callback = "GetPropertyUnsignedInteger" THEN i = 0 ELSE i \in 1..MULTI_STATE_INPUT_NUMBER_OF_STATES
    /\ property \in PerDoor =>
          IF callback = "GetPropertyUnsignedInteger" THEN i = 0 ELSE i \in 1..LIFT_NUMBER_OF_DOORS

\* The callbacks for the datatypes the stack knows the properties by.
ValueType(type) ==
    CASE type \in {"Analog_Input", "Analog_Output", "Analog_Value"} -> "GetPropertyReal"
      [] type \in {"Binary_Input", "Binary_Output"} -> "GetPropertyEnumerated"
      [] type = "Calendar" -> "GetPropertyBool"
      [] OTHER -> "GetPropertyUnsignedInteger"

Datatypes(type, p) ==
    CASE p \in {"Present_Value", "Priority_Array", "Relinquish_Default"} -> {ValueType(type)}
      [] p = "COV_Increment" -> {"GetPropertyReal"}
      [] p \in {"Units", "Polarity", "BACnet_IP_Mode", "Group_Mode", "Car_Moving_Direction", "Car_Door_Status",
                "Operation_Direction", "Escalator_Mode", "Reliability"} -> {"GetPropertyEnumerated"}
      [] p \in {"Number_Of_States", "Vendor_Identifier", "APDU_Length", "Reference_Port", "BACnet_IP_UDP_Port",
                "Car_Position", "File_Size"} -> {"GetPropertyUnsignedInteger"}
      [] p \in {"Out_Of_Service", "Passenger_Alarm", "Power_Mode", "Archive", "Read_Only"} -> {"GetPropertyBool"}
      [] p \in {"IP_Address", "IP_Subnet_Mask", "IP_Default_Gateway"} -> {"GetPropertyOctetString"}
      [] p = "Local_Date" -> {"GetPropertyDate"}
      [] p = "Local_Time" -> {"GetPropertyTime"}
      [] p = "Modification_Date" -> {"GetPropertyDate", "GetPropertyTime"}
      [] OTHER -> {"GetPropertyCharacterString"}

Typed(i) == \A datatype \in Datatypes(Type(object), property) : Answers(datatype, i)

\* Mutant: an answered call is left in the array behind the list and read with it.
PageReadsStale(p, offset) ==
    CASE p \in {"Landing_Calls", "Assigned_Landing_Calls"} /\ offset <= Len(calls) ->
            [supplied |-> TRUE, element |-> <<IF offset < Len(calls) THEN calls[offset + 1] ELSE NoCall>>, more |-> offset < Len(calls)]
      [] p = "Landing_Call_Control" ->
            [supplied |-> TRUE, element |-> <<IF control = None THEN NoCall ELSE control>>, more |-> FALSE]
      [] p = "Landing_Door_Status" /\ offset = 0 -> [supplied |-> TRUE, element |-> <<"door">>, more |-> FALSE]
      [] p = "Fault_Signals" -> [supplied |-> TRUE, element |-> <<>>, more |-> FALSE]
      [] OTHER -> [supplied |-> FALSE, element |-> <<>>, more |-> FALSE]

\* The paging callbacks: the element at an offset and whether there are more.
\* GetListOfEnumerations returns true and no element.
Page(p, offset) ==
    CASE p \in {"Landing_Calls", "Assigned_Landing_Calls"} /\ offset < Len(calls) ->
            [supplied |-> TRUE, element |-> <<calls[offset + 1]>>, more |-> offset + 1 < Len(calls)]
      [] p = "Landing_Call_Control" ->
            [supplied |-> TRUE, element |-> <<IF control = None THEN NoCall ELSE control>>, more |-> FALSE]
      [] p = "Landing_Door_Status" /\ offset = 0 -> [supplied |-> TRUE, element |-> <<"door">>, more |-> FALSE]
      [] p = "Fault_Signals" -> [supplied |-> TRUE, element |-> <<>>, more |-> FALSE]
      [] OTHER -> [supplied |-> FALSE, element |-> <<>>, more |-> FALSE]

-----------------------------------------------------------------------------
(* The stack's side of a read. *)

Continue(next, i, elements) ==
    /\ at' = next
    /\ index' = i
    /\ answer' = answer \o elements
    /\ UNCHANGED <<startup, device, object, property, length>>

Finish(elements) == Continue("value", index, elements)
Fail == Continue("declined", index, <<>>)

ReadScalar ==
    /\ at = "scalar"
    /\ IF Typed(0) THEN Finish(<<property>>) ELSE Fail

\* An array's length is asked for first; the stack knows that of a priority array.
ReadLength ==
    /\ at = "length"
    /\ IF property = "Priority_Array" \/ Answers("GetPropertyUnsignedInteger", 0)
       THEN /\ length' = (CASE property = "Priority_Array" -> BACNET_PRIORITY_ARRAY_SIZE
                            [] property = "State_Text" -> MULTI_STATE_INPUT_NUMBER_OF_STATES
                            [] OTHER -> LIFT_NUMBER_OF_DOORS)
            /\ at' = "element" /\ index' = 1
            /\ UNCHANGED <<startup, device, object, property, answer>>
       ELSE Fail

\* Each element in turn: a null slot of a priority array, an element of its datatype,
\* or, for a list per door, the first page of the list.
ReadElement ==
    /\ at = "element"
    /\ CASE index > length -> Finish(<<>>)
         [] index <= length /\ <<object, property>> \in GetSequenceLift -> Continue("page", 0, <<>>)
         [] OTHER ->
              IF property = "Priority_Array" /\ Answers("GetPropertyBool", index)
                 /\ index \notin commanded[object]
              THEN Continue("element", index + 1, <<"null">>)
              ELSE IF Typed(index)
                   THEN Continue("element", index + 1, <<property>>) ELSE Fail

\* A list; a list per door is read for the one door there is.
ReadPage ==
    /\ at = "page"
    /\ LET page == Page(property, index)
       IN  CASE page.supplied /\ page.more -> Continue("page", index + 1, page.element)
             [] page.supplied /\ ~page.more -> Finish(page.element)
             [] OTHER -> IF index = 0 THEN Finish(<<>>) ELSE Fail

\* The Present_Value of a commandable object: the first slot that is not null.
ReadSlot ==
    /\ at = "slot"
    /\ property = "Priority_Array"
    /\ IF index > BACNET_PRIORITY_ARRAY_SIZE
       THEN /\ at' = "scalar" /\ property' = "Relinquish_Default" /\ index' = 0
            /\ UNCHANGED <<startup, device, object, length, answer>>
       ELSE IF Answers("GetPropertyBool", index) /\ index \notin commanded[object]
            THEN Continue("slot", index + 1, <<>>)
            ELSE IF Typed(index) THEN Finish(<<index>>) ELSE Fail

Kind(o, p) ==
    CASE p = "Present_Value" /\ o \in Outputs -> "slot"
      [] p \in {"Priority_Array", "State_Text"} \cup PerDoor -> "length"
      [] p \in {"Landing_Calls", "Landing_Call_Control", "Fault_Signals"} -> "page"
      [] OTHER -> "scalar"

\* What docs/objects.json lists as served by the application, and the optional
\* properties enabled at start-up.
Documented ==
    (Named \X {"Object_Name"})
    \cup ({"Analog_Input", "Binary_Input", "Multi_State_Input", "Network_Port", "Lift", "Escalator", "Schedule"}
          \cup Outputs) \X {"Out_Of_Service"}
    \cup (Outputs \X {"Present_Value", "Priority_Array", "Relinquish_Default"})
    \cup ({"Device"} \X {"Description", "Vendor_Name", "Vendor_Identifier", "Model_Name", "Firmware_Revision",
                         "Application_Software_Version", "Local_Date", "Local_Time"})
    \cup ({"Analog_Input"} \X {"Present_Value", "Units", "COV_Increment"})
    \cup ({"Binary_Input"} \X {"Present_Value", "Polarity"})
    \cup ({"Multi_State_Input"} \X {"Present_Value", "Number_Of_States", "State_Text"})
    \cup {<<"Analog_Output", "Units">>, <<"Binary_Output", "Polarity">>, <<"Multi_State_Output", "Number_Of_States">>}
    \cup ({"Network_Port"} \X {"IP_Address", "IP_Subnet_Mask", "IP_Default_Gateway", "APDU_Length",
                               "Reference_Port", "BACnet_IP_UDP_Port", "BACnet_IP_Mode"})
    \cup ({"Elevator_Group"} \X {"Group_Mode", "Landing_Calls", "Landing_Call_Control"})
    \cup ({"Lift"} \X ({"Car_Position", "Car_Moving_Direction", "Passenger_Alarm", "Fault_Signals"} \cup PerDoor))
    \cup ({"Escalator"} \X {"Operation_Direction", "Passenger_Alarm", "Power_Mode", "Escalator_Mode"})
    \cup ({"Positive_Integer_Value", "Calendar"} \X {"Present_Value"})
    \cup ({"File"} \X {"File_Type", "File_Size", "Modification_Date", "Archive", "Read_Only"})
    \cup {<<"Schedule", "Reliability">>}

\* A client reads a documented property of an object in the stack's database, when
\* the handlers of the other modules have brought the device to any of its states.
ReadProperty ==
    /\ outcome = "running" /\ at = "none"
    /\ calls' \in CallLists /\ control' \in {None} \cup Calls
    /\ commanded' \in [Outputs -> Slots]
    /\ created' \in SUBSET AnalogValues
    /\ \E pair \in {d \in Documented : Has(d[1])} \cup (created' \X {"Present_Value"}) :
        /\ object' = pair[1]
        /\ at' = Kind(pair[1], pair[2])
        /\ property' = IF at' = "slot" THEN "Priority_Array" ELSE pair[2]
        /\ index' = IF at' = "slot" THEN 1 ELSE 0
    /\ UNCHANGED <<startup, length, answer>>

Init ==
    /\ StartupInit
    /\ calls = <<>> /\ control = None
    /\ commanded = [o \in Outputs |-> {}] /\ created = {}
    /\ object = None /\ property = None /\ at = "none"
    /\ index = 0 /\ length = 0 /\ answer = <<>>

Next ==
    \/ StartupNext /\ UNCHANGED <<device, read>>
    \/ ReadProperty
    \/ ReadScalar \/ ReadLength \/ ReadElement \/ ReadPage \/ ReadSlot
    \/ (outcome \in {"helped", "failed", "refused"} \/ at \in {"value", "declined"}) /\ UNCHANGED vars

Spec == Init /\ [][Next]_vars

-----------------------------------------------------------------------------
(***************************************************************************)
(* Properties.                                                             *)
(***************************************************************************)
\* Every variable has its type.
TypeOK ==
    /\ at \in {"none", "scalar", "length", "element", "page", "slot", "value", "declined"}
    /\ index \in Nat /\ length \in Nat
    /\ commanded \in [Outputs -> SUBSET (1..BACNET_PRIORITY_ARRAY_SIZE)]
    /\ created \subseteq AnalogValues
    /\ property \in {"Landing_Calls", "Assigned_Landing_Calls"} => answer \in Seq(Calls)

\* "Skip one and the stack does NOT error loudly" (main.cpp): no call of the several
\* that make up a read is declined, for every property the documentation says the
\* application serves (the Schedule's Reliability apart) and in every state.
EveryCallAnswered ==
    <<object, property>> # <<"Schedule", "Reliability">> => at # "declined"

\* What a read that is over has come to.
AnswerIsRight ==
    CASE property \in {"Landing_Calls", "Assigned_Landing_Calls"} -> answer = calls
      [] property = "Landing_Call_Control" -> control # None => answer = <<control>>
      [] property \in {"State_Text", "Car_Door_Status"} -> Len(answer) = length
      [] property = "Priority_Array" /\ length = 0 -> \A i \in commanded[object] : answer[1] <= i
      [] OTHER -> TRUE

\* Landing_Calls and Assigned_Landing_Calls, put together page by page, are the car's
\* list, whole and in order, and empty when it is; an output's Present_Value comes from
\* its highest commanded slot; the elements a callback answers are the ones the length
\* announces, neither more nor fewer ("the application alone owns the door count, by
\* simply answering only door indices it recognises", GetPropertyEnumerated).
ReadsWhatIsThere ==
    /\ TypeOK
    /\ at = "value" => AnswerIsRight
    /\ at = "element" /\ <<object, property>> \notin GetSequenceLift /\ property # "Priority_Array" =>
          \A i \in 0..(length + 2) : Typed(i) <=> i \in 1..length
=============================================================================
