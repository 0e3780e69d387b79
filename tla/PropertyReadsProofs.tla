------------------------- MODULE PropertyReadsProofs -------------------------
(***************************************************************************)
(* A device that started is whole, and answers the reads of every property *)
(* the documentation lists with what is there: for every length of the     *)
(* car's list, of the priority arrays and of the other arrays, and for     *)
(* every set of created objects.                                           *)
(***************************************************************************)
EXTENDS PropertyReads, TLAPS

(* The tables of the callbacks. *)

\* The callbacks that answer with a value of one datatype.
Typing == DOMAIN Branches

\* Each callback the stack asks for the property has a branch for it.
Backed(type, p) ==
    \A datatype \in Datatypes(type, p) : datatype \in Typing /\ <<type, p>> \in Branches[datatype]

\* The callbacks' tables by name.
LEMMA BranchFacts ==
    /\ Typing = {"GetPropertyReal", "GetPropertyEnumerated", "GetPropertyUnsignedInteger", "GetPropertyBool",
                 "GetPropertyOctetString", "GetPropertyDate", "GetPropertyTime", "GetPropertyCharacterString"}
    /\ Branches["GetPropertyReal"] = GetPropertyReal
    /\ Branches["GetPropertyEnumerated"] = GetPropertyEnumerated
    /\ Branches["GetPropertyUnsignedInteger"] = GetPropertyUnsignedInteger
    /\ Branches["GetPropertyBool"] = GetPropertyBool
    /\ Branches["GetPropertyOctetString"] = GetPropertyOctetString
    /\ Branches["GetPropertyDate"] = GetPropertyDate
    /\ Branches["GetPropertyTime"] = GetPropertyTime
    /\ Branches["GetPropertyCharacterString"] = GetPropertyCharString
  BY DEF Branches, Typing

\* The types with an Out_Of_Service.
Servable ==
    {"Analog_Input", "Binary_Input", "Multi_State_Input", "Network_Port", "Lift", "Escalator", "Schedule"}
    \cup Outputs

\* Every documented property that one call answers has its branches.
LEMMA DocumentedBacked ==
    ASSUME NEW d \in Documented, Kind(d[1], d[2]) = "scalar", d # <<"Schedule", "Reliability">>
    PROVE  d = <<d[1], d[2]>> /\ d[1] \in Named /\ Backed(d[1], d[2])
<1>. USE BranchFacts DEF Backed, Datatypes
<1>1. CASE d \in Named \X {"Object_Name"}
    BY <1>1 DEF GetPropertyCharString
<1>2. CASE d \in Servable \X {"Out_Of_Service"}
    BY <1>2 DEF GetPropertyBool, Servable, Named, Outputs
<1>3. CASE d \in Outputs \X {"Present_Value", "Priority_Array", "Relinquish_Default"}
    BY <1>3 DEF GetPropertyReal, GetPropertyEnumerated, GetPropertyUnsignedInteger, Named, Outputs,
                Kind, ValueType
<1>4. CASE d \in {"Device"} \X {"Description", "Vendor_Name", "Vendor_Identifier", "Model_Name",
                         "Firmware_Revision", "Application_Software_Version", "Local_Date", "Local_Time"}
    BY <1>4 DEF GetPropertyCharString, GetPropertyUnsignedInteger, GetPropertyDate, GetPropertyTime, Named
<1>5. CASE d \in {"Analog_Input"} \X {"Present_Value", "Units", "COV_Increment"}
    BY <1>5 DEF GetPropertyReal, GetPropertyEnumerated, Named, ValueType
<1>6. CASE d \in {"Binary_Input"} \X {"Present_Value", "Polarity"}
    BY <1>6 DEF GetPropertyEnumerated, Named, ValueType
<1>7. CASE d \in {"Multi_State_Input"} \X {"Present_Value", "Number_Of_States", "State_Text"}
    BY <1>7 DEF GetPropertyUnsignedInteger, Named, ValueType, Kind
<1>8. CASE d \in {<<"Analog_Output", "Units">>, <<"Binary_Output", "Polarity">>,
                  <<"Multi_State_Output", "Number_Of_States">>}
    BY <1>8 DEF GetPropertyEnumerated, GetPropertyUnsignedInteger, Named, Outputs
<1>9. CASE d \in {"Network_Port"} \X {"IP_Address", "IP_Subnet_Mask", "IP_Default_Gateway", "APDU_Length",
                               "Reference_Port", "BACnet_IP_UDP_Port", "BACnet_IP_Mode"}
    BY <1>9 DEF GetPropertyEnumerated, GetPropertyUnsignedInteger, GetPropertyOctetString, Named
<1>10. CASE d \in {"Elevator_Group"} \X {"Group_Mode", "Landing_Calls", "Landing_Call_Control"}
    BY <1>10 DEF GetPropertyEnumerated, Named, Kind
<1>11. CASE d \in {"Lift"} \X ({"Car_Position", "Car_Moving_Direction", "Passenger_Alarm", "Fault_Signals"}
                               \cup PerDoor)
    BY <1>11 DEF GetPropertyEnumerated, GetPropertyUnsignedInteger, GetPropertyBool, Named, Kind, PerDoor
<1>12. CASE d \in {"Escalator"} \X {"Operation_Direction", "Passenger_Alarm", "Power_Mode", "Escalator_Mode"}
    BY <1>12 DEF GetPropertyEnumerated, GetPropertyBool, Named
<1>13. CASE d \in {"Positive_Integer_Value", "Calendar"} \X {"Present_Value"}
    BY <1>13 DEF GetPropertyUnsignedInteger, GetPropertyBool, Named, ValueType
<1>14. CASE d \in {"File"} \X {"File_Type", "File_Size", "Modification_Date", "Archive", "Read_Only"}
    BY <1>14 DEF GetPropertyUnsignedInteger, GetPropertyBool, GetPropertyCharString, GetPropertyDate,
                 GetPropertyTime, Named
<1>. QED
    BY <1>1, <1>2, <1>3, <1>4, <1>5, <1>6, <1>7, <1>8, <1>9, <1>10, <1>11, <1>12, <1>13, <1>14
    DEF Documented, Servable

\* The properties read as an array, and as a list without one.
Arrays ==
    (Outputs \X {"Priority_Array"}) \cup {<<"Multi_State_Input", "State_Text">>} \cup ({"Lift"} \X PerDoor)
Lists == ({"Elevator_Group"} \X {"Landing_Calls", "Landing_Call_Control"}) \cup {<<"Lift", "Fault_Signals">>}

\* How the others are read.
LEMMA DocumentedKinds ==
    ASSUME NEW d \in Documented
    PROVE  /\ d = <<d[1], d[2]>> /\ d[1] \in Named
           /\ Kind(d[1], d[2]) \in {"slot", "length", "page", "scalar"}
           /\ Kind(d[1], d[2]) = "slot" => d[1] \in Outputs /\ d[2] = "Present_Value"
           /\ Kind(d[1], d[2]) = "length" => d \in Arrays
           /\ Kind(d[1], d[2]) = "page" => d \in Lists
<1>1. d = <<d[1], d[2]>> /\ d[1] \in Named
    BY DEF Documented, Named, Outputs
<1>2. /\ Kind(d[1], d[2]) \in {"slot", "length", "page", "scalar"}
      /\ Kind(d[1], d[2]) = "slot" => d[1] \in Outputs /\ d[2] = "Present_Value"
    BY DEF Kind
<1>3. ASSUME Kind(d[1], d[2]) = "length" PROVE d \in Arrays
    <2>1. d[2] \in {"Priority_Array", "State_Text"} \cup PerDoor
        BY <1>3 DEF Kind
    <2>. QED BY <1>1, <2>1 DEF Documented, Arrays, PerDoor
<1>4. ASSUME Kind(d[1], d[2]) = "page" PROVE d \in Lists
    <2>1. d[2] \in {"Landing_Calls", "Landing_Call_Control", "Fault_Signals"}
        BY <1>4 DEF Kind
    <2>. QED BY <1>1, <2>1 DEF Documented, Lists, PerDoor
<1>. QED BY <1>1, <1>2, <1>3, <1>4

-----------------------------------------------------------------------------
(* Start-up. *)

\* The calls of a list.
In(list) == {list[i] : i \in DOMAIN list}

\* A list of calls.
IsList(list) == list \in Seq(In(list))

\* The calls of part stand in the list behind the first n.
Stands(list, n, part) == \A i \in 1..Len(part) : list[n + i] = part[i]

\* A list that is written out.
LEMMA WrittenOut ==
    ASSUME NEW list, NEW n \in Nat, list = [i \in 1..n |-> list[i]]
    PROVE  IsList(list) /\ Len(list) = n /\ Stands(list, 0, list)
<1>1. DOMAIN list = 1..n
    OBVIOUS
<1>2. \A i \in 1..n : list[i] \in In(list)
    BY <1>1 DEF In
<1>3. list \in [1..n -> In(list)]
    BY <1>2
<1>4. list \in Seq(In(list)) /\ Len(list) = n
    BY <1>3
<1>. QED BY <1>4 DEF IsList, Stands

\* Two lists put together.
LEMMA Joins ==
    ASSUME NEW s, IsList(s), NEW t, IsList(t)
    PROVE  /\ IsList(s \o t) /\ Len(s \o t) = Len(s) + Len(t)
           /\ \A i \in 1..Len(s) : (s \o t)[i] = s[i]
           /\ Stands(s \o t, Len(s), t)
           /\ In(s \o t) = In(s) \cup In(t)
<1>. DEFINE S == In(s) \cup In(t)
            n == Len(s)
            m == Len(t)
<1>0. s \in Seq(S) /\ t \in Seq(S) /\ n \in Nat /\ m \in Nat /\ Len(s) = n /\ Len(t) = m
      /\ DOMAIN s = 1..n /\ DOMAIN t = 1..m
    <2>1. s \in Seq(In(s)) /\ t \in Seq(In(t))
        BY DEF IsList
    <2>2. n \in Nat /\ m \in Nat /\ DOMAIN s = 1..n /\ DOMAIN t = 1..m
        BY <2>1
    <2>3. \A i \in 1..n : s[i] \in S
        BY <2>2 DEF In
    <2>4. \A i \in 1..m : t[i] \in S
        BY <2>2 DEF In
    <2>5. s \in [1..n -> S] /\ t \in [1..m -> S]
        BY <2>1, <2>2, <2>3, <2>4
    <2>. HIDE DEF S
    <2>. QED BY <2>1, <2>2, <2>5
<1>. HIDE DEF S, n, m
<1>1. s \o t \in Seq(S) /\ Len(s \o t) = n + m /\ DOMAIN (s \o t) = 1..(n + m)
    BY <1>0
<1>2. \A i \in 1..n : (s \o t)[i] = s[i]
    BY <1>0
<1>3. \A i \in 1..m : (s \o t)[n + i] = t[i]
    BY <1>0
<1>4. ASSUME NEW i \in 1..(n + m) PROVE (s \o t)[i] \in In(s) \cup In(t)
    <2>1. CASE i <= n
        BY <2>1, <1>0, <1>2 DEF In
    <2>2. CASE i > n
        <3>1. (i - n) \in 1..m /\ i = n + (i - n)
            BY <1>0, <2>2
        <3>2. (s \o t)[i] = t[i - n]
            BY <3>1, <1>3
        <3>. QED BY <1>0, <3>1, <3>2 DEF In
    <2>. QED BY <1>0, <2>1, <2>2
<1>5. In(s \o t) \subseteq In(s) \cup In(t)
    BY <1>1, <1>4 DEF In
<1>6. In(s) \subseteq In(s \o t)
    <2>. SUFFICES ASSUME NEW i \in 1..n PROVE s[i] \in In(s \o t)
        BY <1>0 DEF In
    <2>1. i \in 1..(n + m) /\ (s \o t)[i] = s[i]
        BY <1>0, <1>2
    <2>. QED BY <2>1, <1>1 DEF In
<1>7. In(t) \subseteq In(s \o t)
    <2>. SUFFICES ASSUME NEW i \in 1..m PROVE t[i] \in In(s \o t)
        BY <1>0 DEF In
    <2>1. n + i \in 1..(n + m) /\ (s \o t)[n + i] = t[i]
        BY <1>0, <1>3
    <2>. QED BY <2>1, <1>1 DEF In
<1>8. In(s \o t) = In(s) \cup In(t)
    BY <1>5, <1>6, <1>7
<1>9. IsList(s \o t)
    BY <1>1, <1>8 DEF S, IsList
<1>. QED BY <1>0, <1>1, <1>2, <1>3, <1>8, <1>9 DEF Stands

\* What stands in a list still does when another is put behind it.
LEMMA StandsStill ==
    ASSUME NEW s, IsList(s), NEW t, IsList(t),
           NEW a \in Nat, NEW part, Len(part) \in Nat, Stands(s, a, part), a + Len(part) <= Len(s)
    PROVE  Stands(s \o t, a, part)
<1>1. Len(s) \in Nat
    BY DEF IsList
<1>2. \A i \in 1..Len(s) : (s \o t)[i] = s[i]
    BY Joins
<1>. SUFFICES ASSUME NEW i \in 1..Len(part) PROVE (s \o t)[a + i] = part[i]
    BY DEF Stands
<1>3. a + i \in 1..Len(s)
    BY <1>1
<1>. QED BY <1>2, <1>3 DEF Stands

\* The calls of a loop over a table.
LEMMA EachIsList ==
    ASSUME NEW call, NEW names, IsList(names)
    PROVE  /\ IsList(Each(call, names)) /\ Len(Each(call, names)) = Len(names)
           /\ Stands(Each(call, names), 0, Each(call, names))
           /\ \A i \in 1..Len(names) : Each(call, names)[i] = <<call, names[i]>>
<1>1. Len(names) \in Nat /\ DOMAIN names = 1..Len(names)
    BY DEF IsList
<1>2. Each(call, names) = [i \in 1..Len(names) |-> <<call, names[i]>>]
    BY <1>1 DEF Each
<1>3. IsList(Each(call, names)) /\ Len(Each(call, names)) = Len(names)
      /\ Stands(Each(call, names), 0, Each(call, names))
    BY <1>1, <1>2, WrittenOut
<1>. QED BY <1>2, <1>3

\* The callbacks, in the order in which they are registered.
LEMMA CallbackLists ==
    /\ IsList(RegisteredCallbacks) /\ Len(RegisteredCallbacks) = 34
    /\ Stands(RegisteredCallbacks, 0, CommonCallbacks) /\ Len(CommonCallbacks) = 3
    /\ Stands(RegisteredCallbacks, 3, GetCallbacks) /\ Len(GetCallbacks) = 13
    /\ Stands(RegisteredCallbacks, 16, SetCallbacks) /\ Len(SetCallbacks) = 6
    /\ Stands(RegisteredCallbacks, 22, ServiceCallbacks) /\ Len(ServiceCallbacks) = 12
<1>1. IsList(CommonCallbacks) /\ Len(CommonCallbacks) = 3 /\ Stands(CommonCallbacks, 0, CommonCallbacks)
    <2>1. CommonCallbacks = [i \in 1..3 |-> CommonCallbacks[i]]
        BY DEF CommonCallbacks
    <2>. QED BY <2>1, WrittenOut
<1>2. IsList(GetCallbacks) /\ Len(GetCallbacks) = 13 /\ Stands(GetCallbacks, 0, GetCallbacks)
    <2>1. GetCallbacks = [i \in 1..13 |-> GetCallbacks[i]]
        BY DEF GetCallbacks
    <2>. QED BY <2>1, WrittenOut
<1>3. IsList(SetCallbacks) /\ Len(SetCallbacks) = 6 /\ Stands(SetCallbacks, 0, SetCallbacks)
    <2>1. SetCallbacks = [i \in 1..6 |-> SetCallbacks[i]]
        BY DEF SetCallbacks
    <2>. QED BY <2>1, WrittenOut
<1>4. IsList(ServiceCallbacks) /\ Len(ServiceCallbacks) = 12 /\ Stands(ServiceCallbacks, 0, ServiceCallbacks)
    <2>1. ServiceCallbacks = [i \in 1..12 |-> ServiceCallbacks[i]]
        BY DEF ServiceCallbacks
    <2>. QED BY <2>1, WrittenOut
<1>. DEFINE two == CommonCallbacks \o GetCallbacks
            three == two \o SetCallbacks
<1>5. two = CommonCallbacks \o GetCallbacks
    OBVIOUS
<1>. HIDE DEF two
<1>6. /\ IsList(two) /\ Len(two) = 16
      /\ Stands(two, 0, CommonCallbacks)
      /\ Stands(two, 3, GetCallbacks)
    <2>1. /\ IsList(two) /\ Len(two) = Len(CommonCallbacks) + Len(GetCallbacks)
          /\ Stands(two, Len(CommonCallbacks), GetCallbacks)
        <3>1. IsList(CommonCallbacks) /\ IsList(GetCallbacks)
            BY <1>1, <1>2
        <3>. QED BY <1>5, <3>1, Joins
    <2>2. Stands(two, 0, CommonCallbacks)
        <3>1. 0 \in Nat /\ Len(CommonCallbacks) \in Nat /\ 0 + Len(CommonCallbacks) <= Len(CommonCallbacks)
            BY <1>1
        <3>2. IsList(CommonCallbacks) /\ IsList(GetCallbacks) /\ Stands(CommonCallbacks, 0, CommonCallbacks)
            BY <1>1, <1>2
        <3>. QED BY <1>5, <3>1, <3>2, StandsStill
    <2>. QED BY <1>1, <1>2, <2>1, <2>2
<1>7. three = two \o SetCallbacks
    OBVIOUS
<1>. HIDE DEF three
<1>8. /\ IsList(three) /\ Len(three) = 22
      /\ Stands(three, 0, CommonCallbacks)
      /\ Stands(three, 3, GetCallbacks)
      /\ Stands(three, 16, SetCallbacks)
    <2>1. /\ IsList(three) /\ Len(three) = Len(two) + Len(SetCallbacks)
          /\ Stands(three, Len(two), SetCallbacks)
        <3>1. IsList(two) /\ IsList(SetCallbacks)
            BY <1>6, <1>3
        <3>. QED BY <1>7, <3>1, Joins
    <2>2. Stands(three, 0, CommonCallbacks)
        <3>1. 0 \in Nat /\ Len(CommonCallbacks) \in Nat /\ 0 + Len(CommonCallbacks) <= Len(two)
            BY <1>6, <1>1
        <3>2. IsList(two) /\ IsList(SetCallbacks) /\ Stands(two, 0, CommonCallbacks)
            BY <1>6, <1>3
        <3>. QED BY <1>7, <3>1, <3>2, StandsStill
    <2>3. Stands(three, 3, GetCallbacks)
        <3>1. 3 \in Nat /\ Len(GetCallbacks) \in Nat /\ 3 + Len(GetCallbacks) <= Len(two)
            BY <1>6, <1>2
        <3>2. IsList(two) /\ IsList(SetCallbacks) /\ Stands(two, 3, GetCallbacks)
            BY <1>6, <1>3
        <3>. QED BY <1>7, <3>1, <3>2, StandsStill
    <2>. QED BY <1>6, <1>3, <2>1, <2>2, <2>3
<1>9. RegisteredCallbacks = three \o ServiceCallbacks
    BY DEF RegisteredCallbacks, two, three
<1>10. /\ IsList(RegisteredCallbacks) /\ Len(RegisteredCallbacks) = 34
      /\ Stands(RegisteredCallbacks, 0, CommonCallbacks)
      /\ Stands(RegisteredCallbacks, 3, GetCallbacks)
      /\ Stands(RegisteredCallbacks, 16, SetCallbacks)
      /\ Stands(RegisteredCallbacks, 22, ServiceCallbacks)
    <2>1. /\ IsList(RegisteredCallbacks) /\ Len(RegisteredCallbacks) = Len(three) + Len(ServiceCallbacks)
          /\ Stands(RegisteredCallbacks, Len(three), ServiceCallbacks)
        <3>1. IsList(three) /\ IsList(ServiceCallbacks)
            BY <1>8, <1>4
        <3>. QED BY <1>9, <3>1, Joins
    <2>2. Stands(RegisteredCallbacks, 0, CommonCallbacks)
        <3>1. 0 \in Nat /\ Len(CommonCallbacks) \in Nat /\ 0 + Len(CommonCallbacks) <= Len(three)
            BY <1>8, <1>1
        <3>2. IsList(three) /\ IsList(ServiceCallbacks) /\ Stands(three, 0, CommonCallbacks)
            BY <1>8, <1>4
        <3>. QED BY <1>9, <3>1, <3>2, StandsStill
    <2>3. Stands(RegisteredCallbacks, 3, GetCallbacks)
        <3>1. 3 \in Nat /\ Len(GetCallbacks) \in Nat /\ 3 + Len(GetCallbacks) <= Len(three)
            BY <1>8, <1>2
        <3>2. IsList(three) /\ IsList(ServiceCallbacks) /\ Stands(three, 3, GetCallbacks)
            BY <1>8, <1>4
        <3>. QED BY <1>9, <3>1, <3>2, StandsStill
    <2>4. Stands(RegisteredCallbacks, 16, SetCallbacks)
        <3>1. 16 \in Nat /\ Len(SetCallbacks) \in Nat /\ 16 + Len(SetCallbacks) <= Len(three)
            BY <1>8, <1>3
        <3>2. IsList(three) /\ IsList(ServiceCallbacks) /\ Stands(three, 16, SetCallbacks)
            BY <1>8, <1>4
        <3>. QED BY <1>9, <3>1, <3>2, StandsStill
    <2>. QED BY <1>8, <1>4, <2>1, <2>2, <2>3, <2>4
<1>. QED BY <1>1, <1>2, <1>3, <1>4, <1>10

\* The parts of the opening.
LoadAndBind == << <<"LoadBACnetFunctions">>, <<"SetupUDP">> >>
Registering == Each("Register", RegisteredCallbacks)
TheDevice == << <<"AddDevice">> >>
Enabling == Each("SetServiceEnabled", Services)

\* The opening, in its order.
LEMMA OpeningLists ==
    /\ IsList(Opening) /\ Len(Opening) = 59
    /\ Stands(Opening, 0, LoadAndBind) /\ Len(LoadAndBind) = 2
    /\ Stands(Opening, 2, Registering) /\ Len(Registering) = 34
    /\ Stands(Opening, 36, TheDevice) /\ Len(TheDevice) = 1
    /\ Stands(Opening, 37, Enabling) /\ Len(Enabling) = 22
<1>1. IsList(LoadAndBind) /\ Len(LoadAndBind) = 2 /\ Stands(LoadAndBind, 0, LoadAndBind)
    <2>1. LoadAndBind = [i \in 1..2 |-> LoadAndBind[i]]
        BY DEF LoadAndBind
    <2>. QED BY <2>1, WrittenOut
<1>2. IsList(Registering) /\ Len(Registering) = 34 /\ Stands(Registering, 0, Registering)
    BY CallbackLists, EachIsList DEF Registering
<1>3. IsList(TheDevice) /\ Len(TheDevice) = 1 /\ Stands(TheDevice, 0, TheDevice)
    <2>1. TheDevice = [i \in 1..1 |-> TheDevice[i]]
        BY DEF TheDevice
    <2>. QED BY <2>1, WrittenOut
<1>4. IsList(Enabling) /\ Len(Enabling) = 22 /\ Stands(Enabling, 0, Enabling)
    <2>1. Services = [i \in 1..22 |-> Services[i]]
        BY DEF Services
    <2>2. IsList(Services) /\ Len(Services) = 22
        BY <2>1, WrittenOut
    <2>. QED BY <2>2, EachIsList DEF Enabling
<1>. DEFINE two == LoadAndBind \o Registering
            three == two \o TheDevice
<1>5. two = LoadAndBind \o Registering
    OBVIOUS
<1>. HIDE DEF two
<1>6. /\ IsList(two) /\ Len(two) = 36
      /\ Stands(two, 0, LoadAndBind)
      /\ Stands(two, 2, Registering)
    <2>1. /\ IsList(two) /\ Len(two) = Len(LoadAndBind) + Len(Registering)
          /\ Stands(two, Len(LoadAndBind), Registering)
        <3>1. IsList(LoadAndBind) /\ IsList(Registering)
            BY <1>1, <1>2
        <3>. QED BY <1>5, <3>1, Joins
    <2>2. Stands(two, 0, LoadAndBind)
        <3>1. 0 \in Nat /\ Len(LoadAndBind) \in Nat /\ 0 + Len(LoadAndBind) <= Len(LoadAndBind)
            BY <1>1
        <3>2. IsList(LoadAndBind) /\ IsList(Registering) /\ Stands(LoadAndBind, 0, LoadAndBind)
            BY <1>1, <1>2
        <3>. QED BY <1>5, <3>1, <3>2, StandsStill
    <2>. QED BY <1>1, <1>2, <2>1, <2>2
<1>7. three = two \o TheDevice
    OBVIOUS
<1>. HIDE DEF three
<1>8. /\ IsList(three) /\ Len(three) = 37
      /\ Stands(three, 0, LoadAndBind)
      /\ Stands(three, 2, Registering)
      /\ Stands(three, 36, TheDevice)
    <2>1. /\ IsList(three) /\ Len(three) = Len(two) + Len(TheDevice)
          /\ Stands(three, Len(two), TheDevice)
        <3>1. IsList(two) /\ IsList(TheDevice)
            BY <1>6, <1>3
        <3>. QED BY <1>7, <3>1, Joins
    <2>2. Stands(three, 0, LoadAndBind)
        <3>1. 0 \in Nat /\ Len(LoadAndBind) \in Nat /\ 0 + Len(LoadAndBind) <= Len(two)
            BY <1>6, <1>1
        <3>2. IsList(two) /\ IsList(TheDevice) /\ Stands(two, 0, LoadAndBind)
            BY <1>6, <1>3
        <3>. QED BY <1>7, <3>1, <3>2, StandsStill
    <2>3. Stands(three, 2, Registering)
        <3>1. 2 \in Nat /\ Len(Registering) \in Nat /\ 2 + Len(Registering) <= Len(two)
            BY <1>6, <1>2
        <3>2. IsList(two) /\ IsList(TheDevice) /\ Stands(two, 2, Registering)
            BY <1>6, <1>3
        <3>. QED BY <1>7, <3>1, <3>2, StandsStill
    <2>. QED BY <1>6, <1>3, <2>1, <2>2, <2>3
<1>9. Opening = three \o Enabling
    BY DEF Opening, LoadAndBind, Registering, TheDevice, Enabling, two, three
<1>10. /\ IsList(Opening) /\ Len(Opening) = 59
      /\ Stands(Opening, 0, LoadAndBind)
      /\ Stands(Opening, 2, Registering)
      /\ Stands(Opening, 36, TheDevice)
      /\ Stands(Opening, 37, Enabling)
    <2>1. /\ IsList(Opening) /\ Len(Opening) = Len(three) + Len(Enabling)
          /\ Stands(Opening, Len(three), Enabling)
        <3>1. IsList(three) /\ IsList(Enabling)
            BY <1>8, <1>4
        <3>. QED BY <1>9, <3>1, Joins
    <2>2. Stands(Opening, 0, LoadAndBind)
        <3>1. 0 \in Nat /\ Len(LoadAndBind) \in Nat /\ 0 + Len(LoadAndBind) <= Len(three)
            BY <1>8, <1>1
        <3>2. IsList(three) /\ IsList(Enabling) /\ Stands(three, 0, LoadAndBind)
            BY <1>8, <1>4
        <3>. QED BY <1>9, <3>1, <3>2, StandsStill
    <2>3. Stands(Opening, 2, Registering)
        <3>1. 2 \in Nat /\ Len(Registering) \in Nat /\ 2 + Len(Registering) <= Len(three)
            BY <1>8, <1>2
        <3>2. IsList(three) /\ IsList(Enabling) /\ Stands(three, 2, Registering)
            BY <1>8, <1>4
        <3>. QED BY <1>9, <3>1, <3>2, StandsStill
    <2>4. Stands(Opening, 36, TheDevice)
        <3>1. 36 \in Nat /\ Len(TheDevice) \in Nat /\ 36 + Len(TheDevice) <= Len(three)
            BY <1>8, <1>3
        <3>2. IsList(three) /\ IsList(Enabling) /\ Stands(three, 36, TheDevice)
            BY <1>8, <1>4
        <3>. QED BY <1>9, <3>1, <3>2, StandsStill
    <2>. QED BY <1>8, <1>4, <2>1, <2>2, <2>3, <2>4
<1>. QED BY <1>1, <1>2, <1>3, <1>4, <1>10

\* main(), in its order.
LEMMA MainLists ==
    /\ IsList(main) /\ Len(main) = 114
    /\ Stands(main, 0, Opening) /\ Len(Opening) = 59
    /\ Stands(main, 59, BaseObjects) /\ Len(BaseObjects) = 9
    /\ Stands(main, 68, Saffron) /\ Len(Saffron) = 10
    /\ Stands(main, 78, Ivory) /\ Len(Ivory) = 5
    /\ Stands(main, 83, Optional) /\ Len(Optional) = 16
    /\ Stands(main, 99, Elevator) /\ Len(Elevator) = 9
    /\ Stands(main, 108, Alarming) /\ Len(Alarming) = 6
<1>1. IsList(Opening) /\ Len(Opening) = 59 /\ Stands(Opening, 0, Opening)
    BY OpeningLists DEF Stands
<1>2. IsList(BaseObjects) /\ Len(BaseObjects) = 9 /\ Stands(BaseObjects, 0, BaseObjects)
    <2>1. BaseObjects = [i \in 1..9 |-> BaseObjects[i]]
        BY DEF BaseObjects
    <2>. QED BY <2>1, WrittenOut
<1>3. IsList(Saffron) /\ Len(Saffron) = 10 /\ Stands(Saffron, 0, Saffron)
    <2>1. Saffron = [i \in 1..10 |-> Saffron[i]]
        BY DEF Saffron
    <2>. QED BY <2>1, WrittenOut
<1>4. IsList(Ivory) /\ Len(Ivory) = 5 /\ Stands(Ivory, 0, Ivory)
    <2>1. Ivory = [i \in 1..5 |-> Ivory[i]]
        BY DEF Ivory
    <2>. QED BY <2>1, WrittenOut
<1>5. IsList(Optional) /\ Len(Optional) = 16 /\ Stands(Optional, 0, Optional)
    <2>1. Optional = [i \in 1..16 |-> Optional[i]]
        BY DEF Optional, MakeCommandable
    <2>. QED BY <2>1, WrittenOut
<1>6. IsList(Elevator) /\ Len(Elevator) = 9 /\ Stands(Elevator, 0, Elevator)
    <2>1. Elevator = [i \in 1..9 |-> Elevator[i]]
        BY DEF Elevator, ElevatorOptional
    <2>. QED BY <2>1, WrittenOut
<1>7. IsList(Alarming) /\ Len(Alarming) = 6 /\ Stands(Alarming, 0, Alarming)
    <2>1. Alarming = [i \in 1..6 |-> Alarming[i]]
        BY DEF Alarming
    <2>. QED BY <2>1, WrittenOut
<1>. DEFINE two == Opening \o BaseObjects
            three == two \o Saffron
            four == three \o Ivory
            five == four \o Optional
            six == five \o Elevator
<1>8. two = Opening \o BaseObjects
    OBVIOUS
<1>. HIDE DEF two
<1>9. /\ IsList(two) /\ Len(two) = 68
      /\ Stands(two, 0, Opening)
      /\ Stands(two, 59, BaseObjects)
    <2>1. /\ IsList(two) /\ Len(two) = Len(Opening) + Len(BaseObjects)
          /\ Stands(two, Len(Opening), BaseObjects)
        <3>1. IsList(Opening) /\ IsList(BaseObjects)
            BY <1>1, <1>2
        <3>. QED BY <1>8, <3>1, Joins
    <2>2. Stands(two, 0, Opening)
        <3>1. 0 \in Nat /\ Len(Opening) \in Nat /\ 0 + Len(Opening) <= Len(Opening)
            BY <1>1
        <3>2. IsList(Opening) /\ IsList(BaseObjects) /\ Stands(Opening, 0, Opening)
            BY <1>1, <1>2
        <3>. QED BY <1>8, <3>1, <3>2, StandsStill
    <2>. QED BY <1>1, <1>2, <2>1, <2>2
<1>10. three = two \o Saffron
    OBVIOUS
<1>. HIDE DEF three
<1>11. /\ IsList(three) /\ Len(three) = 78
      /\ Stands(three, 0, Opening)
      /\ Stands(three, 59, BaseObjects)
      /\ Stands(three, 68, Saffron)
    <2>1. /\ IsList(three) /\ Len(three) = Len(two) + Len(Saffron)
          /\ Stands(three, Len(two), Saffron)
        <3>1. IsList(two) /\ IsList(Saffron)
            BY <1>9, <1>3
        <3>. QED BY <1>10, <3>1, Joins
    <2>2. Stands(three, 0, Opening)
        <3>1. 0 \in Nat /\ Len(Opening) \in Nat /\ 0 + Len(Opening) <= Len(two)
            BY <1>9, <1>1
        <3>2. IsList(two) /\ IsList(Saffron) /\ Stands(two, 0, Opening)
            BY <1>9, <1>3
        <3>. QED BY <1>10, <3>1, <3>2, StandsStill
    <2>3. Stands(three, 59, BaseObjects)
        <3>1. 59 \in Nat /\ Len(BaseObjects) \in Nat /\ 59 + Len(BaseObjects) <= Len(two)
            BY <1>9, <1>2
        <3>2. IsList(two) /\ IsList(Saffron) /\ Stands(two, 59, BaseObjects)
            BY <1>9, <1>3
        <3>. QED BY <1>10, <3>1, <3>2, StandsStill
    <2>. QED BY <1>9, <1>3, <2>1, <2>2, <2>3
<1>12. four = three \o Ivory
    OBVIOUS
<1>. HIDE DEF four
<1>13. /\ IsList(four) /\ Len(four) = 83
      /\ Stands(four, 0, Opening)
      /\ Stands(four, 59, BaseObjects)
      /\ Stands(four, 68, Saffron)
      /\ Stands(four, 78, Ivory)
    <2>1. /\ IsList(four) /\ Len(four) = Len(three) + Len(Ivory)
          /\ Stands(four, Len(three), Ivory)
        <3>1. IsList(three) /\ IsList(Ivory)
            BY <1>11, <1>4
        <3>. QED BY <1>12, <3>1, Joins
    <2>2. Stands(four, 0, Opening)
        <3>1. 0 \in Nat /\ Len(Opening) \in Nat /\ 0 + Len(Opening) <= Len(three)
            BY <1>11, <1>1
        <3>2. IsList(three) /\ IsList(Ivory) /\ Stands(three, 0, Opening)
            BY <1>11, <1>4
        <3>. QED BY <1>12, <3>1, <3>2, StandsStill
    <2>3. Stands(four, 59, BaseObjects)
        <3>1. 59 \in Nat /\ Len(BaseObjects) \in Nat /\ 59 + Len(BaseObjects) <= Len(three)
            BY <1>11, <1>2
        <3>2. IsList(three) /\ IsList(Ivory) /\ Stands(three, 59, BaseObjects)
            BY <1>11, <1>4
        <3>. QED BY <1>12, <3>1, <3>2, StandsStill
    <2>4. Stands(four, 68, Saffron)
        <3>1. 68 \in Nat /\ Len(Saffron) \in Nat /\ 68 + Len(Saffron) <= Len(three)
            BY <1>11, <1>3
        <3>2. IsList(three) /\ IsList(Ivory) /\ Stands(three, 68, Saffron)
            BY <1>11, <1>4
        <3>. QED BY <1>12, <3>1, <3>2, StandsStill
    <2>. QED BY <1>11, <1>4, <2>1, <2>2, <2>3, <2>4
<1>14. five = four \o Optional
    OBVIOUS
<1>. HIDE DEF five
<1>15. /\ IsList(five) /\ Len(five) = 99
      /\ Stands(five, 0, Opening)
      /\ Stands(five, 59, BaseObjects)
      /\ Stands(five, 68, Saffron)
      /\ Stands(five, 78, Ivory)
      /\ Stands(five, 83, Optional)
    <2>1. /\ IsList(five) /\ Len(five) = Len(four) + Len(Optional)
          /\ Stands(five, Len(four), Optional)
        <3>1. IsList(four) /\ IsList(Optional)
            BY <1>13, <1>5
        <3>. QED BY <1>14, <3>1, Joins
    <2>2. Stands(five, 0, Opening)
        <3>1. 0 \in Nat /\ Len(Opening) \in Nat /\ 0 + Len(Opening) <= Len(four)
            BY <1>13, <1>1
        <3>2. IsList(four) /\ IsList(Optional) /\ Stands(four, 0, Opening)
            BY <1>13, <1>5
        <3>. QED BY <1>14, <3>1, <3>2, StandsStill
    <2>3. Stands(five, 59, BaseObjects)
        <3>1. 59 \in Nat /\ Len(BaseObjects) \in Nat /\ 59 + Len(BaseObjects) <= Len(four)
            BY <1>13, <1>2
        <3>2. IsList(four) /\ IsList(Optional) /\ Stands(four, 59, BaseObjects)
            BY <1>13, <1>5
        <3>. QED BY <1>14, <3>1, <3>2, StandsStill
    <2>4. Stands(five, 68, Saffron)
        <3>1. 68 \in Nat /\ Len(Saffron) \in Nat /\ 68 + Len(Saffron) <= Len(four)
            BY <1>13, <1>3
        <3>2. IsList(four) /\ IsList(Optional) /\ Stands(four, 68, Saffron)
            BY <1>13, <1>5
        <3>. QED BY <1>14, <3>1, <3>2, StandsStill
    <2>5. Stands(five, 78, Ivory)
        <3>1. 78 \in Nat /\ Len(Ivory) \in Nat /\ 78 + Len(Ivory) <= Len(four)
            BY <1>13, <1>4
        <3>2. IsList(four) /\ IsList(Optional) /\ Stands(four, 78, Ivory)
            BY <1>13, <1>5
        <3>. QED BY <1>14, <3>1, <3>2, StandsStill
    <2>. QED BY <1>13, <1>5, <2>1, <2>2, <2>3, <2>4, <2>5
<1>16. six = five \o Elevator
    OBVIOUS
<1>. HIDE DEF six
<1>17. /\ IsList(six) /\ Len(six) = 108
      /\ Stands(six, 0, Opening)
      /\ Stands(six, 59, BaseObjects)
      /\ Stands(six, 68, Saffron)
      /\ Stands(six, 78, Ivory)
      /\ Stands(six, 83, Optional)
      /\ Stands(six, 99, Elevator)
    <2>1. /\ IsList(six) /\ Len(six) = Len(five) + Len(Elevator)
          /\ Stands(six, Len(five), Elevator)
        <3>1. IsList(five) /\ IsList(Elevator)
            BY <1>15, <1>6
        <3>. QED BY <1>16, <3>1, Joins
    <2>2. Stands(six, 0, Opening)
        <3>1. 0 \in Nat /\ Len(Opening) \in Nat /\ 0 + Len(Opening) <= Len(five)
            BY <1>15, <1>1
        <3>2. IsList(five) /\ IsList(Elevator) /\ Stands(five, 0, Opening)
            BY <1>15, <1>6
        <3>. QED BY <1>16, <3>1, <3>2, StandsStill
    <2>3. Stands(six, 59, BaseObjects)
        <3>1. 59 \in Nat /\ Len(BaseObjects) \in Nat /\ 59 + Len(BaseObjects) <= Len(five)
            BY <1>15, <1>2
        <3>2. IsList(five) /\ IsList(Elevator) /\ Stands(five, 59, BaseObjects)
            BY <1>15, <1>6
        <3>. QED BY <1>16, <3>1, <3>2, StandsStill
    <2>4. Stands(six, 68, Saffron)
        <3>1. 68 \in Nat /\ Len(Saffron) \in Nat /\ 68 + Len(Saffron) <= Len(five)
            BY <1>15, <1>3
        <3>2. IsList(five) /\ IsList(Elevator) /\ Stands(five, 68, Saffron)
            BY <1>15, <1>6
        <3>. QED BY <1>16, <3>1, <3>2, StandsStill
    <2>5. Stands(six, 78, Ivory)
        <3>1. 78 \in Nat /\ Len(Ivory) \in Nat /\ 78 + Len(Ivory) <= Len(five)
            BY <1>15, <1>4
        <3>2. IsList(five) /\ IsList(Elevator) /\ Stands(five, 78, Ivory)
            BY <1>15, <1>6
        <3>. QED BY <1>16, <3>1, <3>2, StandsStill
    <2>6. Stands(six, 83, Optional)
        <3>1. 83 \in Nat /\ Len(Optional) \in Nat /\ 83 + Len(Optional) <= Len(five)
            BY <1>15, <1>5
        <3>2. IsList(five) /\ IsList(Elevator) /\ Stands(five, 83, Optional)
            BY <1>15, <1>6
        <3>. QED BY <1>16, <3>1, <3>2, StandsStill
    <2>. QED BY <1>15, <1>6, <2>1, <2>2, <2>3, <2>4, <2>5, <2>6
<1>18. main = six \o Alarming
    BY DEF main, two, three, four, five, six
<1>19. /\ IsList(main) /\ Len(main) = 114
      /\ Stands(main, 0, Opening)
      /\ Stands(main, 59, BaseObjects)
      /\ Stands(main, 68, Saffron)
      /\ Stands(main, 78, Ivory)
      /\ Stands(main, 83, Optional)
      /\ Stands(main, 99, Elevator)
      /\ Stands(main, 108, Alarming)
    <2>1. /\ IsList(main) /\ Len(main) = Len(six) + Len(Alarming)
          /\ Stands(main, Len(six), Alarming)
        <3>1. IsList(six) /\ IsList(Alarming)
            BY <1>17, <1>7
        <3>. QED BY <1>18, <3>1, Joins
    <2>2. Stands(main, 0, Opening)
        <3>1. 0 \in Nat /\ Len(Opening) \in Nat /\ 0 + Len(Opening) <= Len(six)
            BY <1>17, <1>1
        <3>2. IsList(six) /\ IsList(Alarming) /\ Stands(six, 0, Opening)
            BY <1>17, <1>7
        <3>. QED BY <1>18, <3>1, <3>2, StandsStill
    <2>3. Stands(main, 59, BaseObjects)
        <3>1. 59 \in Nat /\ Len(BaseObjects) \in Nat /\ 59 + Len(BaseObjects) <= Len(six)
            BY <1>17, <1>2
        <3>2. IsList(six) /\ IsList(Alarming) /\ Stands(six, 59, BaseObjects)
            BY <1>17, <1>7
        <3>. QED BY <1>18, <3>1, <3>2, StandsStill
    <2>4. Stands(main, 68, Saffron)
        <3>1. 68 \in Nat /\ Len(Saffron) \in Nat /\ 68 + Len(Saffron) <= Len(six)
            BY <1>17, <1>3
        <3>2. IsList(six) /\ IsList(Alarming) /\ Stands(six, 68, Saffron)
            BY <1>17, <1>7
        <3>. QED BY <1>18, <3>1, <3>2, StandsStill
    <2>5. Stands(main, 78, Ivory)
        <3>1. 78 \in Nat /\ Len(Ivory) \in Nat /\ 78 + Len(Ivory) <= Len(six)
            BY <1>17, <1>4
        <3>2. IsList(six) /\ IsList(Alarming) /\ Stands(six, 78, Ivory)
            BY <1>17, <1>7
        <3>. QED BY <1>18, <3>1, <3>2, StandsStill
    <2>6. Stands(main, 83, Optional)
        <3>1. 83 \in Nat /\ Len(Optional) \in Nat /\ 83 + Len(Optional) <= Len(six)
            BY <1>17, <1>5
        <3>2. IsList(six) /\ IsList(Alarming) /\ Stands(six, 83, Optional)
            BY <1>17, <1>7
        <3>. QED BY <1>18, <3>1, <3>2, StandsStill
    <2>7. Stands(main, 99, Elevator)
        <3>1. 99 \in Nat /\ Len(Elevator) \in Nat /\ 99 + Len(Elevator) <= Len(six)
            BY <1>17, <1>6
        <3>2. IsList(six) /\ IsList(Alarming) /\ Stands(six, 99, Elevator)
            BY <1>17, <1>7
        <3>. QED BY <1>18, <3>1, <3>2, StandsStill
    <2>. QED BY <1>17, <1>7, <2>1, <2>2, <2>3, <2>4, <2>5, <2>6, <2>7
<1>. QED BY <1>1, <1>2, <1>3, <1>4, <1>5, <1>6, <1>7, <1>19

-----------------------------------------------------------------------------
\* The calls before the current one succeeded, the announcement apart; the loop
\* is entered behind the last.
InOrder ==
    /\ position \in 1..115
    /\ \A i \in 1..(position - 1) : main[i] # <<"SendIAm">> => main[i] \in done
    /\ done \subseteq In(main)
    /\ outcome = "running" \/ <<"SendIAm">> \in done => position = 115

StartInv == StartupTypeOK /\ InOrder /\ outcome # "refused"

\* Where the calls of the opening stand in main().
LEMMA OpeningCalls ==
    /\ main[1] = <<"LoadBACnetFunctions">> /\ main[2] = <<"SetupUDP">> /\ main[37] = <<"AddDevice">>
    /\ \A i \in 1..34 : main[2 + i] = <<"Register", RegisteredCallbacks[i]>>
    /\ \A i \in 1..22 : main[37 + i] = <<"SetServiceEnabled", Services[i]>>
<1>0. \A i \in 1..59 : main[i] = Opening[i]
    BY MainLists DEF Stands
<1>1. main[1] = <<"LoadBACnetFunctions">> /\ main[2] = <<"SetupUDP">>
    <2>1. Opening[0 + 1] = LoadAndBind[1] /\ Opening[0 + 2] = LoadAndBind[2]
        BY OpeningLists DEF Stands
    <2>. QED BY <1>0, <2>1 DEF LoadAndBind
<1>2. main[37] = <<"AddDevice">>
    <2>1. Opening[36 + 1] = TheDevice[1]
        BY OpeningLists DEF Stands
    <2>. QED BY <1>0, <2>1 DEF TheDevice
<1>3. ASSUME NEW i \in 1..34 PROVE main[2 + i] = <<"Register", RegisteredCallbacks[i]>>
    <2>1. Opening[2 + i] = Registering[i]
        BY OpeningLists DEF Stands
    <2>2. Registering[i] = <<"Register", RegisteredCallbacks[i]>>
        <3>1. IsList(RegisteredCallbacks) /\ i \in 1..Len(RegisteredCallbacks)
            BY CallbackLists
        <3>. QED BY <3>1, EachIsList DEF Registering
    <2>3. 2 + i \in 1..59
        OBVIOUS
    <2>. QED BY <1>0, <2>1, <2>2, <2>3
<1>4. ASSUME NEW i \in 1..22 PROVE main[37 + i] = <<"SetServiceEnabled", Services[i]>>
    <2>1. Opening[37 + i] = Enabling[i]
        BY OpeningLists DEF Stands
    <2>2. Enabling[i] = <<"SetServiceEnabled", Services[i]>>
        <3>1. Services = [j \in 1..22 |-> Services[j]]
            BY DEF Services
        <3>2. IsList(Services) /\ i \in 1..Len(Services)
            BY <3>1, WrittenOut
        <3>. QED BY <3>2, EachIsList DEF Enabling
    <2>3. 37 + i \in 1..59
        OBVIOUS
    <2>. QED BY <1>0, <2>1, <2>2, <2>3
<1>. QED BY <1>1, <1>2, <1>3, <1>4

\* Which of them have succeeded.
LEMMA OpeningDone ==
    ASSUME InOrder
    PROVE  /\ position > 1 => <<"LoadBACnetFunctions">> \in done
           /\ position > 2 => <<"SetupUDP">> \in done
           /\ position > 37 => <<"AddDevice">> \in done
           /\ position > 59 => \A i \in 1..34 : <<"Register", RegisteredCallbacks[i]>> \in done
           /\ position > 59 => \A i \in 1..22 : <<"SetServiceEnabled", Services[i]>> \in done
<1>0. position \in Nat
    BY DEF InOrder
<1>1. /\ position > 1 => <<"LoadBACnetFunctions">> \in done
      /\ position > 2 => <<"SetupUDP">> \in done
      /\ position > 37 => <<"AddDevice">> \in done
    <2>1. main[1] = <<"LoadBACnetFunctions">> /\ main[2] = <<"SetupUDP">> /\ main[37] = <<"AddDevice">>
        BY OpeningCalls
    <2>. QED BY <1>0, <2>1 DEF InOrder
<1>2. ASSUME position > 59, NEW i \in 1..34 PROVE <<"Register", RegisteredCallbacks[i]>> \in done
    <2>1. 2 + i \in 1..(position - 1)
        BY <1>0, <1>2
    <2>2. main[2 + i][1] = "Register" /\ <<"SendIAm">>[1] = "SendIAm"
        BY OpeningCalls
    <2>. QED BY OpeningCalls, <2>1, <2>2 DEF InOrder
<1>3. ASSUME position > 59, NEW i \in 1..22 PROVE <<"SetServiceEnabled", Services[i]>> \in done
    <2>1. 37 + i \in 1..(position - 1)
        BY <1>0, <1>3
    <2>2. main[37 + i][1] = "SetServiceEnabled" /\ <<"SendIAm">>[1] = "SendIAm"
        BY OpeningCalls
    <2>. QED BY OpeningCalls, <2>1, <2>2 DEF InOrder
<1>. QED BY <1>1, <1>2, <1>3

\* The calls of a later part, n calls in, that are behind have succeeded.
Past(n, part) == \A i \in 1..Len(part) : n + i < position => part[i] = <<"SendIAm">> \/ part[i] \in done

\* So they have for every part.
LEMMA PartsDone ==
    ASSUME InOrder
    PROVE  /\ Past(59, BaseObjects) /\ Past(68, Saffron) /\ Past(78, Ivory)
           /\ Past(83, Optional) /\ Past(99, Elevator) /\ Past(108, Alarming)
<1>1. ASSUME NEW n \in Nat, NEW part, Len(part) \in Nat, Stands(main, n, part)
      PROVE  Past(n, part)
    <2>. SUFFICES ASSUME NEW i \in 1..Len(part), n + i < position
                  PROVE  part[i] = <<"SendIAm">> \/ part[i] \in done
        BY DEF Past
    <2>1. main[n + i] = part[i]
        BY <1>1 DEF Stands
    <2>2. n + i \in 1..(position - 1)
        <3>1. position \in Nat
            BY DEF InOrder
        <3>. QED BY <1>1, <3>1
    <2>. QED BY <2>1, <2>2 DEF InOrder
<1>2. Past(59, BaseObjects)
    BY <1>1, MainLists
<1>3. Past(68, Saffron)
    BY <1>1, MainLists
<1>4. Past(78, Ivory)
    BY <1>1, MainLists
<1>5. Past(83, Optional)
    BY <1>1, MainLists
<1>6. Past(99, Elevator)
    BY <1>1, MainLists
<1>7. Past(108, Alarming)
    BY <1>1, MainLists
<1>. QED BY <1>2, <1>3, <1>4, <1>5, <1>6, <1>7

\* The objects that are there behind a part.
LEMMA ObjectsDone ==
    ASSUME InOrder
    PROVE  /\ position > 68 =>
                 \A type \in {"Analog_Input", "Binary_Input", "Multi_State_Input", "Network_Port", "Event_Log"}
                             \cup Outputs : Has(type)
           /\ position > 78 => Has("Schedule") /\ Has("Calendar")
           /\ position > 83 => Has("File")
           /\ position > 108 => \A type \in {"Positive_Integer_Value", "Elevator_Group", "Lift", "Escalator"} : Has(type)
           /\ position > 109 => Has("Notification_Class")
           /\ position > 37 => Has("Device")
<1>0. position \in Nat
    BY DEF InOrder
<1>1. position > 37 => Has("Device")
    BY OpeningDone DEF Has
<1>2. ASSUME position > 68
      PROVE  \A type \in {"Analog_Input", "Binary_Input", "Multi_State_Input", "Network_Port", "Event_Log"}
                             \cup Outputs : <<"AddObject", type>> \in done
    <2>1. Len(BaseObjects) = 9 /\ Past(59, BaseObjects)
        BY MainLists, PartsDone
    <2>2. \A i \in 1..9 : BaseObjects[i] = <<"SendIAm">> \/ BaseObjects[i] \in done
        BY <1>0, <1>2, <2>1 DEF Past
    <2>. QED BY <2>2 DEF BaseObjects, Outputs
<1>3. ASSUME position > 78 PROVE <<"AddObject", "Schedule">> \in done /\ <<"AddObject", "Calendar">> \in done
    BY <1>0, <1>3, MainLists, PartsDone DEF Past, Saffron
<1>4. ASSUME position > 83 PROVE <<"AddObject", "File">> \in done
    BY <1>0, <1>4, MainLists, PartsDone DEF Past, Ivory
<1>5. ASSUME position > 108
      PROVE  /\ <<"AddObject", "Positive_Integer_Value">> \in done /\ <<"AddElevatorGroupObject">> \in done
             /\ <<"AddLiftObject">> \in done /\ <<"AddEscalatorObject">> \in done
    BY <1>0, <1>5, MainLists, PartsDone DEF Past, Elevator, ElevatorOptional
<1>6. ASSUME position > 109 PROVE <<"AddNotificationClassObject">> \in done
    BY <1>0, <1>6, MainLists, PartsDone DEF Past, Alarming
<1>. QED BY <1>1, <1>2, <1>3, <1>4, <1>5, <1>6 DEF Has, Outputs

\* The calls that need nothing but the device.
LEMMA NeedsOnlyDevice ==
    ASSUME NEW call, <<"LoadBACnetFunctions">> \in done, Has("Device"),
           call[1] \in {"SetServiceEnabled", "AddObject", "SetObjectTypeCreatable", "SetCOVSettings",
                       "SetCOVMultipleSettings", "AddEscalatorObject", "AddNotificationClassObject"}
    PROVE  Accepts(call)
  BY DEF Accepts

\* The calls about a property of an object.
LEMMA NeedsItsObject ==
    ASSUME NEW call, <<"LoadBACnetFunctions">> \in done, Has("Device"), Has(call[2]),
           call[1] \in {"SetPropertyEnabled", "SetPropertyWritable", "SetPropertySubscribable"}
    PROVE  Accepts(call)
  BY DEF Accepts

\* The stack never finds a prerequisite missing.
LEMMA AlwaysAccepted ==
    ASSUME InOrder, position <= 114
    PROVE  Accepts(main[position])
<1>0. position \in 1..114
    BY DEF InOrder
<1>1. CASE position <= 59
    <2>1. CASE position <= 2
        <3>1. position = 1 \/ position = 2
            BY <1>0, <2>1
        <3>2. CASE position = 1
            BY <3>2, OpeningCalls DEF Accepts
        <3>3. CASE position = 2
            BY <3>3, OpeningCalls, OpeningDone DEF Accepts
        <3>. QED BY <3>1, <3>2, <3>3
    <2>2. CASE position > 2 /\ position <= 36
        <3>1. PICK i \in 1..34 : position = 2 + i
            <4>1. position - 2 \in 1..34 /\ position = 2 + (position - 2)
                BY <1>0, <2>2
            <4>. QED BY <4>1
        <3>2. main[position] = <<"Register", RegisteredCallbacks[i]>>
            BY <3>1, OpeningCalls
        <3>3. <<"LoadBACnetFunctions">> \in done
            BY <1>0, <2>2, OpeningDone
        <3>. QED BY <3>2, <3>3 DEF Accepts
    <2>3. CASE position = 37
        BY <2>3, OpeningCalls, OpeningDone DEF Accepts
    <2>4. CASE position > 37
        <3>1. PICK i \in 1..22 : position = 37 + i
            <4>1. position - 37 \in 1..22 /\ position = 37 + (position - 37)
                BY <1>0, <1>1, <2>4
            <4>. QED BY <4>1
        <3>2. main[position] = <<"SetServiceEnabled", Services[i]>>
            BY <3>1, OpeningCalls
        <3>3. <<"LoadBACnetFunctions">> \in done /\ Has("Device")
            BY <1>0, <2>4, OpeningDone DEF Has
        <3>. QED BY <3>2, <3>3, NeedsOnlyDevice
    <2>. QED BY <1>0, <1>1, <2>1, <2>2, <2>3, <2>4
<1>2. CASE position > 59
    <2>0. <<"LoadBACnetFunctions">> \in done /\ <<"SetupUDP">> \in done /\ Has("Device")
        BY <1>0, <1>2, OpeningDone, ObjectsDone
    <2>1. CASE position > 59 /\ position <= 68
        <3>1. PICK i \in 1..9 : position = 59 + i
            <4>1. position - 59 \in 1..9 /\ position = 59 + (position - 59)
                BY <1>0, <2>1
            <4>. QED BY <4>1
        <3>2. /\ main[position] = BaseObjects[i]
              /\ \A j \in 1..(i - 1) : BaseObjects[j] = <<"SendIAm">> \/ BaseObjects[j] \in done
            BY <3>1, MainLists, PartsDone DEF Stands, Past
        <3>3. CASE i \in {1, 2, 3, 4, 5, 6, 7, 8}
            BY <2>0, <3>2, <3>3, NeedsOnlyDevice DEF BaseObjects
        <3>4. CASE i \in {9}
            <4>1. Has(BaseObjects[i][2])
                BY <3>1, <3>2, <3>4, ObjectsDone DEF BaseObjects, Outputs, Has
            <4>. QED BY <2>0, <3>2, <3>4, <4>1, NeedsItsObject DEF BaseObjects
        <3>. QED BY <3>3, <3>4
    <2>2. CASE position > 68 /\ position <= 78
        <3>1. PICK i \in 1..10 : position = 68 + i
            <4>1. position - 68 \in 1..10 /\ position = 68 + (position - 68)
                BY <1>0, <2>2
            <4>. QED BY <4>1
        <3>2. main[position] = Saffron[i] /\ \A j \in 1..(i - 1) : Saffron[j] = <<"SendIAm">> \/ Saffron[j] \in done
            BY <3>1, MainLists, PartsDone DEF Stands, Past
        <3>3. CASE i \in {1, 2}
            BY <2>0, <3>2, <3>3, NeedsOnlyDevice DEF Saffron
        <3>4. CASE i = 3
            BY <2>0, <3>1, <3>2, <3>4, ObjectsDone DEF Saffron, Outputs, Accepts, Has
        <3>5. CASE i = 4
            BY <2>0, <3>1, <3>2, <3>5, ObjectsDone DEF Saffron, Outputs, Accepts, Has
        <3>6. CASE i = 5
            BY <2>0, <3>1, <3>2, <3>6, ObjectsDone DEF Saffron, Outputs, Accepts, Has
        <3>7. CASE i = 6
            BY <2>0, <3>1, <3>2, <3>7, ObjectsDone DEF Saffron, Outputs, Accepts, Has
        <3>8. CASE i = 7
            BY <2>0, <3>1, <3>2, <3>8, ObjectsDone DEF Saffron, Outputs, Accepts, Has
        <3>9. CASE i = 8
            BY <2>0, <3>1, <3>2, <3>9, ObjectsDone DEF Saffron, Outputs, Accepts, Has
        <3>10. CASE i = 9
            BY <2>0, <3>1, <3>2, <3>10, ObjectsDone DEF Saffron, Outputs, Accepts, Has
        <3>11. CASE i = 10
            BY <2>0, <3>1, <3>2, <3>11, ObjectsDone DEF Saffron, Outputs, Accepts, Has
        <3>. QED BY <3>3, <3>4, <3>5, <3>6, <3>7, <3>8, <3>9, <3>10, <3>11
    <2>3. CASE position > 78 /\ position <= 83
        <3>1. PICK i \in 1..5 : position = 78 + i
            <4>1. position - 78 \in 1..5 /\ position = 78 + (position - 78)
                BY <1>0, <2>3
            <4>. QED BY <4>1
        <3>2. main[position] = Ivory[i] /\ \A j \in 1..(i - 1) : Ivory[j] = <<"SendIAm">> \/ Ivory[j] \in done
            BY <3>1, MainLists, PartsDone DEF Stands, Past
        <3>3. CASE i \in {1, 4}
            BY <2>0, <3>2, <3>3, NeedsOnlyDevice DEF Ivory
        <3>4. CASE i \in {2}
            <4>1. Has(Ivory[i][2])
                BY <3>1, <3>2, <3>4, ObjectsDone DEF Ivory, Outputs, Has
            <4>. QED BY <2>0, <3>2, <3>4, <4>1, NeedsItsObject DEF Ivory
        <3>5. CASE i = 3
            BY <2>0, <3>1, <3>2, <3>5, ObjectsDone DEF Ivory, Outputs, Accepts, Has
        <3>6. CASE i = 5
            BY <2>0, <3>1, <3>2, <3>6, ObjectsDone DEF Ivory, Outputs, Accepts, Has
        <3>. QED BY <3>3, <3>4, <3>5, <3>6
    <2>4. CASE position > 83 /\ position <= 99
        <3>1. PICK i \in 1..16 : position = 83 + i
            <4>1. position - 83 \in 1..16 /\ position = 83 + (position - 83)
                BY <1>0, <2>4
            <4>. QED BY <4>1
        <3>2. main[position] = Optional[i] /\ \A j \in 1..(i - 1) : Optional[j] = <<"SendIAm">> \/ Optional[j] \in done
            BY <3>1, MainLists, PartsDone DEF Stands, Past
        <3>3. CASE i \in {15, 16}
            BY <2>0, <3>2, <3>3, NeedsOnlyDevice DEF Optional, MakeCommandable
        <3>4. CASE i \in {1, 2, 3, 4, 5, 6, 7, 8, 9, 10, 11, 12, 13, 14}
            <4>1. Has(Optional[i][2])
                <5>1. Optional[i][2] \in {"Device", "Multi_State_Input", "Analog_Input"} \cup Outputs
                    BY <3>4 DEF Optional, MakeCommandable, Outputs
                <5>2. position > 68
                    BY <3>1
                <5>3. \A type \in {"Device", "Multi_State_Input", "Analog_Input"} \cup Outputs : Has(type)
                    BY <2>0, <5>2, ObjectsDone
                <5>. QED BY <5>1, <5>3
            <4>. QED BY <2>0, <3>2, <3>4, <4>1, NeedsItsObject DEF Optional, MakeCommandable
        <3>. QED BY <3>3, <3>4
    <2>5. CASE position > 99 /\ position <= 108
        <3>1. PICK i \in 1..9 : position = 99 + i
            <4>1. position - 99 \in 1..9 /\ position = 99 + (position - 99)
                BY <1>0, <2>5
            <4>. QED BY <4>1
        <3>2. main[position] = Elevator[i] /\ \A j \in 1..(i - 1) : Elevator[j] = <<"SendIAm">> \/ Elevator[j] \in done
            BY <3>1, MainLists, PartsDone DEF Stands, Past
        <3>3. CASE i \in {1, 4}
            BY <2>0, <3>2, <3>3, NeedsOnlyDevice DEF Elevator, ElevatorOptional
        <3>4. CASE i \in {5, 6, 7, 8, 9}
            <4>1. Has(Elevator[i][2])
                BY <3>1, <3>2, <3>4, ObjectsDone DEF Elevator, ElevatorOptional, Outputs, Has
            <4>. QED BY <2>0, <3>2, <3>4, <4>1, NeedsItsObject DEF Elevator, ElevatorOptional
        <3>5. CASE i = 2
            BY <2>0, <3>1, <3>2, <3>5, ObjectsDone DEF Elevator, ElevatorOptional, Outputs, Accepts, Has
        <3>6. CASE i = 3
            BY <2>0, <3>1, <3>2, <3>6, ObjectsDone DEF Elevator, ElevatorOptional, Outputs, Accepts, Has
        <3>. QED BY <3>3, <3>4, <3>5, <3>6
    <2>6. CASE position > 108 /\ position <= 114
        <3>1. PICK i \in 1..6 : position = 108 + i
            <4>1. position - 108 \in 1..6 /\ position = 108 + (position - 108)
                BY <1>0, <2>6
            <4>. QED BY <4>1
        <3>2. main[position] = Alarming[i] /\ \A j \in 1..(i - 1) : Alarming[j] = <<"SendIAm">> \/ Alarming[j] \in done
            BY <3>1, MainLists, PartsDone DEF Stands, Past
        <3>3. CASE i \in {1}
            BY <2>0, <3>2, <3>3, NeedsOnlyDevice DEF Alarming
        <3>4. CASE i \in {3}
            <4>1. Has(Alarming[i][2])
                BY <3>1, <3>2, <3>4, ObjectsDone DEF Alarming, Outputs, Has
            <4>. QED BY <2>0, <3>2, <3>4, <4>1, NeedsItsObject DEF Alarming
        <3>5. CASE i = 2
            BY <2>0, <3>1, <3>2, <3>5, ObjectsDone DEF Alarming, Outputs, Accepts, Has
        <3>6. CASE i = 4
            BY <2>0, <3>1, <3>2, <3>6, ObjectsDone DEF Alarming, Outputs, Accepts, Has
        <3>7. CASE i = 5
            BY <2>0, <3>1, <3>2, <3>7, ObjectsDone DEF Alarming, Outputs, Accepts, Has
        <3>8. CASE i = 6
            BY <2>0, <3>1, <3>2, <3>8, ObjectsDone DEF Alarming, Outputs, Accepts, Has
        <3>. QED BY <3>3, <3>4, <3>5, <3>6, <3>7, <3>8
    <2>. QED BY <1>0, <1>2, <2>1, <2>2, <2>3, <2>4, <2>5, <2>6
<1>. QED BY <1>0, <1>1, <1>2

\* A place in main() is a place in one of its parts.
LEMMA PlaceInPart ==
    ASSUME NEW i \in 1..114
    PROVE  \/ \E j \in 1..59 : i = j /\ main[i] = Opening[j]
           \/ \E j \in 1..9 : i = 59 + j /\ main[i] = BaseObjects[j]
           \/ \E j \in 1..10 : i = 68 + j /\ main[i] = Saffron[j]
           \/ \E j \in 1..5 : i = 78 + j /\ main[i] = Ivory[j]
           \/ \E j \in 1..16 : i = 83 + j /\ main[i] = Optional[j]
           \/ \E j \in 1..9 : i = 99 + j /\ main[i] = Elevator[j]
           \/ \E j \in 1..6 : i = 108 + j /\ main[i] = Alarming[j]
<1>1. CASE i <= 59
    BY <1>1, MainLists DEF Stands
<1>2. CASE i > 59 /\ i <= 68
    <2>1. i - 59 \in 1..9 /\ i = 59 + (i - 59)
        BY <1>2
    <2>. QED BY <2>1, MainLists DEF Stands
<1>3. CASE i > 68 /\ i <= 78
    <2>1. i - 68 \in 1..10 /\ i = 68 + (i - 68)
        BY <1>3
    <2>. QED BY <2>1, MainLists DEF Stands
<1>4. CASE i > 78 /\ i <= 83
    <2>1. i - 78 \in 1..5 /\ i = 78 + (i - 78)
        BY <1>4
    <2>. QED BY <2>1, MainLists DEF Stands
<1>5. CASE i > 83 /\ i <= 99
    <2>1. i - 83 \in 1..16 /\ i = 83 + (i - 83)
        BY <1>5
    <2>. QED BY <2>1, MainLists DEF Stands
<1>6. CASE i > 99 /\ i <= 108
    <2>1. i - 99 \in 1..9 /\ i = 99 + (i - 99)
        BY <1>6
    <2>. QED BY <2>1, MainLists DEF Stands
<1>7. CASE i > 108 /\ i <= 114
    <2>1. i - 108 \in 1..6 /\ i = 108 + (i - 108)
        BY <1>7
    <2>. QED BY <2>1, MainLists DEF Stands
<1>. QED BY <1>1, <1>2, <1>3, <1>4, <1>5, <1>6, <1>7

\* What the calls of the opening are.
LEMMA OpeningKinds ==
    ASSUME NEW j \in 1..59
    PROVE  Opening[j][1] \in {"LoadBACnetFunctions", "SetupUDP", "Register", "AddDevice", "SetServiceEnabled"}
<1>0. main[j] = Opening[j]
    BY MainLists DEF Stands
<1>1. CASE j <= 2
    <2>1. j = 1 \/ j = 2
        BY <1>1
    <2>. QED BY <1>0, <2>1, OpeningCalls
<1>2. CASE j > 2 /\ j <= 36
    <2>1. j - 2 \in 1..34 /\ j = 2 + (j - 2)
        BY <1>2
    <2>2. main[j] = <<"Register", RegisteredCallbacks[j - 2]>>
        BY <2>1, OpeningCalls
    <2>. QED BY <1>0, <2>2
<1>3. CASE j = 37
    BY <1>0, <1>3, OpeningCalls
<1>4. CASE j > 37
    <2>1. j - 37 \in 1..22 /\ j = 37 + (j - 37)
        BY <1>4
    <2>2. main[j] = <<"SetServiceEnabled", Services[j - 37]>>
        BY <2>1, OpeningCalls
    <2>. QED BY <1>0, <2>2
<1>. QED BY <1>1, <1>2, <1>3, <1>4

\* The announcement is the last call.
LEMMA AnnouncedLast ==
    /\ main[114] = <<"SendIAm">>
    /\ \A i \in 1..113 : main[i][1] # "SendIAm"
<1>1. main[108 + 6] = Alarming[6]
    BY MainLists DEF Stands
<1>2. main[114] = <<"SendIAm">>
    BY <1>1 DEF Alarming
<1>3. ASSUME NEW i \in 1..113 PROVE main[i][1] # "SendIAm"
    <2>0. i \in 1..114
        OBVIOUS
    <2>1. ASSUME NEW j \in 1..59, main[i] = Opening[j] PROVE main[i][1] # "SendIAm"
        BY <2>1, OpeningKinds
    <2>2. ASSUME NEW j \in 1..9, i = 59 + j, main[i] = BaseObjects[j] PROVE main[i][1] # "SendIAm"
        BY <2>2 DEF BaseObjects
    <2>3. ASSUME NEW j \in 1..10, i = 68 + j, main[i] = Saffron[j] PROVE main[i][1] # "SendIAm"
        BY <2>3 DEF Saffron
    <2>4. ASSUME NEW j \in 1..5, i = 78 + j, main[i] = Ivory[j] PROVE main[i][1] # "SendIAm"
        BY <2>4 DEF Ivory
    <2>5. ASSUME NEW j \in 1..16, i = 83 + j, main[i] = Optional[j] PROVE main[i][1] # "SendIAm"
        BY <2>5 DEF Optional, MakeCommandable
    <2>6. ASSUME NEW j \in 1..9, i = 99 + j, main[i] = Elevator[j] PROVE main[i][1] # "SendIAm"
        BY <2>6 DEF Elevator, ElevatorOptional
    <2>7. ASSUME NEW j \in 1..6, i = 108 + j, main[i] = Alarming[j] PROVE main[i][1] # "SendIAm"
        <3>1. j \in 1..5
            BY <2>7
        <3>. QED BY <2>7, <3>1 DEF Alarming
    <2>. QED BY <2>0, <2>1, <2>2, <2>3, <2>4, <2>5, <2>6, <2>7, PlaceInPart
<1>. QED BY <1>2, <1>3

\* Nothing is done when the program starts.
LEMMA StartupInitInv == StartupInit => StartInv
  BY MainLists DEF StartupInit, StartInv, StartupTypeOK, InOrder

\* Every step of start-up keeps the order.
LEMMA StartupNextInv == ASSUME StartInv, StartupNext \/ UNCHANGED startup PROVE StartInv'
<1>. USE DEF StartInv
<1>0. Len(main) = 114 /\ position \in 1..115 /\ DOMAIN main = 1..114
    BY MainLists DEF InOrder, IsList
<1>1. CASE HelpOrVersion
    BY <1>1 DEF HelpOrVersion, StartupTypeOK, InOrder
<1>2. CASE CallSucceeds
    <2>1. /\ outcome = "starting" /\ position <= 114 /\ done' = done \cup {main[position]}
          /\ position' = position + 1 /\ outcome' = outcome /\ period' = period
        BY <1>0, <1>2 DEF CallSucceeds
    <2>2. StartupTypeOK'
        BY <1>0, <2>1 DEF StartupTypeOK
    <2>3. ASSUME NEW i \in 1..(position' - 1), main[i] # <<"SendIAm">> PROVE main[i] \in done'
        <3>1. i = position \/ i \in 1..(position - 1)
            BY <1>0, <2>1
        <3>. QED BY <2>1, <2>3, <3>1 DEF InOrder
    <2>4. done' \subseteq In(main)
        <3>1. main[position] \in In(main)
            BY <1>0, <2>1 DEF In
        <3>. QED BY <2>1, <3>1 DEF InOrder
    <2>5. <<"SendIAm">> \notin done
        BY <2>1 DEF InOrder
    <2>6. ASSUME <<"SendIAm">> \in done' PROVE position' = 115
        <3>1. main[position] = <<"SendIAm">>
            BY <2>1, <2>5, <2>6
        <3>2. main[position][1] = "SendIAm"
            BY <3>1
        <3>3. position \notin 1..113
            BY <3>2, AnnouncedLast
        <3>. QED BY <1>0, <2>1, <3>3
    <2>. QED BY <1>0, <2>1, <2>2, <2>3, <2>4, <2>6 DEF InOrder
<1>3. CASE CallFails
    <2>1. Accepts(main[position])
        BY <1>0, <1>3, AlwaysAccepted DEF CallFails
    <2>. QED BY <1>3, <2>1 DEF CallFails, StartupTypeOK, InOrder
<1>4. CASE AnnouncementFails
    <2>1. /\ outcome = "starting" /\ position <= 114 /\ main[position] = <<"SendIAm">>
          /\ position' = position + 1 /\ UNCHANGED <<done, outcome, period>>
        BY <1>0, <1>4 DEF AnnouncementFails
    <2>2. ASSUME NEW i \in 1..(position' - 1), main[i] # <<"SendIAm">> PROVE main[i] \in done'
        <3>1. i = position \/ i \in 1..(position - 1)
            BY <1>0, <2>1
        <3>. QED BY <2>1, <2>2, <3>1 DEF InOrder
    <2>3. <<"SendIAm">> \notin done
        BY <2>1 DEF InOrder
    <2>4. StartupTypeOK'
        BY <1>0, <2>1 DEF StartupTypeOK
    <2>5. done' \subseteq In(main) /\ position' \in 1..115
        BY <1>0, <2>1 DEF InOrder
    <2>. QED BY <2>1, <2>2, <2>3, <2>4, <2>5 DEF InOrder
<1>5. ASSUME NEW hook \in HookValues, EnterLoop(hook) PROVE StartInv'
    <2>1. position = 115
        BY <1>0, <1>5 DEF EnterLoop
    <2>2. InOrder'
        BY <1>5, <2>1, Zenon DEF EnterLoop, InOrder
    <2>3. StartupTypeOK' /\ outcome' # "refused"
        BY <1>5 DEF EnterLoop, StartupTypeOK
    <2>. QED BY <2>2, <2>3
<1>6. CASE UNCHANGED startup
    BY <1>6 DEF startup, StartupTypeOK, InOrder
<1>. QED BY <1>1, <1>2, <1>3, <1>4, <1>5, <1>6 DEF StartupNext

\* What is enabled is served and what is writable is accepted, call by call.
ServesIt(call) ==
    /\ call[1] = "SetPropertyEnabled" => <<call[2], call[3]>> \in Served
    /\ call[1] \in {"SetPropertyWritable", "SetPropertyByObjectTypeWritable"} =>
          <<call[2], call[3]>> \in SetProperty
              \cup {<<"Event_Log", "Enable">>, <<"Notification_Class", "Recipient_List">>}

\* Every call of main() is served.
LEMMA EnabledIsServed ==
    ASSUME NEW i \in 1..114
    PROVE  ServesIt(main[i])
<1>1. ASSUME NEW j \in 1..59, main[i] = Opening[j] PROVE ServesIt(main[i])
    BY <1>1, OpeningKinds DEF ServesIt
<1>2. ASSUME NEW j \in 1..9, main[i] = BaseObjects[j] PROVE ServesIt(main[i])
    BY <1>2 DEF BaseObjects, ServesIt
<1>3. ASSUME NEW j \in 1..10, main[i] = Saffron[j] PROVE ServesIt(main[i])
    BY <1>3 DEF Saffron, ServesIt
<1>4. ASSUME NEW j \in 1..5, main[i] = Ivory[j] PROVE ServesIt(main[i])
    BY <1>4 DEF Ivory, ServesIt, SetProperty
<1>5. ASSUME NEW j \in 1..16, main[i] = Optional[j] PROVE ServesIt(main[i])
    BY <1>5 DEF Optional, MakeCommandable, ServesIt, SetProperty, Outputs, Served, GetPropertyReal,
                GetPropertyEnumerated, GetPropertyUnsignedInteger, GetPropertyCharString
<1>6. ASSUME NEW j \in 1..9, main[i] = Elevator[j] PROVE ServesIt(main[i])
    BY <1>6 DEF Elevator, ElevatorOptional, ServesIt, Served, GetPropertyEnumerated, GetPropertyBool, GetSequenceLift
<1>7. ASSUME NEW j \in 1..6, main[i] = Alarming[j] PROVE ServesIt(main[i])
    BY <1>7 DEF Alarming, ServesIt
<1>. QED BY <1>1, <1>2, <1>3, <1>4, <1>5, <1>6, <1>7, PlaceInPart

\* The callbacks behind the services.
LEMMA ServicesAreBacked ==
    ASSUME NEW k \in 1..22, NEW callback \in BackedBy(Services[k])
    PROVE  \E i \in 1..34 : callback = RegisteredCallbacks[i]
<1>1. ASSUME NEW i \in 1..3, callback = CommonCallbacks[i] PROVE \E j \in 1..34 : callback = RegisteredCallbacks[j]
    <2>1. 0 + i \in 1..34 /\ RegisteredCallbacks[0 + i] = callback
        BY <1>1, CallbackLists DEF Stands
    <2>. QED BY <2>1
<1>2. ASSUME NEW i \in 1..13, callback = GetCallbacks[i] PROVE \E j \in 1..34 : callback = RegisteredCallbacks[j]
    <2>1. 3 + i \in 1..34 /\ RegisteredCallbacks[3 + i] = callback
        BY <1>2, CallbackLists DEF Stands
    <2>. QED BY <2>1
<1>3. ASSUME NEW i \in 1..6, callback = SetCallbacks[i] PROVE \E j \in 1..34 : callback = RegisteredCallbacks[j]
    <2>1. 16 + i \in 1..34 /\ RegisteredCallbacks[16 + i] = callback
        BY <1>3, CallbackLists DEF Stands
    <2>. QED BY <2>1
<1>4. ASSUME NEW i \in 1..12, callback = ServiceCallbacks[i] PROVE \E j \in 1..34 : callback = RegisteredCallbacks[j]
    <2>1. 22 + i \in 1..34 /\ RegisteredCallbacks[22 + i] = callback
        BY <1>4, CallbackLists DEF Stands
    <2>. QED BY <2>1
<1>5. CASE callback \in {"ReceiveMessage", "SendMessage"}
    <2>1. callback = CommonCallbacks[1] \/ callback = CommonCallbacks[2]
        BY <1>5 DEF CommonCallbacks
    <2>. QED BY <1>1, <2>1
<1>6. CASE callback \in {"GetPropertyReal", "GetPropertyEnumerated", "GetPropertyUnsignedInteger", "GetPropertyBool",
             "GetPropertyCharacterString", "GetPropertyOctetString", "GetPropertyDate", "GetPropertyTime"}
    <2>1. \E i \in 1..13 : callback = GetCallbacks[i]
        BY <1>6 DEF GetCallbacks
    <2>. QED BY <1>2, <2>1
<1>7. CASE callback \in {"SetPropertyReal", "SetPropertyEnumerated", "SetPropertyUnsignedInteger", "SetPropertyBool",
             "SetPropertyNull", "SetElevatorGroupLandingCallControl"}
    <2>1. \E i \in 1..6 : callback = SetCallbacks[i]
        BY <1>7 DEF SetCallbacks
    <2>. QED BY <1>3, <2>1
<1>8. CASE callback \in {"SetSystemTime", "ReadFile", "WriteFile", "ReinitializeDevice", "PrepareBackup",
             "CompleteBackup", "PrepareRestore", "CompleteRestore", "DeviceCommunicationControl",
             "AcknowledgeAlarm", "CreateObject", "DeleteObject"}
    <2>1. \E i \in 1..12 : callback = ServiceCallbacks[i]
        BY <1>8 DEF ServiceCallbacks
    <2>. QED BY <1>4, <2>1
<1>. QED BY <1>5, <1>6, <1>7, <1>8 DEF BackedBy

\* Behind the last call the device is whole.
LEMMA StartedWhole == StartInv => WholeBeforeAnnounced
<1>. SUFFICES ASSUME StartInv, outcome = "running" \/ <<"SendIAm">> \in done
              PROVE  /\ \A type \in Named : Has(type)
                     /\ \A service \in {Services[i] : i \in DOMAIN Services} :
                          /\ <<"SetServiceEnabled", service>> \in done
                          /\ \A callback \in BackedBy(service) : <<"Register", callback>> \in done
                     /\ \A call \in done : ServesIt(call)
    BY DEF StartInv, WholeBeforeAnnounced, ServesIt
<1>0. InOrder /\ position = 115
    BY DEF StartInv, InOrder
<1>1. position > 59
    BY <1>0
<1>2. \A type \in Named : Has(type)
    BY <1>0, ObjectsDone DEF Named
<1>3. DOMAIN Services = 1..22
    BY DEF Services
<1>4. \A k \in 1..22 : <<"SetServiceEnabled", Services[k]>> \in done
    BY <1>0, <1>1, OpeningDone, Zenon
<1>5. ASSUME NEW k \in 1..22, NEW callback \in BackedBy(Services[k]) PROVE <<"Register", callback>> \in done
    <2>1. PICK i \in 1..34 : callback = RegisteredCallbacks[i]
        BY ServicesAreBacked
    <2>2. \A j \in 1..34 : <<"Register", RegisteredCallbacks[j]>> \in done
        BY <1>0, <1>1, OpeningDone, Zenon
    <2>. QED BY <2>1, <2>2
<1>6. ASSUME NEW call \in done PROVE ServesIt(call)
    <2>1. PICK i \in DOMAIN main : call = main[i]
        BY <1>0 DEF InOrder, In
    <2>2. DOMAIN main = 1..114
        BY MainLists DEF IsList
    <2>. QED BY <2>1, <2>2, EnabledIsServed
<1>. QED BY <1>2, <1>3, <1>4, <1>5, <1>6

-----------------------------------------------------------------------------
(* A read. *)

\* The length the stack is told.
LengthOf(p) ==
    CASE p = "Priority_Array" -> BACNET_PRIORITY_ARRAY_SIZE
      [] p = "State_Text" -> MULTI_STATE_INPUT_NUMBER_OF_STATES
      [] OTHER -> LIFT_NUMBER_OF_DOORS

\* One call gives the value.
AsScalar ==
    \/ object \in AnalogValues /\ property = "Present_Value"
    \/ <<object, property>> \in Documented /\ Kind(object, property) = "scalar"

\* The elements before the index have been read.
AsArray ==
    /\ <<object, property>> \in Arrays
    /\ length = LengthOf(property) /\ index \in 1..(length + 1)
    /\ <<object, property>> \notin GetSequenceLift => answer \in Seq({property, "null"}) /\ Len(answer) = index - 1
    /\ <<object, property>> \in GetSequenceLift => index = 1 /\ answer = <<>>

\* The calls before the offset have been read, and there are more.
AsList ==
    /\ <<object, property>> \in Lists \cup GetSequenceLift
    /\ property \in {"Landing_Calls", "Assigned_Landing_Calls"} =>
          /\ index = 0 \/ index < Len(calls)
          /\ Len(answer) = index /\ \A i \in 1..index : answer[i] = calls[i]
    /\ property \notin {"Landing_Calls", "Assigned_Landing_Calls"} => index = 0 /\ answer = <<>>

\* The slots before the index are null.
AsSlots ==
    /\ object \in Outputs /\ property = "Priority_Array"
    /\ index \in 1..(BACNET_PRIORITY_ARRAY_SIZE + 1)
    /\ \A i \in 1..(index - 1) : i \notin commanded[object]

\* A read is on its way to the right answer, and only the Schedule's Reliability is
\* declined.
ReadInv ==
    /\ TypeOK /\ calls \in Seq(Calls)
    /\ at = "none" => index = 0
    /\ at # "none" => outcome = "running" /\ (object \in AnalogValues => object \in created)
    /\ at \in {"none", "scalar", "length", "slot"} => length = 0 /\ answer = <<>>
    /\ at = "scalar" => AsScalar
    /\ at = "length" => <<object, property>> \in Arrays
    /\ at = "element" => AsArray
    /\ at = "page" => AsList
    /\ at = "slot" => AsSlots
    /\ at = "value" => AnswerIsRight
    /\ at = "declined" => object = "Schedule" /\ property = "Reliability"

IInv == StartInv /\ ReadInv

\* A device that runs has registered the callbacks.
LEMMA CallbacksThere ==
    ASSUME StartInv, outcome = "running"
    PROVE  \A datatype \in Typing : <<"Register", datatype>> \in done
<1>1. Services[1] = "ReadProperty" /\ DOMAIN Services = 1..22
    BY DEF Services
<1>2. "ReadProperty" \in {Services[i] : i \in DOMAIN Services}
    BY <1>1
<1>3. \A callback \in BackedBy("ReadProperty") : <<"Register", callback>> \in done
    BY <1>2, StartedWhole, Zenon DEF WholeBeforeAnnounced
<1>4. Typing \subseteq BackedBy("ReadProperty")
    BY BranchFacts DEF BackedBy
<1>. QED BY <1>3, <1>4, Zenon

\* The objects of the inventory are of their own type.
LEMMA NamedIsNoAnalogValue == \A o \in Named : o \notin AnalogValues /\ Type(o) = o
  BY ReadsAssumption DEF Type

\* One call is answered.
LEMMA ScalarAnswered ==
    ASSUME IInv, at = "scalar", <<object, property>> # <<"Schedule", "Reliability">>
    PROVE  Typed(0)
<1>. SUFFICES ASSUME NEW datatype \in Datatypes(Type(object), property) PROVE Answers(datatype, 0)
    BY DEF Typed
<1>0. AsScalar /\ outcome = "running" /\ (object \in AnalogValues => object \in created) /\ StartInv
    BY DEF IInv, ReadInv
<1>1. CASE object \in AnalogValues /\ property = "Present_Value"
    <2>1. Type(object) = "Analog_Value"
        BY <1>1 DEF Type
    <2>2. datatype = "GetPropertyReal"
        BY <1>1, <2>1 DEF Datatypes, ValueType
    <2>3. <<"Register", "GetPropertyReal">> \in done
        BY <1>0, CallbacksThere, BranchFacts
    <2>4. <<"Analog_Value", "Present_Value">> \in Branches["GetPropertyReal"]
        BY BranchFacts DEF GetPropertyReal
    <2>. QED BY <1>0, <1>1, <2>1, <2>2, <2>3, <2>4 DEF Answers, PerDoor
<1>2. CASE <<object, property>> \in Documented /\ Kind(object, property) = "scalar"
    <2>1. object \in Named /\ Backed(object, property)
        <3>. DEFINE d == <<object, property>>
        <3>1. d \in Documented /\ d[1] = object /\ d[2] = property /\ d # <<"Schedule", "Reliability">>
            BY <1>2
        <3>. HIDE DEF d
        <3>. QED BY <1>2, <3>1, DocumentedBacked
    <2>2. object \notin AnalogValues /\ Type(object) = object
        BY <2>1, NamedIsNoAnalogValue
    <2>3. datatype \in Typing /\ <<object, property>> \in Branches[datatype]
        BY <2>1, <2>2 DEF Backed
    <2>4. <<"Register", datatype>> \in done
        BY <1>0, <2>3, CallbacksThere
    <2>5. property \notin {"Priority_Array", "State_Text"} \cup PerDoor
        BY <1>2 DEF Kind
    <2>. QED BY <2>2, <2>3, <2>4, <2>5 DEF Answers
<1>. QED BY <1>0, <1>1, <1>2 DEF AsScalar

\* An array's length is answered.
LEMMA LengthAnswered ==
    ASSUME IInv, at = "length", property # "Priority_Array"
    PROVE  Answers("GetPropertyUnsignedInteger", 0)
<1>0. <<object, property>> \in Arrays /\ outcome = "running" /\ StartInv
    BY DEF IInv, ReadInv
<1>1. <<object, property>> \in GetPropertyUnsignedInteger /\ object \in Named
    BY <1>0 DEF Arrays, GetPropertyUnsignedInteger, Named
<1>2. object \notin AnalogValues /\ Type(object) = object
    BY <1>1, NamedIsNoAnalogValue
<1>3. <<"Register", "GetPropertyUnsignedInteger">> \in done
    BY <1>0, CallbacksThere, BranchFacts
<1>4. Branches["GetPropertyUnsignedInteger"] = GetPropertyUnsignedInteger
    BY BranchFacts
<1>. QED BY <1>1, <1>2, <1>3, <1>4 DEF Answers

\* The elements that are answered are the ones there are.
LEMMA ElementsAnswered ==
    ASSUME IInv, outcome = "running", NEW i \in Nat,
           <<object, property>> \in Arrays, <<object, property>> \notin GetSequenceLift,
           property # "Priority_Array"
    PROVE  Typed(i) <=> i \in 1..LengthOf(property)
<1>0. StartInv
    BY DEF IInv
<1>1. \/ object = "Multi_State_Input" /\ property = "State_Text"
      \/ object = "Lift" /\ property = "Car_Door_Status"
    BY DEF Arrays, GetSequenceLift, PerDoor
<1>2. object \in Named
    BY <1>1 DEF Named
<1>3. object \notin AnalogValues /\ Type(object) = object
    BY <1>2, NamedIsNoAnalogValue
<1>4. <<"Register", "GetPropertyCharacterString">> \in done /\ <<"Register", "GetPropertyEnumerated">> \in done
    BY <1>0, CallbacksThere, BranchFacts
<1>5. CASE object = "Multi_State_Input" /\ property = "State_Text"
    <2>1. Datatypes(Type(object), property) = {"GetPropertyCharacterString"}
        BY <1>3, <1>5 DEF Datatypes
    <2>2. <<object, property>> \in Branches["GetPropertyCharacterString"]
        BY <1>5, BranchFacts DEF GetPropertyCharString
    <2>3. Answers("GetPropertyCharacterString", i) <=> i \in 1..MULTI_STATE_INPUT_NUMBER_OF_STATES
        BY <1>3, <1>4, <1>5, <2>2 DEF Answers, PerDoor
    <2>. QED BY <1>5, <2>1, <2>3 DEF Typed, LengthOf
<1>6. CASE object = "Lift" /\ property = "Car_Door_Status"
    <2>1. Datatypes(Type(object), property) = {"GetPropertyEnumerated"}
        BY <1>3, <1>6 DEF Datatypes
    <2>2. <<object, property>> \in Branches["GetPropertyEnumerated"]
        BY <1>6, BranchFacts DEF GetPropertyEnumerated
    <2>3. Answers("GetPropertyEnumerated", i) <=> i \in 1..LIFT_NUMBER_OF_DOORS
        BY <1>3, <1>4, <1>6, <2>2 DEF Answers, PerDoor
    <2>. QED BY <1>6, <2>1, <2>3 DEF Typed, LengthOf
<1>. QED BY <1>1, <1>5, <1>6

\* Every slot of an output is answered for, with a null or with a value.
LEMMA SlotsAnswered ==
    ASSUME IInv, outcome = "running", object \in Outputs, property = "Priority_Array",
           NEW i \in 1..BACNET_PRIORITY_ARRAY_SIZE
    PROVE  Answers("GetPropertyBool", i) /\ (i \in commanded[object] => Typed(i))
<1>0. StartInv
    BY DEF IInv
<1>1. object \in Named
    BY DEF Named
<1>2. object \notin AnalogValues /\ Type(object) = object
    BY <1>1, NamedIsNoAnalogValue
<1>3. \A datatype \in Typing : <<"Register", datatype>> \in done
    BY <1>0, CallbacksThere, Zenon
<1>4. <<object, property>> \in Branches["GetPropertyBool"] /\ "GetPropertyBool" \in Typing
    BY BranchFacts DEF GetPropertyBool
<1>5. Answers("GetPropertyBool", i)
    BY <1>2, <1>3, <1>4 DEF Answers, PerDoor
<1>6. ASSUME i \in commanded[object] PROVE Typed(i)
    <2>. SUFFICES ASSUME NEW datatype \in Datatypes(Type(object), property) PROVE Answers(datatype, i)
        BY DEF Typed
    <2>1. datatype = ValueType(object)
        BY <1>2 DEF Datatypes
    <2>2. datatype \in Typing /\ <<object, property>> \in Branches[datatype]
        BY <2>1, BranchFacts DEF ValueType, Outputs, GetPropertyReal, GetPropertyEnumerated,
                                 GetPropertyUnsignedInteger
    <2>. QED BY <1>2, <1>3, <1>6, <2>2 DEF Answers, PerDoor
<1>. QED BY <1>5, <1>6

\* Nothing is read when the program starts.
LEMMA InitIInv == Init => IInv
<1>. SUFFICES ASSUME Init PROVE ReadInv
    BY StartupInitInv DEF Init, IInv
<1>1. calls \in Seq(Calls) /\ answer \in Seq(Calls) /\ commanded \in [Outputs -> SUBSET (1..BACNET_PRIORITY_ARRAY_SIZE)]
    BY DEF Init
<1>. QED BY <1>1 DEF Init, ReadInv, TypeOK

\* Reading begins.
LEMMA ReadPropertyInv == ASSUME IInv, ReadProperty PROVE IInv'
<1>0. StartInv'
    BY DEF IInv, StartInv, StartupTypeOK, InOrder, ReadProperty, startup
<1>1. /\ outcome' = "running" /\ calls' \in Seq(Calls) /\ length' = 0 /\ answer' = <<>>
      /\ commanded' \in [Outputs -> SUBSET (1..BACNET_PRIORITY_ARRAY_SIZE)] /\ created' \subseteq AnalogValues
    BY ReadsAssumption DEF ReadProperty, IInv, ReadInv, startup
<1>2. PICK pair \in {d \in Documented : Has(d[1])} \cup (created' \X {"Present_Value"}) :
        /\ object' = pair[1]
        /\ at' = Kind(pair[1], pair[2])
        /\ property' = IF at' = "slot" THEN "Priority_Array" ELSE pair[2]
        /\ index' = IF at' = "slot" THEN 1 ELSE 0
    BY DEF ReadProperty
<1>3. answer' \in Seq(Calls) /\ index' \in Nat
    BY <1>1, <1>2
<1>4. CASE pair \in created' \X {"Present_Value"}
    <2>1. object' \in AnalogValues /\ object' \in created' /\ pair[2] = "Present_Value"
        BY <1>1, <1>2, <1>4
    <2>2. object' \notin Outputs
        BY <2>1, ReadsAssumption DEF Named
    <2>3. at' = "scalar" /\ property' = "Present_Value"
        BY <1>2, <2>1, <2>2 DEF Kind, PerDoor
    <2>4. ReadInv'
        BY <1>1, <1>3, <2>1, <2>3 DEF ReadInv, TypeOK, AsScalar
    <2>. QED BY <1>0, <2>4 DEF IInv
<1>5. CASE pair \in Documented
    <2>1. /\ pair = <<pair[1], pair[2]>> /\ pair[1] \in Named
          /\ at' \in {"slot", "length", "page", "scalar"}
          /\ at' = "slot" => pair[1] \in Outputs /\ pair[2] = "Present_Value"
          /\ at' = "length" => pair \in Arrays
          /\ at' = "page" => pair \in Lists
        BY <1>2, <1>5, DocumentedKinds
    <2>2. object' \notin AnalogValues
        BY <1>2, <2>1, NamedIsNoAnalogValue
    <2>3. at' # "slot" => <<object', property'>> = pair /\ index' = 0
        BY <1>2, <2>1
    <2>4. CASE at' = "slot"
        <3>1. AsSlots'
            BY <1>2, <2>1, <2>4, ReadsAssumption DEF AsSlots
        <3>. QED BY <1>0, <1>1, <1>3, <2>2, <2>4, <3>1 DEF IInv, ReadInv, TypeOK
    <2>5. CASE at' = "length"
        BY <1>0, <1>1, <1>3, <2>1, <2>2, <2>3, <2>5 DEF IInv, ReadInv, TypeOK
    <2>6. CASE at' = "page"
        <3>1. AsList'
            BY <1>1, <2>1, <2>3, <2>6 DEF AsList
        <3>. QED BY <1>0, <1>1, <1>3, <2>2, <2>6, <3>1 DEF IInv, ReadInv, TypeOK
    <2>7. CASE at' = "scalar"
        <3>1. AsScalar'
            BY <1>2, <1>5, <2>3, <2>7 DEF AsScalar
        <3>. QED BY <1>0, <1>1, <1>3, <2>2, <2>7, <3>1 DEF IInv, ReadInv, TypeOK
    <2>. QED BY <2>1, <2>4, <2>5, <2>6, <2>7
<1>. QED BY <1>4, <1>5

\* What a call of the stack leaves alone.
LEMMA Meanwhile ==
    ASSUME IInv, UNCHANGED <<startup, device, object>>
    PROVE  /\ StartInv' /\ calls' \in Seq(Calls) /\ created' \subseteq AnalogValues
           /\ commanded' \in [Outputs -> SUBSET (1..BACNET_PRIORITY_ARRAY_SIZE)]
           /\ at # "none" => outcome' = "running" /\ (object' \in AnalogValues => object' \in created')
  BY DEF IInv, ReadInv, TypeOK, StartInv, StartupTypeOK, InOrder, startup, device

\* A read that is over.
LEMMA OverInv ==
    ASSUME IInv, UNCHANGED <<startup, device, object>>, at # "none", index' \in Nat, length' \in Nat,
           property' \in {"Landing_Calls", "Assigned_Landing_Calls"} => answer' \in Seq(Calls),
           \/ at' = "value" /\ AnswerIsRight'
           \/ at' = "declined" /\ object' = "Schedule" /\ property' = "Reliability"
    PROVE  IInv'
  BY Meanwhile DEF IInv, ReadInv, TypeOK

\* A value in one call.
LEMMA ReadScalarInv == ASSUME IInv, ReadScalar PROVE IInv'
<1>0. at = "scalar" /\ AsScalar /\ index \in Nat /\ length \in Nat /\ answer = <<>>
    BY DEF IInv, ReadInv, TypeOK, ReadScalar
<1>1. property \notin {"Landing_Calls", "Assigned_Landing_Calls", "Landing_Call_Control", "State_Text",
                      "Car_Door_Status", "Priority_Array"}
    BY <1>0 DEF AsScalar, Kind, PerDoor
<1>2. UNCHANGED <<startup, device, object, property, length>> /\ index' = index
    BY DEF ReadScalar, Finish, Fail, Continue
<1>3. CASE Typed(0)
    <2>1. at' = "value"
        BY <1>3 DEF ReadScalar, Finish, Continue
    <2>2. AnswerIsRight'
        BY <1>1, <1>2 DEF AnswerIsRight
    <2>. QED BY <1>0, <1>1, <1>2, <2>1, <2>2, OverInv
<1>4. CASE ~Typed(0)
    <2>1. at' = "declined"
        BY <1>4 DEF ReadScalar, Fail, Continue
    <2>2. <<object, property>> = <<"Schedule", "Reliability">>
        BY <1>0, <1>4, ScalarAnswered
    <2>3. object' = "Schedule" /\ property' = "Reliability"
        BY <1>2, <2>2
    <2>. QED BY <1>0, <1>1, <1>2, <2>1, <2>3, OverInv
<1>. QED BY <1>3, <1>4

\* Lengths are numbers.
LEMMA LengthIsNat == \A p : LengthOf(p) \in Nat
  BY ReadsAssumption DEF LengthOf

\* An array's length.
LEMMA ReadLengthInv == ASSUME IInv, ReadLength PROVE IInv'
<1>0. at = "length" /\ <<object, property>> \in Arrays /\ answer = <<>>
    BY DEF IInv, ReadInv, ReadLength
<1>1. property = "Priority_Array" \/ Answers("GetPropertyUnsignedInteger", 0)
    BY <1>0, LengthAnswered
<1>2. /\ length' = LengthOf(property) /\ at' = "element" /\ index' = 1
      /\ UNCHANGED <<startup, device, object, property, answer>>
    BY <1>1 DEF ReadLength, LengthOf
<1>3. length' \in Nat /\ index' \in 1..(length' + 1)
    BY <1>2, LengthIsNat
<1>4. answer' \in Seq({property, "null"}) /\ answer' \in Seq(Calls) /\ Len(answer') = 0
    BY <1>0, <1>2
<1>5. AsArray'
    BY <1>0, <1>2, <1>3, <1>4 DEF AsArray
<1>. QED BY <1>0, <1>2, <1>3, <1>4, <1>5, Meanwhile DEF IInv, ReadInv, TypeOK

\* One more element, or one more call.
LEMMA OneMore ==
    ASSUME NEW S, NEW q \in Seq(S), NEW e \in S
    PROVE  /\ q \o <<e>> \in Seq(S) /\ Len(q \o <<e>>) = Len(q) + 1
           /\ \A i \in 1..Len(q) : (q \o <<e>>)[i] = q[i]
           /\ (q \o <<e>>)[Len(q) + 1] = e
OBVIOUS

\* An element of an array, or the list of a door.
LEMMA ReadElementInv == ASSUME IInv, ReadElement PROVE IInv'
<1>0. /\ at = "element" /\ AsArray /\ index \in Nat /\ length \in Nat /\ outcome = "running"
      /\ property \in {"Landing_Calls", "Assigned_Landing_Calls"} => answer \in Seq(Calls)
    BY DEF IInv, ReadInv, TypeOK, ReadElement
<1>1. UNCHANGED <<startup, device, object, property, length>>
    BY DEF ReadElement, Finish, Fail, Continue
<1>2. CASE index > length
    <2>1. at' = "value" /\ index' = index /\ answer' = answer \o <<>>
        BY <1>0, <1>2 DEF ReadElement, Finish, Continue
    <2>2. <<object, property>> \notin GetSequenceLift
        <3>1. ASSUME <<object, property>> \in GetSequenceLift PROVE length >= 1
            BY <1>0, <3>1, ReadsAssumption DEF AsArray, LengthOf, GetSequenceLift
        <3>. QED BY <1>0, <1>2, <3>1 DEF AsArray
    <2>3. property \in {"Priority_Array", "State_Text", "Car_Door_Status"}
        BY <1>0, <2>2 DEF AsArray, Arrays, GetSequenceLift, PerDoor
    <2>4. answer \in Seq({property, "null"}) /\ Len(answer) = index - 1 /\ index = length + 1
        BY <1>0, <1>2, <2>2 DEF AsArray
    <2>5. answer' = answer /\ Len(answer') = length'
        <3>1. answer \o <<>> = answer
            BY <2>4
        <3>2. Len(answer) = length
            BY <1>0, <2>4
        <3>. QED BY <1>1, <2>1, <3>1, <3>2
    <2>6. property = "Priority_Array" => length # 0
        BY <1>0, ReadsAssumption DEF AsArray, LengthOf
    <2>7. AnswerIsRight'
        BY <1>1, <2>3, <2>5, <2>6 DEF AnswerIsRight
    <2>. QED BY <1>0, <1>1, <2>1, <2>3, <2>7, OverInv
<1>3. CASE index <= length /\ <<object, property>> \in GetSequenceLift
    <2>1. at' = "page" /\ index' = 0 /\ answer' = answer \o <<>>
        BY <1>0, <1>3 DEF ReadElement, Continue
    <2>2. answer = <<>>
        BY <1>0, <1>3 DEF AsArray
    <2>3. answer' = <<>>
        BY <2>1, <2>2
    <2>4. AsList' /\ answer' \in Seq(Calls)
        BY <1>1, <1>3, <2>1, <2>3 DEF AsList
    <2>. QED BY <1>0, <1>1, <2>1, <2>4, Meanwhile DEF IInv, ReadInv, TypeOK
<1>4. CASE index <= length /\ <<object, property>> \notin GetSequenceLift
    <2>1. /\ <<object, property>> \in Arrays /\ length = LengthOf(property) /\ index \in 1..length
          /\ answer \in Seq({property, "null"}) /\ Len(answer) = index - 1
        BY <1>0, <1>4 DEF AsArray
    <2>2. property \in {"Priority_Array", "State_Text", "Car_Door_Status"}
        BY <1>4, <2>1 DEF Arrays, GetSequenceLift, PerDoor
    <2>3. \E e \in {property, "null"} : Continue("element", index + 1, <<e>>)
        <3>1. CASE property = "Priority_Array"
            <4>1. object \in Outputs /\ index \in 1..BACNET_PRIORITY_ARRAY_SIZE
                BY <2>1, <3>1 DEF Arrays, LengthOf, PerDoor
            <4>2. Answers("GetPropertyBool", index) /\ (index \in commanded[object] => Typed(index))
                BY <1>0, <3>1, <4>1, SlotsAnswered
            <4>. QED BY <1>0, <1>4, <3>1, <4>2 DEF ReadElement
        <3>2. CASE property # "Priority_Array"
            <4>1. Typed(index)
                BY <1>0, <1>4, <2>1, <3>2, ElementsAnswered
            <4>. QED BY <1>0, <1>4, <3>2, <4>1 DEF ReadElement
        <3>. QED BY <3>1, <3>2
    <2>4. PICK e \in {property, "null"} : Continue("element", index + 1, <<e>>)
        BY <2>3
    <2>5. at' = "element" /\ index' = index + 1 /\ answer' = answer \o <<e>>
        BY <2>4 DEF Continue
    <2>6. answer' \in Seq({property, "null"}) /\ Len(answer') = index' - 1
        BY <2>1, <2>5, OneMore
    <2>7. AsArray'
        <3>1. index + 1 \in 1..(length + 1)
            BY <1>0, <2>1
        <3>. QED BY <1>1, <1>4, <2>1, <2>5, <2>6, <3>1 DEF AsArray
    <2>. QED BY <1>0, <1>1, <2>2, <2>5, <2>7, Meanwhile DEF IInv, ReadInv, TypeOK
<1>. QED BY <1>0, <1>2, <1>3, <1>4

\* A slot on the way to a Present_Value.
LEMMA ReadSlotInv == ASSUME IInv, ReadSlot PROVE IInv'
<1>0. /\ at = "slot" /\ AsSlots /\ index \in Nat /\ length = 0 /\ outcome = "running" /\ answer = <<>>
    BY DEF IInv, ReadInv, TypeOK, ReadSlot
<1>1. object \in Outputs /\ property = "Priority_Array" /\ commanded[object] \subseteq 1..BACNET_PRIORITY_ARRAY_SIZE
    BY <1>0 DEF AsSlots, IInv, ReadInv, TypeOK
<1>2. CASE index > BACNET_PRIORITY_ARRAY_SIZE
    <2>1. /\ at' = "scalar" /\ property' = "Relinquish_Default" /\ index' = 0
          /\ UNCHANGED <<startup, device, object, length, answer>>
        BY <1>2 DEF ReadSlot
    <2>2. <<object, "Relinquish_Default">> \in Documented
        BY <1>1 DEF Documented
    <2>3. Kind(object, "Relinquish_Default") = "scalar"
        BY DEF Kind, PerDoor
    <2>4. AsScalar'
        BY <2>1, <2>2, <2>3 DEF AsScalar
    <2>. QED BY <1>0, <2>1, <2>4, Meanwhile DEF IInv, ReadInv, TypeOK
<1>3. CASE index <= BACNET_PRIORITY_ARRAY_SIZE
    <2>1. index \in 1..BACNET_PRIORITY_ARRAY_SIZE
        BY <1>0, <1>3 DEF AsSlots
    <2>2. Answers("GetPropertyBool", index) /\ (index \in commanded[object] => Typed(index))
        BY <1>0, <1>1, <2>1, SlotsAnswered
    <2>3. ~(index > BACNET_PRIORITY_ARRAY_SIZE)
        BY <2>1, ReadsAssumption
    <2>4. CASE index \notin commanded[object]
        <3>1. /\ at' = "slot" /\ index' = index + 1 /\ answer' = answer \o <<>>
              /\ UNCHANGED <<startup, device, object, property, length>>
            BY <2>2, <2>4, <2>3 DEF ReadSlot, Continue
        <3>2. answer' = <<>> /\ UNCHANGED commanded
            BY <1>0, <3>1 DEF device
        <3>3. \A i \in 1..(index' - 1) : i \notin commanded'[object']
            <4>. SUFFICES ASSUME NEW i \in 1..index PROVE i \notin commanded[object]
                BY <1>0, <3>1, <3>2
            <4>1. i = index \/ i \in 1..(index - 1)
                BY <1>0
            <4>. QED BY <1>0, <2>4, <4>1 DEF AsSlots
        <3>4. AsSlots'
            BY <1>1, <2>1, <3>1, <3>3, ReadsAssumption DEF AsSlots
        <3>. QED BY <1>0, <1>1, <3>1, <3>2, <3>4, Meanwhile DEF IInv, ReadInv, TypeOK
    <2>5. CASE index \in commanded[object]
        <3>1. /\ at' = "value" /\ index' = index /\ answer' = answer \o <<index>>
              /\ UNCHANGED <<startup, device, object, property, length>>
            BY <2>2, <2>5, <2>3 DEF ReadSlot, Finish, Continue
        <3>2. answer'[1] = index /\ UNCHANGED commanded
            BY <1>0, <3>1 DEF device
        <3>3. ASSUME NEW i \in commanded[object] PROVE index <= i
            <4>1. i \in Nat /\ i >= 1 /\ i \notin 1..(index - 1)
                BY <1>0, <1>1, <3>3 DEF AsSlots
            <4>. QED BY <1>0, <4>1
        <3>4. AnswerIsRight'
            BY <1>0, <1>1, <3>1, <3>2, <3>3 DEF AnswerIsRight
        <3>. QED BY <1>0, <1>1, <3>1, <3>4, OverInv
    <2>. QED BY <2>4, <2>5
<1>. QED BY <1>0, <1>2, <1>3, ReadsAssumption

\* Lists of the same length with the same elements.
LEMMA SameList ==
    ASSUME NEW S, NEW q \in Seq(S), NEW r \in Seq(S), Len(q) = Len(r), \A i \in 1..Len(r) : q[i] = r[i]
    PROVE  q = r
OBVIOUS

\* What the paging callbacks answer.
LEMMA PageFacts ==
    ASSUME NEW p, NEW offset \in Nat, Len(calls) \in Nat
    PROVE  /\ p \in {"Landing_Calls", "Assigned_Landing_Calls"} /\ offset < Len(calls) =>
                 /\ Page(p, offset).supplied /\ Page(p, offset).element = <<calls[offset + 1]>>
                 /\ Page(p, offset).more = (offset + 1 < Len(calls))
           /\ p \in {"Landing_Calls", "Assigned_Landing_Calls"} /\ ~(offset < Len(calls)) => ~Page(p, offset).supplied
           /\ p = "Landing_Call_Control" =>
                 /\ Page(p, offset).supplied /\ ~Page(p, offset).more
                 /\ Page(p, offset).element = <<IF control = None THEN NoCall ELSE control>>
           /\ p \notin {"Landing_Calls", "Assigned_Landing_Calls"} => ~Page(p, offset).more
<1>1. CASE p \in {"Landing_Calls", "Assigned_Landing_Calls"}
    BY <1>1 DEF Page
<1>2. CASE p = "Landing_Call_Control"
    BY <1>2 DEF Page
<1>3. CASE p \notin {"Landing_Calls", "Assigned_Landing_Calls"}
    BY <1>3 DEF Page
<1>. QED BY <1>1, <1>2, <1>3

\* A page of a list.
LEMMA ReadPageInv == ASSUME IInv, ReadPage PROVE IInv'
<1>. DEFINE page == Page(property, index)
<1>0. /\ at = "page" /\ AsList /\ index \in Nat /\ length \in Nat /\ outcome = "running"
      /\ calls \in Seq(Calls) /\ Len(calls) \in Nat
      /\ property \in {"Landing_Calls", "Assigned_Landing_Calls"} => answer \in Seq(Calls)
    BY DEF IInv, ReadInv, TypeOK, ReadPage
<1>1. UNCHANGED <<startup, device, object, property, length>> /\ UNCHANGED <<calls, control>>
    BY DEF ReadPage, Finish, Fail, Continue, device
<1>2. /\ page.supplied /\ page.more => Continue("page", index + 1, page.element)
      /\ page.supplied /\ ~page.more => Finish(page.element)
      /\ ~page.supplied => IF index = 0 THEN Finish(<<>>) ELSE Fail
    BY DEF ReadPage
<1>3. CASE property \in {"Landing_Calls", "Assigned_Landing_Calls"}
    <2>0. /\ answer \in Seq(Calls) /\ Len(answer) = index /\ \A i \in 1..index : answer[i] = calls[i]
          /\ index = 0 \/ index < Len(calls)
        BY <1>0, <1>3 DEF AsList
    <2>1. CASE index < Len(calls)
        <3>1. /\ page.supplied /\ page.element = <<calls[index + 1]>> /\ page.more = (index + 1 < Len(calls))
            BY <1>0, <1>3, <2>1, PageFacts
        <3>. HIDE DEF page
        <3>2. calls[index + 1] \in Calls
            BY <1>0, <2>1
        <3>3. answer' = answer \o <<calls[index + 1]>>
            BY <1>2, <3>1 DEF Finish, Continue
        <3>4. answer' \in Seq(Calls) /\ Len(answer') = index + 1
            BY <2>0, <3>2, <3>3, OneMore
        <3>5. ASSUME NEW i \in 1..(index + 1) PROVE answer'[i] = calls[i]
            <4>1. i = index + 1 \/ i \in 1..index
                BY <1>0
            <4>. QED BY <2>0, <3>2, <3>3, <4>1, OneMore
        <3>6. CASE index + 1 < Len(calls)
            <4>1. at' = "page" /\ index' = index + 1
                BY <1>2, <3>1, <3>6 DEF Continue
            <4>2. AsList'
                BY <1>0, <1>1, <1>3, <3>4, <3>5, <3>6, <4>1 DEF AsList
            <4>. QED BY <1>0, <1>1, <3>4, <4>1, <4>2, Meanwhile DEF IInv, ReadInv, TypeOK
        <3>7. CASE ~(index + 1 < Len(calls))
            <4>1. at' = "value" /\ index' = index
                BY <1>2, <3>1, <3>7 DEF Finish, Continue
            <4>2. Len(calls) = index + 1
                BY <1>0, <2>1, <3>7
            <4>3. answer' = calls
                BY <1>0, <3>4, <3>5, <4>2, SameList
            <4>4. AnswerIsRight'
                BY <1>1, <1>3, <4>3 DEF AnswerIsRight
            <4>. QED BY <1>0, <1>1, <3>4, <4>1, <4>4, OverInv
        <3>. QED BY <3>6, <3>7
    <2>2. CASE ~(index < Len(calls))
        <3>1. ~page.supplied /\ index = 0
            BY <1>0, <1>3, <2>0, <2>2, PageFacts
        <3>2. at' = "value" /\ index' = index /\ answer' = answer \o <<>>
            BY <1>2, <3>1 DEF Finish, Continue
        <3>3. answer' \in Seq(Calls) /\ Len(answer') = 0 /\ Len(calls) = 0
            BY <1>0, <2>0, <2>2, <3>1, <3>2
        <3>4. answer' = calls
            BY <1>0, <3>3, SameList
        <3>5. AnswerIsRight'
            BY <1>1, <1>3, <3>4 DEF AnswerIsRight
        <3>. QED BY <1>0, <1>1, <3>2, <3>3, <3>5, OverInv
    <2>. QED BY <2>1, <2>2
<1>4. CASE property \notin {"Landing_Calls", "Assigned_Landing_Calls"}
    <2>0. index = 0 /\ answer = <<>> /\ ~page.more
        BY <1>0, <1>4, PageFacts DEF AsList
    <2>1. property \notin {"State_Text", "Car_Door_Status", "Priority_Array"}
        BY <1>0 DEF AsList, Lists, GetSequenceLift
    <2>2. at' = "value" /\ index' = index
        BY <1>2, <2>0 DEF Finish, Continue
    <2>3. CASE property = "Landing_Call_Control"
        <3>1. page.supplied /\ page.element = <<IF control = None THEN NoCall ELSE control>>
            BY <1>0, <2>3, PageFacts
        <3>. HIDE DEF page
        <3>2. answer' = <<>> \o <<IF control = None THEN NoCall ELSE control>>
            BY <1>2, <2>0, <3>1 DEF Finish, Continue
        <3>3. control # None => answer' = <<control>>
            BY <3>2
        <3>4. AnswerIsRight'
            BY <1>1, <2>3, <3>3 DEF AnswerIsRight
        <3>. QED BY <1>0, <1>1, <1>4, <2>2, <3>4, OverInv
    <2>4. CASE property # "Landing_Call_Control"
        <3>1. AnswerIsRight'
            BY <1>1, <1>4, <2>1, <2>4 DEF AnswerIsRight
        <3>. QED BY <1>0, <1>1, <1>4, <2>2, <3>1, OverInv
    <2>. QED BY <2>3, <2>4
<1>. QED BY <1>3, <1>4

\* Every step of the program keeps the invariant.
LEMMA NextIInv == IInv /\ [Next]_vars => IInv'
<1>. SUFFICES ASSUME IInv, [Next]_vars PROVE IInv'
    OBVIOUS
<1>1. CASE StartupNext /\ UNCHANGED <<device, read>>
    <2>1. StartInv'
        BY <1>1, StartupNextInv DEF IInv
    <2>2. outcome = "starting"
        BY <1>1, Zenon DEF StartupNext, HelpOrVersion, CallSucceeds, CallFails, AnnouncementFails, EnterLoop
    <2>3. at = "none"
        BY <2>2 DEF IInv, ReadInv
    <2>4. ReadInv'
        BY <1>1, <2>3 DEF IInv, ReadInv, TypeOK, device, read
    <2>. QED BY <2>1, <2>4 DEF IInv
<1>2. CASE ReadProperty
    BY <1>2, ReadPropertyInv
<1>3. CASE ReadScalar
    BY <1>3, ReadScalarInv
<1>4. CASE ReadLength
    BY <1>4, ReadLengthInv
<1>5. CASE ReadElement
    BY <1>5, ReadElementInv
<1>6. CASE ReadPage
    BY <1>6, ReadPageInv
<1>7. CASE ReadSlot
    BY <1>7, ReadSlotInv
<1>8. CASE UNCHANGED vars
    <2>1. StartInv'
        BY <1>8, StartupNextInv DEF IInv, vars
    <2>2. ReadInv'
        BY <1>8 DEF IInv, ReadInv, TypeOK, AsScalar, AsArray, AsList, AsSlots, AnswerIsRight, vars, device, read, startup
    <2>. QED BY <2>1, <2>2 DEF IInv
<1>. QED BY <1>1, <1>2, <1>3, <1>4, <1>5, <1>6, <1>7, <1>8 DEF Next

\* It always holds.
LEMMA SpecIInv == Spec => []IInv
  BY InitIInv, NextIInv, PTL DEF Spec

\* main() sets everything up in an order the stack accepts, and a device that runs or
\* has sent its I-Am has every object, every service with its callbacks, and answers
\* for what it enabled, whichever calls failed and whatever the test hook's variable is.
THEOREM StartsWhole == Spec => []WholeBeforeAnnounced
<1>1. IInv => WholeBeforeAnnounced
    BY StartedWhole DEF IInv
<1>. QED BY <1>1, SpecIInv, PTL

\* The callbacks decline none of the calls that make up a read of a documented
\* property, the Schedule's Reliability apart: no index, page or slot is missing, for
\* arrays and lists of any length and in every state of the outputs and the car.
THEOREM ReadsAreAnswered == Spec => []EveryCallAnswered
<1>1. IInv => EveryCallAnswered
    BY DEF IInv, ReadInv, EveryCallAnswered
<1>. QED BY <1>1, SpecIInv, PTL

\* A list of landing calls read page by page is g_liftCar.calls, however long it is;
\* an output's Present_Value comes from its highest commanded slot; an array's
\* elements are as many as its length says.
THEOREM ReadsAreRight == Spec => []ReadsWhatIsThere
<1>1. IInv => ReadsWhatIsThere
    <2>. SUFFICES ASSUME IInv, at = "element", <<object, property>> \notin GetSequenceLift,
                         property # "Priority_Array", NEW i \in 0..(length + 2)
                  PROVE  Typed(i) <=> i \in 1..length
        BY DEF IInv, ReadInv, ReadsWhatIsThere
    <2>1. /\ <<object, property>> \in Arrays /\ length = LengthOf(property) /\ outcome = "running" /\ i \in Nat
        BY DEF IInv, ReadInv, AsArray, TypeOK
    <2>. QED BY <2>1, ElementsAnswered
<1>. QED BY <1>1, SpecIInv, PTL
=============================================================================
