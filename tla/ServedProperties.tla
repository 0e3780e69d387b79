-------------------------- MODULE ServedProperties --------------------------
(***************************************************************************)
(* Which (object type, property) pairs the typed callbacks of main.cpp     *)
(* have a branch for; every other read is declined.  Each type has one     *)
(* instance, but for the Analog Values that clients create.  The stack     *)
(* asks the callback of the property's datatype; a BACnet array is asked   *)
(* for its length through the Unsigned callback first.                     *)
(***************************************************************************)
Outputs == {"Analog_Output", "Binary_Output", "Multi_State_Output"}
PerDoor == {"Car_Door_Status", "Assigned_Landing_Calls", "Registered_Car_Call", "Landing_Door_Status"}

GetPropertyReal ==
    ({"Analog_Input"} \X {"Present_Value", "COV_Increment"})
    \cup ({"Analog_Output"} \X {"Priority_Array", "Relinquish_Default"})
    \cup {<<"Analog_Value", "Present_Value">>}

\* Mutant: the Relinquish_Default of the Binary Output is forgotten.
GetPropertyEnumeratedForgets ==
    {<<"Binary_Input", "Present_Value">>, <<"Binary_Output", "Priority_Array">>}
    \cup ({"Binary_Input", "Binary_Output"} \X {"Polarity"})
    \cup ({"Analog_Input", "Analog_Output"} \X {"Units"})
    \cup {<<"Network_Port", "BACnet_IP_Mode">>, <<"Elevator_Group", "Group_Mode">>}
    \cup ({"Lift"} \X {"Car_Moving_Direction", "Car_Door_Status"})
    \cup ({"Escalator"} \X {"Operation_Direction", "Escalator_Mode"})

GetPropertyEnumerated ==
    {<<"Binary_Input", "Present_Value">>}
    \cup ({"Binary_Output"} \X {"Priority_Array", "Relinquish_Default"})
    \cup ({"Binary_Input", "Binary_Output"} \X {"Polarity"})
    \cup ({"Analog_Input", "Analog_Output"} \X {"Units"})
    \cup {<<"Network_Port", "BACnet_IP_Mode">>, <<"Elevator_Group", "Group_Mode">>}
    \cup ({"Lift"} \X {"Car_Moving_Direction", "Car_Door_Status"})
    \cup ({"Escalator"} \X {"Operation_Direction", "Escalator_Mode"})

GetPropertyUnsignedInteger ==
    ({"Multi_State_Input"} \X {"Present_Value", "Number_Of_States", "State_Text"})
    \cup {<<"Device", "Vendor_Identifier">>}
    \cup ({"Network_Port"} \X {"APDU_Length", "Reference_Port", "BACnet_IP_UDP_Port"})
    \cup ({"Lift"} \X ({"Car_Position"} \cup PerDoor))
    \cup {<<"Positive_Integer_Value", "Present_Value">>}
    \cup ({"Multi_State_Output"} \X {"Priority_Array", "Relinquish_Default", "Number_Of_States"})
    \cup {<<"File", "File_Size">>}

\* Of Priority_Array it answers whether the slot is null.
GetPropertyBool ==
    (Outputs \X {"Priority_Array", "Out_Of_Service"})
    \cup ({"Lift"} \X {"Passenger_Alarm", "Out_Of_Service"})
    \cup ({"Escalator"} \X {"Passenger_Alarm", "Out_Of_Service", "Power_Mode"})
    \cup ({"Analog_Input", "Binary_Input", "Multi_State_Input", "Network_Port", "Schedule"}
          \X {"Out_Of_Service"})
    \cup {<<"Calendar", "Present_Value">>}
    \cup ({"File"} \X {"Archive", "Read_Only"})

GetPropertyOctetString ==
    {"Network_Port"} \X {"IP_Address", "IP_Subnet_Mask", "IP_Default_Gateway"}

Named ==
    {"Device", "Analog_Input", "Binary_Input", "Multi_State_Input", "Network_Port", "Elevator_Group",
     "Lift", "Escalator", "Positive_Integer_Value", "Notification_Class", "Event_Log", "Schedule",
     "Calendar", "File"} \cup Outputs

GetPropertyCharString ==
    {<<"File", "File_Type">>, <<"Multi_State_Input", "State_Text">>}
    \cup (Named \X {"Object_Name"})
    \cup ({"Device"} \X {"Description", "Vendor_Name", "Model_Name", "Firmware_Revision",
                         "Application_Software_Version"})

GetPropertyDate == {<<"Device", "Local_Date">>, <<"File", "Modification_Date">>}
GetPropertyTime == {<<"Device", "Local_Time">>, <<"File", "Modification_Date">>}

\* The callbacks that page through lists.
GetListOfEnumerations == {<<"Lift", "Fault_Signals">>}
GetListElevatorGroupLandingCallStatus == {"Elevator_Group"} \X {"Landing_Calls", "Landing_Call_Control"}
GetSequenceLift == {"Lift"} \X {"Assigned_Landing_Calls", "Registered_Car_Call", "Landing_Door_Status"}

Served ==
    UNION {GetPropertyReal, GetPropertyEnumerated, GetPropertyUnsignedInteger, GetPropertyBool,
           GetPropertyOctetString, GetPropertyCharString, GetPropertyDate, GetPropertyTime,
           GetListOfEnumerations, GetListElevatorGroupLandingCallStatus, GetSequenceLift}

\* The Set callbacks.  Landing_Call_Control has one of its own, and File_Size comes
\* through SetIvoryFileSize.
SetProperty ==
    (Outputs \X {"Present_Value"})
    \cup {<<"Analog_Value", "Present_Value">>, <<"File", "Archive">>, <<"File", "File_Size">>,
          <<"Elevator_Group", "Landing_Call_Control">>}
=============================================================================
