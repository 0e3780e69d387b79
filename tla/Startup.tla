------------------------------- MODULE Startup -------------------------------
(***************************************************************************)
(* main() up to its loop: a list of calls into the stack, in an order the  *)
(* stack insists on, each of which ends the program when it fails.  The    *)
(* stack (external) refuses a call whose prerequisites are missing and may *)
(* fail any call for reasons of its own.                                   *)
(*                                                                         *)
(* A call is a tuple, the stack function first; done is the set of the     *)
(* calls that succeeded.  A loop over a table is one call per row.         *)
(***************************************************************************)
EXTENDS ServedProperties, Integers, Sequences

CONSTANT HookValues  \* what the test hook's variable parses to, -1 for no number
ASSUME StartupAssumption == HookValues \subseteq Int

VARIABLES
    position,  \* the place in main()
    done,      \* the calls that succeeded
    outcome,   \* "starting", "running", or how the program returned
    period     \* g_passengerAlarmPeriodSeconds

startup == <<position, done, outcome, period>>

-----------------------------------------------------------------------------
Each(call, names) == [i \in DOMAIN names |-> <<call, names[i]>>]

CommonCallbacks == <<"ReceiveMessage", "SendMessage", "GetSystemTime">>

GetCallbacks ==
    <<"GetPropertyReal", "GetPropertyEnumerated", "GetPropertyUnsignedInteger", "GetPropertyCharacterString",
      "GetPropertyBool", "GetPropertyOctetString", "GetPropertyDate", "GetPropertyTime",
      "GetListOfEnumerations", "GetListElevatorGroupLandingCallStatus", "GetSequenceLiftAssignedLandingCall",
      "GetSequenceLiftRegisteredCarCall", "GetSequenceLiftLandingDoorStatus">>

SetCallbacks ==
    <<"SetElevatorGroupLandingCallControl", "SetPropertyReal", "SetPropertyEnumerated",
      "SetPropertyUnsignedInteger", "SetPropertyBool", "SetPropertyNull">>

ServiceCallbacks ==
    <<"DeviceCommunicationControl", "AcknowledgeAlarm", "ReinitializeDevice", "SetSystemTime", "CreateObject",
      "DeleteObject", "ReadFile", "WriteFile", "PrepareBackup", "CompleteBackup", "PrepareRestore",
      "CompleteRestore">>

\* Mutant: the writes are not registered.
CallbacksForReading == CommonCallbacks \o GetCallbacks \o ServiceCallbacks

\* Registering cannot fail.
RegisteredCallbacks == CommonCallbacks \o GetCallbacks \o SetCallbacks \o ServiceCallbacks

Services ==
    <<"ReadProperty", "ReadPropertyMultiple", "WriteProperty", "WritePropertyMultiple",
      "DeviceCommunicationControl", "ReinitializeDevice", "TimeSynchronization", "AcknowledgeAlarm",
      "GetEventInformation", "ConfirmedEventNotification", "UnconfirmedEventNotification", "CreateObject",
      "DeleteObject", "AtomicReadFile", "AtomicWriteFile", "ReadRange", "SubscribeCOV",
      "SubscribeCOVPropertyMultiple", "WhoIs", "IAm", "WhoHas", "IHave">>

Opening ==
    << <<"LoadBACnetFunctions">>, <<"SetupUDP">> >>
    \o Each("Register", RegisteredCallbacks)
    \o << <<"AddDevice">> >>
    \o Each("SetServiceEnabled", Services)

BaseObjects ==
    << <<"AddObject", "Analog_Input">>, <<"AddObject", "Binary_Input">>, <<"AddObject", "Multi_State_Input">>,
       <<"AddObject", "Analog_Output">>, <<"AddObject", "Binary_Output">>, <<"AddObject", "Multi_State_Output">>,
       <<"AddObject", "Network_Port">>,
       <<"AddObject", "Event_Log">>, <<"SetPropertyWritable", "Event_Log", "Enable">> >>

Saffron ==
    << <<"AddObject", "Schedule">>, <<"AddObject", "Calendar">>, <<"AddScheduleObject">>,
       <<"AddScheduleObjectPropertyReference">>, <<"SetSchedulePriorityForWriting">>, <<"SetScheduleDefault">>,
       <<"SetScheduleEffectivePeriod">>, <<"AddScheduleWeeklyTimeValue">>,
       <<"AddScheduleExceptionEvent">>, <<"AddScheduleExceptionTimeValue">> >>

Ivory ==
    << <<"AddObject", "File">>, <<"SetPropertyWritable", "File", "Archive">>, <<"SetBackupAndRestoreEnabled">>,
       <<"SetObjectTypeCreatable", "Analog_Value">>,
       <<"SetPropertyByObjectTypeWritable", "Analog_Value", "Present_Value">> >>

MakeCommandable(output) ==
    << <<"SetPropertyEnabled", output, "Priority_Array">>, <<"SetPropertyEnabled", output, "Relinquish_Default">>,
       <<"SetPropertyWritable", output, "Present_Value">> >>

Optional ==
    << <<"SetPropertyEnabled", "Device", "Description">>,
       <<"SetPropertyEnabled", "Multi_State_Input", "State_Text">>,
       <<"SetPropertyEnabled", "Analog_Input", "COV_Increment">> >>
    \o MakeCommandable("Analog_Output") \o MakeCommandable("Binary_Output") \o MakeCommandable("Multi_State_Output")
    \o << <<"SetPropertySubscribable", "Analog_Input", "Present_Value">>,
          <<"SetPropertySubscribable", "Analog_Input", "Status_Flags">>,
          <<"SetCOVSettings">>, <<"SetCOVMultipleSettings">> >>

ElevatorOptional ==
    << <<"SetPropertyEnabled", "Lift", "Assigned_Landing_Calls">>,
       <<"SetPropertyEnabled", "Lift", "Registered_Car_Call">>,
       <<"SetPropertyEnabled", "Lift", "Landing_Door_Status">>,
       <<"SetPropertyEnabled", "Escalator", "Power_Mode">>,
       <<"SetPropertyEnabled", "Escalator", "Escalator_Mode">> >>

Elevator ==
    << <<"AddObject", "Positive_Integer_Value">>, <<"AddElevatorGroupObject">>,
       <<"AddLiftObject">>, <<"AddEscalatorObject">> >>
    \o ElevatorOptional

Alarming ==
    << <<"AddNotificationClassObject">>, <<"AddRecipientToNotificationClass">>,
       <<"SetPropertyWritable", "Notification_Class", "Recipient_List">>,
       <<"SetAlarmsAndEventsForObjectEnabled">>, <<"SetIntrinsicChangeOfStateAlgorithmBool">>,
       <<"SendIAm">> >>

main == Opening \o BaseObjects \o Saffron \o Ivory \o Optional \o Elevator \o Alarming

-----------------------------------------------------------------------------
\* The objects in the stack's database.
Has(type) ==
    CASE type = "Device" -> <<"AddDevice">> \in done
      [] type = "Elevator_Group" -> <<"AddElevatorGroupObject">> \in done
      [] type = "Lift" -> <<"AddLiftObject">> \in done
      [] type = "Escalator" -> <<"AddEscalatorObject">> \in done
      [] type = "Notification_Class" -> <<"AddNotificationClassObject">> \in done
      [] OTHER -> <<"AddObject", type>> \in done

\* What the stack asks of a call.
Accepts(call) ==
    /\ call # <<"LoadBACnetFunctions">> => <<"LoadBACnetFunctions">> \in done
    /\ call[1] \notin {"LoadBACnetFunctions", "SetupUDP", "Register", "AddDevice"} => Has("Device")
    /\ call[1] \in {"SetPropertyEnabled", "SetPropertyWritable", "SetPropertySubscribable"} => Has(call[2])
    /\ CASE call[1] = "AddScheduleObject" -> Has("Schedule")
         [] call[1] = "AddScheduleObjectPropertyReference" ->
              <<"AddScheduleObject">> \in done /\ Has("Analog_Output")
         [] call[1] \in {"SetSchedulePriorityForWriting", "SetScheduleDefault", "SetScheduleEffectivePeriod",
                         "AddScheduleWeeklyTimeValue", "AddScheduleExceptionEvent"} ->
              <<"AddScheduleObject">> \in done
         [] call[1] = "AddScheduleExceptionTimeValue" -> <<"AddScheduleExceptionEvent">> \in done
         [] call[1] = "SetBackupAndRestoreEnabled" -> Has("File")
         [] call[1] = "SetPropertyByObjectTypeWritable" -> <<"SetObjectTypeCreatable", call[2]>> \in done
         [] call[1] = "AddElevatorGroupObject" -> Has("Positive_Integer_Value")
         [] call[1] = "AddLiftObject" -> Has("Elevator_Group")
         [] call[1] = "AddRecipientToNotificationClass" -> Has("Notification_Class")
         [] call[1] = "SetAlarmsAndEventsForObjectEnabled" -> Has("Lift") /\ Has("Notification_Class")
         [] call[1] = "SetIntrinsicChangeOfStateAlgorithmBool" ->
              <<"SetAlarmsAndEventsForObjectEnabled">> \in done
         [] call[1] = "SendIAm" -> <<"SetupUDP">> \in done
         [] OTHER -> TRUE

\* --help or --version.
HelpOrVersion ==
    /\ outcome = "starting" /\ position = 2
    /\ outcome' = "helped"
    /\ UNCHANGED <<position, done, period>>

CallSucceeds ==
    /\ outcome = "starting" /\ position <= Len(main)
    /\ Accepts(main[position])
    /\ done' = done \cup {main[position]}
    /\ position' = position + 1
    /\ UNCHANGED <<outcome, period>>

\* return 1.  What SendIAm returns is not looked at.
CallFails ==
    /\ outcome = "starting" /\ position <= Len(main)
    /\ main[position][1] \notin {"Register", "SendIAm"}
    /\ outcome' = IF Accepts(main[position]) THEN "failed" ELSE "refused"
    /\ UNCHANGED <<position, done, period>>

AnnouncementFails ==
    /\ outcome = "starting" /\ position <= Len(main) /\ main[position] = <<"SendIAm">>
    /\ position' = position + 1
    /\ UNCHANGED <<done, outcome, period>>

\* The test hook's variable, and into the loop.
EnterLoop(hook) ==
    /\ outcome = "starting" /\ position > Len(main)
    /\ outcome' = "running"
    /\ period' = IF hook \in 1..3600 THEN hook ELSE period
    /\ UNCHANGED <<position, done>>

StartupInit == position = 1 /\ done = {} /\ outcome = "starting" /\ period = 30

StartupNext ==
    \/ HelpOrVersion \/ CallSucceeds \/ CallFails \/ AnnouncementFails
    \/ \E hook \in HookValues : EnterLoop(hook)

-----------------------------------------------------------------------------
(***************************************************************************)
(* Properties.                                                             *)
(***************************************************************************)
\* Every variable has its type; the period is one the main loop's timer can use.
StartupTypeOK ==
    /\ position \in 1..(Len(main) + 1)
    /\ outcome \in {"starting", "running", "helped", "failed", "refused"}
    /\ period \in 1..3600

\* The callbacks a service cannot do without.
BackedBy(service) ==
    CASE service \in {"ReadProperty", "ReadPropertyMultiple"} ->
            {"GetPropertyReal", "GetPropertyEnumerated", "GetPropertyUnsignedInteger", "GetPropertyBool",
             "GetPropertyCharacterString", "GetPropertyOctetString", "GetPropertyDate", "GetPropertyTime"}
      [] service \in {"WriteProperty", "WritePropertyMultiple"} ->
            {"SetPropertyReal", "SetPropertyEnumerated", "SetPropertyUnsignedInteger", "SetPropertyBool",
             "SetPropertyNull", "SetElevatorGroupLandingCallControl"}
      [] service = "TimeSynchronization" -> {"SetSystemTime"}
      [] service = "AtomicReadFile" -> {"ReadFile"}
      [] service = "AtomicWriteFile" -> {"WriteFile"}
      [] service = "ReinitializeDevice" ->
            {"ReinitializeDevice", "PrepareBackup", "CompleteBackup", "PrepareRestore", "CompleteRestore"}
      [] service \in {"DeviceCommunicationControl", "AcknowledgeAlarm", "CreateObject", "DeleteObject"} -> {service}
      [] OTHER -> {"ReceiveMessage", "SendMessage"}

\* A device that runs or has announced itself is whole, whatever failed on the way:
\* every object of the inventory is there, every service it claims has the callbacks
\* behind it, what it enables it serves and what it makes writable it accepts ("the
\* object actively claims to have it, and then answers with a default", TUTORIAL.md).
\* The stack holds the Event Log's Enable and the Recipient_List itself.  On the way it
\* never refuses a call because of what was not set up before it ("MUST be added first
\* ... Trust the measured behaviour, not the comment", main.cpp).
WholeBeforeAnnounced ==
    /\ StartupTypeOK /\ outcome # "refused"
    /\ outcome = "running" \/ <<"SendIAm">> \in done =>
        /\ \A type \in Named : Has(type)
        /\ \A service \in {Services[i] : i \in DOMAIN Services} :
              /\ <<"SetServiceEnabled", service>> \in done
              /\ \A callback \in BackedBy(service) : <<"Register", callback>> \in done
        /\ \A call \in done :
              /\ call[1] = "SetPropertyEnabled" => <<call[2], call[3]>> \in Served
              /\ call[1] \in {"SetPropertyWritable", "SetPropertyByObjectTypeWritable"} =>
                    <<call[2], call[3]>> \in SetProperty
                        \cup {<<"Event_Log", "Enable">>, <<"Notification_Class", "Recipient_List">>}
=============================================================================
