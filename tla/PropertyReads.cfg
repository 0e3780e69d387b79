\* The whole of main() with a failure of any call, then every documented property, with lists and outputs empty and filled.
CONSTANTS
    BACNET_PRIORITY_ARRAY_SIZE = 3
    MULTI_STATE_INPUT_NUMBER_OF_STATES = 3
    LIFT_NUMBER_OF_DOORS = 1
    AnalogValues = {"AV2"}
    CallLists <- MCCallLists
    Slots <- MCSlots
    Calls <- MCCalls
    NoCall = NoCall
    None = None
    HookValues <- MCHookValues
    c1 = c1
    c2 = c2
    c3 = c3
SPECIFICATION Spec
INVARIANTS WholeBeforeAnnounced EveryCallAnswered ReadsWhatIsThere
