\* Two priorities; requests name the highest, none (0) and one past the array, which
\* both stand for the lowest.  The three outputs, values in and out of range.
CONSTANTS
    BACNET_PRIORITY_ARRAY_SIZE = 2
    MULTI_STATE_OUTPUT_NUMBER_OF_STATES = 1
    Reals = {30}
    Default = 20
    WrittenStates = {0, 1, 2}
    WrittenPriorities = {0, 1, 3}
    Null = Null
SPECIFICATION Spec
PROPERTIES ImplementsPriorityArray HigherPriorityHolds
