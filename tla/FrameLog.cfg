\* Frames of every kind, whole and cut off, and names from every table.
CONSTANTS
    Frames <- MCFrames
    Tables <- MCTables
    Ids <- MCIds
SPECIFICATION LogSpec
INVARIANTS NeverReadsPastFrame TransportAgreesWithLog LogStatesTheFrame
           FindsExactlyTheId
PROPERTY EveryFrameIsPrinted
