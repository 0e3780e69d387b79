SPECIFICATION Spec
CONSTANTS
    MaxAnalogValues = 2
    SignificantDigits = 1
    Instances = {1, 2, 3}
    Values = {95}
    FileMaxSize = 10
    Chunks <- MCImages
    Offsets <- MCAnyOffsets
    Word = 21
    Sizes = {6}
INVARIANTS TableMatchesDatabase BackupRestoresRounded OldDateMeansEmptied
PROPERTIES RestoreIsExact WrittenWithinFile
