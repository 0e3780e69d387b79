SPECIFICATION Spec
CONSTANTS
    MaxAnalogValues = 2
    SignificantDigits = 1
    Instances = {1, 2}
    Values = {95}
    FileMaxSize = 10
    Chunks <- MCCutImages
    Offsets <- MCOffsets
    Word = 20
    Sizes = {}
PROPERTY OnlyOwnImagesAccepted
