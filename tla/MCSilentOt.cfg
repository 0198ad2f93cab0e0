SPECIFICATION FairSpec
CONSTANTS
    Scripts <- AllRuns
    FailScripts <- ThrowingRuns
    SizePer = 2
    Partitions = 2
    Code <- MCCode
    MaxCorrupt = 1
INVARIANTS
    OtCorrect
    CorruptionCaught
    HonestNeverFails
    FreshBase
PROPERTIES
    Terminates
