SPECIFICATION FairSpec
CONSTANTS
    K = 3
    CommStep = 2
    MaxBad = 1
    Confs <- MainConfs
INVARIANTS
    OtCorrect
    CheckIsExact
    PadsFresh
    PartiesInStep
PROPERTIES
    Terminates
