SPECIFICATION LiveSpec
CONSTANTS
    Confs <- AllConfs
    Batch = 2
INVARIANTS
    PprfCorrect
    PointsLocateDifference
    NoLeafLost
    MasksUsedOnce
    ActivePathHidden
PROPERTIES
    BothEnd
