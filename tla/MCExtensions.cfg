SPECIFICATION Spec
CONSTANTS
    SoftConfs <- SoftInstances
    Chunk = 2
    CommSize = 2
    MaxAesUse = 4
    KeyBatch = 2
    MaxHashUse = 2
INVARIANTS
    
    PadsFresh
    SoftCorrect
    DotCorrect
    KkrtCorrect
    BaseCorrect
