SPECIFICATION SoftOnlySpec
CONSTANTS
    SoftConfs <- SoftRebase
    Chunk = 2
    CommSize = 2
    MaxAesUse = 4
    KeyBatch = 2
    MaxHashUse = 2
INVARIANT NewBaseOtsWork
