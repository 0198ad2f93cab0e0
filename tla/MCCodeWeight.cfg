SPECIFICATION Spec
CONSTANTS
    VoleConfs <- VoleInstances
    VoleBits = 2
    TreeLeaves = 2
    Partitions = 2
    PprfBatch = 2
    VoleCode <- MCCode
INVARIANT CodeWeightAsNamed
