SPECIFICATION Spec
CONSTANTS
    Cols <- TwoCols
    Bits <- OneBit
    Gen <- Repetition
    N = 2
    Bound <- OneAndOne
    Stat = 1
    Malicious = FALSE
    RowBlk = 1
    SuperBlk = 2
    Seeds <- ChallengeSeeds
    Chi <- Challenges
    MaxRound = 2
    MaxTamper = 0
INVARIANTS
    TypeOK
    CorrectionsLandInPlace
    EncodingsAgree
    PadsFresh
    PartiesInStep
PROPERTIES
    ImplementsNcoOt
