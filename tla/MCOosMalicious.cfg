SPECIFICATION FairSpec
CONSTANTS
    Cols <- TwoCols
    Bits <- OneBit
    Gen <- Repetition
    N = 1
    Bound <- OnlyOne
    Stat = 1
    Malicious = TRUE
    RowBlk = 1
    SuperBlk = 1
    Seeds <- ChallengeSeeds
    Chi <- Challenges
    MaxRound = 2
    MaxTamper = 1
INVARIANTS
    HonestAccepted
    CheckIsExact
PROPERTIES
    Terminates
