SPECIFICATION Spec
CONSTANTS
    K = 3
    CommStep = 2
    MaxBad = 0
    Confs <- UnhashedConfs
INVARIANTS
    UnhashedOtsCorrect
