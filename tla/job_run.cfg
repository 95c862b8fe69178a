SPECIFICATION FairSpec
CONSTANTS
    NumData = 2
    NumInputs = 2
INVARIANTS
    TypeOK
    StepsNeedInputs
    HonestCompletion
    StatusExplained
PROPERTIES
    SilentAfterFinal
    KeepsContract
    StopEndsRun
CHECK_DEADLOCK FALSE
