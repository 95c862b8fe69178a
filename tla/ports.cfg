SPECIFICATION FairSpec
CONSTANTS
    Lower = 3
    Upper = 5
    Runner = {r1, r2}
INVARIANTS
    GaveUpTriedAll
    ListenersAccounted
PROPERTY SearchEnds
CHECK_DEADLOCK FALSE
