SPECIFICATION FairSpec
CONSTANT StopRequest = {first, second}
INVARIANTS
    Recoverable
    EarlyStopFails
    BlockedStopHarmless
    UpstreamExplained
PROPERTIES
    SignalCancels
    StopCancels
    StoppedProcessEnds
CHECK_DEADLOCK FALSE
