SPECIFICATION Spec
CONSTANT NumResources = 3
INVARIANTS
    TypeOK
    PanicNeedsSuccess
    SuccessExplained
    StoppedBeforeStep
    CreatedInOrder
    ConfigureUndone
    NoLeftovers
    OutputsFinished
PROPERTIES
    NothingStartsAfterReturn
    KeepsContract
CHECK_DEADLOCK FALSE
