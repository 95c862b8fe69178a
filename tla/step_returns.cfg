SPECIFICATION MainFair
CONSTANT NumResources = 2
PROPERTIES
    StepEndReturns
    KeepsFairContract
CHECK_DEADLOCK FALSE
