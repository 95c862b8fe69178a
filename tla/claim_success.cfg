SPECIFICATION Spec
CONSTANT NumResources = 3
INVARIANT SuccessMeansStepSucceeded
CHECK_DEADLOCK FALSE
