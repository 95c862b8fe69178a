SPECIFICATION Spec
CONSTANT NumResources = 3
INVARIANT CleanupSent
CHECK_DEADLOCK FALSE
