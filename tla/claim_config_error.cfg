SPECIFICATION Spec
CONSTANT NumResources = 3
PROPERTY ConfigErrorCancels
CHECK_DEADLOCK FALSE
