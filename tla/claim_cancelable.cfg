SPECIFICATION ConfigureFair
CONSTANT NumResources = 1
PROPERTY ConfigCancelable
CHECK_DEADLOCK FALSE
