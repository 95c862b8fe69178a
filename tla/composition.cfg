SPECIFICATION Spec
CONSTANTS
    Prefix = {p, q}
    MaxVolumes = 3
    MaxInputs = 2
INVARIANTS
    CompleteOrError
    VolumesFromData
    ErrorStopsUpload
CHECK_DEADLOCK FALSE
