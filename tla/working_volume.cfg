SPECIFICATION Spec
CONSTANTS
    Root = root
    Self = self
    Image = image
INVARIANTS
    FilesShared
    NilMeansReady
CHECK_DEADLOCK FALSE
