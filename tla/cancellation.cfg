SPECIFICATION RunnerSpec
CONSTANTS
    Request = {post, delete}
    Signal = {Interrupt, Term}
INVARIANTS
    NoGoroutineLeft
    NoSignalDropped
PROPERTIES
    KeepsContract
    StopEndsCalls
CHECK_DEADLOCK FALSE
