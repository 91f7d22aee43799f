SPECIFICATION Spec
CONSTANTS
    Signals <- MCSignals
    MaxSignals = 3
    MaxCycles = 3
    Slices = 2
INVARIANTS
    TypeOK
    AtMostOneLateCycle
    ReasonTrue
PROPERTIES
    StopsOnRequest
    KeepsPolling
CHECK_DEADLOCK FALSE
