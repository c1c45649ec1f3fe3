SPECIFICATION Spec
CONSTANTS
    Depth = 4
INVARIANTS
    RoundTrip
CHECK_DEADLOCK FALSE
