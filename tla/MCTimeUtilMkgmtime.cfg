CONSTANTS
    Starts <- MCStartsPastInt
    Offsets <- MCOffsets
    MaxCalls = 3
SPECIFICATION Spec
\* A caller makes MaxCalls calls and stops.
CHECK_DEADLOCK FALSE
INVARIANTS
    MkgmtimeRightOrBad
