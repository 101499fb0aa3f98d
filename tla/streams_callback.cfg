CONSTANTS
    MaxLen = 2
    MaxMoved = 4
    Reenter = TRUE
    None = None
    Unset = Unset
SPECIFICATION Spec
INVARIANT HostCopyIsParked
CHECK_DEADLOCK FALSE
