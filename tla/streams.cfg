CONSTANTS
    MaxLen = 3
    MaxMoved = 6
    Reenter = FALSE
    None = None
    Unset = Unset
SPECIFICATION Spec
INVARIANTS StreamTypeOK CancelHitsOwn ReclaimsOwnBuffer ProgressConserved DroppedNeverParks ReaderNeverDropped BothOrNeither
CHECK_DEADLOCK FALSE
