CONSTANTS
    p1 = p1
    p2 = p2
    k1 = k1
    k2 = k2
    None = None
    Call = {p1, p2}
    Import = {k1, k2}
    Goroutine <- Racing
SPECIFICATION FairSpec
CHECK_DEADLOCK FALSE
INVARIANTS CompletionInOnePlace ActiveTracksCall
PROPERTIES AwaitDelivers
