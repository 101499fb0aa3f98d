CONSTANTS
    instA = instA
    instB = instB
    hostSide = hostSide
    Instances = {instA, instB}
    Definers = {instA, hostSide}
    Reps = {repA}
    MaxCall = 2
    MaxParked = 1
    MaxHandle = 2
    MaxEntry = 3
    MaxArgs = 2
    Nested = TRUE
    NoEntry = NoEntry
    NoCall = NoCall
    Waiters = {waiterA, waiterB, waiterC}
    MaxValue = 2
    WaiterLimit = 3
    Nobody = Nobody
    Instanced = {modOne, modTwo, modThree}
    Names = {nameA}
    Anonymous = Anonymous
    EarlyClose = FALSE
    Nil = Nil
    Compilers = {compA, compB, compC}
    FileCache = TRUE
    Faults = {}
    Engines = {engineA, engineB}
    BaseSize = 2
    NumClasses = 3
    Ceiling = 4
    Margin = 1
    WideEngines = {engineB}
    WideNeed = 4
    GrowNeeds = {1}
    KeepAfter = 1
    MaxBuffer = 4
    MaxRestores = 1
    MaxCloned = 2
    NoStack = NoStack
SPECIFICATION Spec
INVARIANTS BorrowedIsOwned
CHECK_DEADLOCK FALSE
