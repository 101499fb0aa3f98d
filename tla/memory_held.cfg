CONSTANTS
    modOwner = modOwner
    modUser = modUser
    modHold = modHold
    modNext = modNext
    memMain = memMain
    memNext = memNext
    callOwner = callOwner
    callUser = callUser
    callHold = callHold
    bufOne = bufOne
    bufTwo = bufTwo
    NoBuf = NoBuf
    Nobody = Nobody
    Mods = {modOwner, modHold, modNext}
    Mems = {memMain, memNext}
    Bufs = {bufOne, bufTwo}
    Handles = {callHold}
    OwnerOf <- OwnerModule
    Imports <- MemoryImports
    Holds <- FunctionImports
    ModOf <- HandleModule
    Reentrant = {}
    GrowsInGo = {}
    Closers = {modOwner, modHold}
    MaxPages = 2
    MaxDepth = 2
SPECIFICATION Spec
INVARIANTS NoPoolUnderCall
SYMMETRY BufferSymmetry
CHECK_DEADLOCK FALSE
