CONSTANTS
    modOwner = modOwner
    modUser = modUser
    modHold = modHold
    modNext = modNext
    memMain = memMain
    memNext = memNext
    callOwner = callOwner
    callUser = callUser
    callHold = callHold
    bufOne = bufOne
    bufTwo = bufTwo
    NoBuf = NoBuf
    Nobody = Nobody
    Mods = {modOwner, modUser, modNext}
    Mems = {memMain, memNext}
    Bufs = {bufOne, bufTwo}
    Handles = {callOwner}
    OwnerOf <- OwnerModule
    Imports <- MemoryImports
    Holds <- FunctionImports
    ModOf <- HandleModule
    Reentrant = {}
    GrowsInGo = {}
    Closers = {modOwner, modUser}
    MaxPages = 2
    MaxDepth = 2
SPECIFICATION Spec
INVARIANTS FailedIsNotCounted
SYMMETRY BufferSymmetry
