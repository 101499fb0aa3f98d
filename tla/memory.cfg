CONSTANTS
    modOwner = modOwner
    modUser = modUser
    modHold = modHold
    modNext = modNext
    memMain = memMain
    memNext = memNext
    callOwner = callOwner
    callUser = callUser
    callHold = callHold
    bufOne = bufOne
    bufTwo = bufTwo
    NoBuf = NoBuf
    Nobody = Nobody
    Mods = {modOwner, modUser, modHold, modNext}
    Mems = {memMain, memNext}
    Bufs = {bufOne, bufTwo}
    Handles = {callOwner, callUser}
    OwnerOf <- OwnerModule
    Imports <- MemoryImports
    Holds <- FunctionImports
    ModOf <- HandleModule
    Reentrant = {}
    GrowsInGo = {callOwner}
    Closers = {modOwner, modUser, modHold}
    MaxPages = 2
    MaxDepth = 2
SPECIFICATION Spec
INVARIANTS MemoryTypeOK NoPoolUnderCall NoPoolUnderModule OneTenant ImportersCounted DrainedIsPooled
SYMMETRY BufferSymmetry
