CONSTANTS
    execMain = execMain
    execOther = execOther
    execLate = execLate
    modFirst = modFirst
    modLate = modLate
    None = None
    Null = Null
    Execs = {execMain, execLate}
    Refs = {r1, r2}
    Modules = {modFirst}
    ModuleOf <- FunctionModule
    HasStart = {}
    Writers = {execMain}
    Reentered = {}
SPECIFICATION FairSpec
INVARIANTS ScanStable RootsAreLive OneCell
PROPERTY CollectionEnds
