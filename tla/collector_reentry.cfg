CONSTANTS
    execMain = execMain
    execOther = execOther
    execLate = execLate
    modFirst = modFirst
    modLate = modLate
    None = None
    Null = Null
    Execs = {execMain, execLate}
    Refs = {r1}
    Modules = {modFirst}
    ModuleOf <- FunctionModule
    HasStart = {}
    Writers = {}
    Reentered = {execLate}
SPECIFICATION FairSpec
PROPERTY CollectionEnds
CHECK_DEADLOCK FALSE
