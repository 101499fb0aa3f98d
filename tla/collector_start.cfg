CONSTANTS
    execMain = execMain
    execOther = execOther
    execLate = execLate
    modFirst = modFirst
    modLate = modLate
    None = None
    Null = Null
    Execs = {execMain, execLate}
    Refs = {r1}
    Modules = {modFirst, modLate}
    ModuleOf <- FunctionModule
    HasStart = {modLate}
    Writers = {execLate}
    Reentered = {}
SPECIFICATION Spec
INVARIANTS RootsAreLive
