CONSTANTS
    taskA = taskA
    taskA2 = taskA2
    taskB1 = taskB1
    taskB2 = taskB2
    taskB3 = taskB3
    taskC = taskC
    hostImport = hostImport
    instA = instA
    instB = instB
    instC = instC
    None = None
    Task = {taskA, taskB1, taskB2, taskB3}
    Root = {taskA}
    Import = {}
    Instance = {instA, instB}
    instOf <- InstOf
    shape <- ShapeAlike
    Calls <- CallGraph
    MaxBackpressure = 2
    ReenterAfterError = FALSE
SPECIFICATION Spec
INVARIANTS EntryQueueCount
PROPERTIES EntryFIFO
SYMMETRY AlikeSymmetry
