CONSTANTS
    taskA = taskA
    taskA2 = taskA2
    taskB1 = taskB1
    taskB2 = taskB2
    taskB3 = taskB3
    taskC = taskC
    hostImport = hostImport
    instA = instA
    instB = instB
    instC = instC
    None = None
    Task = {taskA, taskB1, taskC}
    Root = {taskA}
    Import = {}
    Instance = {instA, instB, instC}
    instOf <- InstOf
    shape <- ShapeStackful
    Calls <- CallGraph
    MaxBackpressure = 1
    ReenterAfterError = FALSE
SPECIFICATION Spec
PROPERTIES CallWaitsForCallee
