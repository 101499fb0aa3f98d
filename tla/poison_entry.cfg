CONSTANTS
    taskA = taskA
    taskA2 = taskA2
    taskB1 = taskB1
    taskB2 = taskB2
    taskB3 = taskB3
    taskC = taskC
    hostImport = hostImport
    instA = instA
    instB = instB
    instC = instC
    None = None
    Task = {taskA, taskA2, taskB1, taskB2}
    Root = {taskA, taskA2}
    Import = {}
    Instance = {instA, instB}
    instOf <- InstOf
    shape <- ShapeStackful
    Calls <- CallGraph
    MaxBackpressure = 1
    ReenterAfterError = TRUE
SPECIFICATION Spec
PROPERTIES PoisonBlocksEntry
