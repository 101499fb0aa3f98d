CONSTANTS
    taskA = taskA
    taskA2 = taskA2
    taskB1 = taskB1
    taskB2 = taskB2
    taskB3 = taskB3
    taskC = taskC
    hostImport = hostImport
    instA = instA
    instB = instB
    instC = instC
    None = None
    Task = {taskA, taskB1}
    Root = {taskA}
    Import = {hostImport}
    Instance = {instA, instB}
    instOf <- InstOf
    shape <- ShapeStackful
    Calls <- CallGraph
    MaxBackpressure = 1
    ReenterAfterError = FALSE
SPECIFICATION Spec
INVARIANTS SubtaskMirrorsTask CancelOnlyOnRequest NoStolenEvent
PROPERTIES CallerView
