---------------------------- MODULE MCAsyncTasks ----------------------------
(***************************************************************************)
(* Small compositions of AsyncTasks: the host invokes the tasks of         *)
(* instance A, which call those of B, which call C and a host import.      *)
(***************************************************************************)
EXTENDS AsyncTasks, TLC

CONSTANTS taskA, taskA2, taskB1, taskB2, taskB3, taskC, hostImport,
          instA, instB, instC

TasksOfA == {taskA, taskA2}
TasksOfB == {taskB1, taskB2, taskB3}

InstOf == [t \in Task |-> CASE t \in TasksOfA -> instA [] t \in TasksOfB -> instB
                            [] t = taskC -> instC]

CallGraph ==
    {e \in Task \X Sub :
       \/ e[1] \in TasksOfA /\ e[2] \in TasksOfB \cup {hostImport}
       \/ e[1] \in {taskB1, taskB2} /\ e[2] \in {taskC, hostImport}}

\* taskB1 and taskA2 are lifted without a callback; the others are callback
\* tasks.
ShapeStackful ==
    [t \in Task |-> IF t \in {taskA2, taskB1} THEN "stackful" ELSE "callback"]
\* taskB1 has synchronous options, taskB2 an instance that binds blocking
\* builtins.
ShapePromoted == [t \in Task |-> CASE t = taskB1 -> "syncopts" [] t = taskB2 -> "promoted"
                                   [] OTHER -> "callback"]
\* taskA2 is lifted without a callback, taskB2 is promoted when it blocks.
ShapeReentry == [t \in Task |-> CASE t = taskA2 -> "stackful" [] t = taskB2 -> "promoted"
                                  [] OTHER -> "callback"]
\* The tasks of B are alike: stackful lifts with synchronous options.  Their caller
\* is stackful too, so that it can wait anywhere, or a callback task.
ShapeAlike == [t \in Task |-> IF t \in TasksOfA THEN "stackful" ELSE "syncopts"]
ShapeQueue == [t \in Task |-> IF t \in TasksOfA THEN "callback" ELSE "syncopts"]
AlikeSymmetry == Permutations(TasksOfB)
=============================================================================
