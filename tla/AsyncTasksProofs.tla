-------------------------- MODULE AsyncTasksProofs --------------------------
(***************************************************************************)
(* Proofs about AsyncTasks, for any number of tasks, imports and           *)
(* instances, any call graph and any lift shapes.                          *)
(***************************************************************************)
EXTENDS AsyncTasks, SequenceTheorems, TLAPS

-----------------------------------------------------------------------------
(* Types.                                                                  *)

\* A task inside an async lower or a subtask.cancel has a subtask to name.
ArgTyped ==
    \A t \in Task : pc[t] \in {"lower", "cancelA", "cancelS"} => arg[t] \in Sub

TypeInv == TypeOK /\ ArgTyped

\* The sets the constants make up: who is a task, a callee, a subtask.
LEMMA Subs ==
    /\ Callee \subseteq Task /\ Callee \subseteq Sub /\ Import \subseteq Sub
    /\ Root \subseteq Task /\ None \notin Task /\ None \notin Sub
    /\ None \notin Instance
    /\ \A t \in Task : instOf[t] \in Instance
    /\ \A s \in Sub : s \in Callee \/ s \in Import
    /\ \A s \in Import : s \notin Callee /\ s \notin Task
BY ConstantsAssumption DEF Callee, Sub

\* A group of variables that does not change keeps its type.
LEMMA SameTask == TaskType /\ UNCHANGED taskVars => TaskType'
BY DEF TaskType, taskVars

\* The same, of what a task's current builtin names.
LEMMA SameArg == TaskType /\ ArgTyped /\ UNCHANGED <<pc, arg>> => ArgTyped'
BY DEF ArgTyped, TaskType

\* The same, of the instances' entry and exclusivity fields.
LEMMA SameRun == RunType /\ UNCHANGED runVars => RunType'
BY DEF RunType, runVars

\* The same, of the instances' entry queues and counters.
LEMMA SameEntry == EntryType /\ UNCHANGED entryVars => EntryType'
BY DEF EntryType, entryVars

\* The same, of the subtasks.
LEMMA SameSub == SubType /\ UNCHANGED subVars => SubType'
BY DEF SubType, subVars

\* The same, of the scheduler.
LEMMA SameSched == SchedType /\ UNCHANGED schedVars => SchedType'
BY DEF SchedType, schedVars

\* The same, of the baton holder.
LEMMA SameBaton == BatonType /\ UNCHANGED batonVars => BatonType'
BY DEF BatonType, batonVars

\* A task that moves to another builtin, and names its operand, stays typed.
LEMMA PcType ==
    ASSUME TaskType, ArgTyped, NEW STATE t, t \in Task, NEW STATE p, p \in PC,
           NEW STATE s, s \in Sub \cup {None},
           p \in {"lower", "cancelA", "cancelS"} => s \in Sub,
           pc' = [pc EXCEPT ![t] = p], arg' = [arg EXCEPT ![t] = s]
    PROVE  pc' \in [Task -> PC] /\ arg' \in [Task -> Sub \cup {None}] /\ ArgTyped'
<1>1. pc' \in [Task -> PC] /\ arg' \in [Task -> Sub \cup {None}]
  BY DEF TaskType
<1>2. ArgTyped'
  BY DEF TaskType, ArgTyped
<1> QED BY <1>1, <1>2

\* The same for a move that leaves the operand as it is.
LEMMA PcOnlyType ==
    ASSUME TaskType, ArgTyped, NEW STATE t, t \in Task, NEW STATE p, p \in PC,
           p \notin {"lower", "cancelA", "cancelS"},
           pc' = [pc EXCEPT ![t] = p], UNCHANGED arg
    PROVE  pc' \in [Task -> PC] /\ arg' \in [Task -> Sub \cup {None}] /\ ArgTyped'
<1>1. pc' \in [Task -> PC] /\ arg' \in [Task -> Sub \cup {None}]
  BY DEF TaskType
<1>2. ArgTyped'
  BY DEF TaskType, ArgTyped
<1> QED BY <1>1, <1>2

\* A step inside the call chain touches task states, builtins and subtasks
\* only: those typed, everything is.
LEMMA ContinueType ==
    ASSUME TypeInv, Continue, state' \in [Task -> TaskState], pc' \in [Task -> PC],
           arg' \in [Task -> Sub \cup {None}], ArgTyped', SubType'
    PROVE  TypeInv'
<1>1. TaskType'
  BY DEF Continue, TypeInv, TypeOK, TaskType
<1>2. RunType' /\ EntryType' /\ SchedType' /\ BatonType'
  BY SameRun, SameEntry, SameSched, SameBaton, Zenon DEF Continue, TypeInv, TypeOK
<1> QED BY <1>1, <1>2, Zenon DEF TypeInv, TypeOK

\* enterRun, leaveRun and suspendRun keep the instance fields typed.
LEMMA RunTypes ==
    ASSUME RunType, NEW t \in Task
    PROVE  /\ EnterRun(t) => RunType'
           /\ LeaveRun(instOf[t]) => RunType'
           /\ SuspendRun(instOf[t]) => RunType'
BY Subs DEF RunType, EnterRun, LeaveRun, SuspendRun

\* Parking and unparking a task keep the scheduler's list typed.
LEMMA SchedTypes ==
    ASSUME SchedType, NEW t \in Task, UNCHANGED runq
    PROVE  /\ ParkLast(t) => SchedType'
           /\ Unpark({t}) => SchedType'
           /\ UNCHANGED <<parked, ahead>> => SchedType'
BY DEF SchedType, ParkLast, Unpark

\* Queueing and running a deferred completion keep the run queue typed.
LEMMA RunqTypes ==
    ASSUME SchedType, UNCHANGED <<parked, ahead>>
    PROVE  /\ UNCHANGED runq => SchedType'
           /\ runq # <<>> /\ runq' = Tail(runq) => SchedType'
           /\ \A h \in Import : runq' = Append(runq, h) => SchedType'
<1>1. UNCHANGED runq => SchedType'
  BY DEF SchedType
<1>2. runq # <<>> /\ runq' = Tail(runq) => SchedType'
  BY DEF SchedType
<1>3. \A h \in Import : runq' = Append(runq, h) => SchedType'
  BY DEF SchedType
<1> QED BY <1>1, <1>2, <1>3

\* A counter of an instance that is stepped stays an integer.
LEMMA CounterType ==
    ASSUME NEW STATE f, f \in [Instance -> Int], NEW i \in Instance, NEW d \in Int
    PROVE  /\ [f EXCEPT ![i] = @ + d] \in [Instance -> Int]
           /\ [f EXCEPT ![i] = @ - d] \in [Instance -> Int]
OBVIOUS

\* Entering and leaving a task keep the call chain typed.
LEMMA BatonTypes ==
    ASSUME BatonType
    PROVE  /\ \A t \in Task : Push(t) => stack' \in Seq(Task)
           /\ stack # <<>> /\ Pop => stack' \in Seq(Task) /\ host' \in HostPhase
<1>1. \A t \in Task : Push(t) => stack' \in Seq(Task)
  BY DEF BatonType, Push
<1>2. ASSUME stack # <<>>, Pop PROVE stack' \in Seq(Task) /\ host' \in HostPhase
  BY <1>2 DEF BatonType, Pop, HostPhase
<1> QED BY <1>1, <1>2

\* Entering a task keeps the baton holder typed.
LEMMA PushType ==
    ASSUME BatonType, NEW t \in Task, Push(t), UNCHANGED <<host, driver>>
    PROVE  BatonType'
BY BatonTypes DEF BatonType

\* So does leaving one.
LEMMA PopType ==
    ASSUME BatonType, stack # <<>>, Pop, UNCHANGED driver
    PROVE  BatonType'
BY BatonTypes DEF BatonType

\* A delivery keeps the subtask fields typed.
LEMMA DeliverType ==
    ASSUME SubType, NEW STATE s, s \in Sub, Deliver(s), syncWaiter' \subseteq Sub
    PROVE  SubType'
BY DEF SubType, Deliver

\* The same for a delivery of any subtask's event.
LEMMA DeliverSomeType ==
    ASSUME SubType, \E s \in Sub : Deliver(s), UNCHANGED syncWaiter
    PROVE  SubType'
<1>1. syncWaiter' \subseteq Sub
  BY DEF SubType
<1>2. PICK s \in Sub : Deliver(s)
  OBVIOUS
<1> QED BY <1>1, <1>2, DeliverType

\* A resolution keeps the subtask fields typed.
LEMMA ResolveType ==
    ASSUME SubType, NEW STATE s, NEW st \in SubState, Resolve(s, st)
    PROVE  SubType'
BY DEF SubType, Resolve

\* Every element of the call chain is a task.
LEMMA ChainType == BatonType => Chain \subseteq Task
BY DEF BatonType, Chain

\* The running task is a task.
LEMMA TopType == BatonType /\ stack # <<>> => Top \in Task
BY DEF BatonType, Top

\* A failure, whatever tasks it takes with it, keeps every field typed.
LEMMA UnwindType ==
    ASSUME TypeInv, NEW STATE F, F \subseteq Task, NEW STATE P, P \subseteq Task,
           Unwind(F, P), numWaitingToEnter' \in [Instance -> Int],
           backpressure' \in [Instance -> Int]
    PROVE  TypeInv'
<1>1. TaskType'
  BY Zenon DEF Unwind, TypeInv, TypeOK, TaskType, SchedType, Park, PC
<1>2. RunType' /\ EntryType'
  BY Subs, SMTT(30) DEF Unwind, TypeInv, TypeOK, RunType, EntryType, SchedType
<1>3. SubType'
  BY Zenon DEF Unwind, TypeInv, TypeOK, SubType
<1>4. SchedType'
  BY Zenon DEF Unwind, Unpark, TypeInv, TypeOK, SchedType
<1>5. BatonType'
  BY SMTT(30) DEF Unwind, BatonType, HostPhase
<1>6. ArgTyped'
  BY DEF Unwind, TypeInv, TypeOK, TaskType, ArgTyped
<1> QED BY <1>1, <1>2, <1>3, <1>4, <1>5, <1>6, Zenon DEF TypeInv, TypeOK

\* The same for a failure that leaves the entry counters alone.
LEMMA AbortType ==
    ASSUME TypeInv, NEW STATE F, F \subseteq Task, NEW STATE P, P \subseteq Task,
           Abort(F, P)
    PROVE  TypeInv'
BY UnwindType, Zenon DEF Abort, TypeInv, TypeOK, EntryType

\* A task's first run, from any caller, keeps every field typed.
LEMMA FirstRunType ==
    ASSUME TaskType, RunType, SubType, BatonType, NEW t \in Task,
           NEW STATE pcs, pcs \in [Task -> PC], FirstRun(t, pcs)
    PROVE  /\ state' \in [Task -> TaskState] /\ park' \in [Task -> Park]
           /\ cancellable' \subseteq Task /\ done' \subseteq Task
           /\ pc' \in [Task -> PC] /\ pc' = [pcs EXCEPT ![t] = "guest"]
           /\ RunType' /\ SubType' /\ stack' \in Seq(Task)
<1>1. state' \in [Task -> TaskState] /\ park' \in [Task -> Park]
  BY DEF FirstRun, TaskType, TaskState, Park
<1>2. cancellable' \subseteq Task /\ done' \subseteq Task /\ pc' \in [Task -> PC]
  BY DEF FirstRun, TaskType, PC
<1>3. RunType' /\ stack' \in Seq(Task)
  BY RunTypes, BatonTypes, Zenon DEF FirstRun
<1>4. SubType'
  BY DEF FirstRun, SubType, SubState
<1> QED BY <1>1, <1>2, <1>3, <1>4, Zenon DEF FirstRun

\* Queueing a task at entry keeps every field typed.
LEMMA ParkEntryType ==
    ASSUME TaskType, RunType, EntryType, SubType, SchedType, NEW t \in Task,
           ParkEntry(t), UNCHANGED runq
    PROVE  /\ state' \in [Task -> TaskState] /\ park' \in [Task -> Park]
           /\ cancellable' \subseteq Task /\ done' \subseteq Task
           /\ RunType' /\ EntryType' /\ SubType' /\ SchedType'
<1>1. /\ state' \in [Task -> TaskState] /\ park' \in [Task -> Park]
      /\ cancellable' \subseteq Task /\ done' \subseteq Task
  BY DEF ParkEntry, TaskType, Park
<1>2. RunType' /\ SchedType'
  BY SameRun, SchedTypes, Zenon DEF ParkEntry
<1>3. EntryType'
  BY Subs DEF ParkEntry, EntryType
<1>4. SubType'
  BY ZenonT(40) DEF ParkEntry, SubType, SubState
<1> QED BY <1>1, <1>2, <1>3, <1>4, Zenon

\* Every action keeps every field typed.
LEMMA TypeStep == TypeInv /\ [Next]_vars => TypeInv'
<1> SUFFICES ASSUME TypeInv, [Next]_vars PROVE TypeInv'
  OBVIOUS
<1> DEFINE Parts == TaskType /\ RunType /\ EntryType /\ SubType /\ SchedType
                    /\ BatonType /\ ArgTyped
<1>a. Parts
  BY DEF TypeInv, TypeOK
<1>b. Parts' => TypeInv'
  BY DEF TypeInv, TypeOK
<1>s. state \in [Task -> TaskState]
  BY <1>a, Zenon DEF TaskType
<1>p. UNCHANGED <<pc, arg>> => /\ pc' \in [Task -> PC] /\ ArgTyped'
                               /\ arg' \in [Task -> Sub \cup {None}]
  BY <1>a, SameArg DEF TaskType
<1>w. UNCHANGED syncWaiter => syncWaiter' \subseteq Sub
  BY <1>a DEF SubType
<1>1. ASSUME NEW r \in Root, HostInvoke(r) PROVE TypeInv'
  <2>a. r \in Task /\ UNCHANGED <<arg, runq>> /\ driver' = r
    BY <1>1, Subs, Zenon DEF HostInvoke
  <2>b. pc \in [Task -> PC]
    BY <1>a, Zenon DEF TaskType
  <2>1. CASE FirstRun(r, pc) /\ host' = "start" /\ UNCHANGED <<entryVars, parked, ahead>>
    <3>1. /\ state' \in [Task -> TaskState] /\ park' \in [Task -> Park]
          /\ cancellable' \subseteq Task /\ done' \subseteq Task
          /\ pc' \in [Task -> PC] /\ pc' = [pc EXCEPT ![r] = "guest"]
          /\ RunType' /\ SubType' /\ stack' \in Seq(Task)
      BY <1>a, <2>1, <2>a, <2>b, FirstRunType, Zenon
    <3>2. TaskType'
      BY <1>a, <2>a, <3>1, Zenon DEF TaskType
    <3>3. ArgTyped'
      BY <1>a, <2>a, <3>1, Zenon DEF TaskType, ArgTyped
    <3>4. BatonType'
      BY <1>1, <2>1, <2>a, <3>1, Zenon DEF BatonType, HostPhase
    <3>5. EntryType' /\ SchedType'
      BY <1>a, <2>1, <2>a, SameEntry, RunqTypes, Zenon
    <3> QED BY <1>b, <3>1, <3>2, <3>3, <3>4, <3>5, Zenon
  <2>2. CASE ParkEntry(r) /\ host' = "drive" /\ UNCHANGED <<stack, pc>>
    <3>1. /\ state' \in [Task -> TaskState] /\ park' \in [Task -> Park]
          /\ cancellable' \subseteq Task /\ done' \subseteq Task
          /\ RunType' /\ EntryType' /\ SubType' /\ SchedType'
      BY <1>a, <2>2, <2>a, ParkEntryType, Zenon
    <3>2. TaskType'
      BY <1>a, <2>2, <2>a, <3>1, Zenon DEF TaskType
    <3>3. ArgTyped'
      BY <1>a, <2>2, <2>a, SameArg, Zenon
    <3>4. BatonType'
      BY <1>1, <1>a, <2>2, <2>a, Zenon DEF BatonType, HostPhase
    <3> QED BY <1>b, <3>1, <3>2, <3>3, <3>4, Zenon
  <2> QED BY <1>1, <2>1, <2>2, Zenon DEF HostInvoke
<1>2. ASSUME NEW t \in Task, Fail(t) PROVE TypeInv'
  <2>1. Chain \subseteq Task /\ Chain \ {t} \subseteq Task
    BY <1>a, ChainType, ZenonT(40)
  <2> QED BY <1>2, <2>1, AbortType DEF Fail
<1>3. ASSUME NEW t \in Task, NEW c \in Callee, NEW how \in {"lower", "call", "invoke"},
             CallTask(t, c, how)
      PROVE  TypeInv'
  <2>a. c \in Task /\ c \in Sub
    BY Subs, Zenon
  <2>1. CASE Abort(Chain, Chain) \/ Abort(Chain \cup {c}, Chain)
    <3>1. Chain \subseteq Task /\ Chain \cup {c} \subseteq Task
      BY <1>a, <2>a, ChainType, Zenon
    <3> QED BY <2>1, <3>1, AbortType
  <2>2. CASE FirstRun(c, [pc EXCEPT ![t] = how])
             /\ arg' = [arg EXCEPT ![t] = c]
             /\ UNCHANGED <<entryVars, schedVars, host, driver>>
    <3>1. [pc EXCEPT ![t] = how] \in [Task -> PC]
      BY <1>a DEF TaskType, PC
    <3>2. /\ state' \in [Task -> TaskState] /\ park' \in [Task -> Park]
          /\ cancellable' \subseteq Task /\ done' \subseteq Task
          /\ pc' \in [Task -> PC]
          /\ pc' = [[pc EXCEPT ![t] = how] EXCEPT ![c] = "guest"]
          /\ RunType' /\ SubType' /\ stack' \in Seq(Task)
      BY <1>a, <2>2, <2>a, <3>1, FirstRunType, Zenon
    <3>3. arg' \in [Task -> Sub \cup {None}]
      BY <1>a, <2>2, <2>a, Zenon DEF TaskType
    <3>4. TaskType'
      BY <3>2, <3>3, Zenon DEF TaskType
    <3>5. ArgTyped'
      BY <1>a, <2>2, <2>a, <3>2, Zenon DEF TaskType, ArgTyped
    <3>6. BatonType'
      BY <1>a, <2>2, <3>2, Zenon DEF BatonType
    <3>7. EntryType' /\ SchedType'
      BY <1>a, <2>2, SameEntry, SameSched, Zenon
    <3> QED BY <1>b, <3>2, <3>4, <3>5, <3>6, <3>7, Zenon
  <2>3. CASE ParkEntry(c) /\ pc' = [pc EXCEPT ![t] = how]
             /\ arg' = [arg EXCEPT ![t] = c] /\ UNCHANGED <<runq, batonVars>>
    <3>1. pc' \in [Task -> PC] /\ arg' \in [Task -> Sub \cup {None}] /\ ArgTyped'
      BY <1>a, <2>3, <2>a, PcType, Zenon DEF PC
    <3>2. /\ state' \in [Task -> TaskState] /\ park' \in [Task -> Park]
          /\ cancellable' \subseteq Task /\ done' \subseteq Task
          /\ RunType' /\ EntryType' /\ SubType' /\ SchedType'
      BY <1>a, <2>3, <2>a, ParkEntryType, Zenon
    <3>3. TaskType'
      BY <3>1, <3>2 DEF TaskType
    <3>4. BatonType'
      BY <1>a, <2>3, SameBaton
    <3> QED BY <1>b, <3>1, <3>2, <3>3, <3>4, Zenon
  <2> QED BY <1>3, <2>1, <2>2, <2>3, Zenon DEF CallTask
<1>4. ASSUME NEW t \in Task, Exit(t) PROVE TypeInv'
  <2>1. state' \in [Task -> TaskState] /\ pc' \in [Task -> PC] /\ done' \subseteq Task
    BY <1>4, <1>a, ZenonT(40) DEF Exit, TaskType, TaskState, PC
  <2>2. TaskType'
    BY <1>4, <1>a, <2>1, Zenon DEF Exit, TaskType
  <2>3. ArgTyped'
    BY <1>4, <1>a, PcOnlyType, Zenon DEF Exit, PC
  <2>4. SubType'
    BY <1>4, <1>a, SameSub, ResolveType, Zenon DEF Exit, SubState
  <2>5. RunType' /\ EntryType' /\ SchedType'
    BY <1>4, <1>a, RunTypes, SameEntry, SameSched, Zenon DEF Exit
  <2>6. BatonType'
    BY <1>4, <1>a, PopType, Zenon DEF Exit, Running, At
  <2> QED BY <1>b, <2>2, <2>3, <2>4, <2>5, <2>6, ZenonT(40)
<1>5. ASSUME NEW t \in Task, NEW kind \in {"wait", "yield"}, Suspend(t, kind)
      PROVE  TypeInv'
  <2>1. pc' \in [Task -> PC] /\ arg' \in [Task -> Sub \cup {None}] /\ ArgTyped'
    BY <1>5, <1>a, PcOnlyType, Zenon DEF Suspend, PC
  <2>2. TaskType'
    BY <1>5, <1>a, <2>1, Zenon DEF Suspend, TaskType, Park
  <2>3. BatonType'
    BY <1>5, <1>a, PopType DEF Suspend, Running, At
  <2>4. RunType' /\ SchedType' /\ EntryType' /\ SubType'
    BY <1>5, <1>a, RunTypes, SchedTypes, SameEntry, SameSub, Zenon DEF Suspend
  <2> QED BY <1>b, <2>1, <2>2, <2>3, <2>4, Zenon
<1>c. ASSUME NEW t \in Task, NEW p \in {"wait", "waitC", "call", "await"},
             NEW b \in BOOLEAN, Block(t, p, b), stack # <<>>, SubType'
      PROVE  TypeInv'
  <2>1. pc' \in [Task -> PC] /\ arg' \in [Task -> Sub \cup {None}] /\ ArgTyped'
    BY <1>c, <1>a, PcOnlyType, Zenon DEF Block, PC
  <2>2. TaskType'
    BY <1>c, <1>a, <2>1, ZenonT(40) DEF Block, TaskType, Park
  <2>3. BatonType'
    BY <1>c, <1>a, PopType, Zenon DEF Block
  <2>4. RunType' /\ SchedType' /\ EntryType'
    BY <1>c, <1>a, RunTypes, SchedTypes, SameEntry, Zenon DEF Block
  <2> QED BY <1>b, <1>c, <2>1, <2>2, <2>3, <2>4, Zenon
<1>6. ASSUME NEW t \in Task, NEW b \in BOOLEAN, WaitBuiltin(t, b) PROVE TypeInv'
  <2> DEFINE p == IF b THEN "waitC" ELSE "wait"
  <2>1. p \in {"wait", "waitC"} /\ stack # <<>>
    BY <1>6, Zenon DEF WaitBuiltin, Running, At
  <2>2. SubType'
    BY <1>6, <1>a, SameSub, Zenon DEF WaitBuiltin
  <2>3. CASE state' = [state EXCEPT ![t] = "CANCEL_DELIVERED"]
             /\ UNCHANGED <<pc, arg>> /\ Continue
    <3>1. state' \in [Task -> TaskState]
      BY <1>s, <2>3, Zenon DEF TaskState
    <3> QED BY <1>p, <2>2, <2>3, <3>1, ContinueType, Zenon
  <2>4. CASE Block(t, p, b)
    BY <1>c, <2>1, <2>2, <2>4, Zenon
  <2>5. CASE pc' = [pc EXCEPT ![t] = p] /\ UNCHANGED <<state, arg>> /\ Continue
    <3>1. pc' \in [Task -> PC] /\ arg' \in [Task -> Sub \cup {None}] /\ ArgTyped'
      BY <1>a, <2>1, <2>5, PcOnlyType, Zenon DEF PC
    <3> QED BY <1>s, <2>2, <2>5, <3>1, ContinueType, Zenon
  <2> QED BY <1>6, <2>3, <2>4, <2>5, Zenon DEF WaitBuiltin
<1>7. ASSUME NEW t \in Task, TaskReturn(t) PROVE TypeInv'
  <2>1. state' \in [Task -> TaskState]
    BY <1>7, <1>s DEF TaskReturn, TaskState
  <2>2. SubType'
    BY <1>7, <1>a, ResolveType, Zenon DEF TaskReturn, SubState
  <2> QED BY <1>7, <1>p, <2>1, <2>2, ContinueType, Zenon DEF TaskReturn
<1>8. ASSUME NEW t \in Task, TaskCancel(t) PROVE TypeInv'
  <2>1. state' \in [Task -> TaskState]
    BY <1>8, <1>s, Zenon DEF TaskCancel, TaskState
  <2>2. SubType'
    BY <1>8, <1>a, ResolveType, Zenon DEF TaskCancel, SubState
  <2> QED BY <1>8, <1>p, <2>1, <2>2, ContinueType, Zenon DEF TaskCancel
<1>9. ASSUME NEW t \in Task, NEW b \in BOOLEAN, Poll(t, b) PROVE TypeInv'
  <2>1. state' \in [Task -> TaskState]
    BY <1>9, <1>s, Zenon DEF Poll, TaskState
  <2>2. SubType'
    BY <1>9, <1>a, SameSub, DeliverSomeType, Zenon DEF Poll
  <2> QED BY <1>9, <1>p, <2>1, <2>2, ContinueType, Zenon DEF Poll
<1>10. ASSUME NEW t \in Task, NEW s \in Sub, NEW b \in BOOLEAN, Join(t, s, b)
       PROVE  TypeInv'
  <2>1. SubType'
    BY <1>10, <1>a, ZenonT(40) DEF Join, SubType
  <2> QED BY <1>10, <1>s, <1>p, <2>1, ContinueType, Zenon DEF Join
<1>11. ASSUME NEW t \in Task, NEW s \in Sub, SubtaskDrop(t, s) PROVE TypeInv'
  <2>1. SubType'
    BY <1>11, <1>a, Zenon DEF SubtaskDrop, SubType
  <2> QED BY <1>11, <1>s, <1>p, <2>1, ContinueType, Zenon DEF SubtaskDrop
<1>12. ASSUME NEW t \in Task, NEW delta \in {-1, 1}, Backpressure(t, delta)
       PROVE  TypeInv'
  <2>a. /\ backpressure' = [backpressure EXCEPT ![instOf[t]] = @ + delta]
        /\ UNCHANGED numWaitingToEnter
    BY <1>12, Zenon DEF Backpressure
  <2>1. /\ backpressure' \in [Instance -> Int]
        /\ numWaitingToEnter' \in [Instance -> Int]
    BY <1>a, <2>a, Subs, CounterType, SMTT(30) DEF EntryType
  <2>2. CASE Unwind(Chain, Chain)
    <3>1. Chain \subseteq Task
      BY <1>a, ChainType, Zenon
    <3> QED BY <2>1, <2>2, <3>1, UnwindType, Zenon
  <2>3. CASE UNCHANGED <<taskVars, runVars, poisoned, subVars, schedVars, batonVars>>
    <3>1. EntryType'
      BY <1>a, <2>1, <2>3, Zenon DEF EntryType
    <3>2. TaskType' /\ ArgTyped'
      BY <1>a, <2>3, SameTask, SameArg, Zenon DEF taskVars
    <3> QED BY <1>a, <1>b, <2>3, <3>1, <3>2, SameRun, SameSub, SameSched, SameBaton, Zenon
  <2> QED BY <1>12, <2>2, <2>3, Zenon DEF Backpressure
<1>13. ASSUME NEW t \in Task, NEW h \in Import, CallImport(t, h) PROVE TypeInv'
  <2>1. /\ subState' \in [Sub -> SubState] /\ delivered' \subseteq Sub
        /\ holder' \in [Sub -> Instance \cup {None}]
    <3>1. h \in Sub /\ instOf[t] \in Instance
      BY Subs, Zenon
    <3> QED BY <1>13, <1>a, <3>1, Zenon DEF CallImport, SubType, SubState
  <2>2. SubType'
    BY <1>13, <1>a, <2>1, Zenon DEF CallImport, SubType
  <2>3. SchedType'
    BY <1>13, <1>a, RunqTypes, Zenon DEF CallImport
  <2>4. TaskType' /\ ArgTyped'
    BY <1>13, <1>a, SameTask, SameArg, Zenon DEF CallImport, taskVars
  <2>5. RunType' /\ EntryType' /\ BatonType'
    BY <1>13, <1>a, SameRun, SameEntry, SameBaton, Zenon DEF CallImport
  <2> QED BY <1>b, <2>2, <2>3, <2>4, <2>5, Zenon
<1>14. ASSUME NEW t \in Task, NEW s \in Sub, NEW b \in BOOLEAN, CancelResolved(t, s, b)
       PROVE  TypeInv'
  <2>1. SubType'
    BY <1>14, <1>a, <1>w, DeliverType, Zenon DEF CancelResolved
  <2> QED BY <1>14, <1>s, <1>p, <2>1, ContinueType, Zenon DEF CancelResolved
<1>d. ASSUME NEW t \in Task, NEW s \in Sub, NEW b \in BOOLEAN, Requested(t, s, b)
      PROVE  /\ pc' \in [Task -> PC] /\ arg' \in [Task -> Sub \cup {None}]
             /\ ArgTyped'
             /\ delivered' \subseteq Sub /\ requested' \subseteq Sub
             /\ syncWaiter' \subseteq Sub /\ joined' \subseteq Sub
             /\ holder' \in [Sub -> Instance \cup {None}]
  <2>1. /\ pc' \in [Task -> PC] /\ arg' \in [Task -> Sub \cup {None}]
        /\ ArgTyped'
    <3> DEFINE p == IF b THEN "cancelA" ELSE "cancelS"
    <3>1. p \in PC /\ s \in Sub \cup {None}
      BY Zenon DEF PC
    <3>2. pc' = [pc EXCEPT ![t] = p] /\ arg' = [arg EXCEPT ![t] = s]
      BY <1>d, Zenon DEF Requested
    <3> HIDE DEF p
    <3> QED BY <1>a, <3>1, <3>2, PcType, Zenon
  <2>2. /\ delivered' \subseteq Sub /\ requested' \subseteq Sub
        /\ syncWaiter' \subseteq Sub /\ joined' \subseteq Sub
        /\ holder' \in [Sub -> Instance \cup {None}]
    BY <1>d, <1>a, Zenon DEF Requested, SubType
  <2> QED BY <2>1, <2>2, Zenon
<1>15. ASSUME NEW t \in Task, NEW h \in Import, NEW b \in BOOLEAN, CancelImport(t, h, b)
       PROVE  TypeInv'
  <2>a. h \in Sub /\ Requested(t, h, b)
    BY <1>15, Subs, Zenon DEF CancelImport
  <2>b. /\ UNCHANGED <<state, park, cancellable, done, runVars, entryVars, parked,
                       ahead, batonVars>>
        /\ UNCHANGED runq \/ runq' = Append(runq, h)
    BY <1>15, Zenon DEF CancelImport
  <2>1. subState' \in [Sub -> SubState] /\ pending' \subseteq Sub
    BY <1>15, <1>a, <2>a, Zenon DEF CancelImport, SubType, SubState
  <2>2. SubType'
    BY <1>d, <2>a, <2>1, Zenon DEF SubType
  <2>3. SchedType'
    BY <1>a, <2>b, RunqTypes, Zenon
  <2>4. pc' \in [Task -> PC] /\ arg' \in [Task -> Sub \cup {None}] /\ ArgTyped'
    BY <1>d, <2>a, Zenon
  <2>5. TaskType'
    BY <1>a, <2>b, <2>4, Zenon DEF TaskType
  <2>6. RunType' /\ EntryType' /\ BatonType'
    BY <1>a, <2>b, SameRun, SameEntry, SameBaton, Zenon
  <2> QED BY <1>b, <2>2, <2>3, <2>4, <2>5, <2>6, ZenonT(40)
<1>16. ASSUME NEW t \in Task, NEW c \in Callee, NEW b \in BOOLEAN, CancelPending(t, c, b)
       PROVE  TypeInv'
  <2>a. c \in Sub /\ Requested(t, c, b)
    BY <1>16, Subs, Zenon DEF CancelPending
  <2>1. state' \in [Task -> TaskState]
    BY <1>16, <1>s, Zenon DEF CancelPending, TaskState
  <2>2. SubType'
    <3>1. UNCHANGED <<subState, pending>>
      BY <1>16, Zenon DEF CancelPending
    <3> QED BY <1>a, <1>d, <2>a, <3>1, Zenon DEF SubType
  <2>3. pc' \in [Task -> PC] /\ arg' \in [Task -> Sub \cup {None}] /\ ArgTyped'
    BY <1>d, <2>a, Zenon
  <2> QED BY <1>16, <2>1, <2>2, <2>3, ContinueType, ZenonT(40) DEF CancelPending
<1>17. ASSUME NEW t \in Task, NEW c \in Callee, NEW b \in BOOLEAN, CancelEntry(t, c, b)
       PROVE  TypeInv'
  <2>a. c \in Sub /\ c \in Task /\ Requested(t, c, b)
    BY <1>17, Subs, Zenon DEF CancelEntry
  <2>b. pc' \in [Task -> PC] /\ arg' \in [Task -> Sub \cup {None}] /\ ArgTyped'
    BY <1>d, <2>a, Zenon
  <2>1. TaskType'
    <3>1. state' = [state EXCEPT ![c] = "RESOLVED"] /\ done' = done \cup {c}
          /\ UNCHANGED cancellable
      BY <1>17, Zenon DEF CancelEntry
    <3>2. UNCHANGED park \/ park' = [park EXCEPT ![c] = "none"]
      BY <1>17, Zenon DEF CancelEntry
    <3>3. state' \in [Task -> TaskState] /\ done' \subseteq Task /\ cancellable' \subseteq Task
      BY <1>a, <2>a, <3>1, Zenon DEF TaskType, TaskState
    <3>4. park' \in [Task -> Park]
      BY <1>a, <3>2, Zenon DEF TaskType, Park
    <3> QED BY <2>b, <3>3, <3>4, ZenonT(40) DEF TaskType
  <2>2. SubType'
    <3>1. /\ subState' = [subState EXCEPT ![c] = CancelledState(c)]
          /\ pending' = pending \cup {c}
      BY <1>17, Zenon DEF CancelEntry
    <3>2. subState' \in [Sub -> SubState] /\ pending' \subseteq Sub
      BY <1>a, <2>a, <3>1, Zenon DEF SubType, CancelledState, SubState
    <3> QED BY <1>d, <2>a, <3>2, Zenon DEF SubType
  <2>3. EntryType'
    <3>1. /\ numWaitingToEnter' = [numWaitingToEnter EXCEPT ![instOf[c]] = @ - 1]
          /\ UNCHANGED <<backpressure, poisoned>>
      BY <1>17, Zenon DEF CancelEntry, LeaveEntryQueue
    <3>2. instOf[c] \in Instance
      BY <2>a, Subs, Zenon
    <3> QED BY <1>a, <3>1, <3>2, CounterType, SMTT(30) DEF EntryType
  <2>4. SchedType'
    <3>1. Unpark({c}) /\ UNCHANGED runq
      BY <1>17, Zenon DEF CancelEntry
    <3> QED BY <1>a, <2>a, <3>1, SchedTypes, Zenon
  <2>5. RunType' /\ BatonType'
    BY <1>17, <1>a, SameRun, SameBaton, Zenon DEF CancelEntry
  <2> QED BY <1>b, <2>b, <2>1, <2>2, <2>3, <2>4, <2>5, Zenon
<1>18. ASSUME NEW t \in Task, NEW c \in Callee, NEW b \in BOOLEAN, CancelDeliver(t, c, b)
       PROVE  TypeInv'
  <2>a. c \in Sub /\ c \in Task
    BY Subs
  <2>1. TaskType' /\ ArgTyped'
    <3>1. /\ state' = [state EXCEPT ![c] = "CANCEL_DELIVERED"] /\ UNCHANGED done
          /\ cancellable' = cancellable \ {c} \/ UNCHANGED cancellable
          /\ park' = [park EXCEPT ![c] = "none"] \/ UNCHANGED park
      BY <1>18, Zenon DEF CancelDeliver
    <3>2. state' \in [Task -> TaskState] /\ park' \in [Task -> Park]
      BY <1>a, <3>1, Zenon DEF TaskType, TaskState, Park
    <3>3. cancellable' \subseteq Task /\ done' \subseteq Task
      BY <1>a, <3>1, Zenon DEF TaskType
    <3>4. /\ pc' = [pc EXCEPT ![c] = "guest", ![t] = IF b THEN "cancelA" ELSE "cancelS"]
          /\ arg' = [arg EXCEPT ![c] = None, ![t] = c]
      BY <1>18, Zenon DEF CancelDeliver
    <3>5. pc' \in [Task -> PC] /\ arg' \in [Task -> Sub \cup {None}]
      BY <1>a, <2>a, <3>4, Zenon DEF TaskType, PC
    <3>6. ArgTyped'
      BY <1>a, <2>a, <3>4, Zenon DEF TaskType, ArgTyped
    <3> QED BY <3>2, <3>3, <3>5, <3>6, ZenonT(40) DEF TaskType
  <2>2. SubType'
    <3>1. /\ requested' = requested \cup {c}
          /\ UNCHANGED <<subState, pending, delivered, syncWaiter, holder, joined>>
      BY <1>18, Zenon DEF CancelDeliver
    <3> QED BY <1>a, <2>a, <3>1, ZenonT(40) DEF SubType
  <2>3. EnterRun(c) /\ Push(c) /\ Unpark({c}) /\ UNCHANGED <<entryVars, runq, host, driver>>
    BY <1>18, Zenon DEF CancelDeliver
  <2>4. RunType' /\ SchedType'
    BY <1>a, <2>a, <2>3, RunTypes, SchedTypes, Zenon
  <2>5. EntryType' /\ BatonType'
    BY <1>a, <2>a, <2>3, SameEntry, PushType, Zenon
  <2> QED BY <1>b, <2>1, <2>2, <2>4, <2>5, ZenonT(40)
<1>19. ASSUME NEW t \in Task, NEW c \in Callee, NEW b \in BOOLEAN, CancelDead(t, c, b)
       PROVE  TypeInv'
  <2>1. CASE Abort(Chain, Chain)
    <3>1. Chain \subseteq Task
      BY <1>a, ChainType, Zenon
    <3> QED BY <2>1, <3>1, AbortType, Zenon
  <2>2. CASE /\ Requested(t, c, b)
             /\ state' = [state EXCEPT ![c] = "CANCEL_DELIVERED"]
             /\ host' = "hung"
             /\ UNCHANGED <<park, cancellable, done, runVars, entryVars, subState,
                            pending, schedVars, stack, driver>>
    <3>1. /\ pc' \in [Task -> PC] /\ arg' \in [Task -> Sub \cup {None}]
          /\ ArgTyped'
          /\ delivered' \subseteq Sub /\ requested' \subseteq Sub
          /\ syncWaiter' \subseteq Sub /\ joined' \subseteq Sub
          /\ holder' \in [Sub -> Instance \cup {None}]
      BY <1>d, <2>2, Subs, Zenon
    <3>2. TaskType'
      BY <1>a, <2>2, <3>1, Zenon DEF TaskType, TaskState
    <3>3. SubType'
      BY <1>a, <2>2, <3>1, Zenon DEF SubType
    <3>4. BatonType'
      BY <1>a, <2>2, Zenon DEF BatonType, HostPhase
    <3>5. RunType' /\ EntryType' /\ SchedType'
      BY <1>a, <2>2, SameRun, SameEntry, SameSched, Zenon
    <3> QED BY <1>b, <3>1, <3>2, <3>3, <3>4, <3>5, ZenonT(40)
  <2> QED BY <1>19, <2>1, <2>2, Zenon DEF CancelDead
<1>e. ASSUME NEW t \in Task, CompleteOp(t), pc[t] = "await" => arg[t] \in pending
      PROVE  /\ SubType' /\ state' \in [Task -> TaskState] /\ pc' \in [Task -> PC]
             /\ arg' \in [Task -> Sub \cup {None}] /\ ArgTyped'
  <2>1. SubType'
    <3>1. CASE (\E s \in Sub : Deliver(s)) /\ UNCHANGED syncWaiter
      BY <1>a, <3>1, DeliverSomeType, Zenon
    <3>2. CASE /\ pc[t] = "await" /\ Deliver(arg[t])
               /\ syncWaiter' = syncWaiter \ {arg[t]}
      <4>1. arg[t] \in Sub /\ syncWaiter' \subseteq Sub
        BY <1>a, <1>e, <3>2, Zenon DEF SubType
      <4> QED BY <1>a, <3>2, <4>1, DeliverType, ZenonT(40)
    <3>3. CASE UNCHANGED subVars
      BY <1>a, <3>3, SameSub
    <3> QED BY <1>e, <3>1, <3>2, <3>3, Zenon DEF CompleteOp
  <2>2. state' \in [Task -> TaskState]
    <3>1. UNCHANGED state \/ state' = [state EXCEPT ![t] = "CANCEL_DELIVERED"]
      BY <1>e DEF CompleteOp
    <3> QED BY <1>s, <3>1, ZenonT(40) DEF TaskState
  <2>3. pc' \in [Task -> PC] /\ arg' \in [Task -> Sub \cup {None}] /\ ArgTyped'
    <3> DEFINE p == IF pc[t] = "drive" THEN "drain" ELSE "guest"
    <3>1. p \in PC /\ p \notin {"lower", "cancelA", "cancelS"}
      BY ZenonT(40) DEF PC
    <3>2. pc' = [pc EXCEPT ![t] = p] /\ arg' = [arg EXCEPT ![t] = None]
      BY <1>e, ZenonT(40) DEF CompleteOp
    <3> HIDE DEF p
    <3> QED BY <1>a, <3>1, <3>2, PcType, Zenon
  <2> QED BY <2>1, <2>2, <2>3, ZenonT(40)
<1>20. ASSUME NEW t \in Task, NestedDone(t) PROVE TypeInv'
  <2>1. CompleteOp(t) /\ Continue /\ (pc[t] = "await" => arg[t] \in pending)
    BY <1>20, Zenon DEF NestedDone, BlockPred
  <2> QED BY <1>e, <2>1, ContinueType, ZenonT(40)
<1>21. ASSUME NEW t \in Task, InvokeStarted(t) PROVE TypeInv'
  <2>1. pc' \in [Task -> PC] /\ arg' \in [Task -> Sub \cup {None}] /\ ArgTyped'
    BY <1>21, <1>a, PcOnlyType, Zenon DEF InvokeStarted, PC
  <2>2. SubType'
    BY <1>21, <1>a, SameSub DEF InvokeStarted
  <2> QED BY <1>21, <1>s, <2>1, <2>2, ContinueType, Zenon DEF InvokeStarted
<1>22. ASSUME NEW t \in Task, CallBlocks(t) PROVE TypeInv'
  <2>1. Block(t, "call", FALSE) /\ stack # <<>> /\ UNCHANGED subVars
    BY <1>22, Zenon DEF CallBlocks, At
  <2> QED BY <1>a, <1>c, <2>1, SameSub, Zenon
<1>23. ASSUME NEW t \in Task, LowerReturn(t) PROVE TypeInv'
  <2>1. arg[t] \in Sub
    BY <1>23, <1>a, ZenonT(40) DEF LowerReturn, At, ArgTyped
  <2>2. SubType'
    <3>1. /\ delivered' = delivered \cup {arg[t]} \/ UNCHANGED delivered
          /\ holder' = [holder EXCEPT ![arg[t]] = instOf[t]] \/ UNCHANGED holder
          /\ UNCHANGED <<subState, pending, requested, syncWaiter, joined>>
      BY <1>23, Zenon DEF LowerReturn
    <3>2. instOf[t] \in Instance
      BY Subs
    <3> QED BY <1>a, <2>1, <3>1, <3>2, Zenon DEF SubType
  <2>3. pc' \in [Task -> PC] /\ arg' \in [Task -> Sub \cup {None}] /\ ArgTyped'
    BY <1>23, <1>a, PcType, Zenon DEF LowerReturn, PC
  <2> QED BY <1>23, <1>s, <2>2, <2>3, ContinueType, ZenonT(40) DEF LowerReturn
<1>24. ASSUME NEW t \in Task, CancelReturn(t) PROVE TypeInv'
  <2>1. arg[t] \in Sub /\ stack # <<>>
    BY <1>24, <1>a DEF CancelReturn, At, ArgTyped
  <2>a. ASSUME pc' = [pc EXCEPT ![t] = "guest"], arg' = [arg EXCEPT ![t] = None]
        PROVE  pc' \in [Task -> PC] /\ arg' \in [Task -> Sub \cup {None}] /\ ArgTyped'
    BY <1>a, <2>a, PcType, Zenon DEF PC
  <2>2. CASE /\ Deliver(arg[t]) /\ UNCHANGED <<state, syncWaiter>>
             /\ pc' = [pc EXCEPT ![t] = "guest"] /\ arg' = [arg EXCEPT ![t] = None]
             /\ Continue
    <3>1. SubType'
      BY <1>a, <1>w, <2>1, <2>2, DeliverType, Zenon
    <3> QED BY <1>s, <2>a, <2>2, <3>1, ContinueType, Zenon
  <2>3. CASE /\ UNCHANGED <<state, subVars>>
             /\ pc' = [pc EXCEPT ![t] = "guest"] /\ arg' = [arg EXCEPT ![t] = None]
             /\ Continue
    BY <1>a, <1>s, <2>a, <2>3, SameSub, ContinueType, Zenon
  <2>4. CASE /\ syncWaiter' = syncWaiter \cup {arg[t]}
             /\ \/ Block(t, "await", FALSE)
                \/ /\ pc' = [pc EXCEPT ![t] = "await"]
                   /\ UNCHANGED <<state, arg>> /\ Continue
             /\ UNCHANGED <<subState, pending, delivered, requested, holder, joined>>
    <3>1. SubType'
      BY <1>a, <2>1, <2>4, Zenon DEF SubType
    <3>2. CASE Block(t, "await", FALSE)
      BY <1>c, <2>1, <3>1, <3>2, Zenon
    <3>3. CASE pc' = [pc EXCEPT ![t] = "await"] /\ UNCHANGED <<state, arg>> /\ Continue
      <4>1. pc' \in [Task -> PC] /\ arg' \in [Task -> Sub \cup {None}] /\ ArgTyped'
        BY <1>a, <3>3, PcOnlyType, Zenon DEF PC
      <4> QED BY <1>s, <3>1, <3>3, <4>1, ContinueType, Zenon
    <3> QED BY <2>4, <3>2, <3>3, Zenon
  <2> QED BY <1>24, <2>2, <2>3, <2>4, Zenon DEF CancelReturn
<1>25. ASSUME RunThunk PROVE TypeInv'
  <2>1. SubType'
    <3>1. \/ UNCHANGED subVars \/ Resolve(Head(runq), "RETURNED")
          \/ Resolve(Head(runq), "CANCELLED_BEFORE_RETURNED")
      BY <1>25, Zenon DEF RunThunk
    <3> QED BY <1>a, <3>1, ResolveType, SameSub, Zenon DEF SubState
  <2>2. SchedType'
    BY <1>25, <1>a, RunqTypes, Zenon DEF RunThunk
  <2>3. TaskType' /\ ArgTyped'
    BY <1>25, <1>a, SameTask, SameArg, Zenon DEF RunThunk, taskVars
  <2>4. RunType' /\ EntryType' /\ BatonType'
    BY <1>25, <1>a, SameRun, SameEntry, SameBaton, Zenon DEF RunThunk
  <2> QED BY <1>b, <2>1, <2>2, <2>3, <2>4, Zenon
<1>26. ASSUME NEW t \in Task, ResumeEntry(t) PROVE TypeInv'
  <2>a. /\ numWaitingToEnter' = [numWaitingToEnter EXCEPT ![instOf[t]] = @ - 1]
        /\ UNCHANGED backpressure
    BY <1>26, Zenon DEF ResumeEntry, LeaveEntryQueue
  <2>1. /\ backpressure' \in [Instance -> Int]
        /\ numWaitingToEnter' \in [Instance -> Int]
    BY <1>a, <2>a, Subs, CounterType, SMTT(30) DEF EntryType
  <2>2. CASE Unwind(Chain \cup {t}, Chain)
    <3>1. Chain \subseteq Task /\ Chain \cup {t} \subseteq Task
      BY <1>a, ChainType, Zenon
    <3> QED BY <2>1, <2>2, <3>1, UnwindType, Zenon
  <2>3. CASE FirstRun(t, pc) /\ Unpark({t})
             /\ UNCHANGED <<arg, poisoned, runq, host, driver>>
    <3>a. pc \in [Task -> PC]
      BY <1>a DEF TaskType
    <3>1. /\ state' \in [Task -> TaskState] /\ park' \in [Task -> Park]
          /\ cancellable' \subseteq Task /\ done' \subseteq Task
          /\ pc' \in [Task -> PC] /\ pc' = [pc EXCEPT ![t] = "guest"]
          /\ RunType' /\ SubType' /\ stack' \in Seq(Task)
      BY <1>a, <2>3, <3>a, FirstRunType, ZenonT(40)
    <3>2. TaskType'
      BY <1>a, <2>3, <3>1, ZenonT(40) DEF TaskType
    <3>3. ArgTyped'
      BY <1>a, <2>3, <3>1, PcOnlyType, Zenon DEF PC
    <3>4. EntryType' /\ BatonType'
      BY <1>a, <2>1, <2>3, <3>1, Zenon DEF EntryType, BatonType
    <3>5. SchedType'
      BY <1>a, <2>3, SchedTypes
    <3> QED BY <1>b, <3>1, <3>2, <3>3, <3>4, <3>5, Zenon
  <2> QED BY <1>26, <2>2, <2>3, Zenon DEF ResumeEntry
<1>f. ASSUME NEW t \in Task, EnterRun(t), Push(t), Unpark({t}),
             UNCHANGED <<entryVars, runq, host, driver>>
      PROVE  RunType' /\ EntryType' /\ SchedType' /\ BatonType'
  <2>1. RunType' /\ SchedType'
    BY <1>a, <1>f, RunTypes, SchedTypes, ZenonT(40)
  <2>2. EntryType' /\ BatonType'
    BY <1>a, <1>f, SameEntry, PushType, Zenon
  <2> QED BY <2>1, <2>2, ZenonT(40)
<1>27. ASSUME NEW t \in Task, ResumeWait(t) PROVE TypeInv'
  <2>1. SubType'
    BY <1>27, <1>a, SameSub, DeliverSomeType, Zenon DEF ResumeWait
  <2>2. pc' \in [Task -> PC] /\ arg' \in [Task -> Sub \cup {None}] /\ ArgTyped'
    BY <1>27, <1>a, PcOnlyType, Zenon DEF ResumeWait, PC
  <2>3. state' \in [Task -> TaskState]
    BY <1>27, <1>s DEF ResumeWait, TaskState
  <2>4. TaskType'
    BY <1>27, <1>a, <2>2, <2>3, Zenon DEF ResumeWait, TaskType
  <2>5. RunType' /\ EntryType' /\ SchedType' /\ BatonType'
    BY <1>27, <1>f, Zenon DEF ResumeWait
  <2> QED BY <1>b, <2>1, <2>2, <2>4, <2>5, ZenonT(40)
<1>28. ASSUME NEW t \in Task, ResumeYield(t) PROVE TypeInv'
  <2>1. pc' \in [Task -> PC] /\ arg' \in [Task -> Sub \cup {None}] /\ ArgTyped'
    BY <1>28, <1>a, PcOnlyType, Zenon DEF ResumeYield, PC
  <2>2. state' \in [Task -> TaskState]
    BY <1>28, <1>s DEF ResumeYield, TaskState
  <2>3. TaskType'
    BY <1>28, <1>a, <2>1, <2>2, Zenon DEF ResumeYield, TaskType
  <2>4. RunType' /\ EntryType' /\ SchedType' /\ BatonType'
    BY <1>28, <1>f, Zenon DEF ResumeYield
  <2>5. SubType'
    BY <1>28, <1>a, SameSub, ZenonT(40) DEF ResumeYield
  <2> QED BY <1>b, <2>1, <2>3, <2>4, <2>5, Zenon
<1>29. ASSUME NEW t \in Task, ResumeBlocked(t) PROVE TypeInv'
  <2>1. CASE Abort(Chain \cup {t}, Chain \cup {t})
    <3>1. Chain \cup {t} \subseteq Task
      BY <1>a, ChainType, Zenon
    <3> QED BY <2>1, <3>1, AbortType, Zenon
  <2>2. CASE /\ BlockPred(t) \/ pc[t] = "call"
             /\ CompleteOp(t)
             /\ park' = [park EXCEPT ![t] = "none"]
             /\ cancellable' = cancellable \ {t}
             /\ EnterRun(t) /\ Push(t) /\ Unpark({t})
             /\ UNCHANGED <<done, entryVars, runq, host, driver>>
    <3>1. pc[t] = "await" => arg[t] \in pending
      BY <2>2, Zenon DEF BlockPred
    <3>2. /\ SubType' /\ state' \in [Task -> TaskState] /\ pc' \in [Task -> PC]
          /\ arg' \in [Task -> Sub \cup {None}] /\ ArgTyped'
      BY <1>e, <2>2, <3>1, Zenon
    <3>3. TaskType'
      BY <1>a, <2>2, <3>2, Zenon DEF TaskType, Park
    <3>4. RunType' /\ EntryType' /\ SchedType' /\ BatonType'
      BY <1>f, <2>2, Zenon
    <3> QED BY <1>b, <3>2, <3>3, <3>4, Zenon
  <2> QED BY <1>29, <2>1, <2>2, Zenon DEF ResumeBlocked
<1>30. ASSUME NoProgress PROVE TypeInv'
  <2>1. CASE Abort(Chain, Chain) \/ Abort({}, {})
    <3>1. Chain \subseteq Task
      BY <1>a, ChainType, Zenon
    <3> QED BY <2>1, <3>1, AbortType, Zenon
  <2>2. CASE /\ stack # <<>> /\ pc' = [pc EXCEPT ![Top] = "guest"]
             /\ UNCHANGED <<state, arg, subVars>> /\ Continue
    <3>1. Top \in Task
      BY <1>a, <2>2, TopType
    <3>2. pc' \in [Task -> PC] /\ arg' \in [Task -> Sub \cup {None}] /\ ArgTyped'
      BY <1>a, <2>2, <3>1, PcOnlyType, Zenon DEF PC
    <3>3. SubType'
      BY <1>a, <2>2, SameSub, Zenon
    <3> QED BY <1>s, <2>2, <3>2, <3>3, ContinueType, Zenon
  <2>3. CASE /\ host' = "idle" /\ driver' = None
             /\ UNCHANGED <<taskVars, runVars, entryVars, subVars, schedVars, stack>>
    <3>1. BatonType'
      BY <1>a, <2>3, Zenon DEF BatonType, HostPhase
    <3>2. TaskType' /\ ArgTyped'
      BY <1>a, <2>3, SameTask, SameArg, Zenon DEF taskVars
    <3> QED BY <1>a, <1>b, <2>3, <3>1, <3>2, SameRun, SameEntry, SameSub, SameSched, ZenonT(40)
  <2> QED BY <1>30, <2>1, <2>2, <2>3, Zenon DEF NoProgress
<1>31. ASSUME DriveDone PROVE TypeInv'
  <2>1. BatonType'
    BY <1>31, <1>a, Zenon DEF DriveDone, BatonType, HostPhase
  <2>2. TaskType' /\ ArgTyped'
    BY <1>31, <1>a, SameTask, SameArg, Zenon DEF DriveDone, taskVars
  <2>3. RunType' /\ EntryType' /\ SubType' /\ SchedType'
    BY <1>31, <1>a, SameRun, SameEntry, SameSub, SameSched, ZenonT(40) DEF DriveDone
  <2> QED BY <1>b, <2>1, <2>2, <2>3, Zenon
<1>32. ASSUME HostRests \/ UNCHANGED vars PROVE TypeInv'
  <2>1. UNCHANGED <<taskVars, runVars, entryVars, subVars, schedVars, batonVars>>
    BY <1>32, Zenon DEF HostRests, vars
  <2>2. TaskType' /\ ArgTyped'
    BY <1>a, <2>1, SameTask, SameArg, Zenon DEF taskVars
  <2> QED BY <1>a, <1>b, <2>1, <2>2, SameRun, SameEntry, SameSub, SameSched, SameBaton, ZenonT(40)
<1> QED
  BY <1>1, <1>2, <1>3, <1>4, <1>5, <1>6, <1>7, <1>8, <1>9, <1>10, <1>11, <1>12,
     <1>13, <1>14, <1>15, <1>16, <1>17, <1>18, <1>19, <1>20, <1>21, <1>22, <1>23,
     <1>24, <1>25, <1>26, <1>27, <1>28, <1>29, <1>30, <1>31, <1>32, ZenonT(40)
  DEF Next, GuestStep, BuiltinStep, SchedStep

\* The initial state is typed.
LEMMA TypeInit == Init => TypeInv
<1> SUFFICES ASSUME Init PROVE TypeInv
  BY Zenon
<1>1. TaskType BY Zenon DEF Init, TaskType, TaskState, Park, PC
<1>2. RunType BY Zenon DEF Init, RunType
<1>3. EntryType BY SMTT(30) DEF Init, EntryType
<1>4. SubType BY Subs, Zenon DEF Init, SubType, SubState
<1>5. SchedType BY SMTT(30) DEF Init, SchedType
<1>6. BatonType BY SMTT(30) DEF Init, BatonType, HostPhase
<1>7. ArgTyped BY DEF Init, ArgTyped
<1> QED BY <1>1, <1>2, <1>3, <1>4, <1>5, <1>6, <1>7, Zenon DEF TypeInv, TypeOK

\* Every field of every task, instance and subtask always has a value of its
\* kind, through every builtin, park, resume, cancellation and failure.
THEOREM TypeCorrect == Spec => []TypeOK
<1>1. TypeInv => TypeOK
  BY DEF TypeInv
<1> QED BY <1>1, TypeInit, TypeStep, PTL DEF Spec

=============================================================================
