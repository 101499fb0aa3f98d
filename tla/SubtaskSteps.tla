---------------------------- MODULE SubtaskSteps -----------------------------
(***************************************************************************)
(* What a step of AsyncTasks may do to the subtasks, and to the tasks      *)
(* inside a builtin on one: the lemmas SubtaskProofs rests on.  The        *)
(* inductive invariant SubInv is stated here part by part.                 *)
(***************************************************************************)
EXTENDS ExclusiveProofs

\* A parked task has not run yet exactly if it is parked at entry, and a task
\* with frames on the call chain has started.
TaskPhase ==
    /\ \A t \in parked : park[t] = "entry" <=> state[t] = "INITIAL"
    /\ \A t \in Chain : state[t] # "INITIAL"

\* The callee's task and its subtask go through the same phases.
Mirror ==
    \A c \in Callee :
      /\ state[c] \in {"STARTED", "PENDING_CANCEL", "CANCEL_DELIVERED"} <=>
           subState[c] = "STARTED"
      /\ state[c] = "RESOLVED" <=> subState[c] \in Resolved
      /\ Fresh(c) => subState[c] = "unused"
      /\ c \in parked /\ state[c] = "INITIAL" => subState[c] = "STARTING"

\* A table entry exists only for a call that was made, and has an event
\* exactly between the resolution and its delivery.
Handles ==
    \A s \in Sub :
      /\ holder[s] # None => subState[s] # "unused"
      /\ holder[s] # None =>
           (s \in pending <=> subState[s] \in Resolved /\ s \notin delivered)
      /\ s \in pending => holder[s] # None
      /\ s \in delivered => subState[s] \in Resolved

\* A host import starts when it is called, before its completion is queued.
Imports ==
    /\ \A h \in Import : subState[h] # "STARTING"
    /\ \A k \in DOMAIN runq : subState[runq[k]] # "unused"

\* Inside an async lower the callee has no table entry yet, and no other task
\* is lowering the same call.
Lowering ==
    /\ \A t \in Task : pc[t] = "lower" =>
         /\ subState[arg[t]] # "unused"
         /\ holder[arg[t]] = None /\ arg[t] \notin delivered
    /\ \A t, u \in Task :
         pc[t] = "lower" /\ pc[u] = "lower" /\ arg[t] = arg[u] => t = u

\* A task inside a subtask.cancel keeps its instance, so nobody delivers,
\* drops or joins the subtask behind its back.
Cancelling ==
    \A t \in Task : pc[t] \in {"cancelA", "cancelS", "await"} =>
      /\ Live(t)
      /\ arg[t] \in Sub /\ holder[arg[t]] = instOf[t] /\ arg[t] \notin delivered
      /\ pc[t] = "cancelS" => arg[t] \notin joined

SubInv ==
    /\ ExclInv /\ TaskPhase /\ Mirror /\ Handles /\ Imports /\ Lowering /\ Cancelling
    /\ CancelOnlyOnRequest /\ NoStolenEvent

-----------------------------------------------------------------------------
(* A task keeps its frames, and with them its instance, until its own step *)
(* or a failure takes them away.                                           *)

\* A step takes the frames of a task away only by ending what it was doing.
LEMMA LiveStays ==
    ExclInv /\ [Next]_vars =>
      \A u \in Task : Live(u) => Live(u)' \/ pc'[u] = "none"
<1> DEFINE Stays == \A u \in Task : Live(u) => Live(u)' \/ pc'[u] = "none"
<1> SUFFICES ASSUME ExclInv, [Next]_vars PROVE Stays
  OBVIOUS
<1>a. TaskType /\ SchedType /\ BatonType /\ Exclusion /\ Chain \subseteq Task
  BY ChainType DEF ExclInv, TypeInv, TypeOK
<1>c. ASSUME UNCHANGED <<park, parked, stack>> PROVE Stays
  BY <1>c, ChainSame, Zenon DEF Live
<1>d. ASSUME NEW STATE F, NEW STATE P, F \subseteq Task, Chain \subseteq F,
             Unwind(F, P) \/ Abort(F, P)
      PROVE  Stays
  BY <1>a, <1>d DEF Live, Abort, Unwind, Reapable
<1>e. ASSUME NEW t \in Task, Push(t), parked \subseteq parked' \cup {t},
             \A u \in Task : u # t => park'[u] = park[u]
      PROVE  Stays
  BY <1>a, <1>e, ChainPush DEF Live
<1>f. ASSUME NEW t \in Task, stack # <<>>, Top = t, Pop, parked \subseteq parked',
             pc'[t] = "none" \/ (t \in parked' /\ park'[t] = "block"),
             \A u \in Task : u # t => park'[u] = park[u]
      PROVE  Stays
  BY <1>a, <1>f, ChainPop, Zenon DEF Live, Exclusion
<1>g. ASSUME NEW t \in Task, NEW p, NEW b, Block(t, p, b), stack # <<>>, Top = t
      PROVE  Stays
  BY <1>a, <1>f, <1>g, Zenon DEF Block, ParkLast, TaskType
<1>h. ASSUME NEW t \in Task, Fresh(t), ParkEntry(t), UNCHANGED stack PROVE Stays
  BY <1>a, <1>h, ChainSame, Zenon DEF Live, ParkEntry, ParkLast, Fresh, TaskType
<1>i. ASSUME NEW t \in Task, NEW STATE pcs, FirstRun(t, pcs),
             UNCHANGED parked \/ Unpark({t})
      PROVE  Stays
  <2>1. \A u \in Task : u # t => park'[u] = park[u]
    BY <1>a, <1>i DEF FirstRun, TaskType
  <2> QED BY <1>e, <1>i, <2>1, Zenon DEF FirstRun, Unpark
<1>j. ASSUME Continue PROVE Stays
  BY <1>c, <1>j DEF Continue, schedVars, batonVars
<1>1. ASSUME NEW r \in Root, HostInvoke(r) PROVE Stays
  BY <1>1, <1>h, <1>i, Subs, Zenon DEF HostInvoke
<1>2. ASSUME NEW t \in Task, NEW c \in Callee, NEW how \in {"lower", "call", "invoke"},
             CallTask(t, c, how)
      PROVE  Stays
  <2>1. CASE Abort(Chain, Chain) \/ Abort(Chain \cup {c}, Chain)
    BY <1>a, <1>d, <2>1, Subs, SMTT(30)
  <2>2. CASE FirstRun(c, [pc EXCEPT ![t] = how]) /\ UNCHANGED schedVars
    BY <1>i, <2>2, Subs, ZenonT(40) DEF schedVars
  <2>3. CASE ParkEntry(c) /\ UNCHANGED batonVars
    BY <1>2, <1>h, <2>3, Subs, ZenonT(40) DEF CallTask, batonVars
  <2> QED BY <1>2, <2>1, <2>2, <2>3, Zenon DEF CallTask
<1>3. ASSUME NEW t \in Task,
             Exit(t) \/ \E kind \in {"wait", "yield"} : Suspend(t, kind)
      PROVE  Stays
  <2>1. /\ stack # <<>> /\ Top = t /\ Pop /\ pc' = [pc EXCEPT ![t] = "none"]
        /\ parked \subseteq parked'
        /\ UNCHANGED park \/ \E kind : park' = [park EXCEPT ![t] = kind]
    BY <1>3 DEF Exit, Suspend, Running, At, ParkLast, schedVars
  <2> QED BY <1>a, <1>f, <2>1, Zenon DEF TaskType
<1>4. ASSUME NEW t \in Task,
             (\E b \in BOOLEAN : WaitBuiltin(t, b)) \/ CallBlocks(t) \/ CancelReturn(t)
      PROVE  Stays
  <2>1. Continue \/ (\E p, b : Block(t, p, b) /\ stack # <<>> /\ Top = t)
    BY <1>4, Zenon DEF WaitBuiltin, CallBlocks, CancelReturn, Running, At
  <2> QED BY <1>g, <1>j, <2>1
<1>5. ASSUME NEW t \in Task, NEW c \in Callee, NEW b \in BOOLEAN, CancelEntry(t, c, b)
      PROVE  Stays
  <2>1. park[c] = "entry" /\ \A u \in Task : u # c => park'[u] = park[u]
    BY <1>5, <1>a, Subs, Zenon DEF CancelEntry, TaskType
  <2> QED BY <1>5, <1>a, <2>1, ChainSame, ZenonT(40) DEF CancelEntry, Live, Unpark, batonVars
<1>6. ASSUME NEW t \in Task, NEW c \in Callee, NEW b \in BOOLEAN, CancelDeliver(t, c, b)
      PROVE  Stays
  <2>1. \A u \in Task : u # c => park'[u] = park[u]
    BY <1>6, <1>a, Zenon DEF CancelDeliver, TaskType
  <2> QED BY <1>6, <1>e, <2>1, Subs, Zenon DEF CancelDeliver, Unpark
<1>7. ASSUME NEW t \in Task, NEW c \in Callee, NEW b \in BOOLEAN, CancelDead(t, c, b)
      PROVE  Stays
  BY <1>7, <1>a, <1>c, <1>d, ZenonT(40) DEF CancelDead, schedVars
<1>8. ASSUME NEW t \in Task, GuestStep(t) PROVE Stays
  <2>1. CASE \/ TaskReturn(t) \/ TaskCancel(t) \/ \E b \in BOOLEAN : Poll(t, b)
             \/ \E s \in Sub, b \in BOOLEAN : Join(t, s, b) \/ CancelResolved(t, s, b)
             \/ \E s \in Sub : SubtaskDrop(t, s)
             \/ \E c \in Callee, b \in BOOLEAN : CancelPending(t, c, b)
    BY <1>j, <2>1, ZenonT(40) DEF TaskReturn, TaskCancel, Poll, Join, CancelResolved, SubtaskDrop,
       CancelPending
  <2>2. CASE Fail(t) \/ \E delta \in {-1, 1} : Backpressure(t, delta)
    BY <1>a, <1>c, <1>d, <2>2, Zenon
       DEF Fail, Backpressure, taskVars, schedVars, batonVars
  <2>3. CASE \/ \E h \in Import : CallImport(t, h)
             \/ \E h \in Import, b \in BOOLEAN : CancelImport(t, h, b)
    BY <1>c, <2>3, Zenon DEF CallImport, CancelImport, taskVars, batonVars
  <2> QED BY <1>8, <1>2, <1>3, <1>4, <1>5, <1>6, <1>7, <2>1, <2>2, <2>3, ZenonT(40) DEF GuestStep
<1>9. ASSUME NEW t \in Task, BuiltinStep(t) PROVE Stays
  <2>1. CASE NestedDone(t) \/ InvokeStarted(t) \/ LowerReturn(t)
    BY <1>j, <2>1, Zenon DEF NestedDone, InvokeStarted, LowerReturn
  <2> QED BY <1>9, <1>4, <2>1, Zenon DEF BuiltinStep
<1>10. ASSUME NEW t \in Task, ResumeEntry(t) PROVE Stays
  BY <1>10, <1>a, <1>d, <1>i, ZenonT(40) DEF ResumeEntry
<1>11. ASSUME NEW t \in Task, ResumeWait(t) \/ ResumeYield(t) \/ ResumeBlocked(t)
       PROVE  Stays
  <2>1. \/ /\ Push(t) /\ Unpark({t})
           /\ UNCHANGED park \/ park' = [park EXCEPT ![t] = "none"]
        \/ Abort(Chain \cup {t}, Chain \cup {t})
    BY <1>11, Zenon DEF ResumeWait, ResumeYield, ResumeBlocked
  <2> QED BY <1>a, <1>d, <1>e, <2>1, SMTT(30) DEF Unpark, TaskType
<1>12. ASSUME RunThunk \/ NoProgress \/ DriveDone \/ HostRests \/ UNCHANGED vars
       PROVE  Stays
  <2>1. CASE stack = <<>> /\ Abort({}, {})
    BY <1>a, <1>d, <2>1, ChainSame, Zenon
  <2>2. CASE Abort(Chain, Chain)
    BY <1>a, <1>d, <2>2, Zenon
  <2>3. CASE UNCHANGED <<park, parked, stack>>
    BY <1>c, <2>3, Zenon
  <2> QED BY <1>12, <1>j, <2>1, <2>2, <2>3, Zenon
          DEF RunThunk, NoProgress, DriveDone, HostRests, vars, taskVars, schedVars,
              batonVars
<1> QED
  BY <1>1, <1>8, <1>9, <1>10, <1>11, <1>12, Zenon DEF Next, SchedStep

\* The running task is on the chain, has started and is not parked.
LEMMA RunningTask ==
    ASSUME BatonType, Exclusion, TaskPhase, NEW t \in Task, stack # <<>>, Top = t
    PROVE  t \in Chain /\ t \notin parked /\ state[t] # "INITIAL" /\ Live(t)
BY ChainSame, Zenon DEF Exclusion, NotParked, TaskPhase, Live

\* Every action keeps TaskPhase.
LEMMA PhaseStep == ExclInv /\ TaskPhase /\ [Next]_vars => TaskPhase'
<1> SUFFICES ASSUME ExclInv, TaskPhase, [Next]_vars PROVE TaskPhase'
  OBVIOUS
<1>a. /\ TaskType /\ SchedType /\ BatonType /\ Exclusion /\ Chain \subseteq Task
      /\ parked \subseteq Task
  BY ChainType DEF ExclInv, TypeInv, TypeOK, SchedType
<1>c. ASSUME UNCHANGED <<park, parked, stack>>,
             \A t \in Task : state'[t] = "INITIAL" <=> state[t] = "INITIAL"
      PROVE  TaskPhase'
  BY <1>a, <1>c, ChainSame, Zenon DEF TaskPhase
<1>d. ASSUME NEW STATE F, NEW STATE P, F \subseteq Task, Chain \subseteq F,
             Unwind(F, P) \/ Abort(F, P)
      PROVE  TaskPhase'
  <2>1. parked' \subseteq parked /\ Chain' = {} /\ UNCHANGED state
    BY <1>d, ChainSame, ZenonT(40) DEF Abort, Unwind, Unpark
  <2>2. \A t \in parked' : park'[t] = park[t]
    BY <1>a, <1>d, Zenon DEF Abort, Unwind, Unpark
  <2> QED BY <2>1, <2>2, ZenonT(40) DEF TaskPhase
<1>e. ASSUME NEW t \in Task, Push(t), parked' = parked \ {t}, state'[t] # "INITIAL",
             \A u \in Task : u # t => park'[u] = park[u] /\ state'[u] = state[u]
      PROVE  TaskPhase'
  BY <1>a, <1>e, ChainPush, Zenon DEF TaskPhase
<1>f. ASSUME NEW t \in Task, stack # <<>>, Top = t, Pop, parked' \subseteq parked \cup {t},
             t \in parked' => park'[t] # "entry" /\ state'[t] # "INITIAL",
             \A u \in Task : u # t => park'[u] = park[u] /\ state'[u] = state[u]
      PROVE  TaskPhase'
  BY <1>a, <1>f, ChainPop, Zenon DEF TaskPhase, Exclusion
<1>g. ASSUME NEW t \in Task, NEW p, NEW b, Block(t, p, b), stack # <<>>, Top = t
      PROVE  TaskPhase'
  BY <1>a, <1>f, <1>g, RunningTask, ZenonT(40) DEF Block, ParkLast, TaskType
<1>h. ASSUME NEW t \in Task, Fresh(t), instOf[t] \in mayEnter, ParkEntry(t),
             UNCHANGED stack
      PROVE  TaskPhase'
  BY <1>a, <1>h, ChainSame, ZenonT(40) DEF TaskPhase, ParkEntry, ParkLast, Fresh, TaskType
<1>i. ASSUME NEW t \in Task, NEW STATE pcs, FirstRun(t, pcs),
             (UNCHANGED parked /\ t \notin parked) \/ Unpark({t})
      PROVE  TaskPhase'
  <2>1. /\ \A u \in Task : u # t => park'[u] = park[u] /\ state'[u] = state[u]
        /\ state'[t] # "INITIAL"
    BY <1>a, <1>i DEF FirstRun, TaskType
  <2> QED BY <1>e, <1>i, <2>1, ZenonT(40) DEF FirstRun, Unpark
<1>j. ASSUME NEW t \in Task, stack # <<>>, Top = t, Continue,
             UNCHANGED state \/ \E x \in TaskState \ {"INITIAL"} :
                                  state' = [state EXCEPT ![t] = x]
      PROVE  TaskPhase'
  BY <1>a, <1>c, <1>j, RunningTask, Zenon DEF Continue, schedVars, batonVars, TaskType
<1>1. ASSUME NEW r \in Root, HostInvoke(r) PROVE TaskPhase'
  BY <1>1, <1>h, <1>i, Subs, Zenon DEF HostInvoke, Fresh, Enterable
<1>2. ASSUME NEW t \in Task, NEW c \in Callee, NEW how \in {"lower", "call", "invoke"},
             CallTask(t, c, how)
      PROVE  TaskPhase'
  <2>1. CASE Abort(Chain, Chain) \/ Abort(Chain \cup {c}, Chain)
    BY <1>a, <1>d, <2>1, Subs, SMTT(30)
  <2>2. CASE FirstRun(c, [pc EXCEPT ![t] = how]) /\ UNCHANGED schedVars
    BY <1>2, <1>i, <2>2, Subs, ZenonT(40) DEF CallTask, Fresh, schedVars
  <2>3. CASE Enterable(instOf[c]) /\ ParkEntry(c) /\ UNCHANGED batonVars
    BY <1>2, <1>h, <2>3, Subs, ZenonT(40) DEF CallTask, Enterable, batonVars
  <2> QED BY <1>2, <2>1, <2>2, <2>3, ZenonT(40) DEF CallTask
<1>3. ASSUME NEW t \in Task, Exit(t) PROVE TaskPhase'
  <2>1. stack # <<>> /\ Top = t /\ Pop /\ UNCHANGED <<park, parked>>
        /\ state' = [state EXCEPT ![t] = "RESOLVED"]
    BY <1>3, ZenonT(40) DEF Exit, Running, At, schedVars
  <2> QED BY <1>a, <1>f, <2>1, RunningTask, ZenonT(40) DEF TaskType
<1>4. ASSUME NEW t \in Task, NEW kind \in {"wait", "yield"}, Suspend(t, kind)
      PROVE  TaskPhase'
  BY <1>4, <1>a, <1>f, RunningTask, Zenon DEF Suspend, Running, At, ParkLast, TaskType
<1>5. ASSUME NEW t \in Task,
             (\E b \in BOOLEAN : WaitBuiltin(t, b)) \/ CallBlocks(t) \/ CancelReturn(t)
      PROVE  TaskPhase'
  <2>1. /\ stack # <<>> /\ Top = t
        /\ \/ \E p, b : Block(t, p, b)
           \/ Continue /\ (UNCHANGED state \/
                           state' = [state EXCEPT ![t] = "CANCEL_DELIVERED"])
    BY <1>5, ZenonT(40) DEF WaitBuiltin, CallBlocks, CancelReturn, Running, At
  <2> QED BY <1>g, <1>j, <2>1, Zenon DEF TaskState
<1>6. ASSUME NEW t \in Task, NEW c \in Callee, NEW b \in BOOLEAN, CancelPending(t, c, b)
      PROVE  TaskPhase'
  BY <1>6, <1>a, <1>c, Subs, ZenonT(40) DEF CancelPending, Continue, schedVars, batonVars, TaskType
<1>7. ASSUME NEW t \in Task, NEW c \in Callee, NEW b \in BOOLEAN, CancelEntry(t, c, b)
      PROVE  TaskPhase'
  <2>1. \A u \in Task : u # c => park'[u] = park[u] /\ state'[u] = state[u]
    BY <1>7, <1>a, Subs, ZenonT(40) DEF CancelEntry, TaskType
  <2>2. state'[c] = "RESOLVED" /\ Chain' = Chain
    BY <1>7, <1>a, Subs, ChainSame, ZenonT(40) DEF CancelEntry, TaskType, batonVars
  <2> QED BY <1>7, <1>a, <2>1, <2>2, ZenonT(40) DEF CancelEntry, TaskPhase, Unpark
<1>8. ASSUME NEW t \in Task, NEW c \in Callee, NEW b \in BOOLEAN, CancelDeliver(t, c, b)
      PROVE  TaskPhase'
  <2>1. /\ \A u \in Task : u # c => park'[u] = park[u] /\ state'[u] = state[u]
        /\ state'[c] # "INITIAL"
    BY <1>8, <1>a, Subs, ZenonT(40) DEF CancelDeliver, TaskType
  <2> QED BY <1>8, <1>e, <2>1, Subs, ZenonT(40) DEF CancelDeliver, Unpark
<1>9. ASSUME NEW t \in Task, NEW c \in Callee, NEW b \in BOOLEAN, CancelDead(t, c, b)
      PROVE  TaskPhase'
  <2>1. CASE Abort(Chain, Chain)
    BY <1>a, <1>d, <2>1, ZenonT(40)
  <2>2. CASE ~Abort(Chain, Chain)
    BY <1>9, <1>a, <1>c, <2>2, Subs, ZenonT(40) DEF CancelDead, schedVars, TaskType
  <2> QED BY <2>1, <2>2
<1>10. ASSUME NEW t \in Task, GuestStep(t) PROVE TaskPhase'
  <2>1. CASE \/ TaskReturn(t) \/ TaskCancel(t) \/ \E b \in BOOLEAN : Poll(t, b)
             \/ \E s \in Sub, b \in BOOLEAN : Join(t, s, b) \/ CancelResolved(t, s, b)
             \/ \E s \in Sub : SubtaskDrop(t, s)
    BY <1>j, <2>1, Zenon DEF TaskReturn, TaskCancel, Poll, Join, CancelResolved, SubtaskDrop,
       MayCancel, Running, At, TaskState
  <2>2. CASE Fail(t) \/ \E delta \in {-1, 1} : Backpressure(t, delta)
    BY <1>a, <1>c, <1>d, <2>2, Zenon
       DEF Fail, Backpressure, taskVars, schedVars, batonVars
  <2>3. CASE \/ \E h \in Import : CallImport(t, h)
             \/ \E h \in Import, b \in BOOLEAN : CancelImport(t, h, b)
    BY <1>c, <2>3, Zenon DEF CallImport, CancelImport, taskVars, batonVars
  <2> QED BY <1>10, <1>2, <1>3, <1>4, <1>5, <1>6, <1>7, <1>8, <1>9, <2>1, <2>2, <2>3, ZenonT(40)
          DEF GuestStep
<1>11. ASSUME NEW t \in Task, BuiltinStep(t) PROVE TaskPhase'
  <2>1. CASE NestedDone(t) \/ InvokeStarted(t) \/ LowerReturn(t)
    BY <1>j, <2>1 DEF NestedDone, CompleteOp, InvokeStarted, LowerReturn, At, TaskState
  <2> QED BY <1>11, <1>5, <2>1, ZenonT(40) DEF BuiltinStep
<1>12. ASSUME NEW t \in Task, ResumeEntry(t) PROVE TaskPhase'
  BY <1>12, <1>a, <1>d, <1>i, ZenonT(40) DEF ResumeEntry
<1>13. ASSUME NEW t \in Task, ResumeWait(t) \/ ResumeYield(t) \/ ResumeBlocked(t)
       PROVE  TaskPhase'
  <2>1. t \in parked /\ state[t] # "INITIAL"
    BY <1>13 DEF ResumeWait, ResumeYield, ResumeBlocked, Stepping, FirstReady, TaskPhase
  <2>2. CASE Abort(Chain \cup {t}, Chain \cup {t})
    BY <1>a, <1>d, <2>2, ZenonT(40)
  <2>3. CASE /\ Push(t) /\ Unpark({t})
             /\ UNCHANGED park \/ park' = [park EXCEPT ![t] = "none"]
             /\ \/ UNCHANGED state
                \/ state' = [state EXCEPT ![t] = "CANCEL_DELIVERED"]
    BY <1>a, <1>e, <2>1, <2>3, Zenon DEF Unpark, TaskType
  <2>4. CASE ResumeYield(t)
    BY <1>a, <1>e, <2>1, <2>4, Zenon DEF ResumeYield, Unpark, TaskType
  <2> QED BY <1>13, <2>2, <2>3, <2>4, ZenonT(40) DEF ResumeWait, ResumeBlocked, CompleteOp
<1>14. ASSUME RunThunk \/ NoProgress \/ DriveDone \/ HostRests \/ UNCHANGED vars
       PROVE  TaskPhase'
  <2>1. CASE stack = <<>> /\ Abort({}, {})
    BY <1>a, <1>d, <2>1, ChainSame, Zenon
  <2>2. CASE Abort(Chain, Chain)
    BY <1>a, <1>d, <2>2, Zenon
  <2>3. CASE UNCHANGED <<state, park, parked, stack>>
    BY <1>c, <2>3, Zenon
  <2> QED BY <1>14, <2>1, <2>2, <2>3, Zenon
          DEF RunThunk, NoProgress, DriveDone, HostRests, Continue, vars, taskVars,
              schedVars, batonVars
<1> QED
  BY <1>1, <1>10, <1>11, <1>12, <1>13, <1>14, Zenon DEF Next, SchedStep

-----------------------------------------------------------------------------
(* What keeps each part of the invariant.                                  *)

InCancel == {"cancelA", "cancelS", "await"}

\* The subtasks are left alone.
LEMMA SubsKept ==
    ASSUME UNCHANGED <<subState, pending, delivered, requested, holder, joined, runq>>,
           syncWaiter' \subseteq syncWaiter
    PROVE  /\ Handles => Handles'
           /\ Imports => Imports'
           /\ NoStolenEvent => NoStolenEvent'
BY Zenon DEF Handles, Imports, NoStolenEvent

\* No task enters an async lower, and no lowered call changes hands.
LEMMA LoweringKept ==
    ASSUME Lowering,
           \A t \in Task : pc'[t] = "lower" =>
             /\ pc[t] = "lower" /\ arg'[t] = arg[t]
             /\ subState'[arg[t]] # "unused" /\ holder'[arg[t]] = None
             /\ arg[t] \notin delivered'
    PROVE  Lowering'
BY ZenonT(40) DEF Lowering

\* No task enters a subtask.cancel, and no subtask being cancelled changes.
LEMMA CancellingKept ==
    ASSUME Cancelling, \A t \in Task : Live(t) => Live(t)' \/ pc'[t] = "none",
           \A t \in Task : pc'[t] \in InCancel =>
             /\ pc'[t] = pc[t] /\ arg'[t] = arg[t]
             /\ holder'[arg[t]] = holder[arg[t]] /\ arg[t] \notin delivered'
             /\ arg[t] \notin joined => arg[t] \notin joined'
    PROVE  Cancelling'
BY Zenon DEF Cancelling, InCancel

\* A task that holds or may take its instance is the only one that can be
\* cancelling a subtask of that instance.
LEMMA Undisturbed ==
    ASSUME Exclusion, Cancelling, NEW u \in Task, Live(u) \/ ~HeldByOther(u),
           NEW s \in Sub, holder[s] = instOf[u]
    PROVE  \A t \in Task : t # u /\ pc[t] \in InCancel => arg[t] # s
BY Subs, SMTT(30) DEF Exclusion, ExclusiveIffLive, HeldByOther, Cancelling, InCancel

\* A delivery of a resolution nobody has been told of.
LEMMA DeliverKeeps ==
    ASSUME SubType, Handles, NEW s \in Sub,
           s \in pending \/ (subState[s] \in Resolved /\ holder[s] # None),
           Deliver(s)
    PROVE  Handles'
BY Zenon DEF SubType, Handles, Deliver

\* A resolution of a call under way.
LEMMA ResolveKeeps ==
    ASSUME SubType, Handles, Imports, SchedType, NEW s \in Sub, NEW st \in Resolved,
           subState[s] = "STARTED", Resolve(s, st)
    PROVE  /\ Handles'
           /\ \A h \in Import : subState'[h] # "STARTING"
           /\ \A h \in Sub : subState[h] # "unused" => subState'[h] # "unused"
           /\ subState' = [subState EXCEPT ![s] = st]
<1>1. subState' = [subState EXCEPT ![s] = st]
  BY Zenon DEF Resolve
<1>2. Handles'
  BY <1>1, Zenon DEF SubType, Handles, Resolve, Resolved
<1>3. \A h \in Sub : h # s => subState'[h] = subState[h]
  BY <1>1, Zenon DEF SubType
<1>4. subState'[s] = st /\ st # "STARTING" /\ st # "unused"
  BY <1>1 DEF SubType, Resolved
<1> QED BY <1>1, <1>2, <1>3, <1>4, Subs, Zenon DEF Imports

-----------------------------------------------------------------------------
(* What a step may do to the subtasks.                                     *)

Quiet ==
    /\ UNCHANGED <<subState, pending, delivered, requested, holder, joined>>
    /\ syncWaiter' \subseteq syncWaiter
    /\ UNCHANGED runq \/ (runq # <<>> /\ runq' = Tail(runq))

Starts(c) ==
    /\ \/ subState[c] = "unused" /\ \E st \in {"STARTING", "STARTED"} :
                                      subState' = [subState EXCEPT ![c] = st]
       \/ subState[c] = "STARTING" /\ subState' = [subState EXCEPT ![c] = "STARTED"]
    /\ UNCHANGED <<pending, delivered, requested, syncWaiter, holder, joined, runq>>

Resolves(s) ==
    /\ subState[s] = "STARTED"
    /\ \/ Resolve(s, "RETURNED")
       \/ s \in requested /\ Resolve(s, "CANCELLED_BEFORE_RETURNED")
    /\ UNCHANGED runq \/ (runq # <<>> /\ runq' = Tail(runq))

\* The subtask's table is that of a task u that has its instance to itself.
Owns(u, s) ==
    /\ Live(u) \/ ~HeldByOther(u)
    /\ holder[s] = instOf[u] /\ pc'[u] \notin InCancel

Delivers(u, s) ==
    /\ Owns(u, s) /\ Deliver(s) /\ holder[s] # None
    /\ subState[s] \in Resolved /\ s \notin delivered
    /\ syncWaiter' \subseteq syncWaiter /\ UNCHANGED runq

Lowered(t) ==
    /\ pc[t] = "lower" /\ pc'[t] = "guest" /\ arg[t] \in Sub
    /\ holder[arg[t]] = None /\ arg[t] \notin delivered /\ subState[arg[t]] # "unused"
    /\ IF subState[arg[t]] \in Resolved
       THEN delivered' = delivered \cup {arg[t]} /\ UNCHANGED holder
       ELSE holder' = [holder EXCEPT ![arg[t]] = instOf[t]] /\ UNCHANGED delivered
    /\ UNCHANGED <<subState, pending, requested, syncWaiter, joined, runq>>

Imported(h, i) ==
    /\ subState[h] = "unused"
    /\ \/ /\ subState' = [subState EXCEPT ![h] = "RETURNED"]
          /\ delivered' = delivered \cup {h}
          /\ UNCHANGED <<holder, runq>>
       \/ /\ subState' = [subState EXCEPT ![h] = "STARTED"]
          /\ holder' = [holder EXCEPT ![h] = i]
          /\ runq' = runq \/ runq' = Append(runq, h)
          /\ UNCHANGED delivered
    /\ UNCHANGED <<pending, requested, syncWaiter, joined>>

Requests(s) ==
    /\ holder[s] # None /\ s \notin delivered /\ s \notin requested
    /\ requested' = requested \cup {s}
    /\ \/ /\ subState[s] \in {"STARTING", "STARTED"} /\ UNCHANGED <<subState, pending>>
       \/ /\ subState[s] = "STARTING" /\ pending' = pending \cup {s}
          /\ subState' = [subState EXCEPT ![s] = "CANCELLED_BEFORE_STARTED"]
       \/ /\ subState[s] = "STARTED" /\ pending' = pending \cup {s}
          /\ \E st \in {"RETURNED", "CANCELLED_BEFORE_RETURNED"} :
               subState' = [subState EXCEPT ![s] = st]
    /\ UNCHANGED runq \/ (s \in Import /\ runq' = Append(runq, s))
    /\ UNCHANGED <<delivered, syncWaiter, holder, joined>>

Joins(u, s) ==
    /\ Owns(u, s) /\ s \notin syncWaiter /\ joined' \subseteq joined \cup {s}
    /\ UNCHANGED <<subState, pending, delivered, requested, syncWaiter, holder, runq>>

Drops(u, s) ==
    /\ Owns(u, s) /\ s \in delivered
    /\ holder' = [holder EXCEPT ![s] = None]
    /\ joined' = joined \ {s}
    /\ UNCHANGED <<subState, pending, delivered, requested, syncWaiter, runq>>

Awaits(s) ==
    /\ s \notin joined /\ syncWaiter' = syncWaiter \cup {s}
    /\ UNCHANGED <<subState, pending, delivered, requested, holder, joined, runq>>

SubEffect ==
    \/ Quiet
    \/ \E c \in Callee : Starts(c)
    \/ \E h \in Import, i \in Instance : Imported(h, i)
    \/ \E s \in Sub : Resolves(s) \/ Requests(s) \/ Awaits(s)
    \/ \E u \in Task, s \in Sub : Delivers(u, s) \/ Joins(u, s) \/ Drops(u, s)
    \/ \E t \in Task : Lowered(t)

SubRules == Handles /\ Imports /\ NoStolenEvent
            /\ \A s \in Sub : subState[s] \in Resolved \ {"RETURNED"} => s \in requested

\* Each of these effects keeps what is invariant about the subtasks alone.
LEMMA EffectKeeps ==
    ASSUME SubType, SchedType, SubRules, SubEffect
    PROVE  SubRules'
<1>1. CASE Quiet
  <2>1. \A k \in DOMAIN runq' : \E j \in DOMAIN runq : runq'[k] = runq[j]
    BY <1>1 DEF Quiet, SchedType
  <2> QED BY <1>1, <2>1, Zenon DEF Quiet, SubRules, Handles, Imports, NoStolenEvent
<1>2. ASSUME NEW c \in Callee, Starts(c) PROVE SubRules'
  <2>1. /\ subState'[c] \in {"STARTING", "STARTED"}
        /\ \A s \in Sub : s # c => subState'[s] = subState[s]
    BY <1>2, Subs, ZenonT(40) DEF Starts, SubType
  <2>2. Handles'
    BY <1>2, <2>1, Subs, ZenonT(40) DEF Starts, SubRules, Handles, Resolved
  <2>3. Imports'
    BY <1>2, <2>1, Subs, SMTT(30) DEF Starts, SubRules, Imports, SchedType
  <2> QED BY <1>2, <2>1, <2>2, <2>3, ZenonT(40) DEF Starts, SubRules, NoStolenEvent, Resolved
<1>3. ASSUME NEW h \in Import, NEW i \in Instance, Imported(h, i) PROVE SubRules'
  <2>1. /\ subState'[h] \in {"RETURNED", "STARTED"}
        /\ \A s \in Sub : s # h => subState'[s] = subState[s]
    BY <1>3, Subs, ZenonT(40) DEF Imported, SubType
  <2>2. holder[h] = None /\ h \notin pending /\ h \notin delivered
    BY <1>3, Subs DEF Imported, SubRules, Handles, Resolved
  <2>3. Handles'
    <3>1. CASE /\ subState' = [subState EXCEPT ![h] = "RETURNED"]
               /\ delivered' = delivered \cup {h} /\ UNCHANGED <<holder, pending>>
      BY <2>1, <2>2, <3>1, Subs, ZenonT(40) DEF SubRules, Handles, Resolved, SubType
    <3>2. CASE /\ subState' = [subState EXCEPT ![h] = "STARTED"]
               /\ holder' = [holder EXCEPT ![h] = i] /\ UNCHANGED <<delivered, pending>>
      BY <2>1, <2>2, <3>2, Subs, ZenonT(40) DEF SubRules, Handles, Resolved, SubType
    <3> QED BY <1>3, <3>1, <3>2, ZenonT(40) DEF Imported
  <2>4. Imports'
    <3>1. \A k \in DOMAIN runq' : runq'[k] = h \/ \E j \in DOMAIN runq : runq'[k] = runq[j]
      BY <1>3 DEF Imported, SchedType
    <3> QED BY <2>1, <3>1, Subs, SMTT(30) DEF SubRules, Imports, SchedType
  <2> QED BY <1>3, <2>1, <2>3, <2>4, ZenonT(40) DEF Imported, SubRules, NoStolenEvent, Resolved
<1>4. ASSUME NEW s \in Sub, Resolves(s) PROVE SubRules'
  <2>1. PICK st \in {"RETURNED", "CANCELLED_BEFORE_RETURNED"} :
          Resolve(s, st) /\ (st = "RETURNED" \/ s \in requested)
    BY <1>4, ZenonT(40) DEF Resolves
  <2>2. /\ Handles'
        /\ \A h \in Import : subState'[h] # "STARTING"
        /\ \A h \in Sub : subState[h] # "unused" => subState'[h] # "unused"
        /\ subState' = [subState EXCEPT ![s] = st]
    BY <1>4, <2>1, ResolveKeeps DEF Resolves, SubRules, Resolved
  <2>3. \A k \in DOMAIN runq' : \E j \in DOMAIN runq : runq'[k] = runq[j]
    BY <1>4 DEF Resolves, SchedType
  <2>4. Imports'
    BY <2>2, <2>3, Subs, SMTT(30) DEF SubRules, Imports, SchedType
  <2> QED BY <2>1, <2>2, <2>4 DEF SubRules, Resolve, NoStolenEvent, SubType
<1>5. ASSUME NEW u \in Task, NEW s \in Sub, Delivers(u, s) PROVE SubRules'
  BY <1>5, DeliverKeeps, Zenon DEF Delivers, Deliver, SubRules, Imports, NoStolenEvent
<1>6. ASSUME NEW s \in Sub, Requests(s) PROVE SubRules'
  <2>1. \A u \in Sub : u # s => subState'[u] = subState[u] /\ (u \in pending' <=> u \in pending)
    BY <1>6, ZenonT(40) DEF Requests, SubType
  <2>2. /\ subState'[s] \in SubState \ {"unused"}
        /\ subState'[s] = "STARTING" => subState[s] = "STARTING"
        /\ s \in pending' <=> subState'[s] \in Resolved
    BY <1>6, Zenon DEF Requests, SubType, SubRules, Handles, Resolved, SubState
  <2>3. Handles'
    BY <1>6, <2>1, <2>2, Zenon DEF Requests, SubRules, Handles
  <2>4. \A k \in DOMAIN runq' :
          (runq'[k] = s /\ s \in Import) \/ \E j \in DOMAIN runq : runq'[k] = runq[j]
    BY <1>6, SMTT(30) DEF Requests, SchedType
  <2>5. Imports'
    BY <2>1, <2>2, <2>4, Subs, SMTT(30) DEF SubRules, Imports, SchedType
  <2> QED BY <1>6, <2>1, <2>2, <2>3, <2>5, ZenonT(40) DEF Requests, SubRules, NoStolenEvent
<1>7. ASSUME NEW u, NEW s \in Sub, Joins(u, s) \/ Awaits(s) PROVE SubRules'
  BY <1>7, Zenon DEF Joins, Awaits, SubRules, Handles, Imports, NoStolenEvent
<1>8. ASSUME NEW u \in Task, NEW s \in Sub, Drops(u, s) PROVE SubRules'
  BY <1>8, ZenonT(40) DEF Drops, SubRules, Handles, Imports, NoStolenEvent, SubType
<1>9. ASSUME NEW t \in Task, Lowered(t) PROVE SubRules'
  BY <1>9, Subs, ZenonT(40) DEF Lowered, SubRules, Handles, Imports, NoStolenEvent, SubType
<1> QED
  BY <1>1, <1>2, <1>3, <1>4, <1>5, <1>6, <1>7, <1>8, <1>9, ZenonT(40) DEF SubEffect

\* Every step has one of these effects on the subtasks.
LEMMA StepEffect == SubInv /\ [Next]_vars => SubEffect
<1> SUFFICES ASSUME SubInv, [Next]_vars PROVE SubEffect
  OBVIOUS
<1>a. /\ TypeInv /\ TaskType /\ SubType /\ SchedType /\ BatonType /\ ArgTyped
      /\ Exclusion /\ TaskPhase
      /\ Mirror /\ Handles /\ Imports /\ Lowering /\ Cancelling
      /\ CancelOnlyOnRequest /\ Chain \subseteq Task
  BY ChainType, Zenon DEF SubInv, ExclInv, TypeInv, TypeOK
<1>b. ASSUME UNCHANGED <<subVars, runq>> PROVE SubEffect
  BY <1>b, Zenon DEF SubEffect, Quiet, subVars
<1>c. ASSUME NEW STATE F, NEW STATE P, Unwind(F, P) \/ Abort(F, P) PROVE SubEffect
  BY <1>c, Zenon DEF SubEffect, Quiet, Abort, Unwind
<1>d. \A i \in Instance : i # None
  BY Subs, Zenon
<1>e. ASSUME NEW t \in Task, NEW s \in Sub, EventAt(instOf[t], s), Deliver(s),
             Live(t) \/ ~HeldByOther(t), pc'[t] \notin InCancel,
             syncWaiter' \subseteq syncWaiter, UNCHANGED runq
      PROVE  SubEffect
  BY <1>a, <1>d, <1>e, Subs, Zenon DEF SubEffect, Delivers, Owns, EventAt, Handles
<1>1. ASSUME NEW r \in Root, HostInvoke(r) PROVE SubEffect
  <2>1. r \notin Sub
    BY ConstantsAssumption DEF Sub, Callee
  <2> QED BY <1>1, <1>b, <2>1, Zenon DEF HostInvoke, FirstRun, ParkEntry, subVars
<1>2. ASSUME NEW t \in Task, NEW c \in Callee, NEW how \in {"lower", "call", "invoke"},
             CallTask(t, c, how)
      PROVE  SubEffect
  <2>1. CASE Abort(Chain, Chain) \/ Abort(Chain \cup {c}, Chain)
    BY <1>c, <2>1, Zenon
  <2>2. CASE ~(Abort(Chain, Chain) \/ Abort(Chain \cup {c}, Chain))
    <3>1. subState[c] = "unused" /\ c \in Sub
      BY <1>2, <1>a, Subs, Zenon DEF CallTask, Mirror
    <3>2. Starts(c)
      BY <1>2, <2>2, <3>1, Zenon DEF CallTask, FirstRun, ParkEntry, Starts, schedVars
    <3> QED BY <3>2 DEF SubEffect
  <2> QED BY <2>1, <2>2, Zenon
<1>f. ASSUME NEW t \in Task, stack # <<>>, Top = t, state[t] # "RESOLVED",
             \/ Resolve(t, "RETURNED")
             \/ state[t] = "CANCEL_DELIVERED" /\ Resolve(t, "CANCELLED_BEFORE_RETURNED"),
             UNCHANGED runq
      PROVE  SubEffect
  <2>1. CASE t \notin Sub
    BY <1>b, <1>f, <2>1, Zenon DEF Resolve, subVars
  <2>2. CASE t \in Sub
    <3>1. t \in Callee
      BY <2>2, Subs, Zenon
    <3>2. subState[t] = "STARTED"
      BY <1>a, <1>f, <3>1, RunningTask, Zenon DEF Mirror, TaskType, TaskState
    <3> QED BY <1>a, <1>f, <2>2, <3>2, Zenon DEF SubEffect, Resolves, CancelOnlyOnRequest
  <2> QED BY <2>1, <2>2, Zenon
<1>3. ASSUME NEW t \in Task, Exit(t) PROVE SubEffect
  BY <1>3, <1>b, <1>f, ZenonT(40) DEF Exit, Running, At, schedVars
<1>4. ASSUME NEW t \in Task,
             \/ \E kind \in {"wait", "yield"} : Suspend(t, kind)
             \/ \E b \in BOOLEAN : WaitBuiltin(t, b)
             \/ InvokeStarted(t) \/ CallBlocks(t) \/ ResumeYield(t)
      PROVE  SubEffect
  BY <1>4, <1>b, Zenon DEF Suspend, WaitBuiltin, InvokeStarted, CallBlocks, ResumeYield,
     Block, Continue, schedVars
<1>5. ASSUME NEW t \in Task, TaskReturn(t) \/ TaskCancel(t) PROVE SubEffect
  BY <1>5, <1>f, ZenonT(40) DEF TaskReturn, TaskCancel, Running, At, Continue, schedVars
<1>6. ASSUME NEW t \in Task, NEW b \in BOOLEAN, Poll(t, b) PROVE SubEffect
  <2>1. Live(t) /\ pc'[t] \notin InCancel
    BY <1>6, <1>a, RunningTask, ZenonT(40) DEF Poll, Running, At, InCancel
  <2> QED BY <1>6, <1>b, <1>e, <2>1, ZenonT(40) DEF Poll, Continue, schedVars
<1>7. ASSUME NEW t \in Task, NEW s \in Sub, NEW b \in BOOLEAN, Join(t, s, b)
      PROVE  SubEffect
  <2>1. Owns(t, s)
    BY <1>7, <1>a, RunningTask, Zenon DEF Join, Running, At, Owns, InCancel
  <2> QED BY <1>7, <2>1, Zenon DEF Join, SubEffect, Joins, Continue, schedVars
<1>8. ASSUME NEW t \in Task, NEW s \in Sub, SubtaskDrop(t, s) PROVE SubEffect
  <2>1. Owns(t, s)
    BY <1>8, <1>a, RunningTask, Zenon DEF SubtaskDrop, Running, At, Owns, InCancel
  <2> QED BY <1>8, <2>1, Zenon DEF SubtaskDrop, SubEffect, Drops, Continue, schedVars
<1>9. ASSUME NEW t \in Task, NEW delta \in {-1, 1}, Backpressure(t, delta)
      PROVE  SubEffect
  BY <1>9, <1>b, <1>c, Zenon DEF Backpressure, schedVars
<1>10. ASSUME NEW t \in Task, NEW h \in Import, CallImport(t, h) PROVE SubEffect
  BY <1>10, Subs, Zenon DEF CallImport, SubEffect, Imported
<1>11. ASSUME NEW t \in Task, NEW s \in Sub, NEW b \in BOOLEAN, CancelResolved(t, s, b)
       PROVE  SubEffect
  <2>1. Owns(t, s)
    BY <1>11, <1>a, RunningTask, ZenonT(40)
       DEF CancelResolved, MayCancel, Running, At, Owns, InCancel
  <2> QED BY <1>11, <1>d, <2>1, Subs, Zenon
          DEF CancelResolved, MayCancel, SubEffect, Delivers, Continue, schedVars
<1>g. ASSUME NEW t \in Task, NEW s \in Sub, NEW b \in BOOLEAN, MayCancel(t, s, b),
             subState[s] \notin Resolved
      PROVE  /\ holder[s] # None /\ s \notin delivered /\ s \notin requested
             /\ subState[s] \in {"STARTING", "STARTED"}
  BY <1>a, <1>d, <1>g, Subs, ZenonT(40) DEF MayCancel, Handles, SubType, SubState, Resolved
<1>12. ASSUME NEW t \in Task, NEW h \in Import, NEW b \in BOOLEAN, CancelImport(t, h, b)
       PROVE  SubEffect
  <2>1. /\ h \in Sub /\ subState[h] = "STARTED"
        /\ holder[h] # None /\ h \notin delivered /\ h \notin requested
    BY <1>12, <1>a, <1>g, Subs, ZenonT(40) DEF CancelImport, Imports
  <2>2. Requests(h)
    BY <1>12, <2>1, Zenon DEF CancelImport, Requested, Requests
  <2> QED BY <2>1, <2>2, ZenonT(40) DEF SubEffect
<1>13. ASSUME NEW t \in Task, NEW c \in Callee, NEW b \in BOOLEAN,
              \/ CancelPending(t, c, b) \/ CancelEntry(t, c, b)
              \/ CancelDeliver(t, c, b) \/ CancelDead(t, c, b)
       PROVE  SubEffect
  <2>1. CASE Abort(Chain, Chain)
    BY <1>c, <2>1, Zenon
  <2>2. CASE ~Abort(Chain, Chain)
    <3>1. /\ MayCancel(t, c, b) /\ state[c] \in {"INITIAL", "STARTED"} /\ c \in Sub
          /\ ~CancelEntry(t, c, b) => state[c] = "STARTED"
      BY <1>13, <2>2, Subs, Zenon
         DEF CancelPending, CancelEntry, CancelDeliver, CancelDead, ResumeInPlace
    <3>2. subState[c] \notin Resolved
      BY <1>a, <3>1, Zenon DEF Mirror
    <3>3. /\ holder[c] # None /\ c \notin delivered /\ c \notin requested
          /\ subState[c] \in {"STARTING", "STARTED"}
      BY <1>g, <3>1, <3>2, Zenon
    <3>4. Requests(c)
      BY <1>13, <2>2, <3>3, Zenon
         DEF CancelPending, CancelEntry, CancelDeliver, CancelDead, Requested, Requests,
             CancelledState, Continue, schedVars
    <3> QED BY <3>1, <3>4, Zenon DEF SubEffect
  <2> QED BY <2>1, <2>2, Zenon
<1>h. ASSUME NEW t \in Task, CompleteOp(t), pc[t] = "await" => arg[t] \in pending,
             Live(t), UNCHANGED runq
      PROVE  SubEffect
  <2>a. pc'[t] \notin InCancel
    BY <1>a, <1>h, Zenon DEF CompleteOp, InCancel, TaskType
  <2>1. CASE UNCHANGED subVars
    BY <1>b, <1>h, <2>1, Zenon
  <2>2. CASE \E s \in Sub : EventAt(instOf[t], s) /\ Deliver(s) /\ UNCHANGED syncWaiter
    BY <1>e, <1>h, <2>2, <2>a, Zenon
  <2>3. CASE pc[t] = "await"
    <3>1. Owns(t, arg[t]) /\ arg[t] \in Sub
      BY <1>a, <1>h, <2>3, <2>a, ZenonT(40) DEF Owns, Cancelling
    <3> QED BY <1>a, <1>h, <2>3, <3>1, ZenonT(40) DEF CompleteOp, SubEffect, Delivers, Handles
  <2> QED BY <1>h, <2>1, <2>2, <2>3, Zenon DEF CompleteOp
<1>14. ASSUME NEW t \in Task, NestedDone(t) \/ ResumeBlocked(t) PROVE SubEffect
  <2>1. CASE Abort(Chain \cup {t}, Chain \cup {t})
    BY <1>c, <2>1, Zenon
  <2>2. CASE ~Abort(Chain \cup {t}, Chain \cup {t})
    <3>1. /\ CompleteOp(t) /\ UNCHANGED runq
          /\ pc[t] = "await" => arg[t] \in pending
      BY <1>14, <2>2, Zenon DEF NestedDone, ResumeBlocked, BlockPred, Continue, schedVars
    <3>2. Live(t)
      BY <1>14, <1>a, RunningTask, Zenon
         DEF NestedDone, ResumeBlocked, Stepping, FirstReady, Live
    <3> QED BY <1>h, <3>1, <3>2, Zenon
  <2> QED BY <2>1, <2>2, Zenon
<1>15. ASSUME NEW t \in Task, LowerReturn(t) PROVE SubEffect
  <2>1. pc[t] = "lower" /\ arg[t] \in Sub
    BY <1>15, <1>a, Zenon DEF LowerReturn, At, ArgTyped
  <2>2. Lowered(t)
    BY <1>15, <1>a, <2>1, Zenon DEF LowerReturn, Lowered, Lowering, Continue, schedVars, TaskType
  <2> QED BY <2>1, <2>2, Subs, Zenon DEF SubEffect
<1>16. ASSUME NEW t \in Task, CancelReturn(t) PROVE SubEffect
  <2>1. /\ arg[t] \in Sub /\ holder[arg[t]] # None /\ arg[t] \notin delivered
        /\ pc[t] = "cancelS" => arg[t] \notin joined
        /\ UNCHANGED runq
    BY <1>16, <1>a, <1>d, Subs, Zenon DEF CancelReturn, At, Cancelling, Continue, Block, schedVars
  <2>2. CASE /\ subState[arg[t]] \in Resolved /\ Deliver(arg[t]) /\ UNCHANGED syncWaiter
             /\ pc' = [pc EXCEPT ![t] = "guest"]
    <3>1. Owns(t, arg[t])
      BY <1>16, <1>a, <2>2, Zenon DEF CancelReturn, At, Cancelling, Owns, InCancel, TaskType
    <3> QED BY <2>1, <2>2, <3>1, Zenon DEF SubEffect, Delivers
  <2>3. CASE UNCHANGED subVars
    BY <1>b, <2>1, <2>3, Zenon
  <2>4. CASE /\ pc[t] = "cancelS" /\ syncWaiter' = syncWaiter \cup {arg[t]}
             /\ UNCHANGED <<subState, pending, delivered, requested, holder, joined>>
    BY <2>1, <2>4, Zenon DEF SubEffect, Awaits
  <2> QED BY <1>16, <2>2, <2>3, <2>4, Zenon DEF CancelReturn
<1>17. ASSUME RunThunk PROVE SubEffect
  <2>1. /\ Head(runq) \in Import /\ Head(runq) \in Sub
        /\ subState[Head(runq)] \notin {"unused", "STARTING"}
    <3>1. runq \in Seq(Import) /\ runq # <<>>
      BY <1>17, <1>a, Zenon DEF RunThunk, SchedType
    <3>2. Head(runq) = runq[1] /\ 1 \in DOMAIN runq /\ runq[1] \in Import
      BY <3>1, SMTT(30)
    <3> QED BY <1>a, <3>2, Subs, Zenon DEF Imports
  <2>2. CASE UNCHANGED subVars
    BY <1>17, <2>2, Zenon DEF RunThunk, SubEffect, Quiet, subVars
  <2>3. CASE ~UNCHANGED subVars
    <3>1. subState[Head(runq)] = "STARTED"
      BY <1>17, <1>a, <2>1, <2>3, Zenon DEF RunThunk, SubType, SubState, Resolved
    <3>2. Resolves(Head(runq))
      BY <1>17, <2>3, <3>1, Zenon DEF RunThunk, Resolves
    <3> QED BY <2>1, <3>2, Zenon DEF SubEffect
  <2> QED BY <2>2, <2>3, Zenon
<1>18. ASSUME NEW t \in Task, ResumeEntry(t) PROVE SubEffect
  <2>1. CASE Unwind(Chain \cup {t}, Chain)
    BY <1>c, <2>1, Zenon
  <2>2. CASE FirstRun(t, pc) /\ UNCHANGED runq /\ t \in Callee
    <3>1. subState[t] = "STARTING" /\ t \in Sub
      BY <1>18, <1>a, <2>2, Subs, Zenon
         DEF ResumeEntry, Stepping, FirstReady, TaskPhase, Mirror
    <3> QED BY <2>2, <3>1, Zenon DEF FirstRun, SubEffect, Starts
  <2>3. CASE FirstRun(t, pc) /\ UNCHANGED runq /\ t \notin Callee
    BY <1>b, <2>3, Subs, Zenon DEF FirstRun, subVars
  <2> QED BY <1>18, <2>1, <2>2, <2>3, Zenon DEF ResumeEntry
<1>19. ASSUME NEW t \in Task, ResumeWait(t) PROVE SubEffect
  <2>1. ~HeldByOther(t) /\ pc'[t] \notin InCancel
    BY <1>19, <1>a, Zenon DEF ResumeWait, Stepping, FirstReady, Ready, InCancel, TaskType
  <2> QED BY <1>19, <1>b, <1>e, <2>1, Zenon DEF ResumeWait
<1>20. ASSUME NoProgress \/ DriveDone \/ HostRests \/ UNCHANGED vars PROVE SubEffect
  BY <1>20, <1>b, <1>c, Zenon DEF NoProgress, DriveDone, HostRests, vars, Continue, schedVars
<1>21. ASSUME NEW t \in Task, Fail(t) PROVE SubEffect
  BY <1>21, <1>c, ZenonT(40) DEF Fail
<1>22. ASSUME NEW t \in Task, GuestStep(t) PROVE SubEffect
  BY <1>22, <1>2, <1>3, <1>4, <1>5, <1>6, <1>7, <1>8, <1>9, <1>10, <1>11, <1>12, <1>13,
     <1>21, ZenonT(40) DEF GuestStep
<1> QED
  BY <1>1, <1>4, <1>14, <1>15, <1>16, <1>17, <1>18, <1>19, <1>20, <1>22, ZenonT(40)
  DEF Next, BuiltinStep, SchedStep

-----------------------------------------------------------------------------
(* What a step may do to the tasks inside a lower or a cancel.             *)

PcKept(t) ==
    pc'[t] \in InCancel \cup {"lower"} => pc'[t] = pc[t] /\ arg'[t] = arg[t]

Lowers(t) == pc'[t] = "lower" /\ arg'[t] \in Callee /\ Starts(arg'[t])
             /\ subState[arg'[t]] = "unused"

Cancels(t) ==
    /\ pc'[t] \in InCancel /\ Live(t) /\ arg'[t] \in Sub
    /\ holder[arg'[t]] = instOf[t] /\ arg'[t] \notin delivered
    /\ pc'[t] = "cancelS" => arg'[t] \notin joined
    /\ UNCHANGED <<holder, delivered, joined>>

\* At most one task enters an async lower or a subtask.cancel.
LEMMA PcStep ==
    SubInv /\ [Next]_vars =>
      \/ \A u \in Task : PcKept(u)
      \/ \E t \in Task : /\ Lowers(t) \/ Cancels(t)
                         /\ \A u \in Task : u # t => PcKept(u)
<1> DEFINE AllKept == \A u \in Task : PcKept(u)
           OneMoves == \E t \in Task : /\ Lowers(t) \/ Cancels(t)
                                       /\ \A u \in Task : u # t => PcKept(u)
<1> SUFFICES ASSUME SubInv, [Next]_vars PROVE AllKept \/ OneMoves
  OBVIOUS
<1>a. /\ TaskType /\ SubType /\ BatonType /\ Exclusion /\ TaskPhase
      /\ Mirror /\ Cancelling /\ Chain \subseteq Task
  BY ChainType, Zenon DEF SubInv, ExclInv, TypeInv, TypeOK
<1>b. ASSUME NEW t \in Task, NEW p \in PC \ (InCancel \cup {"lower"}),
             pc' = [pc EXCEPT ![t] = p],
             UNCHANGED arg \/ \E x : arg' = [arg EXCEPT ![t] = x]
      PROVE  AllKept
  BY <1>a, <1>b, Zenon DEF PcKept, TaskType
<1>c. ASSUME UNCHANGED <<pc, arg>> PROVE AllKept
  BY <1>c, Zenon DEF PcKept
<1>d. ASSUME NEW STATE F, NEW STATE P, Unwind(F, P) \/ Abort(F, P) PROVE AllKept
  BY <1>a, <1>d, ZenonT(40) DEF Abort, Unwind, PcKept, InCancel, TaskType
<1>1. ASSUME NEW r \in Root, HostInvoke(r) PROVE AllKept
  BY <1>1, <1>b, <1>c, Subs, Zenon DEF HostInvoke, FirstRun, ParkEntry, PC, InCancel
<1>2. ASSUME NEW t \in Task, NEW c \in Callee, NEW how \in {"lower", "call", "invoke"},
             CallTask(t, c, how)
      PROVE  AllKept \/ OneMoves
  <2>1. CASE Abort(Chain, Chain) \/ Abort(Chain \cup {c}, Chain)
    BY <1>d, <2>1, Zenon
  <2>2. CASE ~(Abort(Chain, Chain) \/ Abort(Chain \cup {c}, Chain))
    <3>1. subState[c] = "unused" /\ c \in Sub /\ c \in Task
      BY <1>2, <1>a, Subs, Zenon DEF CallTask, Mirror
    <3>2. Starts(c)
      BY <1>2, <2>2, <3>1, Zenon DEF CallTask, FirstRun, ParkEntry, Starts, schedVars
    <3>3. c # t
      BY <1>2, <1>a, RunningTask, Zenon DEF CallTask, Running, At, Fresh
    <3>4. \A u \in Task : u # t => PcKept(u)
      BY <1>2, <1>a, <2>2, <3>1, Zenon DEF CallTask, FirstRun, ParkEntry, PcKept, InCancel, TaskType
    <3>5. pc'[t] = how /\ arg'[t] = c
      BY <1>2, <1>a, <2>2, <3>1, <3>3, Zenon DEF CallTask, FirstRun, ParkEntry, TaskType
    <3> QED BY <3>1, <3>2, <3>4, <3>5, Zenon DEF Lowers, PcKept, InCancel
  <2> QED BY <2>1, <2>2
<1>3. ASSUME NEW t \in Task,
             \/ Exit(t) \/ \E kind \in {"wait", "yield"} : Suspend(t, kind)
             \/ \E b \in BOOLEAN : WaitBuiltin(t, b)
             \/ InvokeStarted(t) \/ CallBlocks(t) \/ LowerReturn(t)
             \/ ResumeWait(t) \/ ResumeYield(t)
      PROVE  AllKept
  <2>1. /\ \/ UNCHANGED pc
           \/ \E p \in {"none", "wait", "waitC", "drive", "call", "guest"} :
                pc' = [pc EXCEPT ![t] = p]
        /\ UNCHANGED arg \/ (arg' = [arg EXCEPT ![t] = None] /\ pc' = [pc EXCEPT ![t] = "guest"])
    BY <1>3, Zenon DEF Exit, Suspend, WaitBuiltin, Block, InvokeStarted, CallBlocks, LowerReturn,
       ResumeWait, ResumeYield
  <2> QED BY <1>b, <1>c, <2>1, Zenon DEF PC, InCancel
<1>4. ASSUME NEW t \in Task,
             \/ TaskReturn(t) \/ TaskCancel(t) \/ \E b \in BOOLEAN : Poll(t, b)
             \/ \E s \in Sub, b \in BOOLEAN : Join(t, s, b) \/ CancelResolved(t, s, b)
             \/ \E s \in Sub : SubtaskDrop(t, s)
             \/ \E h \in Import : CallImport(t, h)
      PROVE  AllKept
  BY <1>4, <1>c, Zenon DEF TaskReturn, TaskCancel, Poll, Join, CancelResolved, SubtaskDrop,
     CallImport, taskVars
<1>5. ASSUME NEW t \in Task, Fail(t) \/ \E delta \in {-1, 1} : Backpressure(t, delta)
      PROVE  AllKept
  BY <1>5, <1>c, <1>d, Zenon DEF Fail, Backpressure, taskVars
<1>e. ASSUME NEW t \in Task, NEW s \in Sub, NEW b \in BOOLEAN, MayCancel(t, s, b),
             \A u \in Task : u # t => PcKept(u),
             pc'[t] = (IF b THEN "cancelA" ELSE "cancelS"), arg'[t] = s,
             UNCHANGED <<delivered, holder, joined>>
      PROVE  OneMoves
  BY <1>e, <1>a, RunningTask, ZenonT(40) DEF MayCancel, Running, At, Cancels, InCancel
<1>6. ASSUME NEW t \in Task, NEW s \in Sub, NEW b \in BOOLEAN, MayCancel(t, s, b),
             Requested(t, s, b)
      PROVE  OneMoves
  <2>1. /\ \A u \in Task : u # t => PcKept(u)
        /\ pc'[t] = (IF b THEN "cancelA" ELSE "cancelS") /\ arg'[t] = s
    BY <1>6, <1>a, Zenon DEF Requested, PcKept, TaskType
  <2> QED BY <1>6, <1>e, <2>1, ZenonT(40) DEF Requested
<1>7. ASSUME NEW t \in Task, NEW c \in Callee, NEW b \in BOOLEAN, CancelDeliver(t, c, b)
      PROVE  OneMoves
  <2>1. c \in Task /\ c # t
    BY <1>7, <1>a, FreeNotOnChain, RunningTask, Subs, Zenon
       DEF CancelDeliver, MayCancel, Running, At, ResumeInPlace
  <2>2. /\ \A u \in Task : u # t => PcKept(u)
        /\ pc'[t] = (IF b THEN "cancelA" ELSE "cancelS") /\ arg'[t] = c
    BY <1>7, <1>a, <2>1, ZenonT(40) DEF CancelDeliver, PcKept, InCancel, TaskType
  <2> QED BY <1>7, <1>e, <2>2, Subs, Zenon DEF CancelDeliver
<1>8. ASSUME NEW t \in Task, GuestStep(t) PROVE AllKept \/ OneMoves
  <2>1. CASE \/ \E h \in Import, b \in BOOLEAN : CancelImport(t, h, b)
             \/ \E c \in Callee, b \in BOOLEAN : \/ CancelPending(t, c, b)
                                                 \/ CancelEntry(t, c, b)
                                                 \/ CancelDead(t, c, b)
    BY <1>6, <1>d, <2>1, Subs, ZenonT(40) DEF CancelImport, CancelPending, CancelEntry, CancelDead
  <2> QED BY <1>8, <1>2, <1>3, <1>4, <1>5, <1>7, <2>1, Zenon DEF GuestStep
<1>9. ASSUME NEW t \in Task, NestedDone(t) \/ ResumeBlocked(t) PROVE AllKept
  <2>1. CASE Abort(Chain \cup {t}, Chain \cup {t})
    BY <1>d, <2>1, Zenon
  <2>2. CASE CompleteOp(t)
    BY <1>a, <2>2, ZenonT(40) DEF CompleteOp, PcKept, InCancel, TaskType
  <2> QED BY <1>9, <2>1, <2>2 DEF NestedDone, ResumeBlocked
<1>10. ASSUME NEW t \in Task, CancelReturn(t) PROVE AllKept \/ OneMoves
  <2>1. CASE pc' = [pc EXCEPT ![t] = "guest"] /\ arg' = [arg EXCEPT ![t] = None]
    BY <1>b, <2>1, Zenon DEF PC, InCancel
  <2>2. CASE /\ pc' = [pc EXCEPT ![t] = "await"] /\ UNCHANGED <<arg, delivered, holder, joined>>
    <3>1. pc'[t] = "await" /\ \A u \in Task : u # t => PcKept(u)
      BY <1>a, <2>2, Zenon DEF PcKept, TaskType
    <3>2. Cancels(t)
      BY <1>10, <1>a, <2>2, <3>1, Zenon DEF CancelReturn, At, Cancelling, Cancels, InCancel
    <3> QED BY <3>1, <3>2, ZenonT(40)
  <2> QED BY <1>10, <2>1, <2>2, Zenon DEF CancelReturn, Block
<1>11. ASSUME NEW t \in Task, ResumeEntry(t) PROVE AllKept
  BY <1>11, <1>b, <1>d, Zenon DEF ResumeEntry, FirstRun, PC, InCancel
<1>12. ASSUME RunThunk \/ NoProgress \/ DriveDone \/ HostRests \/ UNCHANGED vars
       PROVE  AllKept
  <2>1. CASE UNCHANGED <<pc, arg>>
    BY <1>c, <2>1, Zenon
  <2>2. CASE Abort(Chain, Chain) \/ Abort({}, {})
    BY <1>d, <2>2, Zenon
  <2>3. CASE stack # <<>> /\ pc' = [pc EXCEPT ![Top] = "guest"] /\ UNCHANGED arg
    BY <1>a, <1>b, <2>3, TopType, Zenon DEF PC, InCancel
  <2> QED BY <1>12, <2>1, <2>2, <2>3, Zenon
          DEF RunThunk, NoProgress, DriveDone, HostRests, vars, taskVars
<1> QED
  BY <1>1, <1>3, <1>8, <1>9, <1>10, <1>11, <1>12, ZenonT(40) DEF Next, BuiltinStep, SchedStep

=============================================================================
