--------------------------- MODULE ExclusiveProofs ---------------------------
(***************************************************************************)
(* Mutual exclusion of an instance's tasks: ExclusiveIffLive and           *)
(* ActiveTaskIsRunner hold in every reachable state.  They are inductive   *)
(* together with two facts about the call chain: no task is on it twice,   *)
(* and none that is on it is parked.                                       *)
(***************************************************************************)
EXTENDS AsyncTasksProofs

NoRepeat == \A j, k \in DOMAIN stack : stack[j] = stack[k] => j = k

NotParked == \A t \in Chain : t \notin parked

Exclusion == NoRepeat /\ NotParked /\ ExclusiveIffLive /\ ActiveTaskIsRunner

ExclInv == TypeInv /\ Exclusion

-----------------------------------------------------------------------------
(* The call chain.                                                         *)

\* Push adds its task to the chain.
LEMMA ChainPush ==
    ASSUME BatonType, NEW t \in Task, Push(t)
    PROVE  /\ Chain' = Chain \cup {t}
           /\ NoRepeat /\ t \notin Chain => NoRepeat'
<1>1. /\ DOMAIN stack = 1 .. Len(stack) /\ Len(stack) \in Nat
      /\ DOMAIN stack' = 1 .. (Len(stack) + 1)
      /\ \A k \in 1 .. Len(stack) : stack'[k] = stack[k]
      /\ stack'[Len(stack) + 1] = t
  BY DEF BatonType, Push
<1>2. Chain' = Chain \cup {t}
  <2>1. ASSUME NEW u \in Chain' PROVE u \in Chain \cup {t}
    BY <1>1, <2>1 DEF Chain
  <2>2. ASSUME NEW u \in Chain \cup {t} PROVE u \in Chain'
    BY <1>1, <2>2 DEF Chain
  <2> QED BY <2>1, <2>2
<1>3. ASSUME NoRepeat, t \notin Chain PROVE NoRepeat'
  BY <1>1, <1>3 DEF NoRepeat, Chain
<1> QED BY <1>2, <1>3

\* Pop takes exactly the running task off the chain.
LEMMA ChainPop ==
    ASSUME BatonType, NoRepeat, stack # <<>>, Pop
    PROVE  Chain' = Chain \ {Top} /\ NoRepeat' /\ Top \in Chain
<1>1. /\ DOMAIN stack = 1 .. Len(stack) /\ Len(stack) \in Nat \ {0}
      /\ DOMAIN stack' = 1 .. (Len(stack) - 1)
      /\ \A k \in 1 .. (Len(stack) - 1) : stack'[k] = stack[k]
  BY DEF BatonType, Pop
<1>2. Top = stack[Len(stack)] /\ Top \in Chain
  BY <1>1 DEF Top, Chain
<1>3. Chain' = Chain \ {Top}
  <2>1. ASSUME NEW u \in Chain' PROVE u \in Chain \ {Top}
    BY <1>1, <1>2, <2>1, SMTT(30) DEF Chain, NoRepeat
  <2>2. ASSUME NEW u \in Chain \ {Top} PROVE u \in Chain'
    BY <1>1, <1>2, <2>2 DEF Chain
  <2> QED BY <2>1, <2>2, Zenon
<1>4. NoRepeat'
  BY <1>1 DEF NoRepeat
<1> QED BY <1>2, <1>3, <1>4, Zenon

\* The chain is a function of the stack.
LEMMA ChainSame ==
    /\ UNCHANGED stack => Chain' = Chain /\ (NoRepeat => NoRepeat')
    /\ stack' = <<>> => Chain' = {} /\ NoRepeat'
    /\ BatonType /\ stack = <<>> => Chain = {}
    /\ BatonType /\ stack # <<>> => Top \in Chain
<1>1. UNCHANGED stack => Chain' = Chain /\ (NoRepeat => NoRepeat')
  BY DEF Chain, NoRepeat
<1>2. stack' = <<>> => Chain' = {} /\ NoRepeat'
  BY DEF Chain, NoRepeat
<1>3. BatonType /\ stack = <<>> => Chain = {}
  BY DEF Chain, BatonType
<1>4. BatonType /\ stack # <<>> => Top \in Chain
  BY DEF Chain, BatonType, Top
<1> QED BY <1>1, <1>2, <1>3, <1>4, Zenon

-----------------------------------------------------------------------------
(* What a step does to exclusion depends on how control moves: it stays,   *)
(* enters a task, leaves one, suspends one inside a builtin, or unwinds.   *)

\* Control stays where it is, and no blocked goroutine comes or goes.
LEMMA StayStep ==
    ASSUME Exclusion, UNCHANGED <<runVars, stack>>,
           \A t \in parked' : t \notin parked => t \notin Chain,
           \A t \in Task : t \in parked' /\ park'[t] = "block" <=>
                             t \in parked /\ park[t] = "block"
    PROVE  Exclusion'
BY ChainSame DEF Exclusion, NotParked, ExclusiveIffLive, Live, ActiveTaskIsRunner, runVars

\* Control enters t, whose instance nobody else holds.
LEMMA EnterStep ==
    ASSUME RunType, BatonType, Exclusion, NEW t \in Task, t \notin Chain,
           exclusive[instOf[t]] \in {None, t}, EnterRun(t), Push(t),
           parked' = parked \ {t},
           \A u \in Task : u # t => park'[u] = park[u]
    PROVE  Exclusion'
<1>1. Chain' = Chain \cup {t} /\ NoRepeat'
  BY ChainPush DEF Exclusion
<1>2. NotParked'
  BY <1>1 DEF Exclusion, NotParked
<1>3. instOf[t] \in Instance
  BY Subs
<1>4. \A u \in Task : u # t => Live(u)' = Live(u)
  BY <1>1 DEF Live
<1>5. Live(t)'
  BY <1>1 DEF Live
<1>6. \A u \in Task : u # t /\ Live(u) => instOf[u] # instOf[t]
  BY <1>3, Subs DEF Exclusion, ExclusiveIffLive
<1>7. ExclusiveIffLive'
  <2> SUFFICES ASSUME NEW i \in Instance, NEW u \in Task
               PROVE  exclusive'[i] = u <=> Live(u)' /\ instOf[u] = i
    BY DEF ExclusiveIffLive
  <2>1. CASE i # instOf[t]
    BY <1>4, <2>1, SMTT(30) DEF Exclusion, ExclusiveIffLive, EnterRun, RunType
  <2>2. CASE i = instOf[t]
    BY <1>4, <1>5, <1>6, <2>2, Zenon DEF EnterRun, RunType
  <2> QED BY <2>1, <2>2
<1>8. ActiveTaskIsRunner'
  <2> SUFFICES ASSUME NEW i \in Instance
               PROVE  /\ \A u \in Task : activeTask'[i] = u <=> u \in Chain' /\ instOf[u] = i
                      /\ i \in mayEnter' <=> activeTask'[i] = None
    BY DEF ActiveTaskIsRunner
  <2>1. CASE i # instOf[t]
    BY <1>1, <2>1, ZenonT(40) DEF Exclusion, ActiveTaskIsRunner, EnterRun, RunType
  <2>2. CASE i = instOf[t]
    BY <1>1, <1>6, <2>2, Subs, Zenon DEF Live, EnterRun, RunType
  <2> QED BY <2>1, <2>2, Zenon
<1> QED BY <1>1, <1>2, <1>7, <1>8, Zenon DEF Exclusion

\* At most one task of an instance has frames, so what the running task leaves
\* behind is free.
LEMMA OneLive ==
    ASSUME Exclusion, NEW t \in Task, Live(t)
    PROVE  \A u \in Task : u # t /\ Live(u) => instOf[u] # instOf[t]
BY Subs, SMTT(30) DEF Exclusion, ExclusiveIffLive

\* The running task t returns, or suspends with no guest frames.
LEMMA LeaveStep ==
    ASSUME RunType, BatonType, Exclusion, NEW t \in Task, stack # <<>>, Top = t,
           LeaveRun(instOf[t]), Pop,
           parked' \subseteq parked \cup {t}, parked \subseteq parked',
           t \in parked' => park'[t] # "block",
           \A u \in Task : u # t => park'[u] = park[u]
    PROVE  Exclusion'
<1>1. Chain' = Chain \ {t} /\ NoRepeat' /\ t \in Chain
  BY ChainPop, Zenon DEF Exclusion
<1>2. NotParked'
  BY <1>1 DEF Exclusion, NotParked
<1>3. instOf[t] \in Instance
  BY Subs, Zenon
<1>4. \A u \in Task : u # t => Live(u)' = Live(u)
  BY <1>1, Zenon DEF Live
<1>5. Live(t) /\ ~Live(t)'
  BY <1>1 DEF Live
<1>6. \A u \in Task : u # t /\ Live(u) => instOf[u] # instOf[t]
  BY <1>5, OneLive, Zenon
<1>7. ExclusiveIffLive'
  <2> SUFFICES ASSUME NEW i \in Instance, NEW u \in Task
               PROVE  exclusive'[i] = u <=> Live(u)' /\ instOf[u] = i
    BY Zenon DEF ExclusiveIffLive
  <2>1. CASE i # instOf[t]
    BY <1>4, <1>5, <2>1, SMTT(30) DEF Exclusion, ExclusiveIffLive, LeaveRun, RunType
  <2>2. CASE i = instOf[t]
    BY <1>4, <1>5, <1>6, <2>2, Subs, Zenon DEF LeaveRun, RunType
  <2> QED BY <2>1, <2>2, Zenon
<1>8. ActiveTaskIsRunner'
  <2> SUFFICES ASSUME NEW i \in Instance
               PROVE  /\ \A u \in Task : activeTask'[i] = u <=> u \in Chain' /\ instOf[u] = i
                      /\ i \in mayEnter' <=> activeTask'[i] = None
    BY DEF ActiveTaskIsRunner
  <2>1. CASE i # instOf[t]
    BY <1>1, <2>1, ZenonT(40) DEF Exclusion, ActiveTaskIsRunner, LeaveRun, RunType
  <2>2. CASE i = instOf[t]
    BY <1>1, <1>6, <2>2, Subs, Zenon DEF Live, LeaveRun, RunType
  <2> QED BY <2>1, <2>2, Zenon
<1> QED BY <1>1, <1>2, <1>7, <1>8, Zenon DEF Exclusion

\* The running task t blocks on its own goroutine and keeps its instance.
LEMMA SuspendStep ==
    ASSUME RunType, BatonType, Exclusion, NEW t \in Task, stack # <<>>, Top = t,
           SuspendRun(instOf[t]), Pop,
           parked' = parked \cup {t}, park'[t] = "block",
           \A u \in Task : u # t => park'[u] = park[u]
    PROVE  Exclusion'
<1>1. Chain' = Chain \ {t} /\ NoRepeat' /\ t \in Chain
  BY ChainPop, Zenon DEF Exclusion
<1>2. NotParked'
  BY <1>1, Zenon DEF Exclusion, NotParked
<1>3. instOf[t] \in Instance
  BY Subs, Zenon
<1>4. \A u \in Task : Live(u)' = Live(u)
  BY <1>1, Zenon DEF Live
<1>5. \A u \in Task : u # t /\ Live(u) => instOf[u] # instOf[t]
  BY <1>1, OneLive, Zenon DEF Live
<1>6. ExclusiveIffLive'
  BY <1>4, Zenon DEF Exclusion, ExclusiveIffLive, SuspendRun
<1>7. ActiveTaskIsRunner'
  <2> SUFFICES ASSUME NEW i \in Instance
               PROVE  /\ \A u \in Task : activeTask'[i] = u <=> u \in Chain' /\ instOf[u] = i
                      /\ i \in mayEnter' <=> activeTask'[i] = None
    BY DEF ActiveTaskIsRunner
  <2>1. CASE i # instOf[t]
    BY <1>1, <2>1, ZenonT(40) DEF Exclusion, ActiveTaskIsRunner, SuspendRun, RunType
  <2>2. CASE i = instOf[t]
    BY <1>1, <1>5, <2>2, Subs, Zenon DEF Live, SuspendRun, RunType
  <2> QED BY <2>1, <2>2
<1> QED BY <1>1, <1>2, <1>6, <1>7, Zenon DEF Exclusion

\* A failure that takes every task of the call chain with it frees every
\* instance: no frame is left anywhere.
LEMMA UnwindStep ==
    ASSUME RunType, SchedType, TaskType, Exclusion, NEW STATE F, NEW STATE P,
           F \subseteq Task, Chain \subseteq F, Unwind(F, P)
    PROVE  Exclusion'
<1> DEFINE B == {t \in parked \ F : park[t] = "block"}
           I == {instOf[t] : t \in F \cup B}
<1>1. Chain' = {} /\ NoRepeat'
  BY ChainSame, ZenonT(40) DEF Unwind
<1>2. /\ exclusive' = [i \in Instance |-> IF i \in I THEN None ELSE exclusive[i]]
      /\ activeTask' = [i \in Instance |-> IF i \in I THEN None ELSE activeTask[i]]
      /\ mayEnter' = mayEnter \cup I
  BY Zenon DEF Unwind
<1>3. \A t \in Task : ~Live(t)'
  BY <1>1 DEF Live, Unwind, Unpark, Reapable, SchedType, TaskType
<1>4. \A t \in Task : Live(t) => instOf[t] \in I
  BY Zenon DEF Live
<1> HIDE DEF I
<1>5. ExclusiveIffLive'
  BY <1>2, <1>3, <1>4, Subs, SMTT(30) DEF Exclusion, ExclusiveIffLive, RunType
<1>6. \A i \in Instance : i \notin I => activeTask[i] = None
  BY <1>4 DEF Exclusion, ActiveTaskIsRunner, Live, RunType
<1>7. ActiveTaskIsRunner'
  BY <1>1, <1>2, <1>6, Subs, ZenonT(40) DEF Exclusion, ActiveTaskIsRunner, RunType
<1> QED BY <1>1, <1>5, <1>7 DEF Exclusion, NotParked

\* A task of an instance that may be entered, or that nobody holds, has no
\* frames on the chain.
LEMMA FreeNotOnChain ==
    ASSUME Exclusion, NEW t \in Task,
           instOf[t] \in mayEnter \/ exclusive[instOf[t]] = None
    PROVE  t \notin Chain
BY Subs DEF Exclusion, ExclusiveIffLive, ActiveTaskIsRunner, Live

-----------------------------------------------------------------------------
(* Every action is one of those moves.                                     *)

\* Every action keeps exclusion.
LEMMA ExclusionStep == ExclInv /\ [Next]_vars => Exclusion'
<1> SUFFICES ASSUME ExclInv, [Next]_vars PROVE Exclusion'
  OBVIOUS
<1>a. /\ TypeInv /\ TaskType /\ RunType /\ EntryType /\ SubType /\ SchedType
      /\ BatonType /\ Exclusion
  BY DEF ExclInv, TypeInv, TypeOK
<1>b. Chain \subseteq Task
  BY <1>a, ChainType
<1>c. ASSUME UNCHANGED <<park, runVars, parked, stack>> PROVE Exclusion'
  BY <1>a, <1>c, StayStep
<1>d. ASSUME NEW STATE F, NEW STATE P, F \subseteq Task, Chain \subseteq F,
             Unwind(F, P) \/ Abort(F, P)
      PROVE  Exclusion'
  BY <1>a, <1>d, UnwindStep, ZenonT(40) DEF Abort
<1>e. ASSUME NEW t \in Task, NEW STATE pcs, Fresh(t), MayStart(instOf[t]),
             FirstRun(t, pcs), UNCHANGED parked
      PROVE  Exclusion'
  <2>1. exclusive[instOf[t]] = None /\ t \notin Chain
    BY <1>a, <1>e, FreeNotOnChain DEF MayStart, HasBackpressure
  <2>2. \A u \in Task : u # t => park'[u] = park[u]
    BY <1>a, <1>e, ZenonT(40) DEF FirstRun, TaskType
  <2> QED BY <1>a, <1>e, <2>1, <2>2, EnterStep DEF FirstRun, Fresh
<1>f. ASSUME NEW t \in Task, Fresh(t), instOf[t] \in mayEnter, ParkEntry(t),
             UNCHANGED stack
      PROVE  Exclusion'
  <2>1. t \notin Chain
    BY <1>a, <1>f, FreeNotOnChain
  <2> QED BY <1>a, <1>f, <2>1, StayStep DEF ParkEntry, ParkLast, Fresh, TaskType
<1>g. ASSUME NEW t \in Task, NEW p, NEW b, Block(t, p, b), stack # <<>>, Top = t
      PROVE  Exclusion'
  BY <1>a, <1>g, SuspendStep DEF Block, ParkLast, TaskType
<1>1. ASSUME NEW r \in Root, HostInvoke(r) PROVE Exclusion'
  BY <1>1, <1>e, <1>f, Subs DEF HostInvoke, Enterable
<1>2. ASSUME NEW t \in Task, Fail(t) PROVE Exclusion'
  BY <1>2, <1>b, <1>d, ZenonT(40) DEF Fail
<1>3. ASSUME NEW t \in Task, NEW c \in Callee, NEW how \in {"lower", "call", "invoke"},
             CallTask(t, c, how)
      PROVE  Exclusion'
  <2>1. CASE Abort(Chain, Chain) \/ Abort(Chain \cup {c}, Chain)
    BY <1>b, <1>d, <2>1, Subs, SMTT(30)
  <2>2. CASE /\ MayStart(instOf[c]) /\ FirstRun(c, [pc EXCEPT ![t] = how])
             /\ UNCHANGED schedVars
    BY <1>3, <1>e, <2>2, Subs, ZenonT(40) DEF CallTask, schedVars
  <2>3. CASE Enterable(instOf[c]) /\ ParkEntry(c) /\ UNCHANGED batonVars
    BY <1>3, <1>f, <2>3, Subs, ZenonT(40) DEF CallTask, Enterable, batonVars
  <2> QED BY <1>3, <2>1, <2>2, <2>3 DEF CallTask
<1>4. ASSUME NEW t \in Task, Exit(t) PROVE Exclusion'
  <2>1. t \notin parked
    BY <1>4, <1>a, ChainSame, Zenon DEF Exit, Running, At, Exclusion, NotParked
  <2> QED BY <1>4, <1>a, <2>1, LeaveStep, ZenonT(40) DEF Exit, Running, At, schedVars
<1>5. ASSUME NEW t \in Task, NEW kind \in {"wait", "yield"}, Suspend(t, kind)
      PROVE  Exclusion'
  BY <1>5, <1>a, LeaveStep, Zenon DEF Suspend, Running, At, ParkLast, TaskType
<1>6. ASSUME NEW t \in Task, NEW b \in BOOLEAN, WaitBuiltin(t, b) PROVE Exclusion'
  <2>1. CASE Continue
    BY <1>c, <2>1, Zenon DEF Continue, schedVars, batonVars
  <2>2. CASE ~Continue
    BY <1>6, <1>g, <2>2, Zenon DEF WaitBuiltin, Running, At
  <2> QED BY <2>1, <2>2, Zenon
<1>7. ASSUME Continue PROVE Exclusion'
  BY <1>7, <1>c, Zenon DEF Continue, schedVars, batonVars
<1>8. ASSUME NEW t \in Task, NEW delta \in {-1, 1}, Backpressure(t, delta)
      PROVE  Exclusion'
  BY <1>8, <1>b, <1>c, <1>d, Zenon DEF Backpressure, taskVars, schedVars, batonVars
<1>9. ASSUME NEW t \in Task, NEW h \in Import, CallImport(t, h) PROVE Exclusion'
  BY <1>9, <1>c, Zenon DEF CallImport, taskVars, batonVars
<1>10. ASSUME NEW t \in Task, NEW h \in Import, NEW b \in BOOLEAN, CancelImport(t, h, b)
       PROVE  Exclusion'
  BY <1>10, <1>c DEF CancelImport, batonVars
<1>11. ASSUME NEW t \in Task, NEW c \in Callee, NEW b \in BOOLEAN, CancelEntry(t, c, b)
       PROVE  Exclusion'
  <2>1. park[c] = "entry" /\ park'[c] # "block" /\ \A u \in Task : u # c => park'[u] = park[u]
    BY <1>11, <1>a, Subs, ZenonT(40) DEF CancelEntry, TaskType
  <2> QED BY <1>11, <1>a, <2>1, StayStep, ZenonT(40) DEF CancelEntry, Unpark, batonVars
<1>12. ASSUME NEW t \in Task, NEW c \in Callee, NEW b \in BOOLEAN, CancelDeliver(t, c, b)
       PROVE  Exclusion'
  <2>1. c \notin Chain /\ exclusive[instOf[c]] \in {None, c}
    BY <1>12, <1>a, FreeNotOnChain, Subs, ZenonT(40) DEF CancelDeliver, ResumeInPlace, HeldByOther
  <2>2. \A u \in Task : u # c => park'[u] = park[u]
    BY <1>12, <1>a, Zenon DEF CancelDeliver, TaskType
  <2> QED BY <1>12, <1>a, <2>1, <2>2, EnterStep, Subs, ZenonT(40) DEF CancelDeliver, Unpark
<1>13. ASSUME NEW t \in Task, NEW c \in Callee, NEW b \in BOOLEAN, CancelDead(t, c, b)
       PROVE  Exclusion'
  BY <1>13, <1>b, <1>c, <1>d, Zenon DEF CancelDead, schedVars
<1>14. ASSUME NEW t \in Task, CallBlocks(t) PROVE Exclusion'
  BY <1>14, <1>g, Zenon DEF CallBlocks, At
<1>15. ASSUME NEW t \in Task, CancelReturn(t) PROVE Exclusion'
  <2>1. CASE ~Continue
    BY <1>15, <1>g, <2>1, Zenon DEF CancelReturn, At
  <2> QED BY <1>7, <2>1
<1>16. ASSUME RunThunk PROVE Exclusion'
  BY <1>16, <1>c DEF RunThunk, taskVars, batonVars
<1>17. ASSUME NEW t \in Task, ResumeEntry(t) PROVE Exclusion'
  <2>1. exclusive[instOf[t]] = None /\ t \notin Chain
    BY <1>17, <1>a, FreeNotOnChain, Zenon
       DEF ResumeEntry, Stepping, FirstReady, Ready, HasBackpressure
  <2>2. CASE Unwind(Chain \cup {t}, Chain)
    BY <1>b, <1>d, <2>2, ZenonT(40)
  <2>3. CASE FirstRun(t, pc) /\ Unpark({t})
    <3>1. \A u \in Task : u # t => park'[u] = park[u]
      BY <1>a, <2>3, ZenonT(40) DEF FirstRun, TaskType
    <3> QED BY <1>a, <2>1, <2>3, <3>1, EnterStep, ZenonT(40) DEF FirstRun, Unpark
  <2> QED BY <1>17, <2>2, <2>3, ZenonT(40) DEF ResumeEntry
<1>h. ASSUME NEW t \in Task, t \in parked, ~HeldByOther(t), EnterRun(t), Push(t),
             Unpark({t}), \A u \in Task : u # t => park'[u] = park[u]
      PROVE  Exclusion'
  <2>1. t \notin Chain /\ exclusive[instOf[t]] \in {None, t}
    BY <1>a, <1>h, ZenonT(40) DEF Exclusion, NotParked, HeldByOther
  <2> QED BY <1>a, <1>h, <2>1, EnterStep, ZenonT(40) DEF Unpark
<1>18. ASSUME NEW t \in Task, ResumeWait(t) \/ ResumeYield(t) PROVE Exclusion'
  <2>1. t \in parked /\ ~HeldByOther(t)
    BY <1>18, Zenon DEF ResumeWait, ResumeYield, Stepping, FirstReady, Ready
  <2> QED BY <1>18, <1>h, <2>1 DEF ResumeWait, ResumeYield
<1>19. ASSUME NEW t \in Task, ResumeBlocked(t) PROVE Exclusion'
  <2>1. t \in parked /\ park[t] = "block"
    BY <1>19, Zenon DEF ResumeBlocked, Stepping, FirstReady
  <2>2. ~HeldByOther(t)
    BY <1>a, <2>1, Subs, Zenon DEF Exclusion, ExclusiveIffLive, Live, HeldByOther
  <2>3. CASE Abort(Chain \cup {t}, Chain \cup {t})
    BY <1>b, <1>d, <2>3, Zenon
  <2>4. CASE /\ park' = [park EXCEPT ![t] = "none"]
             /\ EnterRun(t) /\ Push(t) /\ Unpark({t})
    BY <1>a, <1>h, <2>1, <2>2, <2>4, Zenon DEF TaskType
  <2> QED BY <1>19, <2>3, <2>4 DEF ResumeBlocked
<1>20. ASSUME NoProgress PROVE Exclusion'
  <2>1. CASE Abort(Chain, Chain)
    BY <1>b, <1>d, <2>1, Zenon
  <2>2. CASE stack = <<>> /\ Abort({}, {})
    BY <1>a, <1>d, <2>2, ChainSame, Zenon
  <2>3. CASE UNCHANGED <<taskVars, runVars, schedVars, stack>>
    BY <1>c, <2>3 DEF taskVars, schedVars
  <2> QED BY <1>20, <1>7, <2>1, <2>2, <2>3, Zenon DEF NoProgress
<1>21. ASSUME DriveDone \/ HostRests \/ UNCHANGED vars PROVE Exclusion'
  BY <1>21, <1>c, ZenonT(40) DEF DriveDone, HostRests, vars, taskVars, schedVars, batonVars
<1>22. ASSUME NEW t \in Task, GuestStep(t) PROVE Exclusion'
  <2>1. CASE \/ TaskReturn(t) \/ TaskCancel(t) \/ \E b \in BOOLEAN : Poll(t, b)
             \/ \E s \in Sub, b \in BOOLEAN : Join(t, s, b) \/ CancelResolved(t, s, b)
             \/ \E s \in Sub : SubtaskDrop(t, s)
             \/ \E c \in Callee, b \in BOOLEAN : CancelPending(t, c, b)
    BY <1>7, <2>1, Zenon DEF TaskReturn, TaskCancel, Poll, Join, CancelResolved, SubtaskDrop,
       CancelPending
  <2> QED BY <1>22, <1>2, <1>3, <1>4, <1>5, <1>6, <1>8, <1>9, <1>10, <1>11, <1>12,
             <1>13, <2>1, ZenonT(40) DEF GuestStep
<1>23. ASSUME NEW t \in Task, BuiltinStep(t) PROVE Exclusion'
  <2>1. CASE NestedDone(t) \/ InvokeStarted(t) \/ LowerReturn(t)
    BY <1>7, <2>1, ZenonT(40) DEF NestedDone, InvokeStarted, LowerReturn
  <2> QED BY <1>23, <1>14, <1>15, <2>1, ZenonT(40) DEF BuiltinStep
<1> QED
  BY <1>1, <1>16, <1>17, <1>18, <1>19, <1>20, <1>21, <1>22, <1>23, ZenonT(40) DEF Next, SchedStep

\* Nobody holds an instance initially.
LEMMA ExclusionInit == Init => ExclInv
<1> SUFFICES ASSUME Init PROVE ExclInv
  OBVIOUS
<1>1. Chain = {} /\ parked = {} /\ DOMAIN stack = {}
  BY DEF Init, Chain
<1>2. /\ exclusive = [i \in Instance |-> None] /\ activeTask = [i \in Instance |-> None]
      /\ mayEnter = Instance
  BY DEF Init
<1>3. NoRepeat /\ NotParked
  BY <1>1 DEF NoRepeat, NotParked
<1>4. ExclusiveIffLive
  BY <1>1, <1>2, Subs, ZenonT(40) DEF ExclusiveIffLive, Live
<1>5. ActiveTaskIsRunner
  BY <1>1, <1>2, Subs, Zenon DEF ActiveTaskIsRunner
<1> QED BY <1>3, <1>4, <1>5, TypeInit, Zenon DEF ExclInv, Exclusion

\* The strengthened exclusion invariant holds in every reachable state.
LEMMA ExclusionInductive == Spec => []ExclInv
<1>1. ExclInv /\ [Next]_vars => ExclInv'
  BY ExclusionStep, TypeStep DEF ExclInv
<1> QED BY <1>1, ExclusionInit, PTL DEF Spec

\* In every reachable state a task owns its instance's exclusive exactly while
\* it has guest frames: two tasks of one instance never interleave inside it,
\* and no instance stays locked by a task that is gone.
THEOREM MutualExclusion == Spec => []ExclusiveIffLive
<1>1. ExclInv => ExclusiveIffLive
  BY DEF ExclInv, Exclusion
<1> QED BY <1>1, ExclusionInductive, PTL

\* In every reachable state activeTask and mayEnter of every instance agree
\* with the baton holder's call chain.
THEOREM RunnerIsActive == Spec => []ActiveTaskIsRunner
<1>1. ExclInv => ActiveTaskIsRunner
  BY DEF ExclInv, Exclusion
<1> QED BY <1>1, ExclusionInductive, PTL

=============================================================================
