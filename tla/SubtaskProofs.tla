---------------------------- MODULE SubtaskProofs ----------------------------
(***************************************************************************)
(* The handle a caller holds on a call tells the truth about the callee:   *)
(* SubtaskMirrorsTask, CancelOnlyOnRequest and NoStolenEvent hold in every *)
(* reachable state, and the runtime implements SubtaskLife.                *)
(***************************************************************************)
EXTENDS SubtaskSteps

\* A call that was made stays made.
LEMMA StaysUsed ==
    ASSUME SubType, SubEffect
    PROVE  \A s \in Sub : subState[s] # "unused" => subState'[s] # "unused"
BY DEF SubType, SubEffect, Quiet, Starts, Imported, Resolves, Resolve, Requests, Awaits,
   Delivers, Deliver, Joins, Drops, Lowered

\* Every action keeps Lowering.
LEMMA LoweringStep ==
    ASSUME SubInv, [Next]_vars
    PROVE  Lowering'
<1>a. SubType /\ SubEffect /\ Lowering /\ Handles /\ ArgTyped
  BY StepEffect, Zenon DEF SubInv, ExclInv, TypeInv, TypeOK
<1>b. \A t \in Task : pc[t] = "lower" => arg[t] \in Sub
  BY <1>a, Zenon DEF ArgTyped
<1>1. CASE \A u \in Task : PcKept(u)
  <2> SUFFICES ASSUME NEW t \in Task, pc'[t] = "lower"
               PROVE  /\ pc[t] = "lower" /\ arg'[t] = arg[t]
                      /\ subState'[arg[t]] # "unused" /\ holder'[arg[t]] = None
                      /\ arg[t] \notin delivered'
    BY <1>a, LoweringKept
  <2>1. pc[t] = "lower" /\ arg'[t] = arg[t] /\ arg[t] \in Sub
    BY <1>1, <1>b, Zenon DEF PcKept
  <2>2. subState'[arg[t]] # "unused"
    BY <1>a, <2>1, StaysUsed, Zenon DEF Lowering
  <2>3. holder[arg[t]] = None /\ arg[t] \notin delivered /\ subState[arg[t]] # "unused"
    BY <1>a, <2>1, Zenon DEF Lowering
  <2>4. \A u \in Task : Lowered(u) => arg[u] # arg[t]
    BY <1>a, <2>1, ZenonT(40) DEF Lowered, Lowering
  <2>5. holder'[arg[t]] = None /\ arg[t] \notin delivered'
    BY <1>a, <2>1, <2>3, <2>4, ZenonT(40)
       DEF SubType, SubEffect, Quiet, Starts, Imported, Resolves, Resolve, Requests,
           Awaits, Delivers, Deliver, Joins, Drops, Lowered
  <2> QED BY <2>1, <2>2, <2>5, Zenon
<1>2. ASSUME NEW t \in Task, Lowers(t), \A u \in Task : u # t => PcKept(u)
      PROVE  Lowering'
  <2>1. /\ arg'[t] \in Sub /\ subState'[arg'[t]] # "unused"
        /\ holder[arg'[t]] = None /\ arg'[t] \notin delivered
        /\ UNCHANGED <<holder, delivered>>
    BY <1>2, <1>a, Subs, Zenon DEF Lowers, Starts, Handles, Resolved, SubType
  <2>2. \A u \in Task : u # t /\ pc'[u] = "lower" =>
          /\ pc[u] = "lower" /\ arg'[u] = arg[u] /\ subState'[arg[u]] # "unused"
          /\ arg[u] # arg'[t]
    BY <1>2, <1>a, <1>b, StaysUsed, ZenonT(40) DEF PcKept, Lowers, Lowering
  <2> QED BY <1>a, <2>1, <2>2, ZenonT(40) DEF Lowering
<1>3. ASSUME NEW t \in Task, Cancels(t), \A u \in Task : u # t => PcKept(u)
      PROVE  Lowering'
  BY <1>3, <1>a, <1>b, LoweringKept, StaysUsed, Zenon DEF PcKept, Cancels, InCancel, Lowering
<1> QED BY <1>1, <1>2, <1>3, PcStep, Zenon

\* Every action keeps Cancelling.
LEMMA CancellingStep ==
    ASSUME SubInv, [Next]_vars
    PROVE  Cancelling'
<1>a. SubType /\ SubEffect /\ Cancelling /\ Lowering /\ Handles /\ Exclusion
  BY StepEffect DEF SubInv, ExclInv, TypeInv, TypeOK
<1>b. \A t \in Task : Live(t) => Live(t)' \/ pc'[t] = "none"
  BY LiveStays, ZenonT(40) DEF SubInv
<1>c. ASSUME NEW t \in Task, PcKept(t), pc'[t] \in InCancel
      PROVE  /\ pc'[t] = pc[t] /\ arg'[t] = arg[t]
             /\ holder'[arg[t]] = holder[arg[t]] /\ arg[t] \notin delivered'
             /\ arg[t] \notin joined => arg[t] \notin joined'
  <2>1. pc'[t] = pc[t] /\ arg'[t] = arg[t]
    BY <1>c DEF PcKept
  <2>2. arg[t] \in Sub /\ holder[arg[t]] = instOf[t] /\ arg[t] \notin delivered
    BY <1>a, <1>c, <2>1, Zenon DEF Cancelling, InCancel
  <2>3. holder[arg[t]] # None /\ subState[arg[t]] # "unused"
    BY <1>a, <2>2, Subs, Zenon DEF Handles
  <2>4. \A u \in Task, s \in Sub : Owns(u, s) => arg[t] # s
    BY <1>a, <1>c, <2>1, <2>2, Undisturbed, Zenon DEF Owns
  <2> QED BY <1>a, <2>1, <2>2, <2>3, <2>4, Subs, ZenonT(40)
          DEF SubType, SubEffect, Quiet, Starts, Imported, Resolves, Resolve, Requests,
              Awaits, Delivers, Deliver, Joins, Drops, Lowered
<1>1. CASE \A u \in Task : PcKept(u)
  BY <1>a, <1>b, <1>c, <1>1, CancellingKept, Zenon
<1>2. ASSUME NEW t \in Task, Lowers(t), \A u \in Task : u # t => PcKept(u)
      PROVE  Cancelling'
  BY <1>2, <1>a, <1>b, <1>c, CancellingKept, ZenonT(40) DEF Lowers, InCancel
<1>3. ASSUME NEW t \in Task, Cancels(t), \A u \in Task : u # t => PcKept(u)
      PROVE  Cancelling'
  <2>1. Live(t)'
    BY <1>3, <1>b, Zenon DEF Cancels, InCancel
  <2> QED BY <1>3, <1>a, <1>b, <1>c, <2>1, ZenonT(40) DEF Cancels, InCancel, Cancelling
<1> QED BY <1>1, <1>2, <1>3, PcStep

-----------------------------------------------------------------------------
(* What a step may do to the phase of a callee.                            *)

Begun == {"STARTED", "PENDING_CANCEL", "CANCEL_DELIVERED"}

\* No callee moves from one phase to the next.
LEMMA MirrorKept ==
    ASSUME Mirror, \A c \in Callee : subState'[c] = subState[c],
           \A c \in Callee : \/ state'[c] = state[c]
                             \/ state[c] \in Begun /\ state'[c] \in Begun,
           \A c \in Callee : state'[c] = "INITIAL" =>
             /\ c \in parked' => c \in parked
             /\ c \in parked \ parked' => c \in done'
             /\ c \in done => c \in done'
    PROVE  Mirror'
BY Zenon DEF Mirror, Begun, Fresh

\* The callee c does, and its subtask with it.
LEMMA MirrorMoved ==
    ASSUME Mirror, SubType, NEW c \in Callee, NEW st,
           subState' = [subState EXCEPT ![c] = st],
           \/ state'[c] \in Begun /\ st = "STARTED"
           \/ state'[c] = "RESOLVED" /\ st \in Resolved
           \/ state'[c] = "INITIAL" /\ st = "STARTING" /\ c \in parked',
           \A u \in Callee : u # c =>
             /\ state'[u] = state[u]
             /\ (u \in parked' <=> u \in parked) /\ (u \in done' <=> u \in done)
    PROVE  Mirror'
<1>1. subState'[c] = st /\ \A u \in Callee : u # c => subState'[u] = subState[u]
  BY Subs, Zenon DEF SubType
<1> QED BY <1>1, ZenonT(40) DEF Mirror, Begun, Fresh, Resolved

\* Every action keeps Mirror.
LEMMA MirrorStep ==
    ASSUME SubInv, [Next]_vars
    PROVE  Mirror'
<1>a. /\ TaskType /\ SubType /\ SchedType /\ BatonType /\ Exclusion /\ TaskPhase
      /\ Mirror /\ Imports /\ Chain \subseteq Task
  BY ChainType, Zenon DEF SubInv, ExclInv, TypeInv, TypeOK
<1>b. \A c \in Callee : c \in Task /\ c \in Sub /\ c \notin Import
  BY Subs, Zenon
<1>c. ASSUME UNCHANGED <<state, subState, done, parked>> PROVE Mirror'
  BY <1>a, <1>c, MirrorKept, ZenonT(40)
<1>d. ASSUME NEW STATE F, NEW STATE P, Unwind(F, P) \/ Abort(F, P) PROVE Mirror'
  BY <1>a, <1>d, MirrorKept, ZenonT(40) DEF Abort, Unwind, Unpark
<1>e. ASSUME NEW t \in Task, state[t] # "INITIAL" /\ state[t] # "RESOLVED",
             UNCHANGED subState,
             UNCHANGED state \/ \E x \in Begun : state' = [state EXCEPT ![t] = x],
             parked' \ {t} = parked \ {t}, UNCHANGED done
      PROVE  Mirror'
  <2>1. state[t] \in Begun
    BY <1>a, <1>e, Zenon DEF TaskType, TaskState, Begun
  <2>2. \A c \in Callee : \/ state'[c] = state[c]
                          \/ state[c] \in Begun /\ state'[c] \in Begun
    BY <1>a, <1>b, <1>e, <2>1, Zenon DEF TaskType
  <2>3. \A c \in Callee : state'[c] = "INITIAL" => c # t
    BY <1>a, <1>b, <1>e, <2>1, ZenonT(40) DEF TaskType, Begun
  <2> QED BY <1>a, <1>e, <2>2, <2>3, MirrorKept, Zenon
<1>f. ASSUME NEW t \in Task, stack # <<>>, Top = t, state[t] # "RESOLVED",
             NEW st \in Resolved, Resolve(t, st), state' = [state EXCEPT ![t] = "RESOLVED"],
             UNCHANGED parked, done' \in {done, done \cup {t}}
      PROVE  Mirror'
  <2>1. CASE t \notin Callee
    <3>1. UNCHANGED subState
      BY <1>f, <2>1, Subs, Zenon DEF Resolve
    <3> QED BY <1>a, <1>b, <1>f, <2>1, <3>1, MirrorKept, ZenonT(40) DEF TaskType
  <2>2. CASE t \in Callee
    BY <1>a, <1>b, <1>f, <2>2, MirrorMoved, ZenonT(40) DEF Resolve, TaskType
  <2> QED BY <2>1, <2>2, Zenon
<1>g. ASSUME NEW t \in Task, NEW p, NEW b, Block(t, p, b), stack # <<>>, Top = t,
             UNCHANGED subState
      PROVE  Mirror'
  BY <1>a, <1>g, RunningTask, MirrorKept, Zenon DEF Block, ParkLast
<1>h. ASSUME UNCHANGED subState, Continue, UNCHANGED state PROVE Mirror'
  BY <1>c, <1>h, Zenon DEF Continue, schedVars
<1>i. ASSUME UNCHANGED <<state, done, parked>>, NEW h \in Import,
             \A s \in Sub : s # h => subState'[s] = subState[s]
      PROVE  Mirror'
  BY <1>a, <1>b, <1>i, MirrorKept, Zenon
<1>1. ASSUME NEW r \in Root, HostInvoke(r) PROVE Mirror'
  <2>1. r \notin Callee /\ r \in Task
    BY Subs, ZenonT(40) DEF Callee
  <2>2. UNCHANGED <<subState, done>> /\ parked \subseteq parked' /\ parked' \subseteq parked \cup {r}
        /\ (UNCHANGED state \/ state' = [state EXCEPT ![r] = "STARTED"])
    BY <1>1, <2>1, Subs, Zenon DEF HostInvoke, FirstRun, ParkEntry, ParkLast
  <2> QED BY <1>a, <1>b, <2>1, <2>2, MirrorKept, Zenon DEF TaskType
<1>2. ASSUME NEW t \in Task, NEW c \in Callee, NEW how \in {"lower", "call", "invoke"},
             CallTask(t, c, how)
      PROVE  Mirror'
  <2>1. CASE Abort(Chain, Chain) \/ Abort(Chain \cup {c}, Chain)
    BY <1>d, <2>1, ZenonT(40)
  <2>2. CASE FirstRun(c, [pc EXCEPT ![t] = how]) /\ UNCHANGED schedVars
    BY <1>a, <1>b, <2>2, MirrorMoved, ZenonT(40) DEF FirstRun, schedVars, TaskType, Begun
  <2>3. CASE ParkEntry(c)
    BY <1>2, <1>a, <1>b, <2>3, MirrorMoved, Zenon DEF CallTask, Fresh, ParkEntry, ParkLast
  <2> QED BY <1>2, <2>1, <2>2, <2>3, Zenon DEF CallTask
<1>3. ASSUME NEW t \in Task, Exit(t) PROVE Mirror'
  <2>1. CASE shape[t] = "syncopts"
    BY <1>3, <1>f, <2>1, Zenon DEF Exit, Running, At, Resolved, schedVars
  <2>2. CASE shape[t] # "syncopts"
    BY <1>3, <1>a, <1>b, <2>2, MirrorKept, Zenon DEF Exit, subVars, schedVars, TaskType
  <2> QED BY <2>1, <2>2, Zenon
<1>4. ASSUME NEW t \in Task, NEW kind \in {"wait", "yield"}, Suspend(t, kind)
      PROVE  Mirror'
  BY <1>4, <1>a, RunningTask, MirrorKept, Zenon DEF Suspend, Running, At, ParkLast, subVars
<1>5. ASSUME NEW t \in Task, NEW b \in BOOLEAN, WaitBuiltin(t, b) PROVE Mirror'
  <2>1. CASE state' = [state EXCEPT ![t] = "CANCEL_DELIVERED"] /\ Continue
             /\ CancelDeliverable(t)
    BY <1>5, <1>e, <2>1, Zenon DEF WaitBuiltin, CancelDeliverable, Continue, subVars, schedVars,
       Begun
  <2>2. CASE UNCHANGED state /\ Continue
    BY <1>5, <1>h, <2>2, ZenonT(40) DEF WaitBuiltin, subVars
  <2>3. CASE \E p : Block(t, p, b)
    BY <1>5, <1>g, <2>3, ZenonT(40) DEF WaitBuiltin, Running, At, subVars
  <2> QED BY <1>5, <2>1, <2>2, <2>3, Zenon DEF WaitBuiltin
<1>6. ASSUME NEW t \in Task, TaskReturn(t) \/ TaskCancel(t) PROVE Mirror'
  BY <1>6, <1>f, Zenon DEF TaskReturn, TaskCancel, Running, At, Continue, schedVars, Resolved
<1>7. ASSUME NEW t \in Task, NEW b \in BOOLEAN, Poll(t, b) PROVE Mirror'
  <2>1. CASE state' = [state EXCEPT ![t] = "CANCEL_DELIVERED"] /\ CancelDeliverable(t)
             /\ UNCHANGED subVars
    BY <1>7, <1>e, <2>1, Zenon DEF Poll, CancelDeliverable, Continue, subVars, schedVars, Begun
  <2>2. CASE UNCHANGED <<state, subState>>
    BY <1>7, <1>h, <2>2, ZenonT(40) DEF Poll
  <2> QED BY <1>7, <2>1, <2>2, Zenon DEF Poll, Deliver
<1>8. ASSUME NEW t \in Task,
             \/ \E s \in Sub, b \in BOOLEAN : Join(t, s, b) \/ CancelResolved(t, s, b)
             \/ \E s \in Sub : SubtaskDrop(t, s)
             \/ InvokeStarted(t) \/ LowerReturn(t)
      PROVE  Mirror'
  BY <1>8, <1>h, Zenon
     DEF Join, CancelResolved, Deliver, SubtaskDrop, InvokeStarted, LowerReturn,
     subVars
<1>9. ASSUME NEW t \in Task, Fail(t) \/ \E delta \in {-1, 1} : Backpressure(t, delta)
      PROVE  Mirror'
  BY <1>9, <1>c, <1>d, Zenon DEF Fail, Backpressure, taskVars, subVars, schedVars
<1>10. ASSUME NEW t \in Task, NEW h \in Import,
              CallImport(t, h) \/ \E b \in BOOLEAN : CancelImport(t, h, b)
       PROVE  Mirror'
  <2>1. UNCHANGED <<state, done, parked>> /\ (UNCHANGED subState \/
                                     \E st : subState' = [subState EXCEPT ![h] = st])
    BY <1>10 DEF CallImport, CancelImport, taskVars
  <2> QED BY <1>a, <1>i, <2>1, Subs, ZenonT(40) DEF SubType
<1>11. ASSUME NEW t \in Task, NEW c \in Callee, NEW b \in BOOLEAN, CancelPending(t, c, b)
       PROVE  Mirror'
  BY <1>11, <1>b, <1>e, Zenon DEF CancelPending, Continue, schedVars, Begun
<1>12. ASSUME NEW t \in Task, NEW c \in Callee, NEW b \in BOOLEAN, CancelEntry(t, c, b)
       PROVE  Mirror'
  <2>1. CancelledState(c) \in Resolved
    BY Zenon DEF CancelledState, Resolved
  <2>2. state'[c] = "RESOLVED" /\ \A u \in Callee : u # c => state'[u] = state[u]
    BY <1>12, <1>a, <1>b, Zenon DEF CancelEntry, TaskType
  <2> QED BY <1>12, <1>a, <2>1, <2>2, MirrorMoved, Zenon DEF CancelEntry, Unpark
<1>13. ASSUME NEW t \in Task, NEW c \in Callee, NEW b \in BOOLEAN, CancelDeliver(t, c, b)
       PROVE  Mirror'
  BY <1>13, <1>b, <1>e, Zenon DEF CancelDeliver, Unpark, Begun
<1>14. ASSUME NEW t \in Task, NEW c \in Callee, NEW b \in BOOLEAN, CancelDead(t, c, b)
       PROVE  Mirror'
  <2>1. CASE Abort(Chain, Chain)
    BY <1>d, <2>1, Zenon
  <2>2. CASE ~Abort(Chain, Chain)
    BY <1>14, <1>b, <1>e, <2>2, Zenon DEF CancelDead, schedVars, Begun
  <2> QED BY <2>1, <2>2, Zenon
<1>j. ASSUME NEW t \in Task, CompleteOp(t), UNCHANGED done, parked' \ {t} = parked \ {t},
             state[t] # "INITIAL", t \in parked \/ UNCHANGED parked
      PROVE  Mirror'
  <2>1. CASE state' = [state EXCEPT ![t] = "CANCEL_DELIVERED"] /\ CancelDeliverable(t)
             /\ UNCHANGED subState
    BY <1>e, <1>j, <2>1, Zenon DEF CancelDeliverable, Begun
  <2>2. CASE UNCHANGED <<state, subState>>
    BY <1>a, <1>j, <2>2, MirrorKept, Zenon
  <2> QED BY <1>j, <2>1, <2>2, Zenon DEF CompleteOp, Deliver, subVars
<1>15. ASSUME NEW t \in Task, NestedDone(t) PROVE Mirror'
  <2>1. state[t] # "INITIAL"
    BY <1>15, <1>a, RunningTask, Zenon DEF NestedDone
  <2> QED BY <1>15, <1>j, <2>1, Zenon DEF NestedDone, Continue, schedVars
<1>16. ASSUME NEW t \in Task, CallBlocks(t) PROVE Mirror'
  BY <1>16, <1>g, Zenon DEF CallBlocks, At, subVars
<1>17. ASSUME NEW t \in Task, CancelReturn(t) PROVE Mirror'
  <2>1. CASE Block(t, "await", FALSE) /\ UNCHANGED subState
    BY <1>17, <1>g, <2>1, Zenon DEF CancelReturn, At
  <2>2. CASE UNCHANGED <<state, subState>> /\ Continue
    BY <1>h, <2>2, Zenon
  <2> QED BY <1>17, <2>1, <2>2, Zenon DEF CancelReturn, Deliver, subVars
<1>18. ASSUME RunThunk PROVE Mirror'
  <2>1. Head(runq) \in Import
    BY <1>18, <1>a, SMTT(30) DEF RunThunk, SchedType
  <2>2. UNCHANGED <<state, done, parked>> /\ (UNCHANGED subState \/
                                     \E st : subState' = [subState EXCEPT ![Head(runq)] = st])
    BY <1>18 DEF RunThunk, Resolve, taskVars, subVars
  <2> QED BY <1>a, <1>i, <2>1, <2>2, Subs, ZenonT(40) DEF SubType
<1>19. ASSUME NEW t \in Task, ResumeEntry(t) PROVE Mirror'
  <2>1. CASE Unwind(Chain \cup {t}, Chain)
    BY <1>d, <2>1, ZenonT(40)
  <2>2. CASE FirstRun(t, pc) /\ Unpark({t}) /\ t \in Callee
    BY <1>a, <1>b, <2>2, MirrorMoved, ZenonT(40) DEF FirstRun, Unpark, TaskType, Begun
  <2>3. CASE FirstRun(t, pc) /\ Unpark({t}) /\ t \notin Callee
    BY <1>a, <1>b, <2>3, Subs, MirrorKept, Zenon DEF FirstRun, Unpark, TaskType
  <2> QED BY <1>19, <2>1, <2>2, <2>3, ZenonT(40) DEF ResumeEntry
<1>20. ASSUME NEW t \in Task, ResumeWait(t) \/ ResumeYield(t) \/ ResumeBlocked(t)
       PROVE  Mirror'
  <2>0. t \in parked /\ park[t] # "entry"
    BY <1>20, Zenon DEF ResumeWait, ResumeYield, ResumeBlocked, Stepping, FirstReady
  <2>1. t \in parked /\ state[t] # "INITIAL"
    BY <1>a, <2>0, Zenon DEF TaskPhase
  <2>2. CASE Abort(Chain \cup {t}, Chain \cup {t})
    BY <1>d, <2>2, ZenonT(40)
  <2>3. CASE CompleteOp(t) /\ Unpark({t}) /\ UNCHANGED done
    BY <1>j, <2>1, <2>3, ZenonT(40) DEF Unpark
  <2>4. CASE /\ UNCHANGED <<state, subState, done>> /\ Unpark({t})
    BY <1>a, <2>1, <2>4, MirrorKept, Zenon DEF Unpark
  <2>5. CASE /\ state' = [state EXCEPT ![t] = "CANCEL_DELIVERED"] /\ CancelDeliverable(t)
             /\ UNCHANGED <<subState, done>> /\ Unpark({t})
    BY <1>e, <2>5, Zenon DEF CancelDeliverable, Unpark, Begun
  <2>6. CASE ResumeYield(t)
    BY <1>a, <2>4, <2>5, <2>6, ZenonT(40) DEF ResumeYield, CancelDeliverable, subVars, TaskType
  <2> QED BY <1>20, <2>2, <2>3, <2>4, <2>5, <2>6, ZenonT(40)
          DEF ResumeWait, ResumeBlocked, Deliver, subVars
<1>21. ASSUME NoProgress \/ DriveDone \/ HostRests \/ UNCHANGED vars PROVE Mirror'
  BY <1>21, <1>c, <1>d, <1>h, ZenonT(40)
     DEF NoProgress, DriveDone, HostRests, vars, taskVars, subVars,
     schedVars
<1>22. ASSUME NEW t \in Task, GuestStep(t) PROVE Mirror'
  BY <1>22, <1>2, <1>3, <1>4, <1>5, <1>6, <1>7, <1>8, <1>9, <1>10, <1>11, <1>12, <1>13,
     <1>14, ZenonT(40) DEF GuestStep
<1> QED
  BY <1>1, <1>8, <1>15, <1>16, <1>17, <1>18, <1>19, <1>20, <1>21, <1>22, ZenonT(40)
  DEF Next, BuiltinStep, SchedStep

\* A task comes to see a cancellation only by a request, or had it pending.
LEMMA CancelSeen ==
    ASSUME SubInv, [Next]_vars, NEW u \in Task,
           state'[u] \in {"PENDING_CANCEL", "CANCEL_DELIVERED"}
    PROVE  \/ state[u] \in {"PENDING_CANCEL", "CANCEL_DELIVERED"}
           \/ u \in Callee /\ u \in requested'
<1> DEFINE Seen == \/ state[u] \in {"PENDING_CANCEL", "CANCEL_DELIVERED"}
                   \/ u \in Callee /\ u \in requested'
<1>a. TaskType /\ Chain \subseteq Task
  BY ChainType DEF SubInv, ExclInv, TypeInv, TypeOK
<1>b. ASSUME UNCHANGED state PROVE Seen
  BY <1>b, Zenon
<1>c. ASSUME NEW t \in Task, NEW x \in {"STARTED", "RESOLVED"},
             state' = [state EXCEPT ![t] = x]
      PROVE  Seen
  BY <1>a, <1>c, Zenon DEF TaskType
<1>d. ASSUME NEW t \in Task, CancelDeliverable(t),
             state' = [state EXCEPT ![t] = "CANCEL_DELIVERED"]
      PROVE  Seen
  BY <1>a, <1>d, Zenon DEF TaskType, CancelDeliverable
<1>e. ASSUME NEW c \in Callee, NEW x, c \in requested', state' = [state EXCEPT ![c] = x]
      PROVE  Seen
  BY <1>a, <1>e, Subs, Zenon DEF TaskType
<1>f. ASSUME NEW F, NEW P, Unwind(F, P) \/ Abort(F, P) PROVE Seen
  BY <1>b, <1>f, Zenon DEF Abort, Unwind
<1>1. ASSUME NEW r \in Root, HostInvoke(r) PROVE Seen
  BY <1>1, <1>b, <1>c, Subs, Zenon DEF HostInvoke, FirstRun, ParkEntry
<1>2. ASSUME NEW t \in Task, NEW c \in Callee, NEW how \in {"lower", "call", "invoke"},
             CallTask(t, c, how)
      PROVE  Seen
  BY <1>2, <1>b, <1>c, <1>f, Subs, Zenon DEF CallTask, FirstRun, ParkEntry
<1>3. ASSUME NEW t \in Task, Exit(t) \/ TaskReturn(t) \/ TaskCancel(t) PROVE Seen
  BY <1>3, <1>c, ZenonT(40) DEF Exit, TaskReturn, TaskCancel
<1>4. ASSUME NEW t \in Task, NEW b \in BOOLEAN, WaitBuiltin(t, b) \/ Poll(t, b) PROVE Seen
  BY <1>4, <1>b, <1>d, Zenon DEF WaitBuiltin, Poll, Block
<1>5. ASSUME NEW t \in Task,
             \/ \E kind \in {"wait", "yield"} : Suspend(t, kind)
             \/ \E s \in Sub, b \in BOOLEAN : Join(t, s, b) \/ CancelResolved(t, s, b)
             \/ \E s \in Sub : SubtaskDrop(t, s)
             \/ \E h \in Import : CallImport(t, h)
             \/ \E h \in Import, b \in BOOLEAN : CancelImport(t, h, b)
             \/ InvokeStarted(t) \/ LowerReturn(t) \/ CallBlocks(t) \/ CancelReturn(t)
      PROVE  Seen
  <2>1. UNCHANGED state
    BY <1>5, Zenon DEF Suspend, Join, CancelResolved, SubtaskDrop, CallImport, CancelImport,
       InvokeStarted, LowerReturn, CallBlocks, CancelReturn, Block, taskVars
  <2> QED BY <1>b, <2>1, Zenon
<1>6. ASSUME NEW t \in Task, Fail(t) \/ \E delta \in {-1, 1} : Backpressure(t, delta)
      PROVE  Seen
  BY <1>6, <1>b, <1>f, Zenon DEF Fail, Backpressure, taskVars
<1>7. ASSUME NEW t \in Task, NEW c \in Callee, NEW b \in BOOLEAN,
             \/ CancelPending(t, c, b) \/ CancelEntry(t, c, b)
             \/ CancelDeliver(t, c, b) \/ CancelDead(t, c, b)
      PROVE  Seen
  <2>1. CASE Abort(Chain, Chain)
    BY <1>f, <2>1, Zenon
  <2>2. CASE ~Abort(Chain, Chain)
    <3>1. c \in requested' /\ \E x : state' = [state EXCEPT ![c] = x]
      BY <1>7, <2>2, Zenon
         DEF CancelPending, CancelEntry, CancelDeliver, CancelDead, Requested
    <3> QED BY <1>e, <3>1, Zenon
  <2> QED BY <2>1, <2>2, Zenon
<1>8. ASSUME NEW t \in Task, NestedDone(t) \/ ResumeBlocked(t) PROVE Seen
  <2>1. CASE CompleteOp(t)
    BY <1>b, <1>d, <2>1, Zenon DEF CompleteOp
  <2> QED BY <1>8, <1>f, <2>1, Zenon DEF NestedDone, ResumeBlocked
<1>9. ASSUME NEW t \in Task, ResumeEntry(t) PROVE Seen
  BY <1>9, <1>c, <1>f, Zenon DEF ResumeEntry, FirstRun
<1>10. ASSUME NEW t \in Task, ResumeWait(t) PROVE Seen
  BY <1>10, <1>b, <1>d, Zenon DEF ResumeWait
<1>11. ASSUME NEW t \in Task, ResumeYield(t) PROVE Seen
  BY <1>11, <1>a, ZenonT(40) DEF ResumeYield, TaskType
<1>12. ASSUME RunThunk \/ NoProgress \/ DriveDone \/ HostRests \/ UNCHANGED vars PROVE Seen
  BY <1>12, <1>b, <1>f, Zenon DEF RunThunk, NoProgress, DriveDone, HostRests, vars, taskVars
<1>13. ASSUME NEW t \in Task, GuestStep(t) PROVE Seen
  BY <1>13, <1>2, <1>3, <1>4, <1>5, <1>6, <1>7, Zenon DEF GuestStep
<1> QED
  BY <1>1, <1>5, <1>8, <1>9, <1>10, <1>11, <1>12, <1>13, Zenon
  DEF Next, BuiltinStep, SchedStep

-----------------------------------------------------------------------------
(* The invariant, the refinement and what follows.                         *)

\* No call has been made initially.
LEMMA SubInit == Init => SubInv
<1> SUFFICES ASSUME Init PROVE SubInv
  OBVIOUS
<1>1. ExclInv
  BY ExclusionInit, Zenon
<1>2. Chain = {}
  BY SMTT(30) DEF Init, Chain
<1>3. TaskPhase /\ Mirror
  BY <1>2, Subs, ZenonT(40) DEF Init, TaskPhase, Mirror, Resolved
<1>4. Handles /\ Imports
  BY Subs, SMTT(30) DEF Init, Handles, Imports, Resolved
<1>5. Lowering /\ Cancelling
  BY Zenon DEF Init, Lowering, Cancelling
<1>6. CancelOnlyOnRequest /\ NoStolenEvent
  BY Zenon DEF Init, CancelOnlyOnRequest, NoStolenEvent, Resolved
<1> QED BY <1>1, <1>3, <1>4, <1>5, <1>6, Zenon DEF SubInv

\* Every action keeps SubInv.
LEMMA SubStep == SubInv /\ [Next]_vars => SubInv'
<1> SUFFICES ASSUME SubInv, [Next]_vars PROVE SubInv'
  OBVIOUS
<1>1. ExclInv' /\ TaskPhase'
  BY ExclusionStep, TypeStep, PhaseStep, ZenonT(40) DEF SubInv, ExclInv
<1>2. SubType /\ SchedType /\ SubRules /\ SubEffect
  BY StepEffect DEF SubInv, SubRules, ExclInv, TypeInv, TypeOK, CancelOnlyOnRequest
<1>3. SubRules'
  BY <1>2, EffectKeeps, Zenon
<1>4. requested \subseteq requested'
  BY <1>2, Zenon DEF SubEffect, Quiet, Starts, Imported, Resolves, Resolve, Requests, Awaits,
     Delivers, Deliver, Joins, Drops, Lowered
<1>5. CancelOnlyOnRequest'
  BY <1>3, <1>4, CancelSeen, Zenon DEF SubInv, SubRules, CancelOnlyOnRequest
<1> QED BY <1>1, <1>3, <1>5, MirrorStep, LoweringStep, CancellingStep, Zenon
   DEF SubInv, SubRules

\* The strengthened invariant on subtasks holds in every reachable state.
LEMMA SubInductive == Spec => []SubInv
BY SubInit, SubStep, PTL DEF Spec

\* In every reachable state the handle a caller holds agrees with the task of
\* the callee, and holds an event exactly from the resolution to its delivery.
THEOREM HandleTellsTruth == Spec => []SubtaskMirrorsTask
<1>1. SubInv => SubtaskMirrorsTask
  BY Zenon DEF SubInv, Mirror, Handles, SubtaskMirrorsTask
<1> QED BY <1>1, SubInductive, PTL

\* No call ends cancelled, and no task sees a cancellation, that its caller
\* did not ask for.
THEOREM NoSpuriousCancel == Spec => []CancelOnlyOnRequest
<1>1. SubInv => CancelOnlyOnRequest
  BY Zenon DEF SubInv
<1> QED BY <1>1, SubInductive, PTL

\* The event a synchronous subtask.cancel waits for is never in a waitable set
\* from which another task could take it.
THEOREM EventsAreNotStolen == Spec => []NoStolenEvent
<1>1. SubInv => NoStolenEvent
  BY ZenonT(40) DEF SubInv
<1> QED BY <1>1, SubInductive, PTL

\* Every step is a step of the abstract life of one subtask, or none.
LEMMA LifeStep ==
    ASSUME SubType, Handles, SubEffect
    PROVE  [Life!LifeNext]_(Life!lifeVars)
<1> USE DEF Life!LifeNext, Life!lifeVars
<1>1. ASSUME NEW c \in Callee, Starts(c) PROVE Life!LifeNext
  BY <1>1, Subs, Zenon DEF Starts, Life!Begin, Life!Start
<1>2. ASSUME NEW h \in Import, NEW i \in Instance, Imported(h, i) PROVE Life!LifeNext
  BY <1>2, Subs, Zenon DEF Imported, Life!Begin
<1>3. ASSUME NEW s \in Sub, Resolves(s) PROVE Life!LifeNext
  BY <1>3, Zenon DEF Resolves, Resolve, Life!Resolve
<1>4. ASSUME NEW s \in Sub, Requests(s) PROVE Life!LifeNext
  BY <1>4 DEF Requests, Life!Request
<1>5. ASSUME NEW u \in Task, NEW s \in Sub, Delivers(u, s) PROVE Life!LifeNext
  BY <1>5, Zenon DEF Delivers, Deliver, Life!Deliver, Life!Final, Resolved
<1>6. ASSUME NEW t \in Task, Lowered(t) PROVE [Life!LifeNext]_(Life!lifeVars)
  BY <1>6, Zenon DEF Lowered, Life!Deliver, Life!Final, Resolved
<1> QED
  BY <1>1, <1>2, <1>3, <1>4, <1>5, <1>6, ZenonT(40) DEF SubEffect, Quiet, Awaits, Joins, Drops

\* The runtime implements SubtaskLife: whatever tasks, imports, call graph and
\* lift shapes there are, a caller sees every call start at most once, resolve
\* at most once and be reported at most once.
THEOREM ImplementsSubtaskLife == Spec => CallerView
<1>1. Init => Life!LifeInit
  BY DEF Init, Life!LifeInit
<1>2. SubInv /\ [Next]_vars => [Life!LifeNext]_(Life!lifeVars)
  <2>1. ASSUME SubInv, [Next]_vars PROVE [Life!LifeNext]_(Life!lifeVars)
    BY <2>1, StepEffect, LifeStep, Zenon DEF SubInv, ExclInv, TypeInv, TypeOK
  <2> QED BY <2>1, Zenon
<1> QED BY <1>1, <1>2, SubInductive, PTL DEF Spec, CallerView, Life!LifeSpec

=============================================================================
