----------------------------- MODULE AsyncTasks -----------------------------
(***************************************************************************)
(* The async task runtime of a component composition tree: the shared      *)
(* scheduler (sched.go), the tasks it parks and resumes (task.go,          *)
(* guest_task.go, stackful_task.go), the subtask handles their callers     *)
(* hold (waitable.go), the builtins guest code calls on them               *)
(* (async_builtins.go, async_host_import.go, graph.go) and the host entry  *)
(* that drives everything (async_lift.go).                                 *)
(*                                                                         *)
(* Exactly one goroutine holds the baton.  The Go call chain it stands on  *)
(* is `stack', the sequence of tasks whose guest frames are on it: the     *)
(* last one runs, every other one is inside the builtin its `pc' names.    *)
(* An empty stack is the host's own drive loop.  A task that suspended     *)
(* inside a builtin on a goroutine of its own (a stackful lift, or a       *)
(* promoted callback task) is off the stack, in `parked', with that pc.    *)
(*                                                                         *)
(* A Boolean field is the set of the tasks, instances or subtasks for      *)
(* which it is true.  Mut... definitions are deliberate faults; nothing in *)
(* the specification uses them.                                            *)
(***************************************************************************)
EXTENDS Integers, Sequences, FiniteSets

CONSTANTS
    Task,             \* every task the run may create
    Root,             \* the tasks the host itself invokes
    Import,           \* calls of asynchronous host imports
    Instance,         \* the component instances
    None,
    instOf,           \* task |-> the instance whose guest code it runs
    shape,            \* task |-> how its export is lifted
    Calls,            \* <<t, c>>: t's code may call c, a task or an import
    MaxBackpressure,  \* the value at which backpressure.inc traps (2^16)
    ReenterAfterError \* may the host call again after a call failed?

Callee == Task \ Root
Sub == Callee \cup Import
Shape == {"callback", "promoted", "stackful", "syncopts"}

ASSUME ConstantsAssumption ==
    /\ Root \subseteq Task
    /\ Task \cap Import = {}
    /\ None \notin Task \cup Import \cup Instance
    /\ instOf \in [Task -> Instance]
    /\ shape \in [Task -> Shape]
    /\ \A r \in Root : shape[r] # "promoted"
    /\ Calls \subseteq Task \X Sub
    /\ \A t \in Task, c \in Callee : <<t, c>> \in Calls => instOf[t] # instOf[c]
    /\ MaxBackpressure \in Nat \ {0}
    /\ ReenterAfterError \in BOOLEAN

VARIABLES
    \* The fields of task, guestTask and stackfulTask.
    state, park, cancellable, done,
    pc, arg,    \* the builtin the task's guest frames are in, and its operand
    \* The fields of Instance.
    exclusive, activeTask, mayEnter, numWaitingToEnter, backpressure, poisoned,
    \* The fields of subtask and of its waitable.
    subState, pending, delivered, requested, syncWaiter,
    holder,     \* the instance whose table holds the subtask
    joined,     \* is it in that instance's waitable set?
    \* The fields of sched.
    parked,     \* the suspended tasks ...
    ahead,      \* ... and, for each, the ones registered before it
    runq,       \* the imports whose deferred completion is queued
    \* The baton holder.
    stack,      \* the tasks with guest frames on its call chain
    host,       \* where the host's invoke is
    driver      \* the task that invoke waits for

taskVars == <<state, park, cancellable, done, pc, arg>>
runVars == <<exclusive, activeTask, mayEnter>>
entryVars == <<numWaitingToEnter, backpressure, poisoned>>
subVars == <<subState, pending, delivered, requested, syncWaiter, holder, joined>>
schedVars == <<parked, ahead, runq>>
batonVars == <<stack, host, driver>>
vars == <<taskVars, runVars, entryVars, subVars, schedVars, batonVars>>

TaskState == {"INITIAL", "STARTED", "PENDING_CANCEL", "CANCEL_DELIVERED",
              "RESOLVED"}
Park == {"none", "entry", "wait", "yield", "block"}
\* none: no guest frames.  guest: in guest code.  lower, cancelA, cancelS,
\* call: inside an async lower, an async or a sync subtask.cancel, or a
\* sync-lowered call of the task `arg'.  invoke, drive, drain: the same call
\* by a task that cannot block, as a nested invoke that starts `arg', drives
\* it, and drains what is ready.  wait, waitC: inside waitable-set.wait,
\* non-cancellable or cancellable.  await: a sync subtask.cancel waiting for
\* `arg' to resolve.
PC == {"none", "guest", "lower", "call", "invoke", "drive", "drain",
       "cancelA", "cancelS", "wait", "waitC", "await"}
SubState == {"unused", "STARTING", "STARTED", "RETURNED",
             "CANCELLED_BEFORE_STARTED", "CANCELLED_BEFORE_RETURNED"}
Resolved == {"RETURNED", "CANCELLED_BEFORE_STARTED",
             "CANCELLED_BEFORE_RETURNED"}
HostPhase == {"idle", "start", "drive", "drain", "failed", "hung"}

TaskType ==
    /\ state \in [Task -> TaskState]
    /\ park \in [Task -> Park]
    /\ cancellable \subseteq Task /\ done \subseteq Task
    /\ pc \in [Task -> PC]
    /\ arg \in [Task -> Sub \cup {None}]
RunType ==
    /\ exclusive \in [Instance -> Task \cup {None}]
    /\ activeTask \in [Instance -> Task \cup {None}]
    /\ mayEnter \subseteq Instance
EntryType ==
    /\ numWaitingToEnter \in [Instance -> Int]
    /\ backpressure \in [Instance -> Int]
    /\ poisoned \subseteq Instance
SubType ==
    /\ subState \in [Sub -> SubState]
    /\ pending \subseteq Sub /\ delivered \subseteq Sub
    /\ requested \subseteq Sub /\ syncWaiter \subseteq Sub
    /\ holder \in [Sub -> Instance \cup {None}]
    /\ joined \subseteq Sub
SchedType ==
    /\ parked \subseteq Task
    /\ ahead \in [Task -> SUBSET Task]
    /\ runq \in Seq(Import)
BatonType ==
    /\ stack \in Seq(Task)
    /\ host \in HostPhase
    /\ driver \in Root \cup {None}

\* Every field of every task, instance, subtask, of the scheduler and of the
\* baton holder has a value of its kind: no task state ever reaches a subtask,
\* no handle of a subtask is ever missing where a builtin reads it.
TypeOK == TaskType /\ RunType /\ EntryType /\ SubType /\ SchedType /\ BatonType

Init ==
    /\ state = [t \in Task |-> "INITIAL"]
    /\ park = [t \in Task |-> "none"]
    /\ cancellable = {} /\ done = {}
    /\ pc = [t \in Task |-> "none"]
    /\ arg = [t \in Task |-> None]
    /\ exclusive = [i \in Instance |-> None]
    /\ activeTask = [i \in Instance |-> None]
    /\ mayEnter = Instance /\ poisoned = {}
    /\ numWaitingToEnter = [i \in Instance |-> 0]
    /\ backpressure = [i \in Instance |-> 0]
    /\ subState = [s \in Sub |-> "unused"]
    /\ pending = {} /\ delivered = {} /\ requested = {} /\ syncWaiter = {}
    /\ holder = [s \in Sub |-> None]
    /\ joined = {}
    /\ parked = {}
    /\ ahead = [t \in Task |-> {}]
    /\ runq = <<>>
    /\ stack = <<>>
    /\ host = "idle"
    /\ driver = None

-----------------------------------------------------------------------------
(* Instances, task shapes, the parked list and the call chain.             *)

Stackful(t) == shape[t] \in {"stackful", "syncopts"}

\* task.blocker: may the task suspend mid-call on a goroutine of its own?
CanBlock(t) == Stackful(t) \/ shape[t] = "promoted"

EnterRun(t) ==
    /\ mayEnter' = mayEnter \ {instOf[t]}
    /\ activeTask' = [activeTask EXCEPT ![instOf[t]] = t]
    /\ exclusive' = [exclusive EXCEPT ![instOf[t]] = t]

MutLeaveKeepsActive(i) ==
    /\ mayEnter' = mayEnter \cup {i}
    /\ exclusive' = [exclusive EXCEPT ![i] = None]
    /\ UNCHANGED activeTask

LeaveRun(i) ==
    /\ mayEnter' = mayEnter \cup {i}
    /\ activeTask' = [activeTask EXCEPT ![i] = None]
    /\ exclusive' = [exclusive EXCEPT ![i] = None]

MutSuspendReleases(i) == LeaveRun(i)

SuspendRun(i) ==
    /\ mayEnter' = mayEnter \cup {i}
    /\ activeTask' = [activeTask EXCEPT ![i] = None]
    /\ UNCHANGED exclusive

HasBackpressure(i) == backpressure[i] > 0 \/ exclusive[i] # None

MutMayStartOvertakes(i) == ~HasBackpressure(i)

\* tryEnter's condition: no backpressure, and nobody is queued already.
MayStart(i) == ~HasBackpressure(i) /\ numWaitingToEnter[i] <= 0

MutEntryQueueLeak(i) == UNCHANGED numWaitingToEnter

\* The numWaitingToEnter-- of either resumeReady.
LeaveEntryQueue(i) ==
    numWaitingToEnter' = [numWaitingToEnter EXCEPT ![i] = @ - 1]

HeldByOther(t) == exclusive[instOf[t]] \notin {None, t}

MutParkFirst(t) ==
    /\ parked' = parked \cup {t}
    /\ ahead' = [u \in Task |-> IF u = t THEN {}
                               ELSE IF u \in parked THEN ahead[u] \cup {t}
                               ELSE ahead[u]]

ParkLast(t) ==
    /\ parked' = parked \cup {t}
    /\ ahead' = [ahead EXCEPT ![t] = parked \ {t}]

Unpark(T) ==
    /\ parked' = parked \ T
    /\ ahead' = [t \in Task |-> IF t \in T THEN {} ELSE ahead[t] \ T]

Top == stack[Len(stack)]
At(t, p) == stack # <<>> /\ Top = t /\ pc[t] = p
Running(t) == At(t, "guest")
Chain == {stack[k] : k \in DOMAIN stack}

Push(t) == stack' = Append(stack, t)

\* The running task leaves the call chain; the host's start of a task then
\* becomes its drive.
Pop ==
    /\ stack' = SubSeq(stack, 1, Len(stack) - 1)
    /\ host' = IF Len(stack) = 1 /\ host = "start" THEN "drive" ELSE host

-----------------------------------------------------------------------------
(* Waitables, readiness and the parked tasks step may resume.              *)

\* A pending event of a subtask joined to instance i's waitable set.  One set
\* per instance; which pending member is delivered first is left open.
EventAt(i, s) == holder[s] = i /\ s \in joined /\ s \in pending
SetReady(i) == \E s \in Sub : EventAt(i, s)

\* waitable.getPendingEvent on a resolved subtask: take the event, deliver.
Deliver(s) ==
    /\ pending' = pending \ {s}
    /\ delivered' = delivered \cup {s}
    /\ UNCHANGED <<subState, requested, holder, joined>>

MutResolveNoEvent(s, st) ==
    /\ subState' = IF s \in Sub THEN [subState EXCEPT ![s] = st] ELSE subState
    /\ UNCHANGED <<pending, delivered, requested, syncWaiter, holder, joined>>

\* subtask.resolve, and the event if the subtask already has a table entry.
\* A root task has no subtask.
Resolve(s, st) ==
    /\ subState' = IF s \in Sub THEN [subState EXCEPT ![s] = st] ELSE subState
    /\ pending' = IF s \in Sub /\ holder[s] # None THEN pending \cup {s}
                  ELSE pending
    /\ UNCHANGED <<delivered, requested, syncWaiter, holder, joined>>

CancelDeliverable(t) == state[t] = "PENDING_CANCEL"

\* The predicate the builtin named by pc blocks on.
BlockPred(t) ==
    \/ pc[t] = "wait" /\ SetReady(instOf[t])
    \/ pc[t] = "waitC" /\ (SetReady(instOf[t]) \/ CancelDeliverable(t))
    \/ pc[t] = "await" /\ arg[t] \in pending
    \/ pc[t] = "call" /\ subState[arg[t]] \in Resolved
    \/ pc[t] = "drive" /\ arg[t] \in done

Ready(t) ==
    \/ park[t] = "entry" /\ ~HasBackpressure(instOf[t])
    \/ /\ park[t] = "wait"
       /\ ~HeldByOther(t)
       /\ CancelDeliverable(t) \/ SetReady(instOf[t])
    \/ park[t] = "yield" /\ ~HeldByOther(t)
    \/ park[t] = "block" /\ (CancelDeliverable(t) \/ BlockPred(t))

FirstReady(t) ==
    t \in parked /\ Ready(t) /\ \A u \in ahead[t] : ~Ready(u)

\* Control is in a drive loop whose predicate does not hold yet: the host's
\* own, or one nested in a blocking builtin of an unpromoted callback task.
HostDriving ==
    stack = <<>> /\ (host = "drain" \/ (host = "drive" /\ driver \notin done))
NestedDriving ==
    /\ stack # <<>>
    /\ pc[Top] \in {"wait", "waitC", "await", "drive", "drain"}
    /\ ~BlockPred(Top)
Driving == HostDriving \/ NestedDriving

-----------------------------------------------------------------------------
(* Failure.  An error leaves every frame on the call chain: the tasks in F *)
(* fail, the instances of those in P are poisoned, and the host's invoke   *)
(* reaps what is parked with a goroutine before it returns the error.      *)

Reapable(t) == Stackful(t) \/ park[t] = "block"

Unwind(F, P) ==
    LET D == F \cup {t \in parked : Reapable(t)}
        B == {t \in parked \ F : park[t] = "block"}
        I == {instOf[t] : t \in F \cup B}
    IN /\ done' = done \cup D
       /\ pc' = [t \in Task |-> IF t \in D THEN "none" ELSE pc[t]]
       /\ arg' = [t \in Task |-> IF t \in D THEN None ELSE arg[t]]
       /\ park' = [t \in Task |-> IF t \in D /\ Stackful(t) /\ park[t] = "entry"
                                  THEN "none" ELSE park[t]]
       /\ exclusive' = [i \in Instance |-> IF i \in I THEN None ELSE exclusive[i]]
       /\ activeTask' = [i \in Instance |-> IF i \in I THEN None ELSE activeTask[i]]
       /\ mayEnter' = mayEnter \cup I
       /\ poisoned' = poisoned \cup {instOf[t] : t \in P \cup B}
       /\ syncWaiter' = syncWaiter \ {arg[t] : t \in {u \in F : pc[u] = "await"}}
       /\ Unpark(D)
       /\ stack' = <<>>
       /\ host' = "failed"
       /\ driver' = None
       /\ UNCHANGED <<state, cancellable, subState, pending, delivered, requested,
                      holder, joined, runq>>

Abort(F, P) == Unwind(F, P) /\ UNCHANGED <<numWaitingToEnter, backpressure>>

\* The running task fails: by a trap in its guest code, or by a host-side
\* check that never poisons (bad arguments, callback code or set, an exit
\* before the task resolved).
Fail(t) ==
    /\ Running(t)
    /\ Abort(Chain, Chain) \/ Abort(Chain, Chain \ {t})

-----------------------------------------------------------------------------
(* Starting a task: from the host, from a guest, from the entry queue.     *)

Fresh(t) == state[t] = "INITIAL" /\ t \notin done /\ t \notin parked
Enterable(i) == i \notin poisoned /\ i \in mayEnter

\* firstRun: enterRun, on_start, then guest code (pcs: the pc of the others).
FirstRun(t, pcs) ==
    /\ state' = [state EXCEPT ![t] = "STARTED"]
    /\ pc' = [pcs EXCEPT ![t] = "guest"]
    /\ park' = IF Stackful(t) THEN [park EXCEPT ![t] = "none"] ELSE park
    /\ EnterRun(t)
    /\ subState' = IF t \in Sub THEN [subState EXCEPT ![t] = "STARTED"]
                   ELSE subState
    /\ Push(t)
    /\ UNCHANGED <<cancellable, done, pending, delivered, requested, syncWaiter,
                   holder, joined>>

\* start under backpressure: queue at the instance's entry.
ParkEntry(t) ==
    /\ park' = [park EXCEPT ![t] = "entry"]
    /\ cancellable' = cancellable \cup {t}
    /\ numWaitingToEnter' = [numWaitingToEnter EXCEPT ![instOf[t]] = @ + 1]
    /\ subState' = IF t \in Sub THEN [subState EXCEPT ![t] = "STARTING"]
                   ELSE subState
    /\ ParkLast(t)
    /\ UNCHANGED <<state, done, pending, delivered, requested, syncWaiter, holder,
                   joined, runVars, backpressure, poisoned>>

HostInvoke(r) ==
    /\ host = "idle" \/ (host = "failed" /\ ReenterAfterError)
    /\ Fresh(r) /\ Enterable(instOf[r])
    /\ driver' = r
    /\ \/ /\ MayStart(instOf[r])
          /\ FirstRun(r, pc)
          /\ host' = "start"
          /\ UNCHANGED <<entryVars, parked, ahead>>
       \/ /\ ~MayStart(instOf[r])
          /\ ParkEntry(r)
          /\ host' = "drive"
          /\ UNCHANGED <<stack, pc>>
    /\ UNCHANGED <<arg, runq>>

\* An async lower or a sync-lowered call of an async export of another
\* instance.  on_start may fail to lift an async lower's arguments.
CallTask(t, c, how) ==
    /\ Running(t) /\ <<t, c>> \in Calls /\ Fresh(c)
    /\ how = "call" => CanBlock(t)
    /\ how = "invoke" => ~CanBlock(t) /\ shape[c] # "promoted"
    /\ \/ ~Enterable(instOf[c]) /\ Abort(Chain, Chain)
       \/ /\ Enterable(instOf[c]) /\ MayStart(instOf[c])
          /\ FirstRun(c, [pc EXCEPT ![t] = how])
          /\ arg' = [arg EXCEPT ![t] = c]
          /\ UNCHANGED <<entryVars, schedVars, host, driver>>
       \/ /\ Enterable(instOf[c]) /\ MayStart(instOf[c]) /\ how = "lower"
          /\ Abort(Chain \cup {c}, Chain)
       \/ /\ Enterable(instOf[c]) /\ ~MayStart(instOf[c])
          /\ ParkEntry(c)
          /\ pc' = [pc EXCEPT ![t] = how]
          /\ arg' = [arg EXCEPT ![t] = c]
          /\ UNCHANGED <<runq, batonVars>>

-----------------------------------------------------------------------------
(* Suspension and completion of the running task.                          *)

\* EXIT of a callback, or return of a stackful lift's core function.
Exit(t) ==
    /\ Running(t)
    /\ (shape[t] = "syncopts") # (state[t] = "RESOLVED")
    /\ state' = [state EXCEPT ![t] = "RESOLVED"]
    /\ pc' = [pc EXCEPT ![t] = "none"]
    /\ done' = done \cup {t}
    /\ IF shape[t] = "syncopts" THEN Resolve(t, "RETURNED") ELSE UNCHANGED subVars
    /\ LeaveRun(instOf[t])
    /\ Pop
    /\ UNCHANGED <<park, cancellable, arg, entryVars, schedVars, driver>>

\* The callback loop's frame-free suspension: WAIT or YIELD.
Suspend(t, kind) ==
    /\ Running(t) /\ ~Stackful(t)
    /\ park' = [park EXCEPT ![t] = kind]
    /\ cancellable' = cancellable \cup {t}
    /\ pc' = [pc EXCEPT ![t] = "none"]
    /\ LeaveRun(instOf[t])
    /\ ParkLast(t)
    /\ Pop
    /\ UNCHANGED <<state, done, arg, entryVars, subVars, runq, driver>>

\* block: suspend mid-call on the task's own goroutine, keeping exclusive.
Block(t, p, mayCancel) ==
    /\ park' = [park EXCEPT ![t] = "block"]
    /\ cancellable' = IF mayCancel THEN cancellable \cup {t} ELSE cancellable \ {t}
    /\ pc' = [pc EXCEPT ![t] = p]
    /\ SuspendRun(instOf[t])
    /\ ParkLast(t)
    /\ Pop
    /\ UNCHANGED <<state, done, arg, entryVars, runq, driver>>

\* Continue inside the call chain.
Continue == UNCHANGED <<park, cancellable, done, runVars, entryVars, schedVars,
                        batonVars>>

WaitBuiltin(t, mayCancel) ==
    /\ Running(t)
    /\ LET p == IF mayCancel THEN "waitC" ELSE "wait"
       IN \/ /\ CanBlock(t) /\ mayCancel /\ CancelDeliverable(t)
             /\ state' = [state EXCEPT ![t] = "CANCEL_DELIVERED"]
             /\ UNCHANGED <<pc, arg>> /\ Continue
          \/ /\ CanBlock(t) /\ ~(mayCancel /\ CancelDeliverable(t))
             /\ Block(t, p, mayCancel)
          \/ /\ ~CanBlock(t)
             /\ pc' = [pc EXCEPT ![t] = p]
             /\ UNCHANGED <<state, arg>> /\ Continue
    /\ UNCHANGED subVars

\* The blocking builtin named by pc returns to guest code.
CompleteOp(t) ==
    /\ \/ /\ pc[t] = "waitC" /\ CancelDeliverable(t)
          /\ state' = [state EXCEPT ![t] = "CANCEL_DELIVERED"]
          /\ UNCHANGED subVars
       \/ /\ pc[t] \in {"wait", "waitC"}
          /\ ~(pc[t] = "waitC" /\ CancelDeliverable(t))
          /\ \E s \in Sub : EventAt(instOf[t], s) /\ Deliver(s)
          /\ UNCHANGED <<state, syncWaiter>>
       \/ /\ pc[t] = "await"
          /\ Deliver(arg[t])
          /\ syncWaiter' = syncWaiter \ {arg[t]}
          /\ UNCHANGED state
       \/ /\ pc[t] \in {"call", "drive"}
          /\ UNCHANGED <<state, subVars>>
    /\ pc' = [pc EXCEPT ![t] = IF @ = "drive" THEN "drain" ELSE "guest"]
    /\ arg' = [arg EXCEPT ![t] = None]

\* A nested drive's predicate holds, or the callee of a sync-lowered call
\* resolved before it came back.
NestedDone(t) ==
    /\ stack # <<>> /\ Top = t /\ BlockPred(t)
    /\ CompleteOp(t)
    /\ Continue

InvokeStarted(t) ==
    /\ At(t, "invoke")
    /\ pc' = [pc EXCEPT ![t] = "drive"]
    /\ UNCHANGED <<state, arg, subVars>> /\ Continue

\* The sync-lowered call's callee did not resolve: block until it does.
CallBlocks(t) ==
    /\ At(t, "call") /\ ~BlockPred(t)
    /\ Block(t, "call", FALSE)
    /\ UNCHANGED subVars

\* The epilogue of an async lower: a table entry unless the callee resolved.
LowerReturn(t) ==
    /\ At(t, "lower")
    /\ LET c == arg[t]
       IN IF subState[c] \in Resolved
          THEN delivered' = delivered \cup {c} /\ UNCHANGED holder
          ELSE holder' = [holder EXCEPT ![c] = instOf[t]] /\ UNCHANGED delivered
    /\ pc' = [pc EXCEPT ![t] = "guest"]
    /\ arg' = [arg EXCEPT ![t] = None]
    /\ UNCHANGED <<state, subState, pending, requested, syncWaiter, joined>>
    /\ Continue

MutTaskReturnTwice(t) ==
    /\ Running(t)
    /\ state' = [state EXCEPT ![t] = "RESOLVED"]
    /\ Resolve(t, "RETURNED")
    /\ UNCHANGED <<pc, arg>> /\ Continue

TaskReturn(t) ==
    /\ Running(t) /\ state[t] # "RESOLVED"
    /\ state' = [state EXCEPT ![t] = "RESOLVED"]
    /\ Resolve(t, "RETURNED")
    /\ UNCHANGED <<pc, arg>> /\ Continue

\* The state a cancelled subtask ends in (on_resolve of no values).
CancelledState(s) ==
    IF subState[s] = "STARTING" THEN "CANCELLED_BEFORE_STARTED"
    ELSE "CANCELLED_BEFORE_RETURNED"

\* task.cancel: the guest acknowledges a delivered cancellation.
TaskCancel(t) ==
    /\ Running(t) /\ shape[t] # "syncopts"
    /\ state[t] = "CANCEL_DELIVERED"
    /\ state' = [state EXCEPT ![t] = "RESOLVED"]
    /\ Resolve(t, "CANCELLED_BEFORE_RETURNED")
    /\ UNCHANGED <<pc, arg>> /\ Continue

-----------------------------------------------------------------------------
(* Builtins on subtasks, backpressure and host imports.                    *)

Poll(t, mayCancel) ==
    /\ Running(t)
    /\ \/ /\ mayCancel /\ CancelDeliverable(t)
          /\ state' = [state EXCEPT ![t] = "CANCEL_DELIVERED"]
          /\ UNCHANGED subVars
       \/ /\ ~(mayCancel /\ CancelDeliverable(t))
          /\ \E s \in Sub : EventAt(instOf[t], s) /\ Deliver(s)
          /\ UNCHANGED <<state, syncWaiter>>
    /\ UNCHANGED <<pc, arg>> /\ Continue

Join(t, s, into) ==
    /\ Running(t) /\ holder[s] = instOf[t] /\ s \notin syncWaiter
    /\ joined' = IF into THEN joined \cup {s} ELSE joined \ {s}
    /\ UNCHANGED <<state, pc, arg, subState, pending, delivered, requested,
                   syncWaiter, holder>>
    /\ Continue

SubtaskDrop(t, s) ==
    /\ Running(t) /\ holder[s] = instOf[t] /\ s \in delivered
    /\ holder' = [holder EXCEPT ![s] = None]
    /\ joined' = joined \ {s}
    /\ UNCHANGED <<state, pc, arg, subState, pending, delivered, requested,
                   syncWaiter>>
    /\ Continue

\* The counter is stepped first and checked after: a trap leaves it stepped.
Backpressure(t, delta) ==
    /\ Running(t)
    /\ backpressure' = [backpressure EXCEPT ![instOf[t]] = @ + delta]
    /\ UNCHANGED numWaitingToEnter
    /\ IF backpressure[instOf[t]] + delta \in 0 .. MaxBackpressure - 1
       THEN UNCHANGED <<taskVars, runVars, poisoned, subVars, schedVars, batonVars>>
       ELSE Unwind(Chain, Chain)

\* An async host import: resolved before it returns, deferred to the run
\* queue, or left outstanding.
CallImport(t, h) ==
    /\ Running(t) /\ <<t, h>> \in Calls /\ subState[h] = "unused"
    /\ \/ /\ subState' = [subState EXCEPT ![h] = "RETURNED"]
          /\ delivered' = delivered \cup {h}
          /\ UNCHANGED <<holder, runq>>
       \/ /\ subState' = [subState EXCEPT ![h] = "STARTED"]
          /\ holder' = [holder EXCEPT ![h] = instOf[t]]
          /\ runq' = runq \/ runq' = Append(runq, h)
          /\ UNCHANGED delivered
    /\ UNCHANGED <<taskVars, runVars, entryVars, pending, requested, syncWaiter,
                   joined, parked, ahead, batonVars>>

MutSyncCancelOfJoined(t, s, async) ==
    /\ Running(t) /\ holder[s] = instOf[t]
    /\ s \notin delivered /\ s \notin requested

\* subtask.cancel up to the request: what a cancel of s by t must satisfy ...
MayCancel(t, s, async) ==
    /\ Running(t) /\ holder[s] = instOf[t]
    /\ s \notin delivered /\ s \notin requested
    /\ async \/ s \notin joined

MutRequestForgotten(t, s, async) ==
    /\ pc' = [pc EXCEPT ![t] = IF async THEN "cancelA" ELSE "cancelS"]
    /\ arg' = [arg EXCEPT ![t] = s]
    /\ UNCHANGED <<requested, delivered, syncWaiter, holder, joined>>

\* ... and the request, with t inside the builtin.
Requested(t, s, async) ==
    /\ pc' = [pc EXCEPT ![t] = IF async THEN "cancelA" ELSE "cancelS"]
    /\ arg' = [arg EXCEPT ![t] = s]
    /\ requested' = requested \cup {s}
    /\ UNCHANGED <<delivered, syncWaiter, holder, joined>>

CancelResolved(t, s, async) ==
    /\ MayCancel(t, s, async) /\ subState[s] \in Resolved
    /\ Deliver(s)
    /\ UNCHANGED <<state, pc, arg, syncWaiter>> /\ Continue

\* The import has no cancel hook; or its hook resolves the call at once; or
\* it defers the resolution to the run queue.
CancelImport(t, h, async) ==
    /\ MayCancel(t, h, async) /\ subState[h] \notin Resolved
    /\ Requested(t, h, async)
    /\ \/ UNCHANGED <<subState, pending, runq>>
       \/ /\ \E st \in {"RETURNED", "CANCELLED_BEFORE_RETURNED"} :
               subState' = [subState EXCEPT ![h] = st]
          /\ pending' = pending \cup {h}
          /\ UNCHANGED runq
       \/ runq' = Append(runq, h) /\ UNCHANGED <<subState, pending>>
    /\ UNCHANGED <<state, park, cancellable, done, runVars, entryVars, parked,
                   ahead, batonVars>>

\* requestCancellation's gate on a STARTED task: may it be resumed in place?
ResumeInPlace(c) ==
    /\ c \in cancellable /\ instOf[c] \in mayEnter
    /\ \/ park[c] = "block" /\ ~HeldByOther(c)
       \/ /\ park[c] \notin {"none", "block"} /\ ~Stackful(c)
          /\ exclusive[instOf[c]] = None

\* A STARTED task that cannot be resumed in place: the request stays pending.
CancelPending(t, c, async) ==
    /\ MayCancel(t, c, async)
    /\ state[c] = "STARTED" /\ ~ResumeInPlace(c)
    /\ Requested(t, c, async)
    /\ state' = [state EXCEPT ![c] = "PENDING_CANCEL"]
    /\ UNCHANGED <<subState, pending>> /\ Continue

\* A task parked at entry is resolved without ever running.  A callback task
\* keeps its park kind once it runs, so one that failed in its first run
\* still looks parked here.
CancelEntry(t, c, async) ==
    /\ MayCancel(t, c, async) /\ park[c] = "entry"
    /\ \/ state[c] = "INITIAL"
       \/ state[c] = "STARTED" /\ ResumeInPlace(c)
    /\ Requested(t, c, async)
    /\ state' = [state EXCEPT ![c] = "RESOLVED"]
    /\ done' = done \cup {c}
    /\ park' = IF Stackful(c) THEN [park EXCEPT ![c] = "none"] ELSE park
    /\ subState' = [subState EXCEPT ![c] = CancelledState(c)]
    /\ pending' = pending \cup {c}
    /\ LeaveEntryQueue(instOf[c])
    /\ Unpark({c})
    /\ UNCHANGED <<cancellable, runVars, backpressure, poisoned, runq, batonVars>>

\* A suspended task is resumed in place with TASK_CANCELLED.  Nothing asks
\* whether it is still parked: a failed task at a stale YIELD runs again.
CancelDeliver(t, c, async) ==
    /\ MayCancel(t, c, async)
    /\ state[c] = "STARTED" /\ ResumeInPlace(c)
    /\ \/ park[c] \in {"wait", "block"} /\ c \in parked
       \/ park[c] = "yield"
    /\ state' = [state EXCEPT ![c] = "CANCEL_DELIVERED"]
    /\ pc' = [pc EXCEPT ![c] = "guest", ![t] = IF async THEN "cancelA" ELSE "cancelS"]
    /\ arg' = [arg EXCEPT ![c] = None, ![t] = c]
    /\ requested' = requested \cup {c}
    /\ IF park[c] = "block"
       THEN /\ park' = [park EXCEPT ![c] = "none"]
            /\ cancellable' = cancellable \ {c}
       ELSE UNCHANGED <<park, cancellable>>
    /\ EnterRun(c) /\ Push(c) /\ Unpark({c})
    /\ UNCHANGED <<done, entryVars, subState, pending, delivered, syncWaiter,
                   holder, joined, runq, host, driver>>

\* The other stale park kinds of a task that has already failed.  A stackful
\* goroutine that is gone never takes the baton: the canceller waits for ever.
\* Every other case is an error that traps the canceller.
CancelDead(t, c, async) ==
    /\ MayCancel(t, c, async) /\ c \notin parked
    /\ \/ state[c] = "INITIAL" /\ park[c] = "none"
       \/ /\ state[c] = "STARTED" /\ ResumeInPlace(c)
          /\ park[c] \in {"wait", "block"}
    /\ IF park[c] = "block" /\ Stackful(c)
       THEN /\ Requested(t, c, async)
            /\ state' = [state EXCEPT ![c] = "CANCEL_DELIVERED"]
            /\ host' = "hung"
            /\ UNCHANGED <<park, cancellable, done, runVars, entryVars, subState,
                           pending, schedVars, stack, driver>>
       ELSE Abort(Chain, Chain)

\* Back from the cancel hook: resolved, or BLOCKED, or wait until resolved.
CancelReturn(t) ==
    /\ host # "hung"
    /\ At(t, "cancelA") \/ At(t, "cancelS")
    /\ \/ /\ subState[arg[t]] \in Resolved
          /\ pc' = [pc EXCEPT ![t] = "guest"]
          /\ arg' = [arg EXCEPT ![t] = None]
          /\ Deliver(arg[t])
          /\ UNCHANGED <<state, syncWaiter>> /\ Continue
       \/ /\ subState[arg[t]] \notin Resolved /\ pc[t] = "cancelA"
          /\ pc' = [pc EXCEPT ![t] = "guest"]
          /\ arg' = [arg EXCEPT ![t] = None]
          /\ UNCHANGED <<state, subVars>> /\ Continue
       \/ /\ subState[arg[t]] \notin Resolved /\ pc[t] = "cancelS"
          /\ syncWaiter' = syncWaiter \cup {arg[t]}
          /\ \/ CanBlock(t) /\ Block(t, "await", FALSE)
             \/ /\ ~CanBlock(t)
                /\ pc' = [pc EXCEPT ![t] = "await"]
                /\ UNCHANGED <<state, arg>> /\ Continue
          /\ UNCHANGED <<subState, pending, delivered, requested, holder, joined>>

-----------------------------------------------------------------------------
(* The scheduler: sched.step, and the drive loops around it.               *)

\* A deferred import completion.  It resolves the call unless a cancel hook
\* did; after a request it may resolve it as cancelled.
RunThunk ==
    /\ Driving /\ runq # <<>>
    /\ LET h == Head(runq)
       IN \/ subState[h] \in Resolved /\ UNCHANGED subVars
          \/ subState[h] \notin Resolved /\ Resolve(h, "RETURNED")
          \/ /\ subState[h] \notin Resolved /\ h \in requested
             /\ Resolve(h, "CANCELLED_BEFORE_RETURNED")
    /\ runq' = Tail(runq)
    /\ UNCHANGED <<taskVars, runVars, entryVars, parked, ahead, batonVars>>

Stepping(t, kind) ==
    Driving /\ runq = <<>> /\ FirstReady(t) /\ park[t] = kind

ResumeEntry(t) ==
    /\ Stepping(t, "entry")
    /\ LeaveEntryQueue(instOf[t])
    /\ UNCHANGED backpressure
    /\ \/ /\ FirstRun(t, pc)
          /\ Unpark({t})
          /\ UNCHANGED <<arg, poisoned, runq, host, driver>>
       \/ t \in Callee /\ Unwind(Chain \cup {t}, Chain)

\* A callback task's WAIT: a pending cancel first, else an event of its set.
ResumeWait(t) ==
    /\ Stepping(t, "wait")
    /\ \/ /\ CancelDeliverable(t)
          /\ state' = [state EXCEPT ![t] = "CANCEL_DELIVERED"]
          /\ UNCHANGED subVars
       \/ /\ ~CancelDeliverable(t)
          /\ \E s \in Sub : EventAt(instOf[t], s) /\ Deliver(s)
          /\ UNCHANGED <<state, syncWaiter>>
    /\ pc' = [pc EXCEPT ![t] = "guest"]
    /\ EnterRun(t) /\ Push(t) /\ Unpark({t})
    /\ UNCHANGED <<park, cancellable, done, arg, entryVars, runq, host, driver>>

ResumeYield(t) ==
    /\ Stepping(t, "yield")
    /\ state' = [state EXCEPT ![t] = IF @ = "PENDING_CANCEL"
                                     THEN "CANCEL_DELIVERED" ELSE @]
    /\ pc' = [pc EXCEPT ![t] = "guest"]
    /\ EnterRun(t) /\ Push(t) /\ Unpark({t})
    /\ UNCHANGED <<park, cancellable, done, arg, entryVars, subVars, runq, host,
                   driver>>

\* The baton goes back to the task's goroutine.  A pending cancel makes a
\* blocked task ready even if its block is not cancellable: it then finds no
\* event to take and traps, or, in a sync-lowered call, goes on without its
\* callee's results.
ResumeBlocked(t) ==
    /\ Stepping(t, "block")
    /\ \/ /\ BlockPred(t) \/ pc[t] = "call"
          /\ CompleteOp(t)
          /\ park' = [park EXCEPT ![t] = "none"]
          /\ cancellable' = cancellable \ {t}
          /\ EnterRun(t) /\ Push(t) /\ Unpark({t})
          /\ UNCHANGED <<done, entryVars, runq, host, driver>>
       \/ /\ ~BlockPred(t) /\ pc[t] # "call"
          /\ Abort(Chain \cup {t}, Chain \cup {t})

\* step found nothing to do.
NoProgress ==
    /\ Driving /\ runq = <<>> /\ \A t \in parked : ~Ready(t)
    /\ \/ /\ stack # <<>> /\ pc[Top] = "drain"
          /\ pc' = [pc EXCEPT ![Top] = "guest"]
          /\ UNCHANGED <<state, arg, subVars>> /\ Continue
       \/ /\ stack # <<>> /\ pc[Top] # "drain"
          /\ Abort(Chain, Chain)
       \/ /\ stack = <<>> /\ host = "drain"
          /\ host' = "idle" /\ driver' = None
          /\ UNCHANGED <<taskVars, runVars, entryVars, subVars, schedVars, stack>>
       \/ stack = <<>> /\ host = "drive" /\ Abort({}, {})

\* The invoked task is done: run what is ready before returning its result.
DriveDone ==
    /\ stack = <<>> /\ host = "drive" /\ driver \in done
    /\ host' = "drain"
    /\ UNCHANGED <<taskVars, runVars, entryVars, subVars, schedVars, stack, driver>>

\* The host never has to call again; or the baton is lost and nothing runs.
HostRests ==
    /\ host \in {"idle", "failed", "hung"}
    /\ UNCHANGED vars

\* What the running guest may do next, one disjunct per builtin or return.
GuestStep(t) ==
    \/ Fail(t)
    \/ \E c \in Callee, how \in {"lower", "call", "invoke"} : CallTask(t, c, how)
    \/ Exit(t)
    \/ \E kind \in {"wait", "yield"} : Suspend(t, kind)
    \/ \E b \in BOOLEAN : WaitBuiltin(t, b)
    \/ TaskReturn(t)
    \/ TaskCancel(t)
    \/ \E b \in BOOLEAN : Poll(t, b)
    \/ \E s \in Sub, b \in BOOLEAN : Join(t, s, b)
    \/ \E s \in Sub : SubtaskDrop(t, s)
    \/ \E delta \in {-1, 1} : Backpressure(t, delta)
    \/ \E h \in Import : CallImport(t, h)
    \/ \E s \in Sub, b \in BOOLEAN : CancelResolved(t, s, b)
    \/ \E h \in Import, b \in BOOLEAN : CancelImport(t, h, b)
    \/ \E c \in Callee, b \in BOOLEAN :
         \/ CancelPending(t, c, b)
         \/ CancelEntry(t, c, b)
         \/ CancelDeliver(t, c, b)
         \/ CancelDead(t, c, b)

\* The rest of a builtin the top task is in.
BuiltinStep(t) ==
    \/ NestedDone(t)
    \/ InvokeStarted(t)
    \/ CallBlocks(t)
    \/ LowerReturn(t)
    \/ CancelReturn(t)

\* One step of sched.step, or of the drive loop around it.
SchedStep ==
    \/ RunThunk
    \/ \E t \in Task : \/ ResumeEntry(t)
                       \/ ResumeWait(t)
                       \/ ResumeYield(t)
                       \/ ResumeBlocked(t)
    \/ NoProgress
    \/ DriveDone

Next ==
    \/ \E r \in Root : HostInvoke(r)
    \/ \E t \in Task : GuestStep(t) \/ BuiltinStep(t)
    \/ SchedStep
    \/ HostRests

Spec == Init /\ [][Next]_vars

\* The Go runtime keeps running the goroutine that has the baton; guest code
\* that keeps getting it back sooner or later returns, suspends or traps.
LeaveGuest(t) ==
    Exit(t) \/ (\E kind \in {"wait", "yield"} : Suspend(t, kind)) \/ Fail(t)

FairSpec ==
    /\ Spec
    /\ WF_vars(SchedStep)
    /\ \A t \in Task : WF_vars(BuiltinStep(t)) /\ SF_vars(LeaveGuest(t))

-----------------------------------------------------------------------------
(* Safety.                                                                 *)

Live(t) == t \in Chain \/ (t \in parked /\ park[t] = "block")

\* A task owns its instance's exclusive exactly while it has guest frames, on
\* the baton holder's call chain or on its own blocked goroutine: so no two
\* tasks of an instance ever have frames at the same time, and no instance
\* stays locked by a task that has left it (enterRun, leaveRun, suspendRun).
ExclusiveIffLive ==
    \A i \in Instance, t \in Task :
      exclusive[i] = t <=> Live(t) /\ instOf[t] = i

\* The builtins resolve "the current task" of an instance through activeTask,
\* and entry is refused by mayEnter: both follow the call chain, through every
\* park, inline resume, cancellation and failure.
ActiveTaskIsRunner ==
    \A i \in Instance :
      /\ \A t \in Task : activeTask[i] = t <=> t \in Chain /\ instOf[t] = i
      /\ i \in mayEnter <=> activeTask[i] = None

\* As long as no invoke failed, numWaitingToEnter counts the tasks parked at
\* the instance's entry: a drift would block every later entry or let one
\* overtake the queue (tryEnter reads it).
EntryQueueCount ==
    host # "failed" =>
      \A i \in Instance : numWaitingToEnter[i] =
        Cardinality({t \in parked : instOf[t] = i /\ park[t] = "entry"})

\* The callee's task and the caller's subtask agree: one is resolved exactly
\* when the other is, and the caller's table entry holds an event from the
\* resolution until it is delivered, neither lost nor delivered twice.
SubtaskMirrorsTask ==
    /\ \A c \in Callee : state[c] = "RESOLVED" <=> subState[c] \in Resolved
    /\ \A s \in Sub : holder[s] # None =>
         (s \in pending <=> subState[s] \in Resolved /\ s \notin delivered)

\* A subtask ends cancelled, and a task sees TASK_CANCELLED, only after the
\* caller asked for it (requestCancellation, deliverPendingCancel, OnCancel).
CancelOnlyOnRequest ==
    /\ \A s \in Sub : subState[s] \in Resolved \ {"RETURNED"} => s \in requested
    /\ \A t \in Task : state[t] \in {"PENDING_CANCEL", "CANCEL_DELIVERED"} =>
         t \in Callee /\ t \in requested

\* A subtask whose caller waits for it in a synchronous subtask.cancel is in
\* no waitable set: nobody else can take the event that caller waits for.
NoStolenEvent == syncWaiter \cap joined = {}

\* The baton always comes back: resumeReady is only ever called on a task
\* that is parked, so the goroutine it hands the baton to is there to take it.
BatonNeverLost == host # "hung"

-----------------------------------------------------------------------------
(* Action properties.                                                      *)

\* Entry is first come first served per instance: when a task first runs, no
\* task of its instance was parked at entry before it.
EntryFIFO ==
    [][\A t \in Task :
         state[t] = "INITIAL" /\ state'[t] = "STARTED" =>
           \A u \in parked :
             instOf[u] = instOf[t] /\ park[u] = "entry" /\ u # t =>
               t \in parked /\ u \notin ahead[t]]_vars

\* A sync-lowered call returns to its caller only once the callee resolved
\* (startDelegatedFromBlocker parks the caller until then).
CallWaitsForCallee ==
    [][\A t \in Task :
         pc[t] = "call" /\ pc'[t] = "guest" => subState[arg[t]] \in Resolved]_vars

\* No task enters an instance after a trap has escaped from it: poisoned
\* blocks every later entry.
PoisonBlocksEntry ==
    [][\A t \in Task :
         state[t] = "INITIAL" /\ state'[t] = "STARTED" =>
           instOf[t] \notin poisoned]_vars

-----------------------------------------------------------------------------
(* What a caller sees of its calls.                                        *)

Life == INSTANCE SubtaskLife WITH status <- subState

\* Every call, of a guest task or a host import, through entry parking,
\* cancellation in any state and failure, lives the life SubtaskLife promises.
CallerView == Life!LifeSpec

-----------------------------------------------------------------------------
(* Liveness.                                                               *)

\* No starvation: a parked task that stays ready while an invoke drives the
\* scheduler is resumed, whatever other tasks yield and become ready meanwhile
\* (step scans sched.parked from the front, park appends at the end).
ReadyIsResumed ==
    \A t \in Task :
      t \in parked /\ Ready(t) ~>
        t \notin parked \/ ~Ready(t) \/ host \in {"idle", "failed", "hung"}

=============================================================================
