----------------------------- MODULE CallAsync ------------------------------
(***************************************************************************)
(* Calls whose imports complete on other goroutines (callasync.go).  The   *)
(* driver goroutine runs CallAsync and Await; the I/O goroutines that the  *)
(* host functions spawn post their completions to the instance's mailbox;  *)
(* another goroutine may run PendingCall.Cancel; Await's watcher goroutine *)
(* wakes it when its context ends.  Every section under Instance.amu is    *)
(* one action.                                                             *)
(*                                                                         *)
(* The guest is a callback task that calls host imports and waits for them *)
(* by returning WAIT or inside waitable-set.wait.                          *)
(***************************************************************************)
EXTENDS Integers, Sequences, FiniteSets, SequencesExt

CONSTANTS
    Call,       \* the CallAsync calls
    Import,     \* the asynchronous host imports they may call, each once
    Goroutine,  \* <<import, n>>: goroutines that race to resolve it
    None

ASSUME CallAsyncAssumption == None \notin Call /\ \A g \in Goroutine : g[1] \in Import

VARIABLES
    asyncActive, pending, mailbox, poisoned, \* of Instance
    closed,       \* the calls whose PendingCall is closed
    pc, cur,      \* where the driver is, and on which call
    ctx,          \* the context of the Await in progress
    asleep,       \* the driver is inside acond.Wait
    batch,        \* the completions drainMailbox took
    task, actor,  \* guest tasks, and the one on the driver's stack
    parked, runq, \* of sched
    owner,        \* import |-> the call that called it
    acResolved,   \* AsyncCall.resolved
    resolved,     \* the imports whose subtask is resolved
    event,        \* the imports whose subtask event is pending
    io,           \* I/O goroutine |-> where it is in AsyncCall.Resolve
    cpc, victim   \* where Cancel is, and on which call

instVars == <<asyncActive, pending, mailbox, poisoned>>
drvVars == <<pc, cur, ctx, asleep, batch>>
guestVars == <<task, actor, parked, runq>>
impVars == <<owner, acResolved, resolved, event>>
vars == <<instVars, closed, drvVars, guestVars, impVars, io, cpc, victim>>

PC == {"idle", "install", "activate", "start", "guest", "nested", "drive",
       "drain", "apply", "finish", "deactivate", "rest", "awaiting"}
Ctx == {"none", "never", "live", "done", "told"}

\* Every field keeps the kind of value the code gives it.
TypeOK ==
    /\ asyncActive \in BOOLEAN /\ poisoned \in BOOLEAN /\ asleep \in BOOLEAN
    /\ pending \in Call \cup {None} /\ cur \in Call \cup {None}
    /\ actor \in Call \cup {None} /\ victim \in Call \cup {None}
    /\ mailbox \in Seq(Import) /\ batch \in Seq(Import) /\ runq \in Seq(Import)
    /\ parked \in Seq(Call)
    /\ closed \subseteq Call
    /\ pc \in PC /\ ctx \in Ctx
    /\ cpc \in {"off", "checked", "deactivate"}
    /\ task \in [Call -> {"unused", "live", "done"}]
    /\ owner \in [Import -> Call \cup {None}]
    /\ acResolved \subseteq Import
    /\ resolved \subseteq acResolved /\ event \subseteq resolved
    /\ io \in [Goroutine -> {"none", "spawned", "routed", "over"}]

Init ==
    /\ asyncActive = FALSE /\ pending = None /\ mailbox = <<>> /\ poisoned = FALSE
    /\ closed = {}
    /\ pc = "idle" /\ cur = None /\ ctx = "none" /\ asleep = FALSE /\ batch = <<>>
    /\ task = [p \in Call |-> "unused"] /\ actor = None
    /\ parked = <<>> /\ runq = <<>>
    /\ owner = [k \in Import |-> None]
    /\ acResolved = {} /\ resolved = {} /\ event = {}
    /\ io = [g \in Goroutine |-> "none"]
    /\ cpc = "off" /\ victim = None

-----------------------------------------------------------------------------
(* CallAsync and finishAsync                                               *)

At(l) == pc = l
Goto(l) == pc' = l

CallCheck(p) ==
    /\ At("idle") /\ task[p] = "unused"
    /\ ~poisoned /\ ~asyncActive
    /\ cur' = p /\ Goto("install")
    /\ UNCHANGED <<instVars, closed, ctx, asleep, batch, guestVars, impVars, io, cpc, victim>>

Install ==
    /\ At("install")
    /\ pending' = cur /\ mailbox' = <<>> /\ Goto("activate")
    /\ UNCHANGED <<asyncActive, poisoned, closed, cur, ctx, asleep, batch>>
    /\ UNCHANGED <<guestVars, impVars, io, cpc, victim>>

Activate ==
    /\ At("activate")
    /\ asyncActive' = TRUE /\ Goto("start")
    /\ UNCHANGED <<pending, mailbox, poisoned, closed, cur, ctx, asleep, batch>>
    /\ UNCHANGED <<guestVars, impVars, io, cpc, victim>>

\* gt.start: the instance is free, so the guest's first segment runs at once.
Start ==
    /\ At("start")
    /\ task' = [task EXCEPT ![cur] = "live"]
    /\ actor' = cur /\ Goto("guest")
    /\ UNCHANGED <<instVars, closed, cur, ctx, asleep, batch, parked, runq>>
    /\ UNCHANGED <<impVars, io, cpc, victim>>

\* The locked part of finishAsync; Broadcast wakes Await.
CloseCall(p) ==
    /\ closed' = closed \cup {p}
    /\ pending' = IF pending = p THEN None ELSE pending
    /\ asleep' = FALSE

FinishAsync ==
    /\ At("finish")
    /\ CloseCall(cur) /\ Goto("deactivate")
    /\ UNCHANGED <<asyncActive, mailbox, poisoned, cur, ctx, batch>>
    /\ UNCHANGED <<guestVars, impVars, io, cpc, victim>>

MutDeactivate ==
    /\ At("deactivate")
    /\ asyncActive' = asyncActive /\ ctx' = "none" /\ Goto("idle")
    /\ UNCHANGED <<pending, mailbox, poisoned, closed, cur, asleep, batch>>
    /\ UNCHANGED <<guestVars, impVars, io, cpc, victim>>

\* finishAsync's last store; the call then returns to its caller.
Deactivate ==
    /\ At("deactivate")
    /\ asyncActive' = FALSE /\ ctx' = "none" /\ Goto("idle")
    /\ UNCHANGED <<pending, mailbox, poisoned, closed, cur, asleep, batch>>
    /\ UNCHANGED <<guestVars, impVars, io, cpc, victim>>

-----------------------------------------------------------------------------
(* The guest, on the driver's goroutine                                    *)

\* The host function of an import call: it resolves the call at once, leaves
\* it to a scheduler thunk, or spawns the goroutines that will resolve it.
CallImport(k) ==
    /\ At("guest") /\ owner[k] = None
    /\ owner' = [owner EXCEPT ![k] = actor]
    /\ \/ /\ acResolved' = acResolved \cup {k} /\ resolved' = resolved \cup {k}
          /\ UNCHANGED <<runq, io>>
       \/ /\ runq' = Append(runq, k)
          /\ UNCHANGED <<acResolved, resolved, io>>
       \/ /\ io' = [g \in Goroutine |-> IF g[1] = k THEN "spawned" ELSE io[g]]
          /\ UNCHANGED <<acResolved, resolved, runq>>
    /\ UNCHANGED <<instVars, closed, drvVars, task, actor, parked, event, cpc, victim>>

\* The callback returns WAIT.
Park ==
    /\ At("guest")
    /\ parked' = Append(parked, actor) /\ actor' = None /\ Goto("drive")
    /\ UNCHANGED <<instVars, closed, cur, ctx, asleep, batch, task, runq>>
    /\ UNCHANGED <<impVars, io, cpc, victim>>

\* waitable-set.wait in callback code: a nested drive of the scheduler.
NestedWait ==
    /\ At("guest") /\ Goto("nested")
    /\ UNCHANGED <<instVars, closed, cur, ctx, asleep, batch, guestVars>>
    /\ UNCHANGED <<impVars, io, cpc, victim>>

Exit ==
    /\ At("guest")
    /\ task' = [task EXCEPT ![actor] = "done"] /\ actor' = None /\ Goto("drive")
    /\ UNCHANGED <<instVars, closed, cur, ctx, asleep, batch, parked, runq>>
    /\ UNCHANGED <<impVars, io, cpc, victim>>

\* The task fails, by a trap or by a check of the runtime; only a trap
\* poisons the instance.  The error ends the call being driven, whichever
\* call the task is of.
Trap(trapped) ==
    /\ task' = [task EXCEPT ![actor] = "done"] /\ actor' = None
    /\ poisoned' = (poisoned \/ trapped)
    /\ Goto("finish")
    /\ UNCHANGED <<asyncActive, pending, mailbox, closed, cur, ctx, asleep, batch>>
    /\ UNCHANGED <<parked, runq, impVars, io, cpc, victim>>

GuestFails == At("guest") /\ \E trapped \in BOOLEAN : Trap(trapped)

-----------------------------------------------------------------------------
(* The scheduler, on the driver's goroutine                                *)

Events(p) == {k \in event : owner[k] = p}

\* queueExternalCompletion: one critical section; Signal wakes Await.
MutPostNoSignal(k) ==
    /\ mailbox' = Append(mailbox, k)
    /\ acResolved' = acResolved \cup {k}
    /\ asleep' = asleep

Post(k) ==
    /\ mailbox' = Append(mailbox, k)
    /\ acResolved' = acResolved \cup {k}
    /\ asleep' = FALSE

\* Resolve's inline path: the subtask is resolved and its event installed.
Inline(k) ==
    /\ acResolved' = acResolved \cup {k}
    /\ resolved' = resolved \cup {k} /\ event' = event \cup {k}

\* A deferred completion: while a CallAsync is outstanding its Resolve is
\* posted like one from another goroutine.
RunThunk ==
    /\ runq # <<>>
    /\ runq' = Tail(runq)
    /\ \/ /\ asyncActive /\ Post(Head(runq))
          /\ UNCHANGED <<resolved, event>>
       \/ /\ ~asyncActive /\ Inline(Head(runq))
          /\ UNCHANGED <<mailbox, asleep>>
    /\ UNCHANGED <<asyncActive, pending, poisoned, closed, pc, cur, ctx, batch>>
    /\ UNCHANGED <<task, actor, parked, owner, io, cpc, victim>>

NestedThunk == At("nested") /\ Events(actor) = {} /\ RunThunk

NestedReturns ==
    /\ At("nested")
    /\ \E k \in Events(actor) : event' = event \ {k}
    /\ Goto("guest")
    /\ UNCHANGED <<instVars, closed, cur, ctx, asleep, batch, guestVars>>
    /\ UNCHANGED <<owner, acResolved, resolved, io, cpc, victim>>

\* The nested drive finds no work (a parked task of this instance is not
\* ready while the waiting one holds it) and the builtin traps.
NestedDeadlock ==
    /\ At("nested") /\ Events(actor) = {} /\ runq = <<>>
    /\ Trap(TRUE)

MayDrive == At("drive") /\ task[cur] # "done"

DriveDone ==
    /\ At("drive") /\ task[cur] = "done" /\ Goto("finish")
    /\ UNCHANGED <<instVars, closed, cur, ctx, asleep, batch, guestVars>>
    /\ UNCHANGED <<impVars, io, cpc, victim>>

DriveThunk == MayDrive /\ RunThunk

\* The first parked task with an event is resumed with it.
DriveResume ==
    /\ MayDrive /\ runq = <<>>
    /\ \E i \in DOMAIN parked :
         /\ \A j \in 1..(i - 1) : Events(parked[j]) = {}
         /\ \E k \in Events(parked[i]) : event' = event \ {k}
         /\ actor' = parked[i] /\ parked' = RemoveAt(parked, i)
    /\ Goto("guest")
    /\ UNCHANGED <<instVars, closed, cur, ctx, asleep, batch, task, runq>>
    /\ UNCHANGED <<owner, acResolved, resolved, io, cpc, victim>>

DriveQuiet ==
    /\ MayDrive /\ runq = <<>>
    /\ \A i \in DOMAIN parked : Events(parked[i]) = {}
    /\ Goto("drain")
    /\ UNCHANGED <<instVars, closed, cur, ctx, asleep, batch, guestVars>>
    /\ UNCHANGED <<impVars, io, cpc, victim>>

\* drainMailbox's critical section.
MutTakeKeeps == batch' = mailbox /\ mailbox' = mailbox

TakeMailbox == batch' = mailbox /\ mailbox' = <<>>

\* Nothing was posted: pumpPending returns, to CallAsync or to Await's loop.
Drain ==
    /\ At("drain") /\ TakeMailbox
    /\ \/ /\ mailbox # <<>> /\ Goto("apply") /\ UNCHANGED ctx
       \/ /\ mailbox = <<>> /\ ctx = "none" /\ Goto("rest") /\ UNCHANGED ctx
       \/ /\ mailbox = <<>> /\ ctx # "none" /\ cur \notin closed
          /\ Goto("awaiting") /\ UNCHANGED ctx
       \/ /\ mailbox = <<>> /\ ctx # "none" /\ cur \in closed
          /\ Goto("idle") /\ ctx' = "none"
    /\ UNCHANGED <<asyncActive, pending, poisoned, closed, cur, asleep>>
    /\ UNCHANGED <<guestVars, impVars, io, cpc, victim>>

\* applyQueued on the next completion.
Apply ==
    /\ At("apply")
    /\ resolved' = resolved \cup {Head(batch)} /\ event' = event \cup {Head(batch)}
    /\ batch' = Tail(batch)
    /\ Goto(IF Tail(batch) = <<>> THEN "drive" ELSE "apply")
    /\ UNCHANGED <<instVars, closed, cur, ctx, asleep, guestVars>>
    /\ UNCHANGED <<owner, acResolved, io, cpc, victim>>

\* The results do not fit the import's type, or a cancellation was not asked
\* for: the call fails and the rest of the batch is dropped.
ApplyFails ==
    /\ At("apply") /\ batch' = <<>> /\ Goto("finish")
    /\ UNCHANGED <<instVars, closed, cur, ctx, asleep, guestVars>>
    /\ UNCHANGED <<impVars, io, cpc, victim>>

-----------------------------------------------------------------------------
(* Await, its watcher, Cancel, and the I/O goroutines                      *)

\* Await on an open call; its context may be one that never ends.
AwaitBegin ==
    /\ At("rest") /\ cur \notin closed
    /\ \E c \in {"never", "live"} : ctx' = c
    /\ Goto("awaiting")
    /\ UNCHANGED <<instVars, closed, cur, asleep, batch, guestVars, impVars, io, cpc, victim>>

\* Done is closed: Await, or the caller, has the answer.
HandleDone ==
    /\ At("rest") /\ cur \in closed /\ Goto("idle")
    /\ UNCHANGED <<instVars, closed, cur, ctx, asleep, batch, guestVars, impVars, io, cpc, victim>>

\* Await's critical section, entered first and after each wake-up.
CtxErr == ctx \in {"done", "told"}

AwaitCheck ==
    /\ At("awaiting") /\ ~asleep
    /\ \/ /\ mailbox = <<>> /\ cur \notin closed /\ ~CtxErr
          /\ asleep' = TRUE /\ UNCHANGED <<pc, ctx>>
       \/ /\ cur \in closed /\ Goto("idle") /\ ctx' = "none" /\ UNCHANGED asleep
       \/ /\ cur \notin closed /\ CtxErr
          /\ Goto("rest") /\ ctx' = "none" /\ UNCHANGED asleep
       \/ /\ mailbox # <<>> /\ cur \notin closed /\ ~CtxErr
          /\ Goto("drive") /\ UNCHANGED <<ctx, asleep>>
    /\ UNCHANGED <<instVars, closed, cur, batch, guestVars, impVars, io, cpc, victim>>

CtxEnds ==
    /\ ctx = "live" /\ ctx' = "done"
    /\ UNCHANGED <<instVars, closed, pc, cur, asleep, batch, guestVars, impVars, io, cpc, victim>>

Watcher ==
    /\ ctx = "done" /\ ctx' = "told" /\ asleep' = FALSE
    /\ UNCHANGED <<instVars, closed, pc, cur, batch, guestVars, impVars, io, cpc, victim>>

\* Cancel: its check of `closed', then finishAsync, whose store comes last.
\* reapParkedGoroutines then finds no task with a goroutine of its own.
CancelCheck ==
    /\ cpc = "off" /\ cur # None /\ cur \notin closed
    /\ pc = "rest" \/ ctx # "none"
    /\ cpc' = "checked" /\ victim' = cur
    /\ UNCHANGED <<instVars, closed, drvVars, guestVars, impVars, io>>

CancelFinish ==
    /\ cpc = "checked" /\ CloseCall(victim) /\ cpc' = "deactivate"
    /\ UNCHANGED <<asyncActive, mailbox, poisoned, pc, cur, ctx, batch>>
    /\ UNCHANGED <<guestVars, impVars, io, victim>>

CancelDeactivate ==
    /\ cpc = "deactivate" /\ asyncActive' = FALSE /\ cpc' = "off"
    /\ UNCHANGED <<pending, mailbox, poisoned, closed, drvVars, guestVars, impVars, io, victim>>

\* AsyncCall.Resolve on an I/O goroutine.  The host function that spawned it
\* has returned (CallImport is one step), so inCall is false: Resolve loads
\* asyncActive, and then posts.
Route(g) ==
    /\ io[g] = "spawned" /\ asyncActive
    /\ io' = [io EXCEPT ![g] = "routed"]
    /\ UNCHANGED <<instVars, closed, drvVars, guestVars, impVars, cpc, victim>>

PostExternal(g) ==
    /\ io[g] = "routed" /\ g[1] \notin acResolved
    /\ io' = [io EXCEPT ![g] = "over"]
    /\ Post(g[1])
    /\ UNCHANGED <<asyncActive, pending, poisoned, closed, pc, cur, ctx, batch>>
    /\ UNCHANGED <<guestVars, owner, resolved, event, cpc, victim>>

\* No CallAsync is outstanding any more, or another goroutine resolved the
\* call: Resolve panics.  The host's goroutine recovers, or is lost with it.
ResolvePanics(g) ==
    /\ \/ io[g] = "spawned" /\ ~asyncActive
       \/ io[g] = "routed" /\ g[1] \in acResolved
    /\ io' = [io EXCEPT ![g] = "over"]
    /\ UNCHANGED <<instVars, closed, drvVars, guestVars, impVars, cpc, victim>>

\* asyncActive was cleared under a driver that still runs a scheduler step:
\* the unsynchronised read of `pumping' lets Resolve through.
ResolveInline(g) ==
    /\ io[g] = "spawned" /\ pc \in {"guest", "nested", "drive"} /\ ~asyncActive
    /\ g[1] \notin acResolved
    /\ io' = [io EXCEPT ![g] = "over"]
    /\ Inline(g[1])
    /\ UNCHANGED <<instVars, closed, drvVars, guestVars, owner, cpc, victim>>

-----------------------------------------------------------------------------
Caller ==
    \/ \E p \in Call : CallCheck(p)
    \/ AwaitBegin
    \/ CancelCheck

Driver ==
    \/ Install \/ Activate \/ Start \/ FinishAsync \/ Deactivate
    \/ \E k \in Import : CallImport(k)
    \/ Park \/ NestedWait \/ Exit \/ GuestFails
    \/ NestedThunk \/ NestedReturns \/ NestedDeadlock
    \/ DriveDone \/ DriveThunk \/ DriveResume \/ DriveQuiet
    \/ Drain \/ Apply \/ ApplyFails
    \/ HandleDone \/ AwaitCheck

Canceller == CancelFinish \/ CancelDeactivate

IO(g) == Route(g) \/ PostExternal(g) \/ ResolvePanics(g) \/ ResolveInline(g)

Next ==
    \/ Caller \/ Driver \/ Canceller
    \/ CtxEnds \/ Watcher
    \/ \E g \in Goroutine : IO(g)

Spec == Init /\ [][Next]_vars

\* The Go scheduler runs every goroutine that can run.  Nothing obliges the
\* caller to call, an import to be resolved, or a context to end.
FairSpec ==
    /\ Spec
    /\ WF_vars(Driver) /\ WF_vars(Canceller) /\ WF_vars(Watcher)
    /\ \A g \in Goroutine : WF_vars(PostExternal(g))

-----------------------------------------------------------------------------
(* Properties                                                              *)

Copies(k, s) == Cardinality({i \in DOMAIN s : s[i] = k})

\* A completion that queueExternalCompletion accepted for an open call is in
\* exactly one place: in the mailbox, in the batch drainMailbox took, or
\* applied to its subtask (until the call fails, in finishAsync).  None is
\* lost or applied twice, however Resolve, the drain, Cancel and the next
\* CallAsync interleave.
CompletionInOnePlace ==
    \A k \in acResolved :
      LET n == Copies(k, mailbox) + Copies(k, batch)
                 + (IF k \in resolved THEN 1 ELSE 0)
      IN  n <= 1 /\ (owner[k] \notin closed /\ pc # "finish" => n = 1)

\* While no Cancel was called, asyncActive and pending say exactly whether a
\* call is outstanding: from CallAsync's activation to finishAsync's store.
ActiveTracksCall ==
    victim = None =>
      /\ asyncActive <=> pc \notin {"idle", "install", "activate"}
      /\ (pending # None) <=> pc \notin {"idle", "install", "deactivate"}
      /\ pending \in {None, cur}

\* A call that CallAsync handed out and nobody ended keeps the mailbox open:
\* asyncActive stays set, so that Resolve from another goroutine is posted.
CallKeepsMailbox ==
    pc \in {"rest", "awaiting"} /\ cur \notin closed => asyncActive

\* The scheduler's deadlock verdict is final: when the nested drive of
\* waitable-set.wait reports one, no completion the task waits for has been
\* posted.
DeadlockIsPermanent ==
    [][NestedDeadlock => \A i \in DOMAIN mailbox : owner[mailbox[i]] # actor]_vars

\* No wake-up is lost: a completion posted to a call whose Await is blocked
\* reaches the guest, unless the call or the Await ends first.
AwaitDelivers ==
    \A k \in Import :
      (pc = "awaiting" /\ k \in acResolved \ resolved /\ owner[k] = cur)
        ~> (k \in resolved \ event \/ owner[k] \in closed \/ pc = "rest")

=============================================================================
