# A TLA+ model of the wazy runtime's concurrent parts

wazy runs WebAssembly modules and components. Most of its code is a compiler
and a set of system interfaces, sequential and well served by tests. What tests
hardly reach is what several actors do at once:

- the runtime that lets components call each other asynchronously: tasks that
  suspend anywhere and are cancelled anywhere, completions that arrive from
  other goroutines, streams whose two ends race, resources lent across calls
  (`src/internal/component/instance`);
- the lifetime of what the goroutines of one store share: linear memory and its
  pool, waiters on an address, the registry of modules, the garbage collector
  that stops running calls (`src/internal/wasm`);
- the engine's cache of compiled code and its pool of stacks
  (`src/internal/engine/native`).

These are what the modules model.

File names below are relative to `src/internal/component/instance` unless they
start with `src/`.

## 1. The system

| Part | Source | Module |
|---|---|---|
| Scheduler: run queue, parked list, step, nested drives | `sched.go` | `AsyncTasks` (partly) |
| Tasks: states, exclusive entry, backpressure, cancellation | `task.go` | `AsyncTasks`, `SubtaskLife` (partly) |
| Callback tasks and promoted segments | `guest_task.go` | `AsyncTasks` (partly) |
| Stackful tasks: goroutine, baton, reaping | `stackful_task.go` | `AsyncTasks` (partly) |
| Async lifts and host invokes | `async_lift.go`, `instance.go` | `AsyncTasks` (partly) |
| Waitables, waitable sets, subtasks | `waitable.go` | `AsyncTasks`, `SubtaskLife` (partly) |
| Async builtins | `async_builtins.go` | `AsyncTasks` (partly) |
| Host and delegated imports | `async_host_import.go`, `graph.go`, `host_import.go` | `AsyncTasks`, `CallAsync` (partly) |
| CallAsync and the mailbox | `callasync.go` | `CallAsync` |
| Streams and futures | `stream.go`, `stream_builtins.go`, `stream_host.go` | `StreamCopy`, `FutureCopy` (partly) |
| Handle table, resources, lending | `resource.go`, `scope.go`, `host_import.go`, `composition.go` | `HandleTable` (partly) |
| Linear memory lifetime and pool | `src/internal/wasm/memory.go`, `memory_pool.go`, `module_instance.go` | `MemoryLife` (partly) |
| Atomic wait and notify | `src/internal/wasm/memory.go` | `AtomicWait` |
| Store and module registry | `src/internal/wasm/store.go`, `store_module_list.go` | `ModuleRegistry` (partly) |
| Garbage collector | `src/internal/wasm/gc_collect.go`, `gc_heap.go` | `Collector` (partly) |
| Code cache | `src/internal/engine/native/engine_cache.go`, `src/runtime.go` | `CodeCache` (partly) |
| Stack pool, growth, snapshots | `src/internal/engine/native/stack_pool.go`, `call_engine.go` | `StackPool` (partly) |
| Guest threads | `thread.go` | not modelled |
| Call watch | `src/internal/wasm/call_watch.go` | not modelled |
| Component linking, error contexts | `composition.go`, `shim.go`, `errorcontext.go` | not modelled, but for handle translation |
| Canonical ABI, decoders, WIT | `src/internal/component/abi`, `binary` | not modelled |
| Native compiler, instruction semantics | `src/internal/engine` | not modelled |
| Runtime API, file cache, WASI | `src/*.go`, `src/internal/filecache`, `src/imports` | not modelled, but for code references |

Section 7 gives the reasons.

`PROJECT.json` has the full list, the lines each definition translates, and the
hazards: what can go wrong at which line, and the property that would show it.

### How the parts interact

All instances of a composition share one scheduler and run one at a time: one
goroutine holds the *baton*. The host invokes an export, which creates a task.
The task's guest code calls imports, which create subtasks: calls of another
instance's exports (a task there) or of host functions. A task suspends by
returning WAIT or YIELD from its callback, by blocking inside a builtin on a
goroutine of its own (stackful lifts, promoted callback tasks), or at the
instance's entry while the instance is busy. A task that cannot suspend inside
a builtin drives the scheduler from there, nested on the call stack.
`CallAsync` alone lets completions arrive on other goroutines: they are posted
to a mailbox that the driver drains. Calls carry handles: an `own` moves from
the caller's table to the callee's, a `borrow` is lent until the call resolves.

Below components, core modules belong to a store. Instances register by name,
import each other's memories, functions and tables, and are closed by any
goroutine at any time, also while calls run on them. A call registers with the
memories its module reaches, so that a close can tell whether it is alone, and
with the collector, which stops all calls of the store to scan their stacks. It
runs machine code that the engine keeps as long as a compiled module refers to
it, on a stack taken from a pool that all calls of the engine share.

## 2. The modules

### AsyncTasks

State follows the structs: the fields of `task`, `guestTask`, `stackfulTask`,
`Instance`, `subtask` and `sched` are variables, functions from the task,
instance or subtask that has the field. A Boolean field is the set of those for
which it is true. Three variables stand for what Go keeps on its stacks:
`stack` (the tasks with guest frames on the baton holder's call chain), `pc`
(the builtin those frames are in) and `host` (where the host's invoke is).

Actions are the operations: `HostInvoke`, `CallTask` (async or sync lowered, of
another instance), the builtins (`TaskReturn`, `TaskCancel`, `WaitBuiltin`,
`Poll`, `Join`, `SubtaskDrop`, `Backpressure`, `CallImport` and the
`Cancel...` family, one action per state `requestCancellation` finds its task
in), the callback results (`Exit`, `Suspend`), a trap (`Fail`), and the
scheduler's steps (`RunThunk`, `ResumeEntry`, `ResumeWait`, `ResumeYield`,
`ResumeBlocked`, `NoProgress`, `DriveDone`, `HostRests`). Guest code is free: in
every state it may do anything its handles allow.

Left out: borrow counts (see `HandleTable`), context slots, values, `pumping`, `pumpSnapshot`,
spawned threads, tasks of synchronous lifts, set creation and drop, and the
waiter count of a set. There is one waitable set per instance.

### SubtaskLife

The promise to a caller, in five actions: a call begins, starts, may be asked
to cancel once, is resolved once, and its resolution is delivered once. It is
cancelled only on request, and as "before started" only if it did not start.
`AsyncTasks` implements it (`CallerView`), its variables taken as they are.

### CallAsync

Every section under `Instance.amu` is one action, and so is every read or store
of `asyncActive` outside it. The driver (`CallAsync`, `Await`, `pumpPending`),
the canceller, the context's watcher and the I/O goroutines interleave freely.
The guest is a callback task that calls imports and waits for them, by WAIT or
inside `waitable-set.wait`. An I/O goroutine resolves only after its host
function returned, as `async_host_import.go:54` assumes of hosts. Tasks are
frame-free, so the reap in `Cancel` has nothing to do. Plain `Call`s beside a
`CallAsync` are not modelled.

### StreamCopy and FutureCopy

One shared object and its two ends, each held by a guest or by the host. A
parked copy, the copy that meets it, delivery, cancel and drop are the actions.
A guest end is told by an event and leaves COPYING when the event is delivered;
a host end by its callback, during the peer's operation. Elements are counted,
not represented. `Reenter` lets a host callback use its end again where code
follows the notification (`sharedStream.read` and `write`, else arm); anywhere
else such a callback is the same as a later step. An end whose operation
trapped or panicked is not used again. Handing an end to another instance,
own<R> elements and the set checks of the synchronous variants are left out.

### MemoryLife

The struct fields of `MemoryInstance` and `CallSlot`, and for every module and
call handle a program counter and the rest of the loop it is in. A step is a
critical section of `MemoryInstance.Mux` or one atomic operation: a close claims
the storage, scans the slots one by one, and either pools the buffer or leaves
it to the last call out, which re-scans (`exitAfterRelease`). `ResolveImport` and
`Close` race over `ownerClosed`; `BuildMemory` takes a pooled buffer, whose filed
prefix alone is cleared, and `Registered` ends the instantiation.
`FailInstantiate` stands for every error of `instantiate` but a closed owner, at
any point of it: a missing export, a type that does not match, a segment out of
bounds, a trap of the start function. Nobody closes such an instance, nor one
whose second import is refused after its first was counted, so what it counted
stays counted. (An instance that `registerModule` refuses is closed; to its
memories this is a registration with a close right after.) The order in which a
loop visits its memories is left open. Sizes are pages; what a buffer holds is
how many of its pages may be non-zero.

Left out: the start function's own call, which runs while its module is counted
and not yet closable, and the branch of `Grow64` that reallocates
(`src/internal/wasm/memory.go:844`): every buffer has the capacity of the
memory's maximum.

### Collector

Cells, parked flags, `collecting` and `wanted` are variables; each atomic load or
store is a step, and so is each critical section of `gc.mu`. A call registers
(`Register`, `AddCell`, `Publish`), parks around Go code (`EnterGo`, `LeaveGo`,
`Entering`, `Resuming`), stops at safepoints, or collects (`Begin`, `Walk`,
`ScanGCRoots`, `Sweep`). The heap is a set of live references, each with one
field; a handle is never reissued while somebody holds it, which the slot
generations ensure.

### HandleTable

One resource type, one table per instance with the code's last-in first-out
reuse of indices, and entries as objects, since an asynchronous call remembers
entries and a synchronous one indices. `CallSync` and `CallAsync` lift their
arguments one after the other, and an argument that cannot be lifted stops
there; `Start`, `CancelStart`, `ReturnSync`, `FailSync`, `ReturnAsync` and
`Deliver` are the ways on and out. `ResourceDrop` and `DropResource` are the
guest's and the host's drop. With `Nested`, borrows travel inside other values.

### AtomicWait, ModuleRegistry, CodeCache, StackPool

- `AtomicWait`: the waiters' mutex, list and channels of one address. Reading
  the value and parking are separate steps under the mutex; stores are not.
- `ModuleRegistry`: the doubly linked list and the name map, with a close split
  into election (compare-and-swap), removal and release, and the store's close
  walking the list with its mutex held.
- `CodeCache`: the memory lookup, the file lookup, the insertion, each check
  and each failure of `CompileModule` and `InstantiateModule`, with the
  reference each path holds. The file cache is one atomic step.
- `StackPool`: size classes, a `sync.Pool` per class (which may forget), call
  engines that keep their stack after `KeepAfter` releases, growth in two steps
  (the new stack is in use before the old one is released), snapshots and
  restores. A stack is a buffer with a length.

`MCTables` puts these four beside `HandleTable` in one specification: a
behaviour picks one of the five and the others stand still.

## 3. What is checked

| Run | Instance | States | Properties |
|---|---|---|---|
| `tasks_entry` | a stackful task calls three alike tasks, real backpressure at B's entry | 239 k | EntryQueueCount, EntryFIFO |
| `tasks_import` | a callback task and a stackful one share a host import | 124 k | SubtaskMirrorsTask, CancelOnlyOnRequest, NoStolenEvent, CallerView |
| `tasks_reentry` | a stackful and a callback root call a promoted task, also after a failure, fair | 95 k | ExclusiveIffLive, ActiveTaskIsRunner, ReadyIsResumed |
| `callasync` | two calls, two imports, three I/O goroutines, fair | 470 k | CompletionInOnePlace, ActiveTracksCall, AwaitDelivers |
| `streams` | a stream or a future, guest and host ends | 66 k | StreamTypeOK, CancelHitsOwn, ReclaimsOwnBuffer, ProgressConserved, DroppedNeverParks, ReaderNeverDropped, BothOrNeither |
| `memory` | an owner, an importer of its memory and functions, a function importer, a next tenant, two handles | 864 k | MemoryTypeOK, NoPoolUnderCall, NoPoolUnderModule, OneTenant, ImportersCounted, DrainedIsPooled |
| `collector` | two calls of one module, two references, fair | 523 k | ScanStable, RootsAreLive, OneCell, CollectionEnds |
| `tables` | two handle tables; three waiters; three module instances and a name; three compilers; two call engines | 466 k | TablesTypeOK, BorrowedIsOwned, BorrowsCounted, OwnedOnce, NoMissedWake, SleepersListed, RegistryIntact, ClosedOnceGone, RefsCounted, StackFits, StackOneHolder |

Three further configurations of the task model pass: `tasks_main.cfg` (a callback
task of A, a stackful and a callback task of B, 175 k states) with the type
invariant and five of the properties above; `tasks_queue.cfg`, which is
`tasks_entry` with a callback task as the caller (517 k states);
`tasks_promoted.cfg`, which is `tasks_import` with a promoted task in place of the
stackful one (425 k states).

Bounds, and why they suffice:

- Tasks and instances: each task runs once. Two instances with two or three
  tasks give every pair of task shapes a meeting at one entry, and a caller
  with several subtasks; three alike tasks are the smallest queue in which one
  can overtake another. They are interchangeable, hence the symmetry.
- `MaxBackpressure` is the counter's 2^16. It is 2 in `tasks_entry`, so that
  an instance can hold its callers off; in the others it is 1, where the first
  increment traps (their main properties are proved for every value).
- `CallAsync`: two calls one after the other, for what one leaves to the next;
  two goroutines that race to resolve one import, for the one-shot rule.
- Streams: buffers of 0 to 3 elements give zero-length, partial, exact and
  oversized copies; `MaxMoved` (6) allows several partial copies of a buffer.
- `memory`: every role a module can have towards a memory occurs, and a
  call of the owner and one of the importer; one module takes a memory twice, by
  a hold and by an import, so that the second can be refused after the first was
  counted; two pages, so that a memory can
  grow within its reserve; two buffers, so that a pool hit and a fresh one are
  both possible. The buffers are interchangeable.
- `collector`: two calls are the smallest number of which one collects while
  the other registers, parks, resumes or leaves; two references give a chain
  through a field. One of the calls stores references, the other only holds
  them.
- `tables`: two calls in flight between two instances with two handles each,
  with two arguments per call, give the same resource lent twice, an index
  reused during a call, and a failure at the second argument. Three waiters,
  instances or compilers are the smallest number with one in the middle of the
  list, or one that arrives between two others. `WaiterLimit` is the code's
  2^32, here 3. Stack sizes are small numbers with the code's relations: a base
  size, classes that double, a growth to more than twice the length, a copy a
  margin longer, and a ceiling past which a stack does not grow; `KeepAfter` is
  the code's 64, here 1.

Fairness. In `AsyncTasks` the baton's holder keeps running (weak fairness of
scheduler and builtin steps), and guest code that gets the baton again and
again sooner or later returns, suspends or traps (strong fairness of leaving
the guest): `ReadyIsResumed` is about the scheduler, not about guests that
loop. In `CallAsync` every goroutine that can run does; nothing obliges a
caller to call, an import to resolve or a context to end. In `Collector` a call
that can take its next atomic step does, and compiled code reaches a safepoint
sooner or later (it checks on loops and calls); nothing obliges a host function
to return, since a call in Go code is parked. `CHECK_DEADLOCK FALSE` stands
where the system may rest: no more calls, or both ends closed.

`EntryQueueCount` is stated up to the failure of an invoke, `ProgressConserved`
while nothing trapped, `ActiveTracksCall` while no Cancel was made,
`BorrowsCounted` for instances that have not trapped, `RefsCounted` while the
engine is open: what holds after is the subject of section 4, or nobody's
concern any more. `ImportersCounted` and `DrainedIsPooled` count an instantiation
that failed after its import among those that hold the memory, as the code does
(`memory_failed` in section 4). `DroppedNeverParks` is checked with
`Reenter = FALSE`. `BorrowsCounted` does not flag the lends of a call whose later
argument could not be lifted (`host_import.go:797`): its start is stuck with its
lends counted, and its instance has trapped. `OwnedOnce` does cover the arguments
such a call had taken.

## 4. Where the code and its comments disagree

Four runs each show a comment's or a document's claim violated by what the code
does.

- `call_waits`: a pending cancellation wakes a task blocked in a
  sync-lowered call, although the block is not cancellable
  (`stackful_task.go:283`, `guest_task.go:217`); the call returns before its
  callee resolved. `graph.go:1420` calls that block non-cancellable.
- `callasync_cancel`: a Cancel that read `closed` before its call ended clears
  `asyncActive` of the next call (`callasync.go:282`).
- `memory_zero`: a close measures the memory (`src/internal/wasm/module_instance.go:102`)
  before it scans the calls in flight; a call that grows, stores and leaves in
  between leaves pages that are not cleared for the next memory.
  `memory_pool.go:64` says that every pooled buffer is handed out zeroed.
- `handles_nested`: only a parameter that is itself a borrow is lent
  (`host_import.go:997`); one inside a record, list or variant is not, and its
  owner can drop the resource during an asynchronous call.

The following configurations are kept beside them. Each is run with
`tlc -config X.cfg M`, and TLC answers with a counterexample.

| Configuration | Module | Property | What it shows |
|---|---|---|---|
| `poison_entry` | `MCAsyncTasks` | PoisonBlocksEntry | A callback task queued at the entry of an instance that is then poisoned is started there by a later invoke (`guest_task.go:338`). `instance.go:432` says poisoning blocks every later entry. |
| `lost_baton` | `MCAsyncTasks` | BatonNeverLost | `subtask.cancel` of a stackful task that a failed invoke reaped sends on the channel of a goroutine that has exited (`task.go:249`) and waits for ever. |
| `callasync_wait` | `MCCallAsync` | DeadlockIsPermanent | A nested drive reports a permanent deadlock while the completion it waits for is in the mailbox (`async_builtins.go:243`, `sched.go:135`). |
| `streams_callback` | `MCStreams` | HostCopyIsParked | A host callback that copies again while its zero-length copy is being completed has the new copy overwritten (`stream.go:396`); its own callback never fires, though `stream_host.go:123` promises exactly once. |
| `memory_held` | `MCMemory` | NoPoolUnderCall | A call is registered with its module's own memories (`src/internal/wasm/memory.go:254`), not with those it holds through imported functions; closing both modules pools the buffer under it. `memory.go:200` says "every memory its module can reach". |
| `memory_failed` | `MCMemory` | FailedIsNotCounted | An instantiation that fails after it imported a memory is never closed (`src/internal/wasm/store.go:485`), and the count it raised (`store.go:707`, `store.go:1009`) never goes down: the memory is not pooled when its owner closes. `memory.go:111` says that `importers` counts the live instances. |
| `collector_reentry` | `MCCollector` | CollectionEnds | A host function that calls the interpreter handle it was called from registers the same execution twice (`src/internal/engine/interpreter/interpreter.go:1375`); a cell is left behind and the next collection waits for ever. |
| `collector_start` | `MCCollector` | RootsAreLive | A module is in the store's list only after its start function ran (`src/internal/wasm/store.go:454`); what that stored in its globals can be swept. `gc_collect.go:449` says the scan visits every reference held outside a stack. |
| `stack_restores` | `MCTables` | StackOneHolder | A snapshot that was restored and outgrown is in the pool (`src/internal/engine/native/call_engine.go:735`); restored again, the call runs on a pooled stack. `call_engine.go:731` says each buffer is released exactly once. |

More follow from a passing configuration by changing a constant. With
`Reenter = TRUE` in `streams.cfg`, `DroppedNeverParks` fails: a host callback that
closes its end during the copy that notifies it is followed by the parking of
that copy (`stream.go:362`, `stream.go:396`), on a stream that is dropped. With
`Reentrant = {callOwner}` in `memory.cfg`, `NoPoolUnderCall` fails: a handle that a
host function calls again has one slot, which the inner call leaves idle while
the outer one runs. `src/api/wasm.go:406` asks callers not to do that, while
`src/internal/engine/interpreter/call_buffers_test.go:18` expects it to work.
In `tables.cfg`: with
`Faults = {"write"}` or `{"config"}`, `RefsCounted` fails: a compiled module whose
file cache write fails keeps its reference (`src/internal/engine/native/engine.go:243`),
and so does an implicitly compiled one whose instantiation returns before the
store's part (`src/runtime.go:462` gives it back only after). With
`EarlyClose = TRUE`, `RegistryIntact` fails: an instance closed by somebody its
start function let in is registered after it was removed
(`src/internal/wasm/store.go:460`).

## 5. What is proved

The proofs hold for every finite or infinite set of tasks, instances and
imports and every call graph that satisfies `ConstantsAssumption`: roots are not
promoted, a task calls into other instances only, and `MaxBackpressure` is
positive.

| Theorem | Module | States |
|---|---|---|
| `TypeCorrect` | `AsyncTasksProofs` | TypeOK (the type invariant) |
| `MutualExclusion` | `ExclusiveProofs` | ExclusiveIffLive |
| `RunnerIsActive` | `ExclusiveProofs` | ActiveTaskIsRunner |
| `HandleTellsTruth` | `SubtaskProofs` | SubtaskMirrorsTask |
| `NoSpuriousCancel` | `SubtaskProofs` | CancelOnlyOnRequest |
| `EventsAreNotStolen` | `SubtaskProofs` | NoStolenEvent |
| `ImplementsSubtaskLife` | `SubtaskProofs` | CallerView |

The argument, in layers, each using the one before:

1. `TypeInv` is `TypeOK` with `ArgTyped`: a task inside a lower or a cancel
   names a subtask, without which the updates of `subState` are untyped.
2. `ExclInv` adds that no task is on the call chain twice (`NoRepeat`) and none
   on it is parked (`NotParked`). Popping the chain's last task then ends
   exactly that task's hold on its instance.
3. `SubInv` (`SubtaskSteps`, proved in `SubtaskProofs`) relates a task to its
   subtask: the phases agree (`TaskPhase`, `Mirror`), an event is pending
   exactly between resolution and delivery (`Handles`), an import starts before
   its completion is queued (`Imports`), a call being lowered is known to
   nobody else (`Lowering`), and a task inside a cancel still holds its
   instance, so that nobody takes the subtask from it (`Cancelling`). The last
   one is why this layer needs exclusivity.
4. The refinement: under `SubInv` every step changes the subtask variables by
   an action of `SubtaskLife` or not at all.

`SubInv` was checked with TLC on the instances of `tasks_main`, `tasks_import`
and `tasks_reentry` before it was proved.

Only model-checked: `EntryQueueCount`, `EntryFIFO`, and everything about
CallAsync, streams and futures, memory, the collector and the five tables.
Liveness (`ReadyIsResumed`, `AwaitDelivers`, `CollectionEnds`) is out of the
proof system's reach and stays with TLC.

## 6. Plan

1. Proofs about streams and futures: `CancelHitsOwn`, `ReclaimsOwnBuffer`,
   `ProgressConserved`, `DroppedNeverParks`, `BothOrNeither`,
   `ReaderNeverDropped`, for every buffer length. The variables are flat
   functions for that purpose.
2. Proofs about the tables: `NoMissedWake` and `SleepersListed` for any number
   of waiters, `RefsCounted` for any number of compilers, `ClosedOnceGone`.
3. Proofs of `ScanStable`, `CompletionInOnePlace` and `EntryQueueCount`.

## 7. Not modelled

- Guest threads (`thread.go`): they need a table of threads and a second kind
  of park in `AsyncTasks`, whose instances are at the limit of what TLC explores
  in minutes. The same holds for synchronous lifts and for several waitable sets
  and their drop.
- own<R> elements of streams: `StreamCopy` counts elements, `HandleTable` moves
  handles through calls only.
- Call watch: one atomic flag, set by `context.AfterFunc` and polled by machine
  code.
- Canonical ABI, binary decoders, WIT, instruction semantics, the native
  compiler (by far the largest part of the source): sequential transformations
  of unbounded data, without state that outlives a call. A model small enough
  for TLC would keep nothing of what could be wrong in them.
- Component linking and error contexts: static, or a table entry nobody else
  touches.
- WASI and host interfaces, the file cache's files, configuration: system calls
  and API glue.
