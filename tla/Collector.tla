------------------------------- MODULE Collector -------------------------------
(***************************************************************************)
(* The store's collector (gc_collect.go) and the calls it stops: the       *)
(* lock-free registration of calls in flight, the parking points, the      *)
(* stop-the-world handshake over cells, parked flags and collecting, the   *)
(* scan of the parked stacks and the sweep.                                *)
(*                                                                         *)
(* An execution is a callEngine with its GCExecution; every execution has  *)
(* a goroutine.  Steps are single atomic operations and critical sections  *)
(* of gc.mu; what a step writes that nobody else can see change yet is     *)
(* written in it.  A reference is a handle, slot and generation together:  *)
(* a handle that somebody still holds is never handed out again.           *)
(***************************************************************************)
EXTENDS Naturals, Sequences, FiniteSets, SequencesExt

CONSTANTS Execs, Refs, Modules,
    ModuleOf,     \* the module an execution's function belongs to
    HasStart,     \* the modules with a start function, or an initializer that allocates
    Writers,      \* the executions whose functions store references
    Reentered,    \* the interpreter handles a host function calls again
    None, Null

VARIABLES
    pc,           \* where each execution is
    then,         \* where it goes on when waitOut is over
    depth,        \* the calls it is inside of
    gcExec,       \* whether callEngine.gcExec is set
    cells,        \* gcController.execs, oldest first
    cell,         \* GCExecution.cell
    mu, waiters,  \* gcController.mu and cond
    collecting, wanted, parked,
    pause,        \* the pause flag of each execution
    at, hand,     \* the collector's place in the cells, the execution it took from one
    marked,       \* what its scan has marked
    live,         \* the objects of GCHeap
    stack,        \* the references on an execution's value stack
    field,        \* the reference an object holds
    global,       \* the reference a module's global holds
    moduleList,   \* Store.moduleList
    started       \* the modules whose start function was called

lockVars == <<mu, waiters>>
flagVars == <<collecting, wanted, parked, pause>>
cellVars == <<cells, cell>>
scanVars == <<at, hand, marked>>
heapVars == <<live, stack, field, global>>
storeVars == <<moduleList, started>>
vars == <<pc, then, depth, gcExec, cellVars, lockVars, flagVars, scanVars, heapVars,
          storeVars>>

InFlight == Range(cells) \ {None}

Init ==
    /\ pc = [e \in Execs |-> "out"]
    /\ then = [e \in Execs |-> "out"]
    /\ depth = [e \in Execs |-> 0]
    /\ gcExec = [e \in Execs |-> FALSE]
    /\ cells = <<>>
    /\ cell = [e \in Execs |-> 0]
    /\ mu = None
    /\ waiters = {}
    /\ collecting = FALSE
    /\ wanted = FALSE
    /\ parked = [e \in Execs |-> FALSE]
    /\ pause = [e \in Execs |-> FALSE]
    /\ at = 0
    /\ hand = None
    /\ marked = {}
    /\ live = {}
    /\ stack = [e \in Execs |-> {}]
    /\ field = [r \in Refs |-> Null]
    /\ global = [m \in Modules |-> Null]
    /\ moduleList = {}
    /\ started = {}

Goto(e, where) == pc' = [pc EXCEPT ![e] = where]

\* The load of collecting that follows what a call published: go on, or wait the
\* collection out first.
LoadCollecting(e, next) ==
    /\ Goto(e, IF collecting THEN "waitOut" ELSE next)
    /\ then' = [then EXCEPT ![e] = IF collecting THEN next ELSE @]
    /\ UNCHANGED <<depth, gcExec, cellVars, lockVars, flagVars, scanVars, heapVars,
                   storeVars>>

-----------------------------------------------------------------------------
(* Joining and leaving the calls in flight *)

\* RegisterGCExecutionInto up to the cell, by a call of a module of the store or by
\* instantiate for the start function: the first walk of take ...
Register(e) ==
    /\ pc[e] = "out" \/ (pc[e] = "go" /\ e \in Reentered /\ depth[e] = 1)
    /\ IF ModuleOf[e] \in moduleList
       THEN UNCHANGED started
       ELSE /\ ModuleOf[e] \in HasStart \ started
            /\ started' = started \cup {ModuleOf[e]}
    /\ depth' = [depth EXCEPT ![e] = @ + 1]
    /\ parked' = [parked EXCEPT ![e] = FALSE]
    /\ gcExec' = [gcExec EXCEPT ![e] = TRUE]
    /\ IF \E i \in DOMAIN cells : cells[i] = None
       THEN \E i \in DOMAIN cells :
               /\ cells[i] = None
               /\ cells' = [cells EXCEPT ![i] = e]
               /\ cell' = [cell EXCEPT ![e] = i]
               /\ Goto(e, "joined")
       ELSE Goto(e, "add") /\ UNCHANGED cellVars
    /\ UNCHANGED <<then, lockVars, collecting, wanted, pause, scanVars, heapVars,
                   moduleList>>

\* ... which found every cell taken: add one under the mutex.
AddCell(e) ==
    /\ pc[e] = "add" /\ mu = None
    /\ cells' = Append(cells, e)
    /\ cell' = [cell EXCEPT ![e] = Len(cells')]
    /\ Goto(e, "joined")
    /\ UNCHANGED <<then, depth, gcExec, lockVars, flagVars, scanVars, heapVars,
                   storeVars>>

\* publishGCExecution after take.
Publish(e) == pc[e] = "joined" /\ LoadCollecting(e, "wasm")

\* Mutant: a host function that panics unwinds past Unregister.
UnregisterMutant(e) ==
    /\ pc[e] \in {"wasm", "go"}
    /\ stack' = [stack EXCEPT ![e] = {}]
    /\ depth' = [depth EXCEPT ![e] = IF pc[e] = "go" THEN 0 ELSE @]
    /\ IF pc[e] = "go"
       THEN Goto(e, "out") /\ UNCHANGED cells
       ELSE cells' = [cells EXCEPT ![cell[e]] = None] /\ Goto(e, "left")
    /\ UNCHANGED <<then, gcExec, cell, lockVars, flagVars, scanVars, live, field,
                   global, storeVars>>

\* Unregister's compare-and-swap, at a return, or when a host function panics;
\* nil after a nested call on the same handle cleared gcExec.
Unregister(e) ==
    /\ pc[e] \in {"wasm", "go"}
    /\ stack' = [stack EXCEPT ![e] = IF depth[e] > 1 THEN @ ELSE {}]
    /\ IF gcExec[e] /\ cells[cell[e]] = e
       THEN cells' = [cells EXCEPT ![cell[e]] = None] /\ Goto(e, "left") /\ UNCHANGED depth
       ELSE /\ Goto(e, IF depth[e] > 1 THEN "go" ELSE "out")
            /\ depth' = [depth EXCEPT ![e] = @ - 1]
            /\ UNCHANGED cells
    /\ UNCHANGED <<then, gcExec, cell, lockVars, flagVars, scanVars, live, field,
                   global, storeVars>>

\* The rest of Unregister, and gcExec = nil after it.
Left(e) ==
    /\ pc[e] = "left"
    /\ LET next == IF depth[e] > 1 THEN "go" ELSE "out" IN
       /\ Goto(e, IF collecting THEN "waitOut" ELSE next)
       /\ then' = [then EXCEPT ![e] = IF collecting THEN next ELSE @]
    /\ depth' = [depth EXCEPT ![e] = @ - 1]
    /\ gcExec' = [gcExec EXCEPT ![e] = FALSE]
    /\ UNCHANGED <<cellVars, lockVars, flagVars, scanVars, heapVars, storeVars>>

-----------------------------------------------------------------------------
(* Calls from wasm into Go *)

EnterGo(e) ==
    /\ pc[e] = "wasm"
    /\ IF gcExec[e]
       THEN parked' = [parked EXCEPT ![e] = TRUE] /\ Goto(e, "entering")
       ELSE Goto(e, "go") /\ UNCHANGED parked
    /\ UNCHANGED <<then, depth, gcExec, cellVars, lockVars, collecting, wanted, pause,
                   scanVars, heapVars, storeVars>>

\* Mutant: a collection under way is not told.
EnteringMutant(e) ==
    /\ pc[e] = "entering"
    /\ Goto(e, "go")
    /\ UNCHANGED <<then, depth, gcExec, cellVars, lockVars, flagVars, scanVars,
                   heapVars, storeVars>>

Entering(e) ==
    /\ pc[e] = "entering"
    /\ Goto(e, IF collecting THEN "wake" ELSE "go")
    /\ UNCHANGED <<then, depth, gcExec, cellVars, lockVars, flagVars, scanVars,
                   heapVars, storeVars>>

\* wake: Broadcast inside the mutex.
Wake(e) ==
    /\ pc[e] = "wake" /\ mu = None
    /\ waiters' = {}
    /\ Goto(e, "go")
    /\ UNCHANGED <<then, depth, gcExec, cellVars, mu, flagVars, scanVars, heapVars,
                   storeVars>>

LeaveGo(e) ==
    /\ pc[e] = "go"
    /\ IF gcExec[e]
       THEN parked' = [parked EXCEPT ![e] = FALSE] /\ Goto(e, "resuming")
       ELSE Goto(e, "wasm") /\ UNCHANGED parked
    /\ UNCHANGED <<then, depth, gcExec, cellVars, lockVars, collecting, wanted, pause,
                   scanVars, heapVars, storeVars>>

\* Mutant: the call goes on without looking for a collection.
ResumingMutant(e) ==
    /\ pc[e] = "resuming"
    /\ Goto(e, "wasm")
    /\ UNCHANGED <<then, depth, gcExec, cellVars, lockVars, flagVars, scanVars,
                   heapVars, storeVars>>

\* leaveGo after it unparked.
Resuming(e) == pc[e] = "resuming" /\ LoadCollecting(e, "wasm")

\* The end of waitOut.
Resume(e) ==
    /\ parked' = [parked EXCEPT ![e] = FALSE]
    /\ Goto(e, then[e])
    /\ then' = [then EXCEPT ![e] = "out"]

\* waitOut, from its Lock to its first Wait or to its end.
WaitOut(e) ==
    /\ pc[e] = "waitOut" /\ mu = None
    /\ IF collecting
       THEN /\ parked' = [parked EXCEPT ![e] = TRUE]
            /\ waiters' = {e}
            /\ Goto(e, "waiting")
            /\ UNCHANGED then
       ELSE /\ waiters' = {}
            /\ Resume(e)
    /\ UNCHANGED <<depth, gcExec, cellVars, mu, collecting, wanted, pause,
                   scanVars, heapVars, storeVars>>

\* A Wait of waitOut that was woken up.
Waiting(e) ==
    /\ pc[e] = "waiting" /\ e \notin waiters /\ mu = None
    /\ IF collecting
       THEN waiters' = waiters \cup {e} /\ UNCHANGED <<pc, then, parked>>
       ELSE Resume(e) /\ UNCHANGED waiters
    /\ UNCHANGED <<depth, gcExec, cellVars, mu, collecting, wanted, pause,
                   scanVars, heapVars, storeVars>>

-----------------------------------------------------------------------------
(* Safepoint *)

\* The execution that finds a collection wanted runs it: up to the pause flags.
Begin(e) ==
    /\ wanted' = FALSE
    /\ collecting' = TRUE
    /\ parked' = [parked EXCEPT ![e] = TRUE]
    /\ pause' = [x \in Execs |-> IF x \in InFlight \ {e} THEN TRUE ELSE pause[x]]
    /\ mu' = e
    /\ at' = Len(cells)
    /\ marked' = {}
    /\ Goto(e, "walk")
    /\ UNCHANGED hand

NothingWanted(e) ==
    /\ pause' = [pause EXCEPT ![e] = FALSE]
    /\ parked' = [parked EXCEPT ![e] = FALSE]
    /\ Goto(e, "wasm")
    /\ UNCHANGED <<wanted, collecting, mu, scanVars>>

\* A parking point that sees the pause flag: parkLocked up to its first Wait, its
\* return or its collection.
Safepoint(e) ==
    /\ pc[e] = "wasm" /\ pause[e] /\ gcExec[e] /\ mu = None
    /\ IF collecting
       THEN /\ parked' = [parked EXCEPT ![e] = TRUE]
            /\ waiters' = {e}
            /\ Goto(e, "standing")
            /\ UNCHANGED <<collecting, wanted, pause, mu, scanVars>>
       ELSE /\ IF wanted THEN Begin(e) ELSE NothingWanted(e)
            /\ UNCHANGED waiters
    /\ UNCHANGED <<then, depth, gcExec, cellVars, heapVars, storeVars>>

\* A Wait of parkLocked that was woken up: the loop starts over.
Standing(e) ==
    /\ pc[e] = "standing" /\ e \notin waiters /\ mu = None
    /\ IF collecting
       THEN /\ waiters' = waiters \cup {e}
            /\ UNCHANGED <<pc, flagVars, mu, scanVars>>
       ELSE /\ IF wanted THEN Begin(e) ELSE NothingWanted(e)
            /\ UNCHANGED waiters
    /\ UNCHANGED <<then, depth, gcExec, cellVars, heapVars, storeVars>>

\* othersParkedLocked looks at one cell; a call that moves makes the collector
\* wait, which gives the mutex up, and then look at all of them again.
Walk(e) ==
    /\ pc[e] = "walk"
    /\ IF at = 0
       THEN Goto(e, "scan") /\ at' = Len(cells) /\ UNCHANGED lockVars
       ELSE LET x == cells[at] IN
            IF x \notin {None, e} /\ ~parked[x]
            THEN /\ mu' = None
                 /\ waiters' = waiters \cup {e}
                 /\ Goto(e, "walkWait")
                 /\ UNCHANGED at
            ELSE at' = at - 1 /\ UNCHANGED <<pc, lockVars>>
    /\ UNCHANGED <<then, depth, gcExec, cellVars, flagVars, hand, marked, heapVars,
                   storeVars>>

WalkAgain(e) ==
    /\ pc[e] = "walkWait" /\ e \notin waiters /\ mu = None
    /\ mu' = e
    /\ at' = Len(cells)
    /\ Goto(e, "walk")
    /\ UNCHANGED <<then, depth, gcExec, cellVars, waiters, flagVars, hand, marked,
                   heapVars, storeVars>>

-----------------------------------------------------------------------------
(* The collection *)

\* collectGarbageLocked takes the execution out of one cell ...
TakeInHand(e) ==
    /\ pc[e] = "scan" /\ hand = None /\ at > 0
    /\ hand' = cells[at]
    /\ at' = at - 1
    /\ UNCHANGED <<pc, then, depth, gcExec, cellVars, lockVars, flagVars, marked,
                   heapVars, storeVars>>

\* ... and marks what is on its stack (ScanGCRoots) ...
ScanGCRoots(e) ==
    /\ pc[e] = "scan" /\ hand # None
    /\ marked' = marked \cup (stack[hand] \cap live)
    /\ hand' = None
    /\ UNCHANGED <<pc, then, depth, gcExec, cellVars, lockVars, flagVars, at, heapVars,
                   storeVars>>

\* Mutant: fields are not followed.
ReachableMutant(roots) == roots

\* The mark loop: what is reachable through the fields.
Reachable(roots) ==
    LET step(S) == S \cup ({field[r] : r \in S} \cap live)
        reach[n \in Nat] == IF n = 0 THEN roots ELSE step(reach[n - 1])
    IN  reach[Cardinality(Refs)]

\* scanModuleRootsLocked.
ModuleRoots == {global[m] : m \in moduleList} \cap live

\* ... and after the last cell marks from the modules, sweeps, and lets everyone go.
\* It frees nothing when some call could not offer all of its references.
Sweep(e) ==
    /\ pc[e] = "scan" /\ hand = None /\ at = 0
    /\ \E complete \in BOOLEAN :
          live' = IF complete THEN Reachable(marked \cup ModuleRoots) ELSE live
    /\ field' = [r \in Refs |-> IF r \in live' THEN field[r] ELSE Null]
    /\ collecting' = FALSE
    /\ parked' = [parked EXCEPT ![e] = FALSE]
    /\ pause' = [x \in Execs |-> IF x \in InFlight THEN FALSE ELSE pause[x]]
    /\ waiters' = {}
    /\ mu' = None
    /\ marked' = {}
    /\ Goto(e, "wasm")
    /\ UNCHANGED <<then, depth, gcExec, cellVars, wanted, at, hand, stack, global,
                   storeVars>>

-----------------------------------------------------------------------------
(* Guest code *)

Held == UNION {stack[e] : e \in Execs} \cup {field[r] : r \in Refs}
            \cup {global[m] : m \in Modules}

\* GCHeap.Alloc, which may ask for a collection.
Alloc(e) ==
    /\ pc[e] = "wasm"
    /\ \E r \in Refs \ (live \cup Held) :
          /\ live' = live \cup {r}
          /\ stack' = [stack EXCEPT ![e] = @ \cup {r}]
    /\ \E crossed \in BOOLEAN : Goto(e, IF crossed THEN "request" ELSE "wasm")
    /\ UNCHANGED <<then, depth, gcExec, cellVars, lockVars, flagVars, scanVars, field,
                   global, storeVars>>

\* RequestGC: the mutex is taken only to set wanted.
RequestGC(e) ==
    /\ pc[e] = "request"
    /\ collecting \/ wanted \/ mu = None
    /\ wanted' = (wanted \/ ~collecting)
    /\ pause' = [x \in Execs |-> pause[x] \/ (x \in InFlight /\ ~collecting)]
    /\ Goto(e, "wasm")
    /\ UNCHANGED <<then, depth, gcExec, cellVars, lockVars, collecting, parked,
                   scanVars, heapVars, storeVars>>

\* global.set and global.get, struct.set and struct.get.  A stack keeps its
\* references until the call returns.
SetGlobal(e) ==
    /\ pc[e] = "wasm" /\ e \in Writers
    /\ \E r \in stack[e] \cup {Null} : global' = [global EXCEPT ![ModuleOf[e]] = r]
    /\ UNCHANGED <<pc, then, depth, gcExec, cellVars, lockVars, flagVars, scanVars,
                   live, stack, field, storeVars>>

SetField(e) ==
    /\ pc[e] = "wasm" /\ e \in Writers
    /\ \E r \in stack[e] : \E s \in stack[e] \cup {Null} : field' = [field EXCEPT ![r] = s]
    /\ UNCHANGED <<pc, then, depth, gcExec, cellVars, lockVars, flagVars, scanVars,
                   live, stack, global, storeVars>>

Get(e) ==
    /\ pc[e] = "wasm"
    /\ \E r \in ({global[ModuleOf[e]]} \cup {field[s] : s \in stack[e]}) \ {Null} :
          stack' = [stack EXCEPT ![e] = @ \cup {r}]
    /\ UNCHANGED <<pc, then, depth, gcExec, cellVars, lockVars, flagVars, scanVars,
                   live, field, global, storeVars>>

\* registerModule, at the end of Instantiate.
RegisterModule(m) ==
    /\ m \notin moduleList
    /\ m \in HasStart => m \in started /\ \A e \in Execs : ModuleOf[e] = m => pc[e] = "out"
    /\ moduleList' = moduleList \cup {m}
    /\ UNCHANGED <<pc, then, depth, gcExec, cellVars, lockVars, flagVars, scanVars,
                   heapVars, started>>

-----------------------------------------------------------------------------
\* What an execution's goroutine does by itself once it has started on it.
Step(e) ==
    \/ AddCell(e) \/ Publish(e) \/ Left(e) \/ Entering(e) \/ Wake(e) \/ Resuming(e)
    \/ WaitOut(e) \/ Waiting(e) \/ Standing(e) \/ Walk(e) \/ WalkAgain(e)
    \/ TakeInHand(e) \/ ScanGCRoots(e) \/ Sweep(e) \/ RequestGC(e)

\* What the guest and the host decide.
Guest(e) ==
    Alloc(e) \/ SetGlobal(e) \/ SetField(e) \/ Get(e)

Next ==
    \/ \E m \in Modules : RegisterModule(m)
    \/ \E e \in Execs :
          Step(e) \/ Guest(e) \/ Register(e) \/ Unregister(e) \/ EnterGo(e)
          \/ LeaveGo(e) \/ Safepoint(e)

\* A goroutine that can go on does, a mutex is not withheld for ever, and running
\* guest code reaches a parking point: loop headers and function entries poll, and
\* the runtime preempts compiled code that does not return by itself.
Fairness == \A e \in Execs : WF_vars(Step(e)) /\ WF_vars(Safepoint(e))

Spec == Init /\ [][Next]_vars
FairSpec == Spec /\ Fairness

-----------------------------------------------------------------------------
(* Properties *)

\* The type invariant.
CollectorTypeOK ==
    /\ \A e \in Execs : stack[e] \subseteq Refs /\ then[e] \in {"out", "wasm", "go"}
    /\ Range(cells) \subseteq Execs \cup {None}
    /\ cell \in [Execs -> 0 .. Len(cells)]
    /\ mu \in Execs \cup {None} /\ hand \in Execs \cup {None} /\ waiters \subseteq Execs
    /\ collecting \in BOOLEAN /\ wanted \in BOOLEAN
    /\ parked \in [Execs -> BOOLEAN] /\ pause \in [Execs -> BOOLEAN]
    /\ marked \subseteq live /\ live \subseteq Refs
    /\ field \in [Refs -> Refs \cup {Null}] /\ global \in [Modules -> Refs \cup {Null}]

\* While a collection scans, no call of the store runs guest code, and the call
\* it has in hand neither runs nor has handed its stack back: "of those two
\* store-then-load pairs at least one side sees the other's store"
\* (gc_collect.go:52).
ScanStable ==
    \A e \in Execs : pc[e] = "scan" =>
        \A x \in Execs \ {e} :
            /\ pc[x] \notin {"wasm", "request"}
            /\ x = hand => pc[x] # "out"

\* A reference the guest still holds, on a stack, in a field or in a global, is
\* never swept.
RootsAreLive ==
    /\ \A e \in Execs : stack[e] \subseteq live
    /\ \A r \in live : field[r] \in live \cup {Null}
    /\ \A m \in Modules : global[m] \in live \cup {Null}

\* Between its registration and its Unregister a call sits in one cell, and
\* outside of them in none, so that a collection neither misses a call nor waits
\* for one that is over ("e must not be registered already", gc_collect.go:128).
OneCell ==
    \A e \in Execs :
        Cardinality({i \in DOMAIN cells : cells[i] = e})
            = IF pc[e] \in {"out", "add", "left"}
                 \/ (pc[e] \in {"waitOut", "waiting"} /\ then[e] = "out")
              THEN 0 ELSE 1

\* A collection ends, whatever calls start, return, enter and leave Go meanwhile.
CollectionEnds == collecting ~> ~collecting
===============================================================================
