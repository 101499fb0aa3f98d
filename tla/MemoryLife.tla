------------------------------ MODULE MemoryLife ------------------------------
(***************************************************************************)
(* The life of linear memory buffers: module instances that own, import or *)
(* hold a memory are instantiated and closed by any goroutine while calls  *)
(* run on it, and the buffer goes back to the pool, once, when nobody can  *)
(* reach it any more (memory.go, memory_pool.go, module_instance.go and    *)
(* the imports of store.go).                                               *)
(*                                                                         *)
(* A handle is a callEngine with its CallSlot; a handle's goroutine and a  *)
(* module's closing goroutine are the actors.  Steps are the critical      *)
(* sections of MemoryInstance.Mux and the single atomic operations on the  *)
(* slots and on Closed.  Sizes are in pages; every buffer has the same     *)
(* capacity, MaxPages.                                                     *)
(***************************************************************************)
EXTENDS Naturals, Sequences, FiniteSets, FiniteSetsExt, Functions

CONSTANTS Mods, Mems, Bufs, Handles,
    OwnerOf,      \* the module that declares a memory
    Imports,      \* the memories a module imports
    Holds,        \* the memories it holds because it imports functions or tables
    ModOf,        \* the module a handle's function belongs to
    Reentrant,    \* the handles a host function calls again from inside their call
    GrowsInGo,    \* the handles whose memory.grow goes through Grow64
    Closers,      \* the modules somebody closes
    MaxPages,     \* the capacity of a buffer
    MaxDepth,     \* how deep a handle is re-entered
    NoBuf, Nobody

VARIABLES
    pc,           \* where each module's and each handle's goroutine is
    todo,         \* the memories its loop has still to visit, with what for
    scan,         \* the slots its scan has still to look at
    hit,          \* whether its scan found a call in flight
    out,          \* the buffer it is about to pool, with its dirty prefix
    Closed,       \* ModuleInstance.Closed
    importers, ownerClosed, released,
    pendingRelease, \* whether a close stashed the backing for the last call out
    Mux,          \* the actor inside the memory's mutex
    inFlight,     \* CallSlot.inFlight
    depth,        \* the calls a handle is inside of
    backing,      \* the buffer of a memory
    sizeBytes,    \* its logical size, in pages
    dirty,        \* how many pages of a buffer, from its start, may not be zero
    pool,         \* the length a pooled buffer was filed with, or Nobody
    puts          \* how often a memory's buffer was pooled

actorVars == <<pc, todo, scan, hit, out>>
memVars == <<importers, ownerClosed, released, pendingRelease, Mux>>
bufVars == <<backing, sizeBytes, dirty, pool, puts>>
vars == <<actorVars, Closed, memVars, inFlight, depth, bufVars>>

Actors == Mods \cup Handles

\* A module imports from other modules: it is not registered before it is built.
ASSUME MemoryAssumption ==
    /\ IsFiniteSet(Mods) /\ IsFiniteSet(Mems)
    /\ OwnerOf \in [Mems -> Mods] /\ ModOf \in [Handles -> Mods]
    /\ Imports \in [Mods -> SUBSET Mems] /\ Holds \in [Mods -> SUBSET Mems]
    /\ \A mem \in Mems : mem \notin Imports[OwnerOf[mem]] \cup Holds[OwnerOf[mem]]
    /\ Mods \cap Handles = {} /\ Nobody \notin Actors /\ NoBuf \notin Bufs
    /\ MaxPages \in Nat \ {0} /\ MaxDepth \in Nat \ {0}

\* ModuleInstance.Memories, and how instantiation, a close and a call's exit go
\* through them: one loop after another, each in an order that is left open (Go's
\* for a map, the indices of the memories for a slice, holds before imports for
\* what is imported from one module).
Owned == [m \in Mods |-> {mem \in Mems : OwnerOf[mem] = m}]
Memories == [m \in Mods |-> Owned[m] \cup Imports[m]]
Orders(S) == Bijection(1..Cardinality(S), S)
Loops(first, second) == {s \o t : s \in Orders(first), t \in Orders(second)}
ImportLoops(m) == Loops(Holds[m] \X {"holder"} \cup Imports[m] \X {"importer"},
                        Owned[m] \X {"build"})
CloseLoops(m) == Loops(Owned[m] \X {"owner"} \cup Imports[m] \X {"importer"},
                       Holds[m] \X {"holder"})
ExitLoops(m) == Loops(Memories[m] \X {"exit"}, {})

\* The handles whose slot CallSlotFor registered with a memory.
Callers == [mem \in Mems |-> {h \in Handles : mem \in Memories[ModOf[h]]}]

Cur(a) == Head(todo[a])[1]
How(a) == Head(todo[a])[2]

Init ==
    /\ pc = [a \in Actors |-> IF a \in Mods THEN "none" ELSE "idle"]
    /\ todo = [a \in Actors |-> <<>>]
    /\ scan = [a \in Actors |-> {}]
    /\ hit = [a \in Actors |-> FALSE]
    /\ out = [a \in Actors |-> <<>>]
    /\ Closed = [m \in Mods |-> FALSE]
    /\ importers = [mem \in Mems |-> 0]
    /\ ownerClosed = [mem \in Mems |-> FALSE]
    /\ released = [mem \in Mems |-> FALSE]
    /\ pendingRelease = [mem \in Mems |-> FALSE]
    /\ Mux = [mem \in Mems |-> Nobody]
    /\ inFlight = [h \in Handles |-> "idle"]
    /\ depth = [h \in Handles |-> 0]
    /\ backing = [mem \in Mems |-> NoBuf]
    /\ sizeBytes = [mem \in Mems |-> 0]
    /\ dirty = [b \in Bufs |-> 0]
    /\ pool = [b \in Bufs |-> Nobody]
    /\ puts = [mem \in Mems |-> 0]

Goto(a, where) == pc' = [pc EXCEPT ![a] = where]

\* The end of a close's or an exit's loop: the close is over, the call has left.
Leave(h) ==
    /\ depth' = [depth EXCEPT ![h] = @ - 1]
    /\ Goto(h, IF depth[h] > 1 THEN "run" ELSE "idle")

Done(a) == IF a \in Mods THEN Goto(a, "closed") /\ UNCHANGED depth ELSE Leave(a)

\* On to the loop's next memory.
Skip(a) ==
    /\ todo' = [todo EXCEPT ![a] = Tail(@)]
    /\ IF Len(todo[a]) = 1 THEN Done(a) ELSE Goto(a, "next") /\ UNCHANGED depth

-----------------------------------------------------------------------------
(* Instantiation *)

\* instantiate looks its imports up by name: their modules are registered then.
StartInstantiate(m) ==
    /\ pc[m] = "none"
    /\ \A mem \in Imports[m] \cup Holds[m] :
          pc[OwnerOf[mem]] = "live"
    /\ Goto(m, "resolve")
    /\ \E loop \in ImportLoops(m) : todo' = [todo EXCEPT ![m] = loop]
    /\ UNCHANGED <<scan, hit, out, Closed, memVars, inFlight, depth, bufVars>>

\* Mutant: the import is counted before the owner's close is looked at.
ResolveImportMutant(m) ==
    /\ pc[m] = "resolve" /\ todo[m] # <<>> /\ How(m) # "build" /\ Mux[Cur(m)] = Nobody
    /\ importers' = [importers EXCEPT ![Cur(m)] = @ + 1]
    /\ IF ownerClosed[Cur(m)]
       THEN Goto(m, "failed") /\ UNCHANGED todo
       ELSE todo' = [todo EXCEPT ![m] = Tail(@)] /\ UNCHANGED pc
    /\ UNCHANGED <<scan, hit, out, Closed, ownerClosed, released, pendingRelease,
                   Mux, inFlight, depth, bufVars>>

\* holdMemoriesOf, and the memory case of resolveImports, for one memory.
ResolveImport(m) ==
    /\ pc[m] = "resolve" /\ todo[m] # <<>> /\ How(m) # "build" /\ Mux[Cur(m)] = Nobody
    /\ IF ownerClosed[Cur(m)]
       THEN Goto(m, "failed") /\ UNCHANGED <<todo, importers>>
       ELSE /\ importers' = [importers EXCEPT ![Cur(m)] = @ + 1]
            /\ todo' = [todo EXCEPT ![m] = Tail(@)]
            /\ UNCHANGED pc
    /\ UNCHANGED <<scan, hit, out, Closed, ownerClosed, released, pendingRelease,
                   Mux, inFlight, depth, bufVars>>

\* instantiate also gives up for reasons of its own: a missing export, a type that
\* does not match, a segment out of bounds, a trap of the start function.  Nobody
\* closes such an instance, so what it counted stays counted; one without imports
\* leaves nothing behind.
FailInstantiate(m) ==
    /\ pc[m] = "resolve" /\ Imports[m] \cup Holds[m] # {}
    /\ Goto(m, "failed")
    /\ UNCHANGED <<todo, scan, hit, out, Closed, memVars, inFlight, depth, bufVars>>

\* getPooledMemoryBuffer clears the prefix the buffer was filed with; sync.Pool
\* may also have nothing to give, and then the buffer is a new one.
TakeBuffer(mem, b) ==
    /\ backing' = [backing EXCEPT ![mem] = b]
    /\ sizeBytes' = [sizeBytes EXCEPT ![mem] = 1]
    /\ \/ /\ pool[b] # Nobody
          /\ dirty' = [dirty EXCEPT ![b] = IF @ <= pool[b] THEN 0 ELSE @]
          /\ pool' = [pool EXCEPT ![b] = Nobody]
       \/ /\ \A other \in Mems : backing[other] # b
          /\ UNCHANGED <<dirty, pool>>
    /\ UNCHANGED puts

\* buildMemory, for one of the module's own memories.
BuildMemory(m) ==
    /\ pc[m] = "resolve" /\ todo[m] # <<>> /\ How(m) = "build"
    /\ \E b \in Bufs : TakeBuffer(Cur(m), b)
    /\ todo' = [todo EXCEPT ![m] = Tail(@)]
    /\ UNCHANGED <<pc, scan, hit, out, Closed, memVars, inFlight, depth>>

\* The end of Instantiate: the module is registered.
Registered(m) ==
    /\ pc[m] = "resolve" /\ todo[m] = <<>>
    /\ Goto(m, "live")
    /\ UNCHANGED <<todo, scan, hit, out, Closed, memVars, inFlight, depth, bufVars>>

-----------------------------------------------------------------------------
(* Closing *)

\* CloseWithExitCode: the winner of the compare-and-swap on Closed closes.
Close(m) ==
    /\ pc[m] = "live" /\ m \in Closers
    /\ Closed' = [Closed EXCEPT ![m] = TRUE]
    /\ \E loop \in CloseLoops(m) :
          /\ todo' = [todo EXCEPT ![m] = loop]
          /\ Goto(m, IF loop = <<>> THEN "closed" ELSE "next")
    /\ UNCHANGED <<scan, hit, out, memVars, inFlight, depth, bufVars>>

\* released.Swap(true) under Mux: the claim.  The scan of the slots follows, in
\* the same critical section.
ClaimStorage(m, mem) ==
    /\ released' = [released EXCEPT ![mem] = TRUE]
    /\ Mux' = [Mux EXCEPT ![mem] = m]
    /\ scan' = [scan EXCEPT ![m] = Callers[mem]]
    /\ hit' = [hit EXCEPT ![m] = FALSE]
    /\ out' = [out EXCEPT ![m] = <<backing[mem], sizeBytes[mem]>>]
    /\ Goto(m, "scan")
    /\ UNCHANGED <<todo, depth>>

NoClaim(m) == Skip(m) /\ UNCHANGED <<released, Mux, scan, hit, out>>

\* Mutant: the owner's close does not ask for importers.
CloseOwnerMutant(m) ==
    /\ pc[m] = "next" /\ todo[m] # <<>> /\ How(m) = "owner" /\ Mux[Cur(m)] = Nobody
    /\ ownerClosed' = [ownerClosed EXCEPT ![Cur(m)] = TRUE]
    /\ ClaimStorage(m, Cur(m))
    /\ UNCHANGED <<Closed, importers, pendingRelease, inFlight, bufVars>>

\* The owner branch of ensureResourcesClosed.
CloseOwner(m) ==
    /\ pc[m] = "next" /\ todo[m] # <<>> /\ How(m) = "owner" /\ Mux[Cur(m)] = Nobody
    /\ ownerClosed' = [ownerClosed EXCEPT ![Cur(m)] = TRUE]
    /\ IF importers[Cur(m)] = 0 /\ ~released[Cur(m)]
       THEN ClaimStorage(m, Cur(m))
       ELSE NoClaim(m)
    /\ UNCHANGED <<Closed, importers, pendingRelease, inFlight, bufVars>>

\* The importer branch.
CloseImporter(m) ==
    /\ pc[m] = "next" /\ todo[m] # <<>> /\ How(m) = "importer" /\ Mux[Cur(m)] = Nobody
    /\ importers' = [importers EXCEPT ![Cur(m)] = IF @ > 0 THEN @ - 1 ELSE @]
    /\ IF ownerClosed[Cur(m)] /\ importers'[Cur(m)] = 0 /\ ~released[Cur(m)]
       THEN ClaimStorage(m, Cur(m))
       ELSE NoClaim(m)
    /\ UNCHANGED <<Closed, ownerClosed, pendingRelease, inFlight, bufVars>>

\* The heldMemories loop: the count goes down in one critical section, and the
\* last holder claims in another, releaseAfterLastHolder.
DropHold(m) ==
    /\ pc[m] = "next" /\ todo[m] # <<>> /\ How(m) = "holder" /\ Mux[Cur(m)] = Nobody
    /\ importers' = [importers EXCEPT ![Cur(m)] = IF @ > 0 THEN @ - 1 ELSE @]
    /\ IF ownerClosed[Cur(m)] /\ importers'[Cur(m)] = 0
       THEN Goto(m, "claim") /\ UNCHANGED <<todo, depth>>
       ELSE Skip(m)
    /\ UNCHANGED <<scan, hit, out, Closed, ownerClosed, released, pendingRelease,
                   Mux, inFlight, bufVars>>

ReleaseAfterLastHolder(m) ==
    /\ pc[m] = "claim" /\ Mux[Cur(m)] = Nobody
    /\ IF ~released[Cur(m)] THEN ClaimStorage(m, Cur(m)) ELSE NoClaim(m)
    /\ UNCHANGED <<Closed, importers, ownerClosed, pendingRelease, inFlight,
                   bufVars>>

-----------------------------------------------------------------------------
(* Releasing, by a close or by the last call out *)

\* Mutant: a busy slot is reported but not marked.
ClaimIfBusyMutant(a) ==
    /\ pc[a] \in {"scan", "rescan"}
    /\ \E h \in scan[a] :
          /\ scan' = [scan EXCEPT ![a] = @ \ {h}]
          /\ hit' = [hit EXCEPT ![a] = @ \/ inFlight[h] # "idle"]
    /\ UNCHANGED <<pc, todo, out, Closed, memVars, inFlight, depth, bufVars>>

\* One round of anyCallInFlightLocked: claimIfBusy on one slot.
ClaimIfBusy(a) ==
    /\ pc[a] \in {"scan", "rescan"}
    /\ \E h \in scan[a] :
          /\ scan' = [scan EXCEPT ![a] = @ \ {h}]
          /\ inFlight' = [inFlight EXCEPT ![h] = IF @ = "busy" THEN "handoff" ELSE @]
          /\ hit' = [hit EXCEPT ![a] = @ \/ inFlight[h] # "idle"]
    /\ UNCHANGED <<pc, todo, out, Closed, memVars, depth, bufVars>>

\* The end of a close's critical section: the storage is stashed for the calls
\* in flight, or is the close's to pool.
EndScan(a) ==
    /\ pc[a] = "scan" /\ scan[a] = {}
    /\ Mux' = [Mux EXCEPT ![Cur(a)] = Nobody]
    /\ IF hit[a]
       THEN /\ pendingRelease' = [pendingRelease EXCEPT ![Cur(a)] = TRUE]
            /\ out' = [out EXCEPT ![a] = <<>>]
            /\ Goto(a, "after")
       ELSE Goto(a, "put") /\ UNCHANGED <<pendingRelease, out>>
    /\ UNCHANGED <<todo, scan, hit, Closed, importers, ownerClosed, released,
                   inFlight, depth, bufVars>>

\* exitAfterRelease takes the mutex ...
ExitAfterRelease(a) ==
    /\ pc[a] = "after" /\ Mux[Cur(a)] = Nobody
    /\ Mux' = [Mux EXCEPT ![Cur(a)] = a]
    /\ scan' = [scan EXCEPT ![a] = Callers[Cur(a)]]
    /\ hit' = [hit EXCEPT ![a] = FALSE]
    /\ Goto(a, "rescan")
    /\ UNCHANGED <<todo, out, Closed, importers, ownerClosed, released,
                   pendingRelease, inFlight, depth, bufVars>>

\* Mutant: what was stashed is taken without being cleared.
EndRescanMutant(a) ==
    /\ pc[a] = "rescan" /\ scan[a] = {}
    /\ Mux' = [Mux EXCEPT ![Cur(a)] = Nobody]
    /\ IF hit[a] \/ ~pendingRelease[Cur(a)]
       THEN Skip(a) /\ UNCHANGED out
       ELSE /\ out' = [out EXCEPT ![a] = <<backing[Cur(a)], sizeBytes[Cur(a)]>>]
            /\ Goto(a, "put") /\ UNCHANGED <<todo, depth>>
    /\ UNCHANGED <<scan, hit, Closed, importers, ownerClosed, released,
                   pendingRelease, inFlight, bufVars>>

\* ... scans, and takes what was stashed when every call has drained, with the
\* dirty prefix as it is now (dirtyLenLocked).
EndRescan(a) ==
    /\ pc[a] = "rescan" /\ scan[a] = {}
    /\ Mux' = [Mux EXCEPT ![Cur(a)] = Nobody]
    /\ IF hit[a] \/ ~pendingRelease[Cur(a)]
       THEN Skip(a) /\ UNCHANGED <<pendingRelease, out>>
       ELSE /\ pendingRelease' = [pendingRelease EXCEPT ![Cur(a)] = FALSE]
            /\ out' = [out EXCEPT ![a] = <<backing[Cur(a)], sizeBytes[Cur(a)]>>]
            /\ Goto(a, "put") /\ UNCHANGED <<todo, depth>>
    /\ UNCHANGED <<scan, hit, Closed, importers, ownerClosed, released, inFlight,
                   bufVars>>

\* putPooledMemoryBuffer.
Put(a) ==
    /\ pc[a] = "put"
    /\ pool' = [pool EXCEPT ![out[a][1]] = out[a][2]]
    /\ puts' = [puts EXCEPT ![Cur(a)] = @ + 1]
    /\ out' = [out EXCEPT ![a] = <<>>]
    /\ Skip(a)
    /\ UNCHANGED <<scan, hit, Closed, memVars, inFlight, backing, sizeBytes,
                   dirty>>

-----------------------------------------------------------------------------
(* Calls *)

\* CallSlot.Enter, by a new call or by a host function re-entering the handle.
Enter(h) ==
    /\ pc[ModOf[h]] \notin {"none", "resolve", "failed"}
    /\ pc[h] = "idle" \/ (pc[h] = "run" /\ h \in Reentrant /\ depth[h] < MaxDepth)
    /\ inFlight' = [inFlight EXCEPT ![h] = "busy"]
    /\ depth' = [depth EXCEPT ![h] = @ + 1]
    /\ Goto(h, "entered")
    /\ UNCHANGED <<todo, scan, hit, out, Closed, memVars, bufVars>>

\* Mutant: a call to a closed module runs.
CheckClosedMutant(h) ==
    /\ pc[h] = "entered"
    /\ Goto(h, "run")
    /\ UNCHANGED <<todo, scan, hit, out, Closed, memVars, inFlight, depth, bufVars>>

\* The engines refuse a call to a closed module right after Enter.
CheckClosed(h) ==
    /\ pc[h] = "entered"
    /\ Goto(h, IF Closed[ModOf[h]] THEN "exit" ELSE "run")
    /\ UNCHANGED <<todo, scan, hit, out, Closed, memVars, inFlight, depth, bufVars>>

\* Guest code stores into the last page of a memory it has an index for.
Store(h) ==
    /\ pc[h] = "run"
    /\ \E mem \in Memories[ModOf[h]] :
          dirty' = [dirty EXCEPT ![backing[mem]] = Max({@, sizeBytes[mem]})]
    /\ UNCHANGED <<actorVars, Closed, memVars, inFlight, depth, backing, sizeBytes,
                   pool, puts>>

\* Mutant: growth without the capacity check.
GrowNativeMutant(h) ==
    /\ pc[h] = "run"
    /\ \E mem \in Memories[ModOf[h]] :
          sizeBytes' = [sizeBytes EXCEPT ![mem] = @ + 1]
    /\ UNCHANGED <<actorVars, Closed, memVars, inFlight, depth, backing, dirty, pool,
                   puts>>

\* memory.grow within the capacity, in compiled code.
GrowNative(h) ==
    /\ pc[h] = "run"
    /\ \E mem \in Memories[ModOf[h]] :
          /\ sizeBytes[mem] < MaxPages
          /\ sizeBytes' = [sizeBytes EXCEPT ![mem] = @ + 1]
    /\ UNCHANGED <<actorVars, Closed, memVars, inFlight, depth, backing, dirty, pool,
                   puts>>

\* Grow64: byteSize reports 0 once the memory is released.
Grow64(h) ==
    /\ pc[h] = "run" /\ h \in GrowsInGo
    /\ \E mem \in Memories[ModOf[h]] :
          LET currentPages == IF released[mem] THEN 0 ELSE sizeBytes[mem] IN
          /\ currentPages < MaxPages
          /\ sizeBytes' = [sizeBytes EXCEPT ![mem] = currentPages + 1]
    /\ UNCHANGED <<actorVars, Closed, memVars, inFlight, depth, backing, dirty, pool,
                   puts>>

\* ExitCall, when the guest returns or the call was refused: swap the slot to
\* idle, and take the hand-off unless it was busy.
ExitCall(h) ==
    /\ pc[h] \in {"run", "exit"}
    /\ inFlight' = [inFlight EXCEPT ![h] = "idle"]
    /\ IF inFlight[h] = "busy"
       THEN Leave(h) /\ UNCHANGED todo
       ELSE /\ \E loop \in ExitLoops(ModOf[h]) : todo' = [todo EXCEPT ![h] = loop]
            /\ Goto(h, "next") /\ UNCHANGED depth
    /\ UNCHANGED <<scan, hit, out, Closed, memVars, bufVars>>

\* exitHandoff for one memory.
ExitHandoff(h) ==
    /\ pc[h] = "next" /\ todo[h] # <<>>
    /\ IF released[Cur(h)] THEN Goto(h, "after") /\ UNCHANGED <<todo, depth>> ELSE Skip(h)
    /\ UNCHANGED <<scan, hit, out, Closed, memVars, inFlight, bufVars>>

-----------------------------------------------------------------------------
ModStep(m) ==
    \/ ResolveImport(m) \/ BuildMemory(m) \/ Registered(m)
    \/ CloseOwner(m) \/ CloseImporter(m) \/ DropHold(m) \/ ReleaseAfterLastHolder(m)

ReleaseStep(a) ==
    ClaimIfBusy(a) \/ EndScan(a) \/ ExitAfterRelease(a) \/ EndRescan(a) \/ Put(a)

CallStep(h) == CheckClosed(h) \/ ExitCall(h) \/ ExitHandoff(h)

Next ==
    \/ \E m \in Mods : StartInstantiate(m) \/ FailInstantiate(m) \/ Close(m) \/ ModStep(m)
    \/ \E a \in Actors : ReleaseStep(a)
    \/ \E h \in Handles :
          Enter(h) \/ CallStep(h) \/ Store(h) \/ GrowNative(h) \/ Grow64(h)

Spec == Init /\ [][Next]_vars

-----------------------------------------------------------------------------
(* Properties *)

\* The type invariant.
MemoryTypeOK ==
    /\ pc \in [Actors -> {"none", "resolve", "failed", "live", "next", "claim",
          "scan", "after", "rescan", "put", "closed", "idle", "entered", "run", "exit"}]
    /\ \A a \in Actors : scan[a] \subseteq Handles
    /\ Closed \in [Mods -> BOOLEAN]
    /\ importers \in [Mems -> 0 .. 2 * Cardinality(Mods)]
    /\ Mux \in [Mems -> Actors \cup {Nobody}]
    /\ inFlight \in [Handles -> {"idle", "busy", "handoff"}]
    /\ depth \in [Handles -> 0 .. MaxDepth]
    /\ backing \in [Mems -> Bufs \cup {NoBuf}]
    /\ sizeBytes \in [Mems -> 0 .. MaxPages]
    /\ dirty \in [Bufs -> 0 .. MaxPages]
    /\ pool \in [Bufs -> 0 .. MaxPages \cup {Nobody}]

\* Whether guest code of a module can touch a memory: its own and imported ones,
\* and through an imported function those of the function's module.
Reaches(m, mem) == mem \in Memories[m] \cup Holds[m]

\* While a call runs, no memory its code indexes has had its buffer pooled,
\* whoever closed what in the meantime: "a concurrent close must not recycle the
\* buffer until this call is done with it" (call_engine.go:664).
NoPoolUnderCall ==
    \A h \in Handles : depth[h] > 0 /\ pc[h] = "run" =>
        \A mem \in Mems : Reaches(ModOf[h], mem) => puts[mem] = 0

\* No module that is not closed can reach a pooled buffer (memory_pool.go:36).
NoPoolUnderModule ==
    \A m \in Mods : pc[m] = "live" =>
        \A mem \in Mems : Reaches(m, mem) => puts[mem] = 0

\* A buffer has one tenant: it is pooled at most once per memory, and is never
\* the backing of two memories that have not given it back.
OneTenant ==
    /\ \A mem \in Mems : puts[mem] <= 1
    /\ \A x, y \in Mems :
          x # y /\ backing[x] # NoBuf /\ puts[x] = 0 /\ puts[y] = 0
          => backing[x] # backing[y]

\* Every page a memory does not expose yet is zero, so memory starts all-zero and
\* grows by zero pages: "every buffer handed out by getPooledMemoryBuffer is
\* fully zeroed across its entire capacity" (memory_pool.go:64).
ReserveIsZero ==
    \A mem \in Mems : backing[mem] # NoBuf /\ puts[mem] = 0 =>
        dirty[backing[mem]] <= sizeBytes[mem]

\* A module counts from its import until its close has visited the memory; one
\* whose instantiation failed after the import is never closed and counts for ever.
Visiting(m, mem, how) ==
    \/ pc[m] = "live"
    \/ Closed[m] /\ <<mem, how>> \in Range(todo[m])
          /\ ~(Head(todo[m]) = <<mem, how>> /\ pc[m] # "next")
    \/ pc[m] \in {"resolve", "failed"} /\ <<mem, how>> \notin Range(todo[m])

\* The count that decides the release (MemoryInstance.importers, memory.go:111) is
\* exactly the number of imports and holds taken and not given up, whatever closes,
\* refusals and failures of instantiation come between.
ImportersCounted ==
    \A mem \in Mems : importers[mem] =
        Cardinality({m \in Mods : mem \in Imports[m] /\ Visiting(m, mem, "importer")})
        + Cardinality({m \in Mods : mem \in Holds[m] /\ Visiting(m, mem, "holder")})

\* A module that gave up its import or hold, or failed before it was counted.
Gone(m, mem, how) == pc[m] \in {"none", "failed", "closed"} /\ ~Visiting(m, mem, how)

\* Once the owner and every importer and holder of a memory are gone, and no
\* call is left, its buffer is in the pool or has gone to the next memory: the
\* release deferred to the last call out is never lost (memory.go:337).  An
\* instantiation that failed with the memory counted never goes: see the next one.
DrainedIsPooled ==
    \A mem \in Mems :
        /\ pc[OwnerOf[mem]] = "closed"
        /\ \A m \in Mods : /\ mem \in Imports[m] => Gone(m, mem, "importer")
                           /\ mem \in Holds[m] => Gone(m, mem, "holder")
        /\ \A h \in Handles : depth[h] = 0
        => puts[mem] = 1

\* "importers counts the live ModuleInstances" (memory.go:111): a memory that
\* nobody but failed instantiations ever imported has none.
FailedIsNotCounted ==
    \A mem \in Mems : (\A m \in Mods : mem \in Imports[m] \cup Holds[m] =>
        pc[m] \in {"none", "failed"}) => importers[mem] = 0
===============================================================================
