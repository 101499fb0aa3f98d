---------------------------- MODULE HandleTable ----------------------------
(***************************************************************************)
(* Handle tables and the resources that cross them.                        *)
(*                                                                         *)
(* Every component instance has one handle table (resource.go): a map from *)
(* an index to an entry, with freed indices reused last-in first-out.  An  *)
(* own handle owns a resource (its representation, rep); passing it to     *)
(* another instance takes it out of the caller's table and mints a new one *)
(* in the callee's.  A borrow handle is lent: the caller's entry counts    *)
(* its lends and cannot be dropped or taken until the call gives them      *)
(* back, and the callee's entry is scoped to the call, which may not       *)
(* return before the callee has dropped it.  A synchronous call remembers  *)
(* its lends as indices and gives them back when the wrapper returns       *)
(* (host_import.go); an asynchronous one remembers the entries and gives   *)
(* them back when its subtask's resolution is delivered                    *)
(* (async_host_import.go, waitable.go).                                    *)
(*                                                                         *)
(* One resource type; values other than handles are left out, and so are   *)
(* the entries of other kinds and the borrows a host mints unscoped.       *)
(***************************************************************************)
EXTENDS Integers, Sequences, FiniteSets, SequencesExt, FiniteSetsExt

CONSTANTS
    Instances,      \* component instances
    Definers,       \* who may define the resource type: an instance, or the host
    Reps,           \* representations of resources
    MaxCall,        \* bound: calls in flight at once
    MaxHandle,      \* bound: indices a table uses
    MaxEntry,       \* bound: entries alive at once
    MaxParked,      \* bound: callees waiting to be entered at once
    MaxArgs,        \* bound: handles passed by one call
    Nested,         \* TRUE: borrows are passed inside records, lists or variants
    NoEntry,        \* no entry
    NoCall          \* no call, or no scope

ASSUME HandleAssumption ==
    /\ Definers # {}
    /\ MaxHandle \in Nat \ {0}
    /\ MaxEntry \in Nat \ {0}
    /\ MaxArgs \in Nat \ {0}
    /\ MaxParked \in Nat \ {0}
    /\ Nested \in BOOLEAN
    /\ NoEntry \notin 1..MaxEntry
    /\ MaxCall \in Nat \ {0}
    /\ NoCall \notin 1..MaxCall

VARIABLES
    entries,        \* handleTable.entries: instance -> index -> entry
    free,           \* handleTable.free: instance -> sequence of indices
    next,           \* handleTable.next: instance -> index
    heap,           \* the resourceEntry objects
    call,           \* the calls in flight
    trapped,        \* Instance.poisoned
    definer         \* the definer of the resource type

handleVars == <<entries, free, next, heap, call, trapped, definer>>

Handles == 1..MaxHandle
EntryIds == 1..MaxEntry
Calls == 1..MaxCall

\* A resourceEntry: typeIdx left out, there is one type.
Entry == [own : BOOLEAN, rep : Reps, lendCount : Int, borrowScope : Calls \cup {NoCall}]

\* An argument as the guest passes it, and as it crosses: a rep.
Arg == [own : BOOLEAN, handle : Handles]
Passed == [own : BOOLEAN, rep : Reps]

\* A call from one instance's guest code to another's export, through
\* buildHostWrapper (sync) or buildAsyncHostWrapper.  lent holds indices of
\* the caller's table when sync, entries otherwise; borrowed, the reps passed
\* as borrows; numBorrows is the scope's or the callee task's count.
CallRecord ==
    [stage : {"starting", "started", "resolved", "stuck"}, sync : BOOLEAN,
     caller : Instances, callee : Instances, args : Seq(Arg),
     lent : Seq(Handles \cup EntryIds), borrowed : SUBSET Reps,
     numBorrows : Int]

\* The type invariant; the free indices of a table are distinct.
HandleTypeOK ==
    /\ entries \in [Instances -> [Handles -> EntryIds \cup {NoEntry}]]
    /\ \A i \in Instances : free[i] \in Seq(Handles) /\ IsInjective(free[i])
    /\ next \in [Instances -> 1..MaxHandle + 1]
    /\ \A e \in EntryIds : heap[e] \in Entry \cup {NoEntry}
    /\ \A c \in Calls : call[c] \in CallRecord \cup {NoCall}
    /\ trapped \in [Instances -> BOOLEAN]
    /\ definer \in Definers

HandleInit ==
    /\ entries = [i \in Instances |-> [h \in Handles |-> NoEntry]]
    /\ free = [i \in Instances |-> <<>>]
    /\ next = [i \in Instances |-> 1]
    /\ heap = [e \in EntryIds |-> NoEntry]
    /\ call = [c \in Calls |-> NoCall]
    /\ trapped = [i \in Instances |-> FALSE]
    /\ definer \in Definers

-----------------------------------------------------------------------------
(* The table's operations, on a record of all tables: what the operations of *)
(* one wrapper call see of each other.                                       *)

Tables == [entries |-> entries, free |-> free, next |-> next, heap |-> heap]

SetTables(t) ==
    /\ entries' = t.entries
    /\ free' = t.free
    /\ next' = t.next
    /\ heap' = t.heap

At(t, i, h) == t.entries[i][h]

Room(t, i) ==
    /\ t.free[i] # <<>> \/ t.next[i] <= MaxHandle
    /\ \E e \in EntryIds : t.heap[e] = NoEntry

\* Mutant: an index is used again without being taken off the free list.
AddEntryMutant(t, i, entry) ==
    LET e == Min({x \in EntryIds : t.heap[x] = NoEntry})
        h == IF t.free[i] # <<>> THEN Last(t.free[i]) ELSE t.next[i]
    IN  [t EXCEPT !.entries[i][h] = e,
                  !.heap[e] = entry,
                  !.next[i] = IF t.free[i] # <<>> THEN @ ELSE @ + 1]

\* addEntryLocked: a freed index first, the last one freed, else the next.
AddEntry(t, i, entry) ==
    LET e == Min({x \in EntryIds : t.heap[x] = NoEntry})
        reuse == t.free[i] # <<>>
        h == IF reuse THEN Last(t.free[i]) ELSE t.next[i]
    IN  [t EXCEPT !.entries[i][h] = e,
                  !.heap[e] = entry,
                  !.free[i] = IF reuse THEN Front(@) ELSE @,
                  !.next[i] = IF reuse THEN @ ELSE @ + 1]

NewOwn(t, i, r) ==
    AddEntry(t, i, [own |-> TRUE, rep |-> r, lendCount |-> 0, borrowScope |-> NoCall])

NewBorrowScoped(t, i, r, c) ==
    AddEntry(t, i, [own |-> FALSE, rep |-> r, lendCount |-> 0, borrowScope |-> c])

\* delete(t.entries, h) and the push on the free list.  An entry with lends is
\* still pointed to by the call that holds them.
RemoveEntry(t, i, h) ==
    LET e == At(t, i, h)
    IN  [t EXCEPT !.entries[i][h] = NoEntry,
                  !.free[i] = Append(@, h),
                  !.heap[e] = IF @.lendCount = 0 THEN NoEntry ELSE @]

\* TakeOwn, Drop and DropOwned refuse an entry with outstanding lends.
TakeOwnAllowed(t, i, h) ==
    /\ At(t, i, h) # NoEntry
    /\ t.heap[At(t, i, h)].own
    /\ t.heap[At(t, i, h)].lendCount = 0

\* Mutant: the lends are not looked at.
DropMutant(t, i, h) == At(t, i, h) # NoEntry

DropAllowed(t, i, h) ==
    /\ At(t, i, h) # NoEntry
    /\ t.heap[At(t, i, h)].lendCount = 0

\* Lend, and addLender on the entry entryForLend found.
Lend(t, e) == [t EXCEPT !.heap[e].lendCount = @ + 1]

\* Unlend: an error for an unknown handle or one without lends, which the
\* wrapper's deferred release ignores.
Unlend(t, i, h) ==
    IF At(t, i, h) # NoEntry /\ t.heap[At(t, i, h)].lendCount # 0
    THEN [t EXCEPT !.heap[At(t, i, h)].lendCount = @ - 1]
    ELSE t

\* The wrapper's deferred release of a synchronous call's lends.
UnlendAll(t, i, lent) == FoldLeft(LAMBDA s, h : Unlend(s, i, h), t, lent)

\* Mutant: the lenders are forgotten.
DeliverResolveMutant(t, lent) == t

\* subtask.deliverResolve: the entries themselves, whatever their index holds
\* by now.
DeliverResolve(t, lent) ==
    FoldLeft(LAMBDA s, e : [s EXCEPT !.heap[e].lendCount = @ - 1], t, lent)

-----------------------------------------------------------------------------
(* Lifting the arguments of a call, and minting them in the callee's table. *)

\* One parameter.  A top-level borrow lends the caller's entry and then reads
\* its rep; a borrow inside a composite is only read.  An own is taken.
LiftArg(i, sync, s, a) ==
    LET e == At(s.tables, i, a.handle)
        lend == ~a.own /\ ~Nested /\ e # NoEntry
        ok == IF a.own THEN TakeOwnAllowed(s.tables, i, a.handle) ELSE e # NoEntry
    IN  CASE ~s.ok -> s
          [] s.ok /\ ~ok -> [s EXCEPT !.ok = FALSE]
          [] s.ok /\ ok ->
               [s EXCEPT !.tables = IF a.own THEN RemoveEntry(@, i, a.handle)
                                    ELSE IF lend THEN Lend(@, e) ELSE @,
                         !.lent = IF lend THEN Append(@, IF sync THEN a.handle ELSE e) ELSE @,
                         !.passed = Append(@, [own |-> a.own, rep |-> s.tables.heap[e].rep])]

\* liftHostArgsPlanned and liftAsyncHostArgsPlanned: in order, up to the first
\* that fails; what the earlier ones lent or took stays lent or taken.
LiftArgs(i, sync, args) ==
    FoldLeft(LAMBDA s, a : LiftArg(i, sync, s, a),
             [tables |-> Tables, lent |-> <<>>, passed |-> <<>>, ok |-> TRUE], args)

\* repToProviderHandle: an own is minted; so is a borrow, scoped to the call,
\* unless the callee defines the resource and gets the rep itself.
RepToProviderHandle(j, c, t, p) ==
    CASE p.own -> NewOwn(t, j, p.rep)
      [] ~p.own /\ j # definer -> NewBorrowScoped(t, j, p.rep, c)
      [] ~p.own /\ j = definer -> t

ToProvider(j, c, t, passed) ==
    FoldLeft(LAMBDA s, p : RepToProviderHandle(j, c, s, p), t, passed)

Borrows(passed) == {k \in DOMAIN passed : ~passed[k].own}

\* The bounds leave room to mint every argument.
RoomFor(t, j, passed) ==
    /\ Len(passed) <= Len(t.free[j]) + (MaxHandle + 1 - t.next[j])
    /\ Len(passed) <= Cardinality({e \in EntryIds : t.heap[e] = NoEntry})

Enter(c, record, t, passed) ==
    /\ RoomFor(t, record.callee, passed)
    /\ SetTables(ToProvider(record.callee, c, t, passed))
    /\ call' = [call EXCEPT ![c] =
         [record EXCEPT !.stage = "started",
                        !.args = <<>>,
                        !.borrowed = {passed[k].rep : k \in Borrows(passed)},
                        !.numBorrows = IF record.callee = definer THEN 0
                                       ELSE Cardinality(Borrows(passed))]]

Idle(sync, i, j, args) ==
    [stage |-> "starting", sync |-> sync, caller |-> i, callee |-> j, args |-> args,
     lent |-> <<>>, borrowed |-> {}, numBorrows |-> 0]

\* The scope a borrow is minted under is an object of its call: a slot is
\* used again only when nothing points to it.
Slots == {c \in Calls :
            /\ call[c] = NoCall
            /\ \A e \in EntryIds : heap[e] # NoEntry => heap[e].borrowScope # c}

Slot(c) == c = Min(Slots)

-----------------------------------------------------------------------------
(* Guest code of an instance that has not trapped.                          *)

Trapping(i) == trapped' = [trapped EXCEPT ![i] = TRUE]

\* A rep is named by an entry or by the arguments of a call.
Known(r) ==
    \/ \E e \in EntryIds : heap[e] # NoEntry /\ heap[e].rep = r
    \/ \E c \in Calls : call[c] # NoCall /\ r \in call[c].borrowed

\* canon resource.new in the instance that defines the type, or a host's
\* result lowered by allocHandleResult when the host does.
ResourceNew(i, r) ==
    /\ ~trapped[i]
    /\ definer = i \/ definer \notin Instances
    /\ ~Known(r)
    /\ Room(Tables, i)
    /\ SetTables(NewOwn(Tables, i, r))
    /\ UNCHANGED <<call, trapped, definer>>

\* Drop of a scoped borrow gives it back to its scope.
ReturnBorrow(entry) ==
    LET c == entry.borrowScope
    IN  IF c # NoCall /\ call[c] # NoCall
        THEN [call EXCEPT ![c].numBorrows = @ - 1]
        ELSE call

\* canon resource.drop: an own handle's destructor runs once the entry is
\* gone; a handle that may not be dropped traps, as guest code may at any time.
ResourceDrop(i, h) ==
    /\ ~trapped[i]
    /\ IF DropAllowed(Tables, i, h)
       THEN /\ SetTables(RemoveEntry(Tables, i, h))
            /\ call' = ReturnBorrow(heap[entries[i][h]])
            /\ UNCHANGED <<trapped, definer>>
       ELSE /\ Trapping(i)
            /\ UNCHANGED <<entries, free, next, heap, call, definer>>

\* Instance.DropResource, by the embedder, of a resource the instance defines;
\* its error leaves the table alone.  Assumed: not after a trap.
DropResource(i, h) ==
    /\ i = definer
    /\ ~trapped[i]
    /\ TakeOwnAllowed(Tables, i, h)
    /\ SetTables(RemoveEntry(Tables, i, h))
    /\ UNCHANGED <<call, trapped, definer>>

\* A call through a synchronous lower.  An argument that fails to lift panics
\* before the release of the earlier ones' lends is deferred.
CallSync(c, i, j, args) ==
    /\ Slot(c)
    /\ ~trapped[i] /\ ~trapped[j]
    /\ LET s == LiftArgs(i, TRUE, args)
       IN  IF s.ok
           THEN /\ Enter(c, [Idle(TRUE, i, j, args) EXCEPT !.lent = s.lent], s.tables, s.passed)
                /\ UNCHANGED <<trapped, definer>>
           ELSE /\ SetTables(s.tables)
                /\ Trapping(i)
                /\ UNCHANGED <<call, definer>>

\* A call through an asynchronous lower whose callee waits to be entered: the
\* arguments are snapshotted and lifted when it starts.
CallAsync(c, i, j, args) ==
    /\ Slot(c)
    /\ Cardinality({d \in Calls : call[d] # NoCall /\ call[d].stage = "starting"}) < MaxParked
    /\ ~trapped[i] /\ ~trapped[j]
    /\ call' = [call EXCEPT ![c] = Idle(FALSE, i, j, args)]
    /\ UNCHANGED <<entries, free, next, heap, trapped, definer>>

\* onStart: from the lower itself, in which case a failure traps the caller,
\* or later, from the scheduler, which reports it to whoever drives.
Start(c) ==
    /\ call[c] # NoCall
    /\ call[c].stage = "starting"
    /\ ~trapped[call[c].callee]
    /\ LET s == LiftArgs(call[c].caller, FALSE, call[c].args)
       IN  IF s.ok
           THEN /\ Enter(c, [call[c] EXCEPT !.lent = s.lent], s.tables, s.passed)
                /\ UNCHANGED <<trapped, definer>>
           ELSE /\ SetTables(s.tables)
                /\ call' = [call EXCEPT ![c].stage = "stuck", ![c].args = <<>>, ![c].lent = s.lent]
                /\ \/ Trapping(call[c].caller)
                   \/ UNCHANGED trapped
                /\ UNCHANGED definer

\* subtask.cancel of a callee that was never entered (cancelUnentered).
CancelStart(c) ==
    /\ call[c] # NoCall
    /\ call[c].stage = "starting"
    /\ ~trapped[call[c].caller]
    /\ call' = [call EXCEPT ![c].stage = "resolved", ![c].args = <<>>]
    /\ UNCHANGED <<entries, free, next, heap, trapped, definer>>

-----------------------------------------------------------------------------
(* The end of a call.                                                       *)

\* Mutant: the rep is read but the handle stays.
MoveResultMutant(t, i, j, h) == NewOwn(t, i, t.heap[At(t, j, h)].rep)

\* An own<R> result: taken from the callee's table by fromProvider, minted in
\* the caller's by allocHandleResult.
MoveResult(t, i, j, h) == NewOwn(RemoveEntry(t, j, h), i, t.heap[At(t, j, h)].rep)

\* Return of a synchronous call: the delegate checks that the callee dropped
\* its borrows, then takes the result; the deferred release runs either way.
ReturnSync(c, result) ==
    /\ call[c] # NoCall
    /\ call[c].sync
    /\ LET i == call[c].caller
           j == call[c].callee
           taken == \A h \in result : TakeOwnAllowed(Tables, j, h)
           moved == IF result = {} THEN Tables
                    ELSE MoveResult(Tables, i, j, CHOOSE h \in result : TRUE)
       IN  /\ ~trapped[j]
           /\ IF call[c].numBorrows > 0 \/ ~taken
              THEN /\ SetTables(UnlendAll(Tables, i, call[c].lent))
                   /\ Trapping(i)
              ELSE /\ result # {} => Room(Tables, i)
                   /\ SetTables(UnlendAll(moved, i, call[c].lent))
                   /\ UNCHANGED trapped
    /\ call' = [call EXCEPT ![c] = NoCall]
    /\ UNCHANGED definer

\* The callee of a synchronous call trapped: so does the caller, releasing
\* its lends on the way.
FailSync(c) ==
    /\ call[c] # NoCall
    /\ call[c].sync
    /\ trapped[call[c].callee]
    /\ SetTables(UnlendAll(Tables, call[c].caller, call[c].lent))
    /\ Trapping(call[c].caller)
    /\ call' = [call EXCEPT ![c] = NoCall]
    /\ UNCHANGED definer

\* task.return, or task.cancel with no result, of an asynchronous call's
\* callee: a borrow still held, or a result that cannot be taken, traps it.
ReturnAsync(c, result) ==
    /\ call[c] # NoCall
    /\ ~call[c].sync
    /\ call[c].stage = "started"
    /\ LET i == call[c].caller
           j == call[c].callee
           taken == \A h \in result : TakeOwnAllowed(Tables, j, h)
       IN  /\ ~trapped[j]
           /\ IF call[c].numBorrows > 0 \/ ~taken
              THEN /\ Trapping(j)
                   /\ call' = [call EXCEPT ![c].stage = "stuck"]
                   /\ UNCHANGED <<entries, free, next, heap>>
              ELSE /\ result # {} => Room(Tables, i)
                   /\ SetTables(IF result = {} THEN Tables
                                ELSE MoveResult(Tables, i, j, CHOOSE h \in result : TRUE))
                   /\ call' = [call EXCEPT ![c].stage = "resolved"]
                   /\ UNCHANGED trapped
    /\ UNCHANGED definer

\* The subtask's resolution reaches the caller: its lends end.
Deliver(c) ==
    /\ call[c] # NoCall
    /\ call[c].stage = "resolved"
    /\ ~trapped[call[c].caller]
    /\ SetTables(DeliverResolve(Tables, call[c].lent))
    /\ call' = [call EXCEPT ![c] = NoCall]
    /\ UNCHANGED <<trapped, definer>>

ArgLists == SeqOf(Arg, MaxArgs) \ {<<>>}

\* The handles a guest passes: issued to it, and possibly dropped since.
Issued(i, args) == \A k \in DOMAIN args : args[k].handle < next[i]

Results == {{}} \cup {{h} : h \in Handles}

HandleNext ==
    \/ \E i \in Instances :
         \/ \E r \in Reps : ResourceNew(i, r)
         \/ \E h \in Handles : ResourceDrop(i, h) \/ DropResource(i, h)
         \/ \E c \in Slots, j \in Instances \ {i}, args \in ArgLists :
              /\ Issued(i, args)
              /\ CallSync(c, i, j, args) \/ CallAsync(c, i, j, args)
    \/ \E c \in Calls :
         \/ Start(c)
         \/ CancelStart(c)
         \/ FailSync(c)
         \/ Deliver(c)
         \/ \E result \in Results : ReturnSync(c, result) \/ ReturnAsync(c, result)

HandleSpec == HandleInit /\ [][HandleNext]_handleVars

-----------------------------------------------------------------------------
(* Correctness.                                                             *)

Live(i) == {entries[i][h] : h \in Handles} \ {NoEntry}

AllLive == UNION {Live(i) : i \in Instances}

\* BorrowedIsOwned: while a call that was passed a borrow is running, some
\* handle still owns the resource, so its destructor has not run: neither the
\* caller, nor the callee of another call, nor the embedder can drop or give
\* away the resource a lent handle names (resource.go Drop, TakeOwn and
\* DropOwned refuse an entry with lends).
BorrowedIsOwned ==
    \A c \in Calls :
        call[c] # NoCall /\ call[c].stage = "started" =>
            \A r \in call[c].borrowed :
                \E e \in AllLive : heap[e].own /\ heap[e].rep = r

\* The lends a call holds on an entry: through indices or through the entry.
LendsOf(c, i, e) ==
    IF call[c] = NoCall \/ call[c].caller # i THEN 0
    ELSE Cardinality({k \in DOMAIN call[c].lent :
             IF call[c].sync THEN entries[i][call[c].lent[k]] = e
             ELSE call[c].lent[k] = e})

\* BorrowsCounted: in an instance that has not trapped, an entry's lend count
\* is the number of lends the calls in flight hold on it, so a release never
\* hits an entry that took over the index of the one that was lent, and no lend
\* outlives its call (host_import.go's deferred Unlend, waitable.go's
\* deliverResolve); and a call's count of borrows is the number of handles
\* minted for it and not yet dropped, so its return neither traps with none
\* left nor passes with one left (task.go returnValues, graph.go's check after
\* a synchronous call).
BorrowsCounted ==
    /\ \A i \in Instances : ~trapped[i] =>
         \A e \in Live(i) :
             heap[e].lendCount = MapThenSumSet(LAMBDA c : LendsOf(c, i, e), Calls)
    /\ \A c \in Calls : call[c] # NoCall =>
         call[c].numBorrows = Cardinality({e \in AllLive : heap[e].borrowScope = c})

\* OwnedOnce: no two handles own one resource, in any instances, whatever calls
\* moved it and failed part way (TakeOwn before NewOwn on every path).
OwnedOnce ==
    \A d, e \in AllLive :
        heap[d].own /\ heap[e].own /\ heap[d].rep = heap[e].rep => d = e

=============================================================================
