----------------------------- MODULE StackPool -----------------------------
(***************************************************************************)
(* The pool of execution stacks (native/stack_pool.go) and the call        *)
(* engines that draw on it (native/call_engine.go).                        *)
(*                                                                         *)
(* A call takes a stack from the pool, or keeps the one its engine held on *)
(* to; growing replaces it and releases the old one; restoring a snapshot  *)
(* replaces it by the snapshot's own copy; and when the call returns the   *)
(* stack of that moment is released or kept.  A stack is filed under the   *)
(* largest size class it satisfies.  What runs on a stack is left out: a   *)
(* stack is a buffer, with its length.                                     *)
(***************************************************************************)
EXTENDS Integers, Bags, FiniteSetsExt

CONSTANTS
    Engines,        \* callEngines: exported function handles
    BaseSize,       \* stackPoolBaseSize
    NumClasses,     \* stackPoolNumClasses
    Ceiling,        \* callStackCeiling
    Margin,         \* the bytes added for alignment
    WideEngines,    \* those whose parameters and results need WideNeed bytes
    WideNeed,
    GrowNeeds,      \* execCtx.stackGrowRequiredSize
    KeepAfter,      \* stackReleasesBeforeKeep
    MaxBuffer,      \* bound: buffers in use at a time
    MaxRestores,    \* bound: restores of one snapshot
    MaxCloned,      \* bound: length of a stack a snapshot is taken of
    NoStack

ASSUME StackAssumption ==
    /\ BaseSize \in Nat \ {0}
    /\ NumClasses \in Nat \ {0}
    /\ {Ceiling, Margin, WideNeed, KeepAfter, MaxBuffer, MaxRestores, MaxCloned} \subseteq Nat
    /\ WideEngines \subseteq Engines
    /\ GrowNeeds \subseteq Nat

VARIABLES
    stack,          \* engine -> callEngine.stack
    calling,        \* engine -> a call of it is in progress
    needs,          \* engine -> the bytes its stack was asked to hold; 0 between calls
    acquiredLen,    \* engine -> its stack's length when the call began; 0 between calls
    oldStack,       \* engine -> the stack it has outgrown and not yet released
    releases,       \* engine -> stackReleases
    snapshot,       \* engine -> the latest snapshot of it that a host function holds
    stackPools      \* class -> the stacks in it

stackVars == <<stack, calling, needs, acquiredLen, oldStack, releases, snapshot, stackPools>>

Classes == 0..(NumClasses - 1)

Buffer == [id : 1..MaxBuffer, len : Nat]

Snapshots == [stack : Buffer, needs : Nat, restores : 0..MaxRestores]

\* The type invariant.
StackTypeOK ==
    /\ stack \in [Engines -> Buffer \cup {NoStack}]
    /\ calling \in [Engines -> BOOLEAN]
    /\ needs \in [Engines -> Nat]
    /\ acquiredLen \in [Engines -> Nat]
    /\ oldStack \in [Engines -> Buffer \cup {NoStack}]
    /\ releases \in [Engines -> 0..KeepAfter]
    /\ snapshot \in [Engines -> Snapshots \cup {NoStack}]
    /\ DOMAIN stackPools = Classes
    /\ \A k \in Classes : BagToSet(stackPools[k]) \subseteq Buffer

StackInit ==
    /\ stack = [c \in Engines |-> NoStack]
    /\ calling = [c \in Engines |-> FALSE]
    /\ needs = [c \in Engines |-> 0]
    /\ acquiredLen = [c \in Engines |-> 0]
    /\ oldStack = [c \in Engines |-> NoStack]
    /\ releases = [c \in Engines |-> 0]
    /\ snapshot = [c \in Engines |-> NoStack]
    /\ stackPools = [k \in Classes |-> EmptyBag]

-----------------------------------------------------------------------------
(* The size classes.                                                        *)

ClassSize(k) == BaseSize * 2^k

\* The smallest class of at least n bytes; -1: do not pool.
StackPoolClassForAcquire(n) ==
    LET enough == {k \in Classes : n <= ClassSize(k)}
    IN  IF enough = {} THEN -1 ELSE Min(enough)

\* Mutant: a released stack is filed by the ceiling of its length.
ReleaseClassMutant(n) == StackPoolClassForAcquire(n)

\* The largest class that n bytes satisfy.
StackPoolClassForRelease(n) ==
    LET met == {k \in Classes : ClassSize(k) <= n}
    IN  IF met = {} THEN -1 ELSE Max(met)

-----------------------------------------------------------------------------
(* acquireStack and releaseStack.                                           *)

Reachable ==
    UNION {BagToSet(stackPools[k]) : k \in Classes}
        \cup {stack[c] : c \in Engines} \cup {oldStack[c] : c \in Engines}
        \cup {snapshot[c].stack : c \in {e \in Engines : snapshot[e] # NoStack}}

\* MakeStack(n): a buffer nothing refers to; none, when the bound is reached.
MakeStack(n) ==
    LET spare == 1..MaxBuffer \ {b.id : b \in Reachable \ {NoStack}}
    IN  IF spare = {} THEN {} ELSE {[id |-> Min(spare), len |-> n]}

\* The outcomes of acquireStack(n): a stack and what is left in the pools.  A
\* sync.Pool need not return an item it holds.
AcquireStack(n) ==
    LET class  == StackPoolClassForAcquire(n)
        make   == IF class < 0 THEN n ELSE ClassSize(class)
        pooled == IF class < 0 THEN {} ELSE BagToSet(stackPools[class])
    IN  {[stack |-> b, pools |-> [stackPools EXCEPT ![class] = @ (-) SetToBag({b})]] : b \in pooled}
          \cup {[stack |-> b, pools |-> stackPools] : b \in MakeStack(make)}

\* The pools once releaseStack(b) returns.
ReleaseStack(b) ==
    LET class == StackPoolClassForRelease(b.len)
    IN  IF class < 0 THEN stackPools ELSE [stackPools EXCEPT ![class] = @ (+) SetToBag({b})]

\* A garbage collection empties a sync.Pool.
PoolCollected(k) ==
    /\ stackPools[k] # EmptyBag
    /\ stackPools' = [stackPools EXCEPT ![k] = EmptyBag]
    /\ UNCHANGED <<stack, calling, needs, acquiredLen, oldStack, releases, snapshot>>

-----------------------------------------------------------------------------
(* The call engine.                                                         *)

RequiredInitialStackSize(c) == IF c \in WideEngines THEN Max({WideNeed, BaseSize}) ELSE BaseSize

Begins(c, b, pools) ==
    /\ stack' = [stack EXCEPT ![c] = b]
    /\ needs' = [needs EXCEPT ![c] = RequiredInitialStackSize(c)]
    /\ acquiredLen' = [acquiredLen EXCEPT ![c] = b.len]
    /\ calling' = [calling EXCEPT ![c] = TRUE]
    /\ stackPools' = pools
    /\ UNCHANGED <<oldStack, releases, snapshot>>

\* callWithStack: on a stack of the pool, or on the one kept from the last call.
CallWithStack(c) ==
    /\ ~calling[c]
    /\ IF stack[c] # NoStack
       THEN Begins(c, stack[c], stackPools)
       ELSE \E got \in AcquireStack(RequiredInitialStackSize(c)) : Begins(c, got.stack, got.pools)

\* growStack; past the ceiling the call ends instead (StackRelease).
GrowStack(c, n) ==
    /\ calling[c]
    /\ oldStack[c] = NoStack
    /\ stack[c].len <= Ceiling
    /\ LET newLen == 2 * stack[c].len + n + Margin
       IN  \E got \in AcquireStack(newLen) :
             /\ stack' = [stack EXCEPT ![c] = got.stack]
             /\ needs' = [needs EXCEPT ![c] = newLen]
             /\ stackPools' = got.pools
    /\ oldStack' = [oldStack EXCEPT ![c] = stack[c]]
    /\ UNCHANGED <<calling, acquiredLen, releases, snapshot>>

\* The frames are adjusted; the outgrown stack goes to the pool.
ReleaseOldStack(c) ==
    /\ oldStack[c] # NoStack
    /\ stackPools' = ReleaseStack(oldStack[c])
    /\ oldStack' = [oldStack EXCEPT ![c] = NoStack]
    /\ UNCHANGED <<stack, calling, needs, acquiredLen, releases, snapshot>>

\* Snapshot, from a host function: a copy that is not drawn from the pool.
Snapshot(c) ==
    /\ calling[c]
    /\ oldStack[c] = NoStack
    /\ stack[c].len <= MaxCloned
    /\ \E b \in MakeStack(stack[c].len + Margin) :
         snapshot' = [snapshot EXCEPT ![c] = [stack |-> b, needs |-> needs[c], restores |-> 0]]
    /\ UNCHANGED <<stack, calling, needs, acquiredLen, oldStack, releases, stackPools>>

\* doRestore, in a call of the engine the snapshot is of: the stack that the
\* call runs on is dropped.
DoRestore(c) ==
    /\ calling[c]
    /\ oldStack[c] = NoStack
    /\ snapshot[c] # NoStack
    /\ snapshot[c].restores < MaxRestores
    /\ stack' = [stack EXCEPT ![c] = snapshot[c].stack]
    /\ needs' = [needs EXCEPT ![c] = snapshot[c].needs]
    /\ snapshot' = [snapshot EXCEPT ![c].restores = @ + 1]
    /\ UNCHANGED <<calling, acquiredLen, oldStack, releases, stackPools>>

EndsCall(c) ==
    /\ calling' = [calling EXCEPT ![c] = FALSE]
    /\ needs' = [needs EXCEPT ![c] = 0]
    /\ acquiredLen' = [acquiredLen EXCEPT ![c] = 0]

\* Mutant: the stack is put in the pool and kept as well.
StackReleaseMutant(c) ==
    /\ calling[c]
    /\ oldStack[c] = NoStack
    /\ EndsCall(c)
    /\ releases' = [releases EXCEPT ![c] = IF @ < KeepAfter THEN @ + 1 ELSE @]
    /\ stackPools' = ReleaseStack(stack[c])
    /\ stack' = [stack EXCEPT ![c] = IF releases[c] = KeepAfter THEN @ ELSE NoStack]
    /\ UNCHANGED <<oldStack, snapshot>>

\* callWithStack's deferred function, on every way out of the call.
StackRelease(c) ==
    /\ calling[c]
    /\ oldStack[c] = NoStack
    /\ EndsCall(c)
    /\ IF releases[c] = KeepAfter /\ stack[c].len = acquiredLen[c]
       THEN UNCHANGED <<releases, stackPools, stack>>
       ELSE /\ releases' = [releases EXCEPT ![c] = IF @ < KeepAfter THEN @ + 1 ELSE @]
            /\ stackPools' = ReleaseStack(stack[c])
            /\ stack' = [stack EXCEPT ![c] = NoStack]
    /\ UNCHANGED <<oldStack, snapshot>>

StackNext ==
    \/ \E k \in Classes : PoolCollected(k)
    \/ \E c \in Engines :
         \/ CallWithStack(c)
         \/ \E n \in GrowNeeds : GrowStack(c, n)
         \/ ReleaseOldStack(c)
         \/ Snapshot(c)
         \/ DoRestore(c)
         \/ StackRelease(c)

StackSpec == StackInit /\ [][StackNext]_stackVars

-----------------------------------------------------------------------------
(* Correctness.                                                             *)

\* StackFits: the stack a call runs on is as long as the call asked for,
\* whatever the pool handed out and whichever call released it, outgrown,
\* grown or restored (stackPoolClassForRelease floors a length, so that a
\* bucket never hands out a buffer smaller than its class promises).
StackFits == \A c \in Engines : calling[c] => needs[c] <= stack[c].len

Users(b) == {c \in Engines : stack[c] = b}

Outgrown(b) == {c \in Engines : oldStack[c] = b}

Pooled(b) == MapThenSumSet(LAMBDA k : CopiesIn(b, stackPools[k]), Classes)

\* StackOneHolder: a stack is in the hands of one engine, or in the pool, once;
\* and the copy a snapshot keeps is in nobody's until it is restored.  So two
\* calls never run on one stack, and a kept, grown or restored stack is
\* released exactly once (callWithStack's deferred release, the grow loop,
\* cloneStack).  A snapshot restored, outgrown and restored again breaks it,
\* which is what MaxRestores = 2 shows.
StackOneHolder ==
    /\ \A b \in Reachable \ {NoStack} :
         Cardinality(Users(b)) + Cardinality(Outgrown(b)) + Pooled(b) <= 1
    /\ \A c \in Engines :
         snapshot[c] # NoStack /\ snapshot[c].restores = 0 =>
           /\ Users(snapshot[c].stack) = {}
           /\ Outgrown(snapshot[c].stack) = {}
           /\ Pooled(snapshot[c].stack) = 0

=============================================================================
