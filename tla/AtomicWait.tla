---------------------------- MODULE AtomicWait ----------------------------
(***************************************************************************)
(* memory.atomic.wait and memory.atomic.notify (memory.go), on one address *)
(* of a shared memory.                                                     *)
(*                                                                         *)
(* The waiters of an address are a list under a mutex, created the first   *)
(* time anyone waits there.  A waiter takes the mutex, reads the value,    *)
(* joins the list and lets go; a notifier takes the mutex and closes the   *)
(* channels of the first waiters.  The stores a notifier announces do not  *)
(* take the mutex.  A waiter whose timer fires takes the mutex again to    *)
(* leave the list, and a notifier may have come first.                     *)
(***************************************************************************)
EXTENDS Integers, Sequences, FiniteSets, SequencesExt

CONSTANTS
    Waiters,        \* threads that wait
    MaxValue,       \* bound: stores to the address
    WaiterLimit,    \* 2^32 in the code: the length of the list that traps
    Nobody          \* the mutex is free

ASSUME WaitAssumption ==
    /\ MaxValue \in Nat
    /\ WaiterLimit \in Nat \ {0}
    /\ Nobody \notin Waiters

VARIABLES
    value,          \* the value at the address
    created,        \* m.waiters holds the address
    mux,            \* waiters.mux: its holder
    list,           \* waiters.l
    ready,          \* whose channel is closed
    pc,             \* where each waiter is
    expected,       \* exp of its wait
    timed,          \* whether the wait has a timeout
    notifier        \* the storing thread: has stored; has notified all, or some

waitVars == <<value, created, mux, list, ready, pc, expected, timed, notifier>>

Stages == {"running", "waits", "read", "parked", "expired", "trapped"}

\* The type invariant.
WaitTypeOK ==
    /\ value \in 0..MaxValue
    /\ created \in BOOLEAN
    /\ mux \in Waiters \cup {Nobody}
    /\ list \in Seq(Waiters)
    /\ ready \subseteq Waiters
    /\ pc \in [Waiters -> Stages]
    /\ expected \in [Waiters -> 0..MaxValue]
    /\ timed \in [Waiters -> BOOLEAN]
    /\ notifier \in {"all", "some", "stored"}

WaitInit ==
    /\ value = 0
    /\ created = FALSE
    /\ mux = Nobody
    /\ list = <<>>
    /\ ready = {}
    /\ pc = [t \in Waiters |-> "running"]
    /\ expected = [t \in Waiters |-> 0]
    /\ timed = [t \in Waiters |-> FALSE]
    /\ notifier = "all"

Goes(t, stage) ==
    /\ pc' = [pc EXCEPT ![t] = stage]
    /\ UNCHANGED <<expected, timed>>

\* The wait returns, and its arguments are gone.
Returns(t) ==
    /\ pc' = [pc EXCEPT ![t] = "running"]
    /\ expected' = [expected EXCEPT ![t] = 0]
    /\ timed' = [timed EXCEPT ![t] = FALSE]

-----------------------------------------------------------------------------
(* Wait32 and Wait64.                                                       *)

\* getWaiters: the list of the address exists from here on.
GetWaiters(t, exp, timeout) ==
    /\ pc[t] = "running"
    /\ exp <= value
    /\ created' = TRUE
    /\ expected' = [expected EXCEPT ![t] = exp]
    /\ timed' = [timed EXCEPT ![t] = timeout]
    /\ pc' = [pc EXCEPT ![t] = "waits"]
    /\ UNCHANGED <<value, mux, list, ready, notifier>>

\* Mutant: the value is read without the mutex.
ReadMutant(t) ==
    /\ pc[t] = "waits"
    /\ IF value = expected[t]
       THEN Goes(t, "read")
       ELSE Returns(t)
    /\ UNCHANGED <<value, created, mux, list, ready, notifier>>

\* w.mux.Lock and the reader's load; at another value than expected the wait
\* unlocks and returns 1.
Read(t) ==
    /\ pc[t] = "waits"
    /\ mux = Nobody
    /\ IF value = expected[t]
       THEN mux' = t /\ Goes(t, "read")
       ELSE UNCHANGED mux /\ Returns(t)
    /\ UNCHANGED <<value, created, list, ready, notifier>>

\* wait: join the list and unlock, or trap when the list is full.
Park(t) ==
    /\ pc[t] = "read"
    /\ mux' = Nobody
    /\ IF Len(list) + 1 = WaiterLimit
       THEN Goes(t, "trapped") /\ UNCHANGED list
       ELSE Goes(t, "parked") /\ list' = Append(list, t)
    /\ UNCHANGED <<value, created, ready, notifier>>

\* The channel was closed: the wait returns 0.
Woken(t) ==
    /\ pc[t] = "parked"
    /\ t \in ready
    /\ ready' = ready \ {t}
    /\ Returns(t)
    /\ UNCHANGED <<value, created, mux, list, notifier>>

\* The timer fires, whether or not the channel is closed by now.
Expire(t) ==
    /\ pc[t] = "parked"
    /\ timed[t]
    /\ Goes(t, "expired")
    /\ UNCHANGED <<value, created, mux, list, ready, notifier>>

\* Mutant: the waiter stays in the list.
LeaveMutant(t) ==
    /\ pc[t] = "expired"
    /\ mux = Nobody
    /\ ready' = ready \ {t}
    /\ Returns(t)
    /\ UNCHANGED <<value, created, mux, list, notifier>>

\* Lock, Remove(elem), which leaves the list alone when a notifier has
\* removed the element already, unlock; the wait returns 2.
Leave(t) ==
    /\ pc[t] = "expired"
    /\ mux = Nobody
    /\ list' = SelectSeq(list, LAMBDA u : u # t)
    /\ ready' = ready \ {t}
    /\ Returns(t)
    /\ UNCHANGED <<value, created, mux, notifier>>

-----------------------------------------------------------------------------
(* The thread that stores and notifies.                                     *)

Store ==
    /\ notifier # "stored"
    /\ value < MaxValue
    /\ value' = value + 1
    /\ notifier' = "stored"
    /\ UNCHANGED <<created, mux, list, ready, pc, expected, timed>>

\* Notify: nothing to do when nobody ever waited here; else, under the
\* mutex, the first count waiters are removed and their channels closed.
Notify(count) ==
    /\ notifier = "stored"
    /\ notifier' = IF count = Cardinality(Waiters) THEN "all" ELSE "some"
    /\ created => mux = Nobody
    /\ LET n == IF Len(list) < count THEN Len(list) ELSE count
       IN  /\ ready' = ready \cup ToSet(SubSeq(list, 1, n))
           /\ list' = SubSeq(list, n + 1, Len(list))
    /\ UNCHANGED <<value, created, mux, pc, expected, timed>>

WaitNext ==
    \/ Store
    \/ \E count \in {1, Cardinality(Waiters)} : Notify(count)
    \/ \E t \in Waiters :
         \/ \E exp \in 0..MaxValue, timeout \in BOOLEAN : GetWaiters(t, exp, timeout)
         \/ Read(t)
         \/ Park(t)
         \/ Woken(t)
         \/ Expire(t)
         \/ Leave(t)

WaitSpec == WaitInit /\ [][WaitNext]_waitVars

-----------------------------------------------------------------------------
(* Correctness.                                                             *)

\* NoMissedWake: once a thread has stored and notified every waiter, nobody who
\* expected the value from before the store sleeps, or is about to: the value
\* is read and the list joined under the mutex the notifier takes, and the list
\* exists before the value is read (Wait32 and Notify in memory.go).
NoMissedWake ==
    notifier = "all" =>
        \A t \in Waiters :
            pc[t] \in {"read", "parked"} /\ t \notin ready => expected[t] = value

\* SleepersListed: the list holds, once each, exactly the waiters that have
\* not been woken; one whose timer fired is gone from it when its wait returns,
\* also when a notifier came between the timer and the mutex, so a later
\* notification is not spent on it (wait in memory.go).
SleepersListed ==
    /\ IsInjective(list)
    /\ ToSet(list) = {t \in Waiters : pc[t] \in {"parked", "expired"} /\ t \notin ready}

=============================================================================
