---------------------------- MODULE SubtaskLife -----------------------------
(***************************************************************************)
(* What a caller is promised about the asynchronous calls it makes: the    *)
(* life of a subtask as seen through its handle.  A call starts once, is   *)
(* resolved at most once, ends cancelled only if its caller asked for it,  *)
(* as cancelled-before-started only if it never started, and the caller is *)
(* told of the resolution at most once, and not before it.                 *)
(***************************************************************************)
CONSTANT Sub

VARIABLES
    status,     \* subtask |-> "unused" or its state
    requested,  \* the subtasks whose caller has asked for cancellation
    delivered   \* the subtasks whose caller has been told of the resolution

lifeVars == <<status, requested, delivered>>

Final == {"RETURNED", "CANCELLED_BEFORE_STARTED", "CANCELLED_BEFORE_RETURNED"}

LifeInit ==
    /\ status = [s \in Sub |-> "unused"]
    /\ requested = {}
    /\ delivered = {}

\* The call is made: it waits to start, starts, or returns at once.
Begin(s) ==
    /\ status[s] = "unused"
    /\ \/ /\ \E st \in {"STARTING", "STARTED"} : status' = [status EXCEPT ![s] = st]
          /\ UNCHANGED delivered
       \/ /\ status' = [status EXCEPT ![s] = "RETURNED"]
          /\ delivered' = delivered \cup {s}
    /\ UNCHANGED requested

Start(s) ==
    /\ status[s] = "STARTING"
    /\ status' = [status EXCEPT ![s] = "STARTED"]
    /\ UNCHANGED <<requested, delivered>>

\* The caller asks once, while the call is unresolved; the callee may answer
\* on the spot.
Request(s) ==
    /\ status[s] \in {"STARTING", "STARTED"} /\ s \notin requested
    /\ requested' = requested \cup {s}
    /\ \/ UNCHANGED status
       \/ /\ status[s] = "STARTING"
          /\ status' = [status EXCEPT ![s] = "CANCELLED_BEFORE_STARTED"]
       \/ /\ status[s] = "STARTED"
          /\ \E st \in {"RETURNED", "CANCELLED_BEFORE_RETURNED"} :
               status' = [status EXCEPT ![s] = st]
    /\ UNCHANGED delivered

Resolve(s) ==
    /\ status[s] = "STARTED"
    /\ \/ status' = [status EXCEPT ![s] = "RETURNED"]
       \/ /\ s \in requested
          /\ status' = [status EXCEPT ![s] = "CANCELLED_BEFORE_RETURNED"]
    /\ UNCHANGED <<requested, delivered>>

Deliver(s) ==
    /\ status[s] \in Final /\ s \notin delivered
    /\ delivered' = delivered \cup {s}
    /\ UNCHANGED <<status, requested>>

LifeNext ==
    \E s \in Sub : Begin(s) \/ Start(s) \/ Request(s) \/ Resolve(s) \/ Deliver(s)

LifeSpec == LifeInit /\ [][LifeNext]_lifeVars

=============================================================================
