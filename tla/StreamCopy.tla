----------------------------- MODULE StreamCopy -----------------------------
(***************************************************************************)
(* A stream: the rendezvous of its two ends (sharedStream, stream.go) and  *)
(* the operations on them, the guest's builtins (stream_builtins.go) and   *)
(* the host's API (stream_host.go).  At most one buffer is parked in the   *)
(* shared object; the other side copies straight from or into it.          *)
(*                                                                         *)
(* A guest end learns of a completion by an event, and leaves COPYING only *)
(* when the event is delivered.  A host end's callback is its delivery.    *)
(* Elements are only counted.                                              *)
(***************************************************************************)
EXTENDS Integers

CONSTANTS
    MaxLen,    \* the longest buffer of one copy
    MaxMoved,  \* no copy starts that could move more elements than this
    Reenter,   \* do host callbacks use their end again before they return?
    None

ASSUME StreamAssumption ==
    /\ MaxLen \in Nat /\ MaxMoved \in Nat
    /\ Reenter \in BOOLEAN
    /\ None \notin {"r", "w", "COMPLETED", "DROPPED", "CANCELLED"}

VARIABLES
    kind,      \* end |-> held by a guest or by the host
    dropped,   \* sharedStream.dropped
    pend,      \* the end whose buffer is parked in the shared object
    cst,       \* end |-> its copyState
    len, prog, \* end |-> length and progress of its last buffer
    event,     \* end |-> the result its pending event carries
    reclaim,   \* the ends whose event un-parks their buffer when delivered
    live,      \* the ends with livePending set
    open,      \* the ends not dropped yet
    trapped,   \* the ends whose holder trapped or panicked in an operation
    told,      \* end |-> elements its holder was told of, in all its copies
    moved      \* elements copied in all

eventVars == <<event, reclaim, live>>
bufVars == <<len, prog>>
streamVars == <<kind, dropped, pend, cst, bufVars, eventVars, open, trapped, told, moved>>

End == {"r", "w"}
Other(e) == IF e = "r" THEN "w" ELSE "r"
CopyState == {"IDLE", "COPYING", "CANCELLING", "DONE"}
CopyResult == {"COMPLETED", "DROPPED", "CANCELLED"}
Copying(e) == cst[e] \in {"COPYING", "CANCELLING"}
Remain(e) == len[e] - prog[e]

\* States, buffers and events are of their kinds, and no copy moves more
\* elements than its buffer has room for (copyBuffer.remain never wraps).
StreamTypeOK ==
    /\ kind \in [End -> {"guest", "host"}]
    /\ dropped \in BOOLEAN /\ pend \in End \cup {None}
    /\ cst \in [End -> CopyState]
    /\ len \in [End -> 0..MaxLen] /\ prog \in [End -> 0..MaxLen]
    /\ \A e \in End : prog[e] <= len[e]
    /\ event \in [End -> CopyResult \cup {None}]
    /\ reclaim \subseteq End /\ live \subseteq End
    /\ open \subseteq End /\ trapped \subseteq End
    /\ told \in [End -> Nat] /\ moved \in Nat

StreamInit ==
    /\ kind \in [End -> {"guest", "host"}]
    /\ dropped = FALSE /\ pend = None
    /\ cst = [e \in End |-> "IDLE"]
    /\ len = [e \in End |-> 0] /\ prog = [e \in End |-> 0]
    /\ event = [e \in End |-> None]
    /\ reclaim = {} /\ live = {}
    /\ open = End /\ trapped = {}
    /\ told = [e \in End |-> 0] /\ moved = 0

-----------------------------------------------------------------------------
(* Completions                                                             *)

\* The state an end is left in by the delivery of a result.
After(res) == IF res = "DROPPED" THEN "DONE" ELSE "IDLE"

MutFinal(p, res) ==
    /\ event' = [event EXCEPT ![p] = res]
    /\ UNCHANGED <<reclaim, live>>

\* A guest end's onCopyDone: the event is final, with nothing to reclaim.
Final(p, res) ==
    /\ event' = [event EXCEPT ![p] = res]
    /\ reclaim' = reclaim \ {p}
    /\ live' = live \ {p}

\* A guest end's onCopy: delivering the event will un-park the buffer, and
\* until then a cancel may supersede it if there is room left.
Partial(p, room) ==
    /\ event' = [event EXCEPT ![p] = "COMPLETED"]
    /\ reclaim' = reclaim \cup {p}
    /\ live' = IF room > 0 THEN live \cup {p} ELSE live \ {p}

\* getPendingEvent: the event's thunk reclaims the buffer, leaves COPYING and
\* reads the progress.  (livePending is reset by the next copy; nothing reads
\* it in between.)
Deliver(e) ==
    /\ e \notin trapped /\ event[e] # None
    /\ pend' = IF e \in reclaim THEN None ELSE pend
    /\ cst' = [cst EXCEPT ![e] = After(event[e])]
    /\ told' = [told EXCEPT ![e] = @ + prog[e]]
    /\ event' = [event EXCEPT ![e] = None]
    /\ reclaim' = reclaim \ {e} /\ live' = live \ {e}
    /\ UNCHANGED <<kind, dropped, bufVars, open, trapped, moved>>

\* The parked end p is notified of a final result: a guest by an event, the
\* host by its callback, which is told the progress.
Notify(p, res) ==
    IF kind[p] = "guest"
    THEN Final(p, res) /\ UNCHANGED told
    ELSE told' = [told EXCEPT ![p] = @ + prog[p]] /\ UNCHANGED eventVars

Notified(p, res) == IF kind[p] = "guest" THEN cst[p] ELSE After(res)

-----------------------------------------------------------------------------
(* Copies of n elements: stream.read, stream.write, StreamReader.Read and  *)
(* StreamWriter.Write                                                      *)

MayCopy(e, n) ==
    /\ e \in open /\ e \notin trapped
    /\ cst[e] = "IDLE"
    /\ moved + n <= MaxMoved

SetBuffer(e, n) ==
    /\ len' = [len EXCEPT ![e] = n]
    /\ prog' = [prog EXCEPT ![e] = 0]

\* The other end is gone: DROPPED, before the call returns.
CopyDropped(e, n) ==
    /\ MayCopy(e, n) /\ dropped
    /\ cst' = [cst EXCEPT ![e] = After("DROPPED")]
    /\ SetBuffer(e, n)
    /\ UNCHANGED <<kind, dropped, pend, eventVars, open, trapped, told, moved>>

\* Nobody is parked: park.
CopyParks(e, n) ==
    /\ MayCopy(e, n) /\ ~dropped /\ pend = None
    /\ pend' = e
    /\ cst' = [cst EXCEPT ![e] = "COPYING"]
    /\ SetBuffer(e, n)
    /\ UNCHANGED <<kind, dropped, eventVars, open, trapped, told, moved>>

Meets(e, n, p) == MayCopy(e, n) /\ ~dropped /\ pend = p

MutCount(n, room) == n

\* How many elements a rendezvous moves.
Count(n, room) == IF n < room THEN n ELSE room

MutProgressed(p, k) == k

\* A buffer's progress adds up over the rendezvous it takes part in.
Progressed(p, k) == prog[p] + k

\* The two buffers meet.  The copier is done before its call returns.  The
\* parked end gets onCopy: a guest stays parked until the event is delivered
\* and may be met again; the host un-parks and is told at once.
CopyMoves(e, n) ==
    LET p == Other(e)
        k == Count(n, Remain(p))
    IN  /\ Meets(e, n, p) /\ Remain(p) > 0 /\ n > 0
        /\ len' = [len EXCEPT ![e] = n]
        /\ prog' = [prog EXCEPT ![e] = k, ![p] = Progressed(p, k)]
        /\ moved' = moved + k
        /\ IF kind[p] = "guest"
           THEN /\ Partial(p, Remain(p) - k)
                /\ told' = [told EXCEPT ![e] = @ + k]
                /\ UNCHANGED <<pend, cst>>
           ELSE /\ pend' = None
                /\ cst' = [cst EXCEPT ![p] = After("COMPLETED")]
                /\ told' = [told EXCEPT ![e] = @ + k, ![p] = @ + Progressed(p, k)]
                /\ UNCHANGED eventVars
        /\ UNCHANGED <<kind, dropped, open, trapped>>

\* Only the write side treats two zero-length buffers specially.
Handshake(e, n, p) == e = "w" /\ n = 0 /\ len[p] = 0

\* A zero-length copy that completes without touching the parked buffer.
CopyNothing(e, n) ==
    LET p == Other(e)
    IN  /\ Meets(e, n, p) /\ n = 0
        /\ Remain(p) > 0 \/ Handshake(e, n, p)
        /\ SetBuffer(e, n)
        /\ UNCHANGED <<kind, dropped, pend, cst, eventVars, open, trapped, told, moved>>

\* What a host callback may do before the copy that fired it goes on: nothing,
\* close its end, or copy again, which parks, as nothing else is parked.
Callback(p) ==
    IF Reenter /\ kind[p] = "host" THEN {"return", "close", "copy"} ELSE {"return"}

AfterCallback(p, cb) ==
    IF cb = "close" THEN "DONE"
    ELSE IF cb = "copy" THEN "COPYING" ELSE Notified(p, "COMPLETED")

\* The parked buffer is used up: its end is notified that it is done, and the
\* copier parks in its place.
CopyReplaces(e, n) ==
    LET p == Other(e)
    IN  /\ Meets(e, n, p) /\ Remain(p) = 0 /\ ~Handshake(e, n, p)
        /\ Notify(p, "COMPLETED")
        /\ \E cb \in Callback(p) :
             /\ dropped' = (cb = "close")
             /\ open' = IF cb = "close" THEN open \ {p} ELSE open
             /\ cst' = [cst EXCEPT ![e] = "COPYING",
                          ![p] = AfterCallback(p, cb)]
        /\ pend' = e
        /\ SetBuffer(e, n)
        /\ UNCHANGED <<kind, trapped, moved>>

\* The copy traps: the ends belong to one instance and the elements are not
\* numeric, or an element cannot be lifted or lowered.  The source may have
\* been read by then.
CopyFails(e, n) ==
    LET p == Other(e)
        k == Count(n, Remain(p))
    IN  /\ Meets(e, n, p)
        /\ "guest" \in {kind[e], kind[p]}
        /\ \/ kind[e] = kind[p] /\ UNCHANGED prog
           \/ /\ Remain(p) > 0 /\ n > 0
              /\ \E j \in {0, IF p = "w" THEN k ELSE 0} :
                   prog' = [prog EXCEPT ![e] = 0, ![p] = @ + j]
        /\ cst' = [cst EXCEPT ![e] = "COPYING"]
        /\ trapped' = trapped \cup {e}
        /\ UNCHANGED <<kind, dropped, pend, len, eventVars, open, told, moved>>

-----------------------------------------------------------------------------
(* Cancels and drops                                                       *)

MutSuperseded(e) == TRUE

\* A cancel takes effect unless a final event is already pending.
Superseded(e) == event[e] = None \/ e \in live

MayCancel(e) == e \notin trapped /\ cst[e] = "COPYING"

\* The pending event wins: the cancel returns it.
CancelTooLate(e) == MayCancel(e) /\ ~Superseded(e) /\ Deliver(e)

\* shared.cancel ends the parked copy, whosever it is: the canceller's own, of
\* which it is told before the call returns, or else the other end's.
CancelCopy(e) ==
    /\ MayCancel(e) /\ Superseded(e)
    /\ pend' = None
    /\ IF pend = e
       THEN /\ cst' = [cst EXCEPT ![e] = After("CANCELLED")]
            /\ told' = [told EXCEPT ![e] = @ + prog[e]]
            /\ event' = [event EXCEPT ![e] = None]
            /\ reclaim' = reclaim \ {e} /\ live' = live \ {e}
            /\ UNCHANGED trapped
       ELSE IF pend = None
       THEN /\ cst' = [cst EXCEPT ![e] = "CANCELLING"]
            /\ trapped' = IF kind[e] = "guest" THEN trapped \cup {e} ELSE trapped
            /\ UNCHANGED <<eventVars, told>>
       ELSE /\ cst' = [cst EXCEPT ![e] = "CANCELLING", ![pend] = Notified(pend, "CANCELLED")]
            /\ Notify(pend, "CANCELLED")
            /\ UNCHANGED trapped
    /\ UNCHANGED <<kind, dropped, bufVars, open, moved>>

MutInterrupts == FALSE

\* The first drop interrupts a parked copy.
Interrupts == ~dropped /\ pend # None

\* stream.drop-readable, stream.drop-writable and Close.  A parked copy is
\* notified, once.
Drop(e) ==
    /\ e \in open /\ e \notin trapped /\ ~Copying(e)
    /\ open' = open \ {e}
    /\ dropped' = TRUE
    /\ IF Interrupts
       THEN /\ pend' = None
            /\ cst' = [cst EXCEPT ![e] = "DONE", ![pend] = Notified(pend, "DROPPED")]
            /\ Notify(pend, "DROPPED")
       ELSE /\ cst' = [cst EXCEPT ![e] = "DONE"]
            /\ UNCHANGED <<pend, eventVars, told>>
    /\ UNCHANGED <<kind, bufVars, trapped, moved>>

-----------------------------------------------------------------------------

Copy(e, n) ==
    \/ CopyDropped(e, n) \/ CopyParks(e, n) \/ CopyMoves(e, n) \/ CopyNothing(e, n)
    \/ CopyReplaces(e, n) \/ CopyFails(e, n)

StreamNext ==
    \E e \in End :
      \/ \E n \in 0..MaxLen : Copy(e, n)
      \/ Deliver(e) \/ CancelTooLate(e) \/ CancelCopy(e) \/ Drop(e)

StreamSpec == StreamInit /\ [][StreamNext]_streamVars

-----------------------------------------------------------------------------
(* Properties                                                              *)

\* A cancel that reaches the shared object ends the canceller's own copy: an
\* end that is COPYING and whose completion is not settled is the parked one,
\* so shared.cancel neither hits the other end nor calls a nil callback.
CancelHitsOwnCopy ==
    \A e \in End : MayCancel(e) /\ Superseded(e) => pend = e

\* Delivering an event un-parks the buffer of the copy it reports and no other:
\* the reclaim closure an event holds is only run while that buffer is parked.
ReclaimsOwnBuffer ==
    \A e \in reclaim : pend = e /\ event[e] = "COMPLETED"

\* No element is lost or reported twice: what either holder was told over all
\* its copies, with the progress it is still to be told, is what was moved,
\* whatever partial copies, cancels, drops and superseded events intervened.
ProgressConserved ==
    trapped = {} =>
      \A e \in End : told[e] + (IF Copying(e) THEN prog[e] ELSE 0) = moved

\* Nobody waits for an end that is gone: a dropped stream has no parked copy,
\* so every copy is answered, by DROPPED at the latest.
DroppedNeverParks == dropped => pend = None

\* A host end in COPYING is the parked one, so that a later operation of the
\* other end fires the callback Write and Read promise to fire exactly once.
HostCopyIsParked ==
    \A e \in End : kind[e] = "host" /\ MayCancel(e) => pend = e
=============================================================================
