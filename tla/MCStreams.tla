------------------------------ MODULE MCStreams ------------------------------
(***************************************************************************)
(* One stream or one future, between guests, guest and host, or within the *)
(* host.                                                                   *)
(***************************************************************************)
EXTENDS StreamCopy, FutureCopy

VARIABLE object

Init == StreamInit /\ FutureInit /\ object \in {"stream", "future"}

Next ==
    /\ UNCHANGED object
    /\ \/ object = "stream" /\ StreamNext /\ UNCHANGED futureVars
       \/ object = "future" /\ FutureNext /\ UNCHANGED streamVars

Spec == Init /\ [][Next]_<<object, streamVars, futureVars>>

\* CancelHitsOwn: a cancel that the code passes on to the stream or the future
\* finds its own copy parked there: once the peer has taken the copy, or left
\* its own in its place, the event is pending and the cancel returns it.
CancelHitsOwn == CancelHitsOwnCopy /\ FutureCancelHitsOwn
=============================================================================
