----------------------------- MODULE FutureCopy -----------------------------
(***************************************************************************)
(* A future: the rendezvous of a writer and a reader of one value          *)
(* (sharedFuture, stream.go), through the guest's builtins or the host's   *)
(* API.  As StreamCopy, without partial progress; the writable end may not *)
(* be dropped before its write is done.                                    *)
(***************************************************************************)
EXTENDS Naturals

CONSTANT Unset

ASSUME FutureAssumption == Unset \notin {"r", "w", "COMPLETED", "DROPPED", "CANCELLED"}

VARIABLES
    fkind,     \* end |-> held by a guest or by the host
    fdropped,  \* sharedFuture.dropped
    fpend,     \* the end whose buffer is parked
    fcst,      \* end |-> its copyState
    fevent,    \* end |-> the result its pending event carries
    fresult,   \* end |-> the last result its holder was told
    fopen,     \* the ends not dropped yet
    ftrapped   \* the ends whose holder trapped or panicked in an operation

futureVars == <<fkind, fdropped, fpend, fcst, fevent, fresult, fopen, ftrapped>>

Side == {"r", "w"}
Peer(e) == IF e = "r" THEN "w" ELSE "r"
FState == {"IDLE", "COPYING", "CANCELLING", "DONE"}
FResult == {"COMPLETED", "DROPPED", "CANCELLED", Unset}

\* The state of both ends is of its kind.
FutureTypeOK ==
    /\ fkind \in [Side -> {"guest", "host"}]
    /\ fdropped \in BOOLEAN /\ fpend \in Side \cup {Unset}
    /\ fcst \in [Side -> FState]
    /\ fevent \in [Side -> FResult] /\ fresult \in [Side -> FResult]
    /\ fopen \subseteq Side /\ ftrapped \subseteq Side

FutureInit ==
    /\ fkind \in [Side -> {"guest", "host"}]
    /\ fdropped = FALSE /\ fpend = Unset
    /\ fcst = [e \in Side |-> "IDLE"]
    /\ fevent = [e \in Side |-> Unset]
    /\ fresult = [e \in Side |-> Unset]
    /\ fopen = Side /\ ftrapped = {}

-----------------------------------------------------------------------------
(* Completions                                                             *)

\* A guest end may copy again only after a cancel; a host end is one-shot.
FAfter(e, res) == IF fkind[e] = "guest" /\ res = "CANCELLED" THEN "IDLE" ELSE "DONE"

MutFEvents(p, res) == fevent

\* The parked end p is notified: a guest by an event, the host by its callback.
FEvents(p, res) ==
    IF fkind[p] = "guest" THEN [fevent EXCEPT ![p] = res] ELSE fevent

FResults(p, res) ==
    IF fkind[p] = "guest" THEN fresult ELSE [fresult EXCEPT ![p] = res]

FNotified(p, res) == IF fkind[p] = "guest" THEN fcst[p] ELSE FAfter(p, res)

FDeliver(e) ==
    /\ e \notin ftrapped /\ fevent[e] # Unset
    /\ fcst' = [fcst EXCEPT ![e] = FAfter(e, fevent[e])]
    /\ fresult' = [fresult EXCEPT ![e] = fevent[e]]
    /\ fevent' = [fevent EXCEPT ![e] = Unset]
    /\ UNCHANGED <<fkind, fdropped, fpend, fopen, ftrapped>>

-----------------------------------------------------------------------------
(* future.read, future.write, FutureReader.Get and FutureWriter.Set        *)

FMayCopy(e) == e \in fopen /\ e \notin ftrapped /\ fcst[e] = "IDLE"

\* The other end is gone: the writer is told; for a reader this is the "BUG"
\* panic of sharedFuture.read.
FCopyDropped(e) ==
    /\ FMayCopy(e) /\ fdropped
    /\ IF e = "r"
       THEN /\ ftrapped' = ftrapped \cup {e}
            /\ fcst' = [fcst EXCEPT ![e] = "COPYING"]
            /\ UNCHANGED fresult
       ELSE /\ fcst' = [fcst EXCEPT ![e] = FAfter(e, "DROPPED")]
            /\ fresult' = [fresult EXCEPT ![e] = "DROPPED"]
            /\ UNCHANGED ftrapped
    /\ UNCHANGED <<fkind, fdropped, fpend, fevent, fopen>>

FCopyParks(e) ==
    /\ FMayCopy(e) /\ ~fdropped /\ fpend = Unset
    /\ fpend' = e
    /\ fcst' = [fcst EXCEPT ![e] = "COPYING"]
    /\ UNCHANGED <<fkind, fdropped, fevent, fresult, fopen, ftrapped>>

\* The value is copied: the parked end is notified, then the copier is told.
FCopyMeets(e) ==
    LET p == Peer(e)
    IN  /\ FMayCopy(e) /\ ~fdropped /\ fpend = p
        /\ fpend' = Unset
        /\ fcst' = [fcst EXCEPT ![e] = "DONE", ![p] = FNotified(p, "COMPLETED")]
        /\ fevent' = FEvents(p, "COMPLETED")
        /\ fresult' = [FResults(p, "COMPLETED") EXCEPT ![e] = "COMPLETED"]
        /\ UNCHANGED <<fkind, fdropped, fopen, ftrapped>>

\* The copy traps: one instance holds both ends and the value is not numeric,
\* or the value cannot be lifted or lowered.
FCopyFails(e) ==
    /\ FMayCopy(e) /\ ~fdropped /\ fpend = Peer(e)
    /\ \E x \in Side : fkind[x] = "guest"
    /\ fcst' = [fcst EXCEPT ![e] = "COPYING"]
    /\ ftrapped' = ftrapped \cup {e}
    /\ UNCHANGED <<fkind, fdropped, fpend, fevent, fresult, fopen>>

-----------------------------------------------------------------------------
(* Cancels and drops                                                       *)

\* FutureWriter has no Cancel.
FMayCancel(e) ==
    /\ e \notin ftrapped /\ fcst[e] = "COPYING"
    /\ fkind[e] = "guest" \/ e = "r"

FSuperseded(e) == fevent[e] = Unset

FCancelTooLate(e) == FMayCancel(e) /\ ~FSuperseded(e) /\ FDeliver(e)

\* shared.cancel ends the parked copy, whosever it is.
FCancelCopy(e) ==
    /\ FMayCancel(e) /\ FSuperseded(e)
    /\ fpend' = Unset
    /\ IF fpend = e
       THEN /\ fcst' = [fcst EXCEPT ![e] = FAfter(e, "CANCELLED")]
            /\ fresult' = [fresult EXCEPT ![e] = "CANCELLED"]
            /\ UNCHANGED <<fevent, ftrapped>>
       ELSE IF fpend = Unset
       THEN /\ fcst' = [fcst EXCEPT ![e] = "CANCELLING"]
            /\ ftrapped' = IF fkind[e] = "guest" THEN ftrapped \cup {e} ELSE ftrapped
            /\ UNCHANGED <<fevent, fresult>>
       ELSE /\ fcst' = [fcst EXCEPT ![e] = "CANCELLING", ![fpend] = FNotified(fpend, "CANCELLED")]
            /\ fevent' = FEvents(fpend, "CANCELLED")
            /\ fresult' = FResults(fpend, "CANCELLED")
            /\ UNCHANGED ftrapped
    /\ UNCHANGED <<fkind, fdropped, fopen>>

MutFMayDrop(e) == fcst[e] \in {"IDLE", "DONE"}

\* The writer must have completed its write or been told DROPPED.
FMayDrop(e) == fcst[e] \in (IF e = "w" THEN {"DONE"} ELSE {"IDLE", "DONE"})

FDrop(e) ==
    /\ e \in fopen /\ e \notin ftrapped /\ FMayDrop(e)
    /\ fopen' = fopen \ {e}
    /\ fdropped' = TRUE
    /\ IF ~fdropped /\ fpend # Unset
       THEN /\ fpend' = Unset
            /\ fcst' = [fcst EXCEPT ![e] = "DONE", ![fpend] = FNotified(fpend, "DROPPED")]
            /\ fevent' = FEvents(fpend, "DROPPED")
            /\ fresult' = FResults(fpend, "DROPPED")
       ELSE /\ fcst' = [fcst EXCEPT ![e] = "DONE"]
            /\ UNCHANGED <<fpend, fevent, fresult>>
    /\ UNCHANGED <<fkind, ftrapped>>

-----------------------------------------------------------------------------

FutureNext ==
    \E e \in Side :
      \/ FCopyDropped(e) \/ FCopyParks(e) \/ FCopyMeets(e) \/ FCopyFails(e)
      \/ FDeliver(e) \/ FCancelTooLate(e) \/ FCancelCopy(e) \/ FDrop(e)

FutureSpec == FutureInit /\ [][FutureNext]_futureVars

-----------------------------------------------------------------------------
(* Properties                                                              *)

FOutcome(e) == IF fevent[e] # Unset THEN fevent[e] ELSE fresult[e]

\* The reader never sees DROPPED, and the "BUG" panic of sharedFuture.read
\* cannot be reached: no drop of the writable end leaves a reader waiting or
\* free to read (the gate in future.drop-writable and FutureWriter.Close).
ReaderNeverDropped ==
    /\ FOutcome("r") # "DROPPED"
    /\ FMayCopy("r") => ~fdropped

\* The value is handed over once and both sides agree that it was: one end is
\* told COMPLETED, or has the event waiting, exactly when the other has, even
\* if it cancels before the event is delivered.
BothOrNeither ==
    FOutcome("r") = "COMPLETED" <=> FOutcome("w") = "COMPLETED"

\* A cancel that reaches the shared future ends the canceller's own copy.
FutureCancelHitsOwn ==
    \A e \in Side : FMayCancel(e) /\ FSuperseded(e) => fpend = e
=============================================================================
