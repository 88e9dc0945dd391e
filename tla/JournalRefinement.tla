-------------------------- MODULE JournalRefinement --------------------------
(***************************************************************************)
(* The journal implements the atomic run: under the mapping below every    *)
(* step of Journal is a step of AtomicRun or leaves its variables alone.   *)
(* A run is open while a power loss could still show its marker, and       *)
(* committed once no power loss can show the predecessor pointer.          *)
(***************************************************************************)
EXTENDS Journal

RunPhase ==
  IF markerDisk = {NoMarker} THEN "closed"
  ELSE IF \E m \in markerDisk : m \in Marker /\ currentDisk = {m.target}
       THEN "committed" ELSE "open"

\* Selections are reserved in increasing order, so the durable one is the
\* smallest a power loss can show.
Durable == CHOOSE c \in currentDisk : \A b \in currentDisk : c <= b

Atomic == INSTANCE AtomicRun WITH
  work <- live, phase <- RunPhase, selected <- Durable

\* Every behaviour of the journal, crashes and users included, is one of the
\* atomic run (journal/*.rs against the contract in exec/apply.rs).
ImplementsAtomicRun == Atomic!Spec

-----------------------------------------------------------------------------
(* Progress.  Once a command holds the lock it keeps taking recovery and   *)
(* cleanup steps, and a command that ended in an error is run again; the   *)
(* run itself may stop anywhere.                                           *)

Fairness == WF_vars(Recovery) /\ WF_vars(Cleanup)
FairSpec == Spec /\ Fairness

\* When nothing fails, dies or is edited any more, a reconciliation that has
\* begun settles every entry and leaves nothing pending: no state that faults
\* and users can produce makes recovery refuse for ever (recover.rs reconcile).
Settles ==
  <>[][~(Faults \/ User) \/ (Refused /\ pc' # pc)]_vars =>
    (pc = "reconcile" ~> NothingPending /\ pc \in {"ready", "idle"})
=============================================================================
