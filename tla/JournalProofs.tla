---------------------------- MODULE JournalProofs ----------------------------
(* Proofs that Journal keeps its inductive invariant, what follows from    *)
(* it, and that Journal implements AtomicRun.                              *)
EXTENDS JournalRefinement, Journals, TLAPS

\* The disk variables and the history: what a step of the process alone keeps.
OnDisk == DiskInv /\ MarkerInv /\ EntryInv /\ OutcomeInv

-----------------------------------------------------------------------------
(* Lemmas about decisions.                                                 *)

\* Undo returns the prior or leaves the object alone.
LEMMA UndoChoices ==
  ASSUME NEW l \in State, NEW e \in Entry \cup {NoEntry}
  PROVE  Undo(l, e) = l \/ (e # NoEntry /\ Undo(l, e) = e.prior)
BY SentinelAssumption DEF Undo

\* Without an entry nothing is undone.
LEMMA UndoNothing == ASSUME NEW l PROVE Undo(l, NoEntry) = l
BY SentinelAssumption DEF Undo

\* Whatever landed of a mutation, and the prior itself, is undone to the prior.
LEMMA UndoLanded ==
  ASSUME NEW e \in Entry
  PROVE  Undo(e.after, e) = e.prior /\ Undo(e.prior, e) = e.prior
BY SentinelAssumption DEF Undo, Verdict, Restores

\* An object that is neither of the run's making nor the prior is kept, and
\* one that is kept is no end of the entry.
LEMMA UndoForeign ==
  ASSUME NEW e \in Entry, NEW l \in Foreign, l # e.prior,
         e.before = e.prior \/ e.before \in Intent
  PROVE  Undo(l, e) = l
BY IdentityAssumption, SentinelAssumption DEF Undo, Verdict, Restores, Entry, Intent, State, Object

\* Every verdict: Restore undoes to the prior, the others leave the object.
LEMMA Verdicts ==
  ASSUME NEW l \in State, NEW e \in Entry
  PROVE  /\ Verdict(l, e) \in {"Restore", "Unchanged", "Keep"}
         /\ Verdict(l, e) = "Restore" => Undo(l, e) = e.prior
         /\ Verdict(l, e) # "Restore" => Undo(l, e) = l
         /\ Verdict(l, e) = "Keep" => l \notin {e.prior, e.after}
         /\ Verdict(l, e) = "Unchanged" => l = e.prior
BY SentinelAssumption DEF Undo, Verdict, Restores

-----------------------------------------------------------------------------
(* The initial state and the steps that only move the process.             *)

LEMMA InitInv == Init => IInv
<1> SUFFICES ASSUME Init PROVE IInv
  OBVIOUS
<1> USE DEF Init
<1>1. TypeOK
  BY MaxTxnAssumption DEF TypeOK, Txn, PC
<1>2. DiskInv
  BY SentinelAssumption DEF DiskInv
<1>3. MarkerInv /\ EntryInv
  BY DEF MarkerInv, EntryInv, Single
<1>4. OutcomeInv
  BY UndoNothing, SentinelAssumption DEF OutcomeInv, Committed
<1>5. RunInv /\ CaptureInv /\ RecoveryInv
  BY DEF RunInv, CaptureInv, RecoveryInv, Single, Compensated
<1>6. QED
  BY <1>1, <1>2, <1>3, <1>4, <1>5 DEF IInv

LEMMA DiskKept ==
  ASSUME OnDisk, UNCHANGED <<disk, allowed>>
  PROVE  OnDisk'
BY DEF OnDisk, disk, DiskInv, MarkerInv, EntryInv, OutcomeInv, Single, MayUndo

\* Where the process has nothing in flight the disk says all there is to say.
LEMMA HaltKeeps ==
  ASSUME IInv, UNCHANGED <<disk, allowed>>,
         op' = NoOp, staged' = "none", todo' = {}, onDone' = "idle",
         pc' \in {"idle", "reconcile"}
  PROVE  IInv'
<1>1. OnDisk'
  BY DiskKept DEF IInv, OnDisk
<1>2. TypeOK'
  BY DEF IInv, TypeOK, disk, PC
<1>3. RunInv' /\ CaptureInv' /\ RecoveryInv'
  BY DEF RunInv, CaptureInv, RecoveryInv, Compensated
<1>4. QED
  BY <1>1, <1>2, <1>3 DEF IInv, OnDisk

LEMMA AbandonStep == ASSUME IInv, Fail \/ Refuse \/ ProcessDeath PROVE IInv'
BY HaltKeeps DEF Fail, Refuse, ProcessDeath, Abandon, Halt

LEMMA StartStep == ASSUME IInv, Start PROVE IInv'
<1> USE DEF Start
<1>1. OnDisk'
  BY DiskKept DEF IInv, OnDisk
<1>2. TypeOK'
  BY DEF IInv, TypeOK, disk, PC
<1>3. RunInv' /\ CaptureInv' /\ RecoveryInv'
  BY DEF IInv, RunInv, CaptureInv, RecoveryInv, Compensated
<1>4. QED
  BY <1>1, <1>2, <1>3 DEF IInv, OnDisk

LEMMA ReconcileStep == ASSUME IInv, Reconcile PROVE IInv'
<1> USE DEF Reconcile
<1>1. OnDisk'
  BY DiskKept DEF IInv, OnDisk
<1>2. TypeOK'
  BY DEF IInv, TypeOK, disk, PC
<1>3. RunInv' /\ CaptureInv'
  BY DEF IInv, RunInv, CaptureInv, Compensated
<1>4. ASSUME NEW d \in Dest, Uncommitted(marker, current), entry[d] = NoEntry
      PROVE  Single(d) /\ live[d] \in allowed[d]
  <2>1. Single(d)
    BY <1>4 DEF IInv, EntryInv
  <2>2. ~Committed(marker, current)
    BY <1>4, SentinelAssumption DEF Committed, Uncommitted
  <2>3. MayUndo
    BY <2>2 DEF IInv, DiskInv, MayUndo
  <2>4. Undo(live[d], entry[d]) \in allowed[d]
    BY <2>3 DEF IInv, DiskInv, OutcomeInv
  <2>5. QED
    BY <2>1, <2>4, <1>4, UndoNothing
<1>5. RecoveryInv'
  BY <1>4 DEF RecoveryInv, disk, Single, Committed, Uncommitted
<1>6. QED
  BY <1>1, <1>2, <1>3, <1>5 DEF IInv, OnDisk

LEMMA RecoveredStep == ASSUME IInv, Recovered PROVE IInv'
<1> USE DEF Recovered
<1>1. OnDisk'
  BY DiskKept DEF IInv, OnDisk
<1>2. TypeOK'
  BY DEF IInv, TypeOK, disk, PC
<1>3. RunInv' /\ CaptureInv'
  BY DEF IInv, RunInv, CaptureInv, Compensated, disk, Single
<1>4. currentDisk = {current}
  BY SentinelAssumption DEF IInv, RecoveryInv, MarkerInv, Committed, Uncommitted
<1>5. RecoveryInv'
  BY <1>4 DEF IInv, RecoveryInv, disk, Single
<1>6. QED
  BY <1>1, <1>2, <1>3, <1>5 DEF IInv, OnDisk

LEMMA QuitStep == ASSUME IInv, Quit PROVE IInv'
<1> USE DEF Quit
<1>1. OnDisk'
  BY DiskKept DEF IInv, OnDisk
<1>2. TypeOK'
  BY DEF IInv, TypeOK, disk, PC
<1>3. RunInv' /\ CaptureInv'
  BY DEF IInv, RunInv, CaptureInv, Compensated, disk, Single
<1>4. RecoveryInv'
  BY DEF IInv, RecoveryInv, disk, Single, Committed, Uncommitted
<1>5. QED
  BY <1>1, <1>2, <1>3, <1>4 DEF IInv, OnDisk

LEMMA SyncRecordStep == ASSUME IInv, SyncRecord PROVE IInv'
<1> USE DEF SyncRecord
<1>1. OnDisk'
  BY DiskKept DEF IInv, OnDisk
<1>2. TypeOK'
  BY DEF IInv, TypeOK, disk, PC
<1>3. RunInv' /\ CaptureInv'
  BY DEF IInv, RunInv, CaptureInv, Compensated, disk, Single, FollowsPrevious, NextMarker
<1>4. RecoveryInv'
  BY DEF IInv, RecoveryInv, disk, Single, Committed, Uncommitted
<1>5. QED
  BY <1>1, <1>2, <1>3, <1>4 DEF IInv, OnDisk

LEMMA StageRecordStep == ASSUME IInv, StageRecord PROVE IInv'
<1> USE DEF StageRecord
<1>1. OnDisk'
  BY DiskKept DEF IInv, OnDisk
<1>2. TypeOK'
  BY DEF IInv, TypeOK, disk, PC
<1>3. RunInv' /\ CaptureInv'
  BY DEF IInv, RunInv, CaptureInv, Compensated, disk, Single, FollowsPrevious, NextMarker
<1>4. RecoveryInv'
  BY DEF IInv, RecoveryInv, disk, Single, Committed, Uncommitted
<1>5. QED
  BY <1>1, <1>2, <1>3, <1>4 DEF IInv, OnDisk

LEMMA VerifyEffectStep == ASSUME IInv, VerifyEffect PROVE IInv'
<1> USE DEF VerifyEffect
<1>1. OnDisk'
  BY DiskKept DEF IInv, OnDisk
<1>2. TypeOK'
  BY DEF IInv, TypeOK, disk, PC
<1>3. RunInv' /\ CaptureInv'
  BY DEF IInv, RunInv, CaptureInv, Compensated, disk, Single
<1>4. RecoveryInv'
  BY DEF IInv, RecoveryInv, disk, Single, Committed, Uncommitted
<1>5. QED
  BY <1>1, <1>2, <1>3, <1>4 DEF IInv, OnDisk

LEMMA VerifyRestoreStep == ASSUME IInv, VerifyRestore PROVE IInv'
<1> USE DEF VerifyRestore
<1>1. OnDisk'
  BY DiskKept DEF IInv, OnDisk
<1>2. TypeOK'
  BY DEF IInv, TypeOK, disk, PC
<1>3. RunInv' /\ CaptureInv'
  BY DEF IInv, RunInv, CaptureInv, Compensated, disk, Single
<1>4. RecoveryInv'
  BY DEF IInv, RecoveryInv, disk, Single, Committed, Uncommitted
<1>5. QED
  BY <1>1, <1>2, <1>3, <1>4 DEF IInv, OnDisk

LEMMA DecideStep ==
  ASSUME IInv, NEW d \in Dest, NEW w \in Intent, Decide(d, w)
  PROVE  IInv'
<1> USE DEF Decide
<1>1. OnDisk'
  BY DiskKept DEF IInv, OnDisk
<1>2. op' \in Op /\ op' # NoOp
  BY SentinelAssumption DEF IInv, TypeOK, Op, Intent, State, Object
<1>3. TypeOK'
  BY <1>2 DEF IInv, TypeOK, disk, PC
<1>4. RunInv' /\ CaptureInv'
  BY <1>2 DEF IInv, RunInv, CaptureInv, Compensated, disk, Single
<1>5. RecoveryInv'
  BY DEF RecoveryInv
<1>6. QED
  BY <1>1, <1>3, <1>4, <1>5 DEF IInv, OnDisk

\* What capture saw is what an undone run may leave: the first prior, or the
\* last write of this run, whose prior is.
LEMMA CaptureStep == ASSUME IInv, Capture PROVE IInv'
<1> USE DEF Capture
<1> DEFINE d == op.dest
<1>1. OnDisk'
  BY DiskKept DEF IInv, OnDisk
<1>2. TypeOK'
  BY DEF IInv, TypeOK, disk, PC
<1>3. RunInv'
  BY DEF IInv, RunInv, Compensated, disk, Single
<1>4. d \in Dest /\ entry[d] \in Entry \cup {NoEntry} /\ live[d] = op.seen
  BY SentinelAssumption DEF IInv, TypeOK, RunInv, DiskInv, Op
<1>5. MayUndo
  <2>1. marker \in Marker /\ current = marker.previous /\ marker.previous < marker.target
    BY SentinelAssumption DEF IInv, TypeOK, RunInv, DiskInv, MarkerInv, Compensated
  <2>2. ~Committed(marker, current)
    BY <2>1 DEF Committed, Marker, Txn
  <2>3. QED
    BY <2>2 DEF IInv, DiskInv, MayUndo
<1>6. Undo(live[d], entry[d]) \in allowed[d]
  BY <1>4, <1>5 DEF IInv, DiskInv, OutcomeInv
<1>7. entry[d] = NoEntry => op.seen \in allowed[d]
  BY <1>4, <1>6, UndoNothing
<1>8. entry[d] # NoEntry /\ FollowsPrevious => entry[d].prior \in allowed[d]
  BY <1>4, <1>6, UndoLanded DEF FollowsPrevious
<1>9. staged = "none"
  BY DEF IInv, RunInv
<1>10. CaptureInv'
  BY <1>4, <1>7, <1>8, <1>9 DEF IInv, CaptureInv, disk, FollowsPrevious
<1>11. RecoveryInv'
  BY DEF RecoveryInv
<1>12. QED
  BY <1>1, <1>2, <1>3, <1>10, <1>11 DEF IInv, OnDisk

\* A kept destination is settled; a restored or sealed one stays to be done.
LEMMA RecoverEntryStep ==
  ASSUME IInv, NEW d \in Dest, RecoverEntry(d)
  PROVE  IInv'
<1> USE DEF RecoverEntry
<1>1. OnDisk'
  BY DiskKept DEF IInv, OnDisk
<1>2. entry[d] \in Entry /\ live[d] \in State
  BY DEF IInv, TypeOK, DiskInv, RecoveryInv
<1>3. ~Committed(marker, current)
  BY SentinelAssumption DEF IInv, RecoveryInv, Committed, Uncommitted
<1>4. Undo(live[d], entry[d]) \in allowed[d]
  BY <1>3 DEF IInv, DiskInv, OutcomeInv, MayUndo
<1>5. /\ [dest |-> d, want |-> entry[d].prior, seen |-> live[d]] \in Op
      /\ [dest |-> d, want |-> live[d], seen |-> live[d]] \in Op
  BY <1>2 DEF Op, Entry
<1>6. TypeOK'
  BY <1>5 DEF IInv, TypeOK, disk, PC
<1>7. RunInv' /\ CaptureInv'
  BY DEF IInv, RunInv, CaptureInv, Compensated, disk, Single
<1>8. RecoveryInv'
  <2>1. CASE Verdict(live[d], entry[d]) = "Restore"
    BY <2>1, <1>2, <1>4, <1>5, Verdicts, SentinelAssumption
    DEF IInv, RecoveryInv, disk, Single, Committed, Uncommitted
  <2>2. CASE Verdict(live[d], entry[d]) = "Unchanged"
    BY <2>2, <1>2, <1>4, <1>5, Verdicts, SentinelAssumption
    DEF IInv, RecoveryInv, disk, Single, Committed, Uncommitted
  <2>3. CASE Verdict(live[d], entry[d]) = "Keep"
    <3>1. Single(d) /\ live[d] \in allowed[d]
      BY <2>3, <1>2, <1>4, Verdicts DEF IInv, EntryInv
    <3>2. QED
      BY <3>1, <2>3 DEF IInv, RecoveryInv, disk, Single, Committed, Uncommitted
  <2>4. QED
    BY <2>1, <2>2, <2>3, <1>2, Verdicts
<1>9. QED
  BY <1>1, <1>6, <1>7, <1>8 DEF IInv, OnDisk

\* end_run leaves every destination where an undone run may leave it.
LEMMA EndRunStep == ASSUME IInv, EndRun PROVE IInv'
<1> USE DEF EndRun
<1>1. OnDisk'
  BY DiskKept DEF IInv, OnDisk
<1>2. TypeOK'
  BY DEF IInv, TypeOK, disk, PC
<1>3. RunInv' /\ CaptureInv'
  BY DEF IInv, RunInv, CaptureInv, Compensated, disk, Single
<1>4. marker \in Marker /\ current = marker.previous /\ marker.previous < marker.target
  BY SentinelAssumption DEF IInv, TypeOK, RunInv, DiskInv, MarkerInv, Compensated
<1>5. ~Committed(marker, current)
  BY <1>4 DEF Committed, Marker, Txn
<1>6. currentDisk = {current}
  BY <1>5 DEF IInv, MarkerInv
<1>7. \A d \in Dest : Single(d) /\ live[d] \in allowed[d]
  BY <1>5, UndoNothing DEF IInv, DiskInv, OutcomeInv, MayUndo, RunInv, Compensated
<1>8. RecoveryInv'
  BY <1>6, <1>7 DEF RecoveryInv, disk, Single
<1>9. QED
  BY <1>1, <1>2, <1>3, <1>8 DEF IInv, OnDisk

(* The steps that move the disk.                                           *)

\* Before the flip the pointer is at the predecessor, on every disk.
LEMMA BeforeFlip ==
  ASSUME IInv, pc \in Compensated \ {"flipped"}
  PROVE  /\ marker \in Marker /\ current = marker.previous
         /\ marker.previous < marker.target /\ marker.target = issued
         /\ markerDisk = {marker} /\ currentDisk = {current}
         /\ ~Committed(marker, current) /\ MayUndo
<1>1. /\ marker \in Marker /\ current = marker.previous
      /\ marker.previous < marker.target /\ marker.target = issued
      /\ markerDisk = {marker}
  BY SentinelAssumption DEF IInv, TypeOK, RunInv, DiskInv, MarkerInv, Compensated
<1>2. ~Committed(marker, current)
  BY <1>1 DEF Committed, Marker, Txn
<1>3. currentDisk = {current} /\ MayUndo
  BY <1>1, <1>2 DEF IInv, DiskInv, MarkerInv, MayUndo
<1>4. QED
  BY <1>1, <1>2, <1>3

\* While recovery restores, some world is uncommitted and the pointer is sealed.
LEMMA WhileUndoing ==
  ASSUME IInv, pc \in {"recover", "restore", "restored", "recheck", "unchanged"}
  PROVE  currentDisk = {current} /\ ~Committed(marker, current) /\ MayUndo
<1>1. ~Committed(marker, current)
  BY SentinelAssumption DEF IInv, RecoveryInv, Committed, Uncommitted
<1>2. QED
  BY <1>1 DEF IInv, DiskInv, MarkerInv, MayUndo

LEMMA OpInFlight ==
  ASSUME IInv,
         pc \in {"decided", "captured", "permit", "effected", "landed",
                 "restore", "restored", "recheck", "unchanged"}
  PROVE  op \in Op /\ op.dest \in Dest /\ op.want \in State /\ op.seen \in State
BY DEF IInv, TypeOK, RunInv, RecoveryInv, Op

LEMMA EntryTyped ==
  ASSUME IInv, NEW d \in Dest
  PROVE  /\ entryDisk[d] \subseteq Entry \cup {NoEntry}
         /\ entry[d] \in Entry \cup {NoEntry}
BY DEF IInv, TypeOK, DiskInv

LEMMA SealCurrentStep ==
  ASSUME IInv, SealCurrent
  PROVE  IInv'
<1> USE DEF SealCurrent
<1>1. TypeOK'
  BY SentinelAssumption DEF IInv, TypeOK, PC, destination, journal, selection, process
<1>2. DiskInv'
  BY SentinelAssumption DEF IInv, TypeOK, DiskInv, destination, journal, selection, process
<1>3. MarkerInv'
  BY SentinelAssumption DEF IInv, TypeOK, DiskInv, MarkerInv, Committed, destination, journal, selection, process
<1>4. EntryInv'
  BY SentinelAssumption DEF IInv, TypeOK, DiskInv, EntryInv, Single, destination, journal, selection, process
<1>5. OutcomeInv'
  <2>1. Committed(marker, current) /\ \A d \in Dest : Single(d)
    BY DEF IInv, DiskInv, OutcomeInv, RecoveryInv
  <2>2. ASSUME NEW m \in markerDisk, ~Committed(m, current), NEW d \in Dest
        PROVE  entryDisk[d] = {NoEntry}
    BY <2>1, <2>2 DEF IInv, DiskInv, MarkerInv, Committed
  <2>3. QED
    BY <2>1, <2>2, UndoNothing DEF OutcomeInv, MayUndo, Single, destination, journal
<1>6. RunInv'
  BY SentinelAssumption DEF IInv, TypeOK, RunInv, Single, Compensated, destination, journal, selection, process
<1>7. CaptureInv'
  BY SentinelAssumption DEF CaptureInv
<1>8. RecoveryInv'
  <2>1. \A d \in Dest : Single(d)
    BY DEF IInv, DiskInv, OutcomeInv, RecoveryInv
  <2>2. QED
    BY <2>1 DEF IInv, TypeOK, RecoveryInv, Single, destination
<1>9. QED
  BY <1>1, <1>2, <1>3, <1>4, <1>5, <1>6, <1>7, <1>8 DEF IInv

LEMMA SealUnchangedStep ==
  ASSUME IInv, SealUnchanged
  PROVE  IInv'
<1> USE DEF SealUnchanged
<1>1. TypeOK'
  BY SentinelAssumption, OpInFlight
  DEF IInv, TypeOK, PC, destination, journal, selection, process
<1>2. DiskInv'
  BY SentinelAssumption DEF IInv, TypeOK, DiskInv, destination, journal, selection, process
<1>3. MarkerInv'
  BY SentinelAssumption DEF IInv, TypeOK, DiskInv, MarkerInv, Committed, destination, journal, selection, process
<1>4. EntryInv'
  BY SentinelAssumption DEF IInv, TypeOK, DiskInv, EntryInv, Single, destination, journal, selection, process
<1>5. OutcomeInv'
  BY SentinelAssumption DEF IInv, DiskInv, OutcomeInv, MayUndo, Single, journal, selection
<1>6. RunInv'
  BY SentinelAssumption DEF IInv, TypeOK, RunInv, Single, Compensated, destination, journal, selection, process
<1>7. CaptureInv'
  BY SentinelAssumption DEF CaptureInv
<1>8. RecoveryInv'
  BY SentinelAssumption DEF IInv, TypeOK, RecoveryInv, Single, journal, selection
<1>9. QED
  BY <1>1, <1>2, <1>3, <1>4, <1>5, <1>6, <1>7, <1>8 DEF IInv

LEMMA RemoveEntryStep ==
  ASSUME IInv, NEW d \in Dest, RemoveEntry(d)
  PROVE  IInv'
<1> USE DEF RemoveEntry
<1>1. TypeOK'
  BY SentinelAssumption DEF IInv, TypeOK, PC, destination, journal, selection, process
<1>2. DiskInv'
  BY SentinelAssumption DEF IInv, TypeOK, DiskInv, destination, journal, selection, process
<1>3. MarkerInv'
  BY SentinelAssumption DEF IInv, TypeOK, DiskInv, MarkerInv, Committed, destination, journal, selection, process
<1>4. EntryInv'
  BY SentinelAssumption
  DEF IInv, TypeOK, EntryInv, RecoveryInv, Single, destination, process
<1>5. OutcomeInv'
  <2>1. \A x \in Dest : Single(x) /\ live[x] \in allowed[x]
    BY DEF IInv, RecoveryInv
  <2>2. \A x \in Dest : entryDisk'[x] \subseteq entryDisk[x] \cup {NoEntry}
    BY DEF IInv, TypeOK
  <2>3. \A l, e : Undo(l, e)' = Undo(l, e)
    BY DEF Undo, Restores
  <2>4. \A m, c : Committed(m, c)' = Committed(m, c)
    BY DEF Committed
  <2>5. QED
    BY <2>1, <2>2, <2>3, <2>4, UndoNothing
    DEF IInv, OutcomeInv, MayUndo, Single, destination, selection
<1>6. RunInv'
  BY SentinelAssumption DEF IInv, TypeOK, RunInv, Single, Compensated, destination, journal, selection, process
<1>7. CaptureInv'
  BY SentinelAssumption DEF CaptureInv, process
<1>8. RecoveryInv'
  BY SentinelAssumption DEF IInv, RecoveryInv, Single, destination, selection, process
<1>9. QED
  BY <1>1, <1>2, <1>3, <1>4, <1>5, <1>6, <1>7, <1>8 DEF IInv

LEMMA SyncEntriesStep ==
  ASSUME IInv, SyncEntries
  PROVE  IInv'
<1> USE DEF SyncEntries, SyncJournal
<1>1. TypeOK'
  BY SentinelAssumption DEF IInv, TypeOK, PC, destination, journal, selection, process
<1>2. DiskInv'
  BY SentinelAssumption DEF IInv, TypeOK, DiskInv, destination, journal, selection, process
<1>3. MarkerInv'
  BY SentinelAssumption DEF IInv, TypeOK, DiskInv, MarkerInv, Committed, destination, journal, selection, process
<1>4. EntryInv'
  BY SentinelAssumption DEF IInv, TypeOK, DiskInv, EntryInv, Single, destination, journal, selection, process
<1>5. OutcomeInv'
  BY SentinelAssumption DEF IInv, DiskInv, OutcomeInv, MayUndo, Single, destination,
     selection
<1>6. RunInv'
  BY SentinelAssumption DEF IInv, TypeOK, RunInv, Single, Compensated, destination, journal, selection, process
<1>7. CaptureInv'
  BY SentinelAssumption DEF CaptureInv
<1>8. RecoveryInv'
  BY SentinelAssumption DEF IInv, RecoveryInv, Single, destination, selection
<1>9. QED
  BY <1>1, <1>2, <1>3, <1>4, <1>5, <1>6, <1>7, <1>8 DEF IInv

LEMMA RemoveMarkerStep ==
  ASSUME IInv, RemoveMarker
  PROVE  IInv'
<1> USE DEF RemoveMarker
<1>1. TypeOK'
  BY SentinelAssumption DEF IInv, TypeOK, PC, destination, journal, selection, process
<1>2. DiskInv'
  BY SentinelAssumption DEF IInv, TypeOK, DiskInv, destination, journal, selection, process
<1>3. MarkerInv'
  BY SentinelAssumption
  DEF IInv, TypeOK, DiskInv, MarkerInv, RecoveryInv, Committed, selection, destination
<1>4. EntryInv'
  BY SentinelAssumption DEF IInv, TypeOK, DiskInv, EntryInv, Single, destination, journal, selection, process
<1>5. OutcomeInv'
  <2>1. \A x \in Dest : Single(x) /\ live[x] \in allowed[x] /\ entryDisk[x] = {NoEntry}
    BY DEF IInv, RecoveryInv
  <2>2. \A l : Undo(l, NoEntry)' = l
    BY DEF Undo
  <2>3. QED
    BY <2>1, <2>2 DEF OutcomeInv, Single, destination
<1>6. RunInv'
  BY SentinelAssumption DEF IInv, TypeOK, RunInv, Single, Compensated, destination, journal, selection, process
<1>7. CaptureInv'
  BY SentinelAssumption DEF CaptureInv
<1>8. RecoveryInv'
  BY SentinelAssumption DEF IInv, RecoveryInv, Single, destination, selection
<1>9. QED
  BY <1>1, <1>2, <1>3, <1>4, <1>5, <1>6, <1>7, <1>8 DEF IInv

LEMMA SyncMarkerStep ==
  ASSUME IInv, SyncMarker
  PROVE  IInv'
<1> USE DEF SyncMarker, SyncJournal
<1>1. TypeOK'
  BY SentinelAssumption DEF IInv, TypeOK, PC, destination, journal, selection, process
<1>2. DiskInv'
  BY SentinelAssumption DEF IInv, TypeOK, DiskInv, destination, journal, selection, process
<1>3. MarkerInv'
  BY SentinelAssumption DEF IInv, TypeOK, DiskInv, MarkerInv, Committed, destination, journal, selection, process
<1>4. EntryInv'
  BY SentinelAssumption DEF IInv, TypeOK, DiskInv, EntryInv, Single, destination, journal, selection, process
<1>5. OutcomeInv'
  BY SentinelAssumption DEF IInv, DiskInv, OutcomeInv, MayUndo, Single, destination,
     selection
<1>6. RunInv'
  BY SentinelAssumption DEF IInv, TypeOK, RunInv, Single, Compensated, destination,
     RecoveryInv
<1>7. CaptureInv'
  BY SentinelAssumption DEF IInv, TypeOK, CaptureInv
<1>8. RecoveryInv'
  BY SentinelAssumption DEF IInv, TypeOK, RecoveryInv
<1>9. QED
  BY <1>1, <1>2, <1>3, <1>4, <1>5, <1>6, <1>7, <1>8 DEF IInv

LEMMA BeginRunStep ==
  ASSUME IInv, BeginRun
  PROVE  IInv'
<1> USE DEF BeginRun
<1>0. /\ markerDisk = {NoMarker} /\ currentDisk = {current}
      /\ \A d \in Dest : Single(d) /\ entryDisk[d] = {NoEntry}
      /\ staged = "none"
  BY DEF IInv, RunInv, MarkerInv, NothingPending
<1>1. TypeOK'
  BY MaxTxnAssumption DEF IInv, TypeOK, Txn, PC, destination, journal
<1>2. DiskInv'
  BY SentinelAssumption DEF IInv, TypeOK, DiskInv, destination, journal, selection, process
<1>3. MarkerInv'
  BY <1>0, SentinelAssumption, MaxTxnAssumption
  DEF IInv, TypeOK, Txn, DiskInv, MarkerInv, Committed, journal
<1>4. EntryInv'
  BY SentinelAssumption DEF IInv, TypeOK, DiskInv, EntryInv, Single, destination, journal, selection, process
<1>5. OutcomeInv'
  <2>1. \A l : Undo(l, NoEntry)' = l
    BY DEF Undo
  <2>2. QED
    BY <1>0, <2>1, SentinelAssumption DEF IInv, TypeOK, OutcomeInv, Committed, Single, destination, journal
<1>6. RunInv'
  BY <1>0, MaxTxnAssumption
  DEF IInv, TypeOK, Txn, MarkerInv, RunInv, Compensated, Single, destination, journal
<1>7. CaptureInv'
  BY SentinelAssumption DEF CaptureInv
<1>8. RecoveryInv'
  BY SentinelAssumption DEF RecoveryInv
<1>9. QED
  BY <1>1, <1>2, <1>3, <1>4, <1>5, <1>6, <1>7, <1>8 DEF IInv

LEMMA SyncNamespaceStep ==
  ASSUME IInv, SyncNamespace
  PROVE  IInv'
<1> USE DEF SyncNamespace, SyncJournal
<1>1. TypeOK'
  BY SentinelAssumption DEF IInv, TypeOK, PC, destination, journal, selection, process
<1>2. DiskInv'
  BY SentinelAssumption DEF IInv, TypeOK, DiskInv, destination, journal, selection, process
<1>3. MarkerInv'
  BY SentinelAssumption DEF IInv, TypeOK, DiskInv, MarkerInv, Committed, destination, journal, selection, process
<1>4. EntryInv'
  BY SentinelAssumption DEF IInv, TypeOK, DiskInv, EntryInv, Single, destination, journal, selection, process
<1>5. OutcomeInv'
  BY SentinelAssumption DEF IInv, DiskInv, OutcomeInv, MayUndo, Single, destination,
     selection
<1>6. RunInv'
  <2>1. CASE pc = "begin"
    <3>1. marker = NextMarker /\ \A d \in Dest : Single(d)
      BY <2>1 DEF IInv, RunInv
    <3>2. marker # NoMarker
      BY <3>1, SentinelAssumption DEF IInv, TypeOK, NextMarker, Marker
    <3>3. QED
      BY <2>1, <3>1, <3>2 DEF NextMarker, RunInv, Single, Compensated, destination, selection
  <2>2. CASE pc = "captured"
    BY <2>2 DEF IInv, RunInv, Single, Compensated, destination, selection
  <2>3. QED
    BY <2>1, <2>2 DEF IInv, RunInv
<1>7. CaptureInv'
  <2>1. CASE pc = "begin"
    BY <2>1 DEF CaptureInv
  <2>2. CASE pc = "captured"
    BY <2>2, OpInFlight DEF IInv, CaptureInv, FollowsPrevious, destination
  <2>3. QED
    BY <2>1, <2>2 DEF IInv, RunInv
<1>8. RecoveryInv'
  BY SentinelAssumption DEF RecoveryInv
<1>9. QED
  BY <1>1, <1>2, <1>3, <1>4, <1>5, <1>6, <1>7, <1>8 DEF IInv

LEMMA EffectStep ==
  ASSUME IInv, Effect
  PROVE  IInv'
<1> USE DEF Effect, Replace
<1> DEFINE d == op.dest
<1>a. op \in Op /\ d \in Dest /\ op.want \in State
  BY OpInFlight
<1>b. currentDisk = {current} /\ MayUndo /\ ~Committed(marker, current)
  BY BeforeFlip DEF Compensated
<1>c. entry[d] \in Entry /\ entryDisk[d] \subseteq Entry \cup {NoEntry}
  BY <1>a, EntryTyped DEF IInv, CaptureInv
<1>d. entry[d].prior \in allowed[d]
  BY DEF IInv, CaptureInv
<1>e. ASSUME NEW e \in entryDisk[d]
      PROVE  Undo(op.want, e) = entry[d].prior
  <2>1. CASE e = NoEntry
    BY <2>1, <1>a, UndoNothing DEF IInv, CaptureInv
  <2>2. CASE e # NoEntry
    <3>1. e \in Entry /\ e.prior = entry[d].prior
      BY <2>2, <1>a, <1>c, SentinelAssumption DEF IInv, EntryInv, DiskInv
    <3>2. QED
      BY <3>1, UndoLanded DEF IInv, CaptureInv
  <2>3. QED
    BY <2>1, <2>2
<1>1. TypeOK'
  BY <1>a DEF IInv, TypeOK, PC, journal, selection
<1>2. DiskInv'
  BY SentinelAssumption DEF IInv, TypeOK, DiskInv, destination, journal, selection, process
<1>3. MarkerInv'
  BY SentinelAssumption DEF IInv, TypeOK, DiskInv, MarkerInv, Committed, destination, journal, selection, process
<1>4. EntryInv'
  BY <1>a, <1>c, SentinelAssumption DEF IInv, TypeOK, EntryInv, DiskInv, CaptureInv, Single, journal
<1>5. OutcomeInv'
  <2>1. \A m \in markerDisk, c \in currentDisk : ~Committed(m, c)
    BY <1>a, <1>b, <1>c, SentinelAssumption DEF IInv, DiskInv, MarkerInv, Committed
  <2>2. \A l, e : Undo(l, e)' = Undo(l, e)
    BY DEF Undo, Restores
  <2>3. \A m, c : Committed(m, c)' = Committed(m, c)
    BY DEF Committed
  <2>4. liveDisk'[d] = liveDisk[d] \cup {op.want}
        /\ \A x \in Dest \ {d} : liveDisk'[x] = liveDisk[x]
    BY <1>a DEF IInv, TypeOK
  <2>5. QED
    BY <1>b, <1>d, <1>e, <2>1, <2>2, <2>3, <2>4
    DEF IInv, OutcomeInv, MayUndo, journal, selection
<1>6. RunInv'
  BY SentinelAssumption DEF IInv, TypeOK, RunInv, Single, Compensated, destination, journal, selection, process
<1>7. CaptureInv'
  BY SentinelAssumption DEF CaptureInv
<1>8. RecoveryInv'
  BY SentinelAssumption DEF RecoveryInv
<1>9. QED
  BY <1>1, <1>2, <1>3, <1>4, <1>5, <1>6, <1>7, <1>8 DEF IInv

LEMMA SyncEffectStep ==
  ASSUME IInv, SyncEffect
  PROVE  IInv'
<1> USE DEF SyncEffect, SyncParent
<1>1. TypeOK'
  BY SentinelAssumption, OpInFlight
  DEF IInv, TypeOK, PC, destination, journal, selection, process
<1>2. DiskInv'
  BY SentinelAssumption DEF IInv, TypeOK, DiskInv, destination, journal, selection, process
<1>3. MarkerInv'
  BY SentinelAssumption DEF IInv, TypeOK, DiskInv, MarkerInv, Committed, destination, journal, selection, process
<1>4. EntryInv'
  BY SentinelAssumption DEF IInv, TypeOK, DiskInv, EntryInv, Single, destination, journal, selection, process
<1>5. OutcomeInv'
  BY SentinelAssumption DEF IInv, DiskInv, OutcomeInv, MayUndo, Single, journal, selection
<1>6. RunInv'
  BY SentinelAssumption DEF IInv, TypeOK, RunInv, Single, Compensated, destination, journal, selection, process
<1>7. CaptureInv'
  BY SentinelAssumption DEF CaptureInv
<1>8. RecoveryInv'
  BY SentinelAssumption DEF RecoveryInv
<1>9. QED
  BY <1>1, <1>2, <1>3, <1>4, <1>5, <1>6, <1>7, <1>8 DEF IInv

LEMMA RestoreEffectStep ==
  ASSUME IInv, RestoreEffect
  PROVE  IInv'
<1> USE DEF RestoreEffect, Replace
<1> DEFINE d == op.dest
<1>a. op \in Op /\ d \in Dest /\ op.want \in State
  BY OpInFlight
<1>b. currentDisk = {current} /\ MayUndo /\ ~Committed(marker, current)
  BY WhileUndoing DEF Compensated
<1>c. entry[d] \in Entry /\ entryDisk[d] \subseteq Entry \cup {NoEntry}
  BY <1>a, EntryTyped DEF IInv, RecoveryInv
<1>d. entry[d].prior \in allowed[d]
  BY DEF IInv, RecoveryInv
<1>e. ASSUME NEW e \in entryDisk[d]
      PROVE  Undo(op.want, e) = entry[d].prior
  <2>1. CASE e = NoEntry
    BY <2>1, <1>a, UndoNothing DEF IInv, RecoveryInv
  <2>2. CASE e # NoEntry
    <3>1. e \in Entry /\ e.prior = entry[d].prior
      BY <2>2, <1>a, <1>c, SentinelAssumption DEF IInv, EntryInv, DiskInv
    <3>2. QED
      BY <3>1, UndoLanded DEF IInv, RecoveryInv
  <2>3. QED
    BY <2>1, <2>2
<1>1. TypeOK'
  BY <1>a DEF IInv, TypeOK, PC, journal, selection
<1>2. DiskInv'
  BY SentinelAssumption DEF IInv, TypeOK, DiskInv, destination, journal, selection, process
<1>3. MarkerInv'
  BY SentinelAssumption DEF IInv, TypeOK, DiskInv, MarkerInv, Committed, destination, journal, selection, process
<1>4. EntryInv'
  BY <1>a, <1>c, SentinelAssumption DEF IInv, TypeOK, EntryInv, DiskInv, RecoveryInv, Single, journal
<1>5. OutcomeInv'
  <2>1. \A m \in markerDisk, c \in currentDisk : ~Committed(m, c)
    BY <1>a, <1>b, <1>c, SentinelAssumption DEF IInv, DiskInv, MarkerInv, Committed
  <2>2. \A l, e : Undo(l, e)' = Undo(l, e)
    BY DEF Undo, Restores
  <2>3. \A m, c : Committed(m, c)' = Committed(m, c)
    BY DEF Committed
  <2>4. liveDisk'[d] = liveDisk[d] \cup {op.want}
        /\ \A x \in Dest \ {d} : liveDisk'[x] = liveDisk[x]
    BY <1>a DEF IInv, TypeOK
  <2>5. QED
    BY <1>b, <1>d, <1>e, <2>1, <2>2, <2>3, <2>4
    DEF IInv, OutcomeInv, MayUndo, journal, selection
<1>6. RunInv'
  BY SentinelAssumption DEF IInv, TypeOK, RunInv, Single, Compensated, destination, journal, selection, process
<1>7. CaptureInv'
  BY SentinelAssumption DEF CaptureInv
<1>8. RecoveryInv'
  BY SentinelAssumption DEF IInv, TypeOK, RecoveryInv, Single, journal, selection
<1>9. QED
  BY <1>1, <1>2, <1>3, <1>4, <1>5, <1>6, <1>7, <1>8 DEF IInv

LEMMA SyncRestoreStep ==
  ASSUME IInv, SyncRestore
  PROVE  IInv'
<1> USE DEF SyncRestore, SyncParent
<1>1. TypeOK'
  BY SentinelAssumption, OpInFlight
  DEF IInv, TypeOK, PC, destination, journal, selection, process
<1>2. DiskInv'
  BY SentinelAssumption DEF IInv, TypeOK, DiskInv, destination, journal, selection, process
<1>3. MarkerInv'
  BY SentinelAssumption DEF IInv, TypeOK, DiskInv, MarkerInv, Committed, destination, journal, selection, process
<1>4. EntryInv'
  BY SentinelAssumption DEF IInv, TypeOK, DiskInv, EntryInv, Single, destination, journal, selection, process
<1>5. OutcomeInv'
  BY SentinelAssumption DEF IInv, DiskInv, OutcomeInv, MayUndo, Single, journal, selection
<1>6. RunInv'
  BY SentinelAssumption DEF IInv, TypeOK, RunInv, Single, Compensated, destination, journal, selection, process
<1>7. CaptureInv'
  BY SentinelAssumption DEF CaptureInv
<1>8. RecoveryInv'
  BY SentinelAssumption DEF IInv, TypeOK, RecoveryInv, Single, journal, selection
<1>9. QED
  BY <1>1, <1>2, <1>3, <1>4, <1>5, <1>6, <1>7, <1>8 DEF IInv

LEMMA FlipStep ==
  ASSUME IInv, Flip
  PROVE  IInv'
<1> USE DEF Flip
<1>0. /\ marker \in Marker /\ current = marker.previous
      /\ marker.previous < marker.target /\ marker.target = issued
      /\ markerDisk = {marker} /\ currentDisk = {current}
      /\ \A d \in Dest : Single(d)
  BY BeforeFlip DEF IInv, RunInv, Compensated
<1>1. TypeOK'
  BY <1>0 DEF IInv, TypeOK, PC, Marker, destination, journal
<1>2. DiskInv'
  BY SentinelAssumption DEF IInv, TypeOK, DiskInv, destination, journal, selection, process
<1>3. MarkerInv'
  BY <1>0, SentinelAssumption
  DEF IInv, TypeOK, Txn, Marker, DiskInv, MarkerInv, Committed, destination, journal
<1>4. EntryInv'
  BY SentinelAssumption DEF IInv, TypeOK, DiskInv, EntryInv, Single, destination, journal, selection, process
<1>5. OutcomeInv'
  <2>1. \A l, e : Undo(l, e)' = Undo(l, e)
    BY DEF Undo, Restores
  <2>2. MayUndo
    BY BeforeFlip DEF Compensated
  <2>3. \A c : currentDisk' # {c}
    BY <1>0 DEF Marker, Txn
  <2>4. QED
    BY <1>0, <2>1, <2>2, <2>3 DEF IInv, OutcomeInv, Single, destination, journal
<1>6. RunInv'
  BY <1>0 DEF IInv, RunInv, Single, Compensated, destination, journal
<1>7. CaptureInv'
  BY SentinelAssumption DEF CaptureInv
<1>8. RecoveryInv'
  BY SentinelAssumption DEF RecoveryInv
<1>9. QED
  BY <1>1, <1>2, <1>3, <1>4, <1>5, <1>6, <1>7, <1>8 DEF IInv

LEMMA SyncFlipStep ==
  ASSUME IInv, SyncFlip
  PROVE  IInv'
<1> USE DEF SyncFlip
<1>1. TypeOK'
  BY SentinelAssumption DEF IInv, TypeOK, PC, destination, journal, selection, process
<1>2. DiskInv'
  BY SentinelAssumption DEF IInv, TypeOK, DiskInv, destination, journal, selection, process
<1>3. MarkerInv'
  BY SentinelAssumption DEF IInv, TypeOK, DiskInv, MarkerInv, Committed, destination, journal, selection, process
<1>4. EntryInv'
  BY SentinelAssumption DEF IInv, TypeOK, DiskInv, EntryInv, Single, destination, journal, selection, process
<1>5. OutcomeInv'
  <2>1. Committed(marker, current) /\ markerDisk = {marker}
    BY SentinelAssumption DEF IInv, TypeOK, DiskInv, RunInv, Compensated, Committed
  <2>2. \A d \in Dest : Single(d)
    BY <2>1 DEF IInv, DiskInv, OutcomeInv
  <2>3. QED
    BY <2>1, <2>2 DEF IInv, TypeOK, OutcomeInv, MayUndo, Committed, Single, destination, journal
<1>6. RunInv'
  BY SentinelAssumption DEF IInv, TypeOK, RunInv, Single, Compensated, destination, journal, selection, process
<1>7. CaptureInv'
  BY SentinelAssumption DEF CaptureInv
<1>8. RecoveryInv'
  BY SentinelAssumption DEF IInv, RunInv, RecoveryInv, Single, Compensated, destination
<1>9. QED
  BY <1>1, <1>2, <1>3, <1>4, <1>5, <1>6, <1>7, <1>8 DEF IInv

LEMMA PublishMarkerStep ==
  ASSUME IInv, PublishRecord, pc = "begin"
  PROVE  IInv'
<1> USE DEF PublishRecord, Unsynced
<1>0. /\ markerDisk = {NoMarker} /\ currentDisk = {current} /\ current < issued
      /\ \A d \in Dest : Single(d) /\ entryDisk[d] = {NoEntry}
  BY DEF IInv, RunInv, MarkerInv
<1>a. /\ NextMarker \in Marker /\ NextMarker.previous = current /\ NextMarker.target = issued
      /\ NextMarker # NoMarker /\ NextMarker # Torn
      /\ marker' = NextMarker /\ markerDisk' = {NoMarker, NextMarker}
  BY <1>0, SentinelAssumption DEF IInv, TypeOK, NextMarker, Marker
<1>1. TypeOK'
  BY SentinelAssumption, <1>a
  DEF IInv, TypeOK, PC, destination, journal, selection, process
<1>2. DiskInv'
  BY SentinelAssumption, <1>0, <1>a
  DEF IInv, TypeOK, DiskInv, destination, journal, selection, process
<1>3. MarkerInv'
  BY <1>0, <1>a, SentinelAssumption
  DEF IInv, TypeOK, Txn, DiskInv, MarkerInv, Committed, selection
<1>4. EntryInv'
  BY SentinelAssumption DEF IInv, TypeOK, DiskInv, EntryInv, Single, destination, journal, selection, process
<1>5. OutcomeInv'
  <2>1. \A l : Undo(l, NoEntry)' = l /\ Undo(l, NoEntry) = l
    BY DEF Undo
  <2>2. MayUndo
    BY <1>0, SentinelAssumption DEF MayUndo, Committed
  <2>3. \A m \in markerDisk', c \in currentDisk' : ~Committed(m, c)'
    BY <1>0, <1>a, SentinelAssumption DEF IInv, TypeOK, Txn, Committed, selection
  <2>4. QED
    BY <1>0, <2>1, <2>2, <2>3 DEF IInv, OutcomeInv, destination
<1>6. RunInv'
  BY <1>0, <1>a DEF IInv, RunInv, NextMarker, Single, Compensated, destination, selection
<1>7. CaptureInv'
  BY SentinelAssumption DEF CaptureInv
<1>8. RecoveryInv'
  BY DEF RecoveryInv
<1>9. QED
  BY <1>1, <1>2, <1>3, <1>4, <1>5, <1>6, <1>7, <1>8 DEF IInv

\* The entry in place of its predecessor: what it undoes is still allowed,
\* whatever the user did to the destination since it was captured.
LEMMA PublishEntryStep ==
  ASSUME IInv, PublishRecord, pc = "captured"
  PROVE  IInv'
<1> USE DEF PublishRecord, Unsynced
<1> DEFINE d == op.dest
<1>0. /\ op \in Op /\ d \in Dest /\ op.seen \in State /\ op.want \in Intent
      /\ entry[d] \in Entry \cup {NoEntry} /\ live[d] \in State
      /\ entryDisk[d] \subseteq Entry \cup {NoEntry}
  BY OpInFlight, EntryTyped DEF IInv, TypeOK, RunInv
<1>a. /\ NextEntry \in Entry /\ NextEntry # NoEntry /\ NextEntry # Torn
      /\ NextEntry.after = op.want /\ NextEntry.before = op.seen
      /\ entry[d] = NoEntry => NextEntry.prior = op.seen
      /\ entry[d] # NoEntry => NextEntry.prior = entry[d].prior
  <2>1. CASE entry[d] = NoEntry
    BY <2>1, <1>0, SentinelAssumption DEF NextEntry, Entry
  <2>2. CASE entry[d] # NoEntry
    BY <2>2, <1>0, SentinelAssumption DEF NextEntry, Entry
  <2>3. QED
    BY <2>1, <2>2
<1>b. FollowsPrevious /\ NextEntry.prior \in allowed[d]
  BY <1>a DEF IInv, CaptureInv
<1>c. NextEntry.before = NextEntry.prior \/ NextEntry.before \in Intent
  BY <1>0, <1>a, <1>b, SentinelAssumption DEF FollowsPrevious, Entry
<1>d. \A x \in Dest : Single(x)
  BY DEF IInv, RunInv, Compensated
<1>e. /\ entryDisk'[d] = entryDisk[d] \cup {NextEntry} /\ entry'[d] = NextEntry
      /\ \A x \in Dest \ {d} : entryDisk'[x] = entryDisk[x] /\ entry'[x] = entry[x]
      /\ UNCHANGED <<marker, markerDisk>>
  BY <1>0 DEF IInv, TypeOK
<1>1. TypeOK'
  BY <1>a DEF IInv, TypeOK, destination, selection
<1>2. DiskInv'
  BY <1>a, <1>e DEF IInv, DiskInv, destination, selection
<1>3. MarkerInv'
  BY <1>e, BeforeFlip, SentinelAssumption
  DEF IInv, MarkerInv, Committed, Compensated, selection
<1>4. EntryInv'
  <2>1. \A e \in entryDisk[d] \ {NoEntry} : e.prior = NextEntry.prior
    <3>1. CASE entry[d] # NoEntry
      BY <3>1, <1>0, <1>a DEF IInv, EntryInv, DiskInv
    <3>2. CASE entry[d] = NoEntry
      BY <3>2, <1>0, <1>a DEF IInv, RunInv, Compensated
    <3>3. QED
      BY <3>1, <3>2
  <2>2. QED
    BY <1>a, <1>c, <1>d, <1>e, <2>1 DEF IInv, EntryInv, Single, destination
<1>5. OutcomeInv'
  <2>1. \A m \in markerDisk, c \in currentDisk : ~Committed(m, c)
    BY BeforeFlip DEF Compensated
  <2>2. MayUndo
    BY BeforeFlip DEF Compensated
  <2>3. \A l, e : Undo(l, e)' = Undo(l, e)
    BY DEF Undo, Restores
  <2>4. Undo(live[d], NextEntry) \in allowed[d]
    <3>1. CASE Undo(live[d], NextEntry) = NextEntry.prior \/ live[d] = NextEntry.prior
      BY <3>1, <1>0, <1>a, <1>b, UndoChoices
    <3>2. CASE /\ Undo(live[d], NextEntry) = live[d]
               /\ Undo(live[d], NextEntry) # NextEntry.prior
      <4>1. live[d] \in Foreign /\ live[d] # NextEntry.prior
        BY <3>2, <1>0, <1>a, SentinelAssumption
        DEF IInv, CaptureInv, Undo, Restores
      <4>2. Undo(live[d], entry[d]) = live[d]
        BY <4>1, <1>0, <1>a, UndoForeign, UndoNothing DEF IInv, EntryInv, DiskInv
      <4>3. QED
        BY <3>2, <4>2, <1>0, <2>2 DEF IInv, DiskInv, OutcomeInv
    <3>3. QED
      BY <3>1, <3>2, <1>0, <1>a, UndoChoices
  <2>5. QED
    BY <1>0, <1>d, <1>e, <2>1, <2>2, <2>3, <2>4
    DEF IInv, OutcomeInv, MayUndo, Single, Committed, destination, selection
<1>6. RunInv'
  BY <1>0, <1>a, <1>e DEF IInv, RunInv, Single, Compensated, destination, selection
<1>7. CaptureInv'
  BY <1>0, <1>a, <1>b, <1>e DEF IInv, CaptureInv, destination
<1>8. RecoveryInv'
  BY DEF RecoveryInv
<1>9. QED
  BY <1>1, <1>2, <1>3, <1>4, <1>5, <1>6, <1>7, <1>8 DEF IInv

\* An edit is allowed by what it adds to the history, in every world.
LEMMA EditStep ==
  ASSUME IInv, NEW d \in Dest, NEW v \in Foreign \cup {Absent}, Edit(d, v)
  PROVE  IInv'
<1> USE DEF Edit
<1>0. /\ v \in State
      /\ live'[d] = v /\ liveDisk'[d] = {v}
      /\ \A x \in Dest \ {d} : live'[x] = live[x] /\ liveDisk'[x] = liveDisk[x]
  BY DEF IInv, TypeOK, State, Object
<1>a. \A x \in Dest : Single(x) \/ x = d => Single(x)'
  BY <1>0 DEF Single
<1>b1. allowed'[d] = (IF Window(d) THEN allowed[d] ELSE {}) \cup {v} \cup
          {Settled(v, e, m, c) : e \in entryDisk[d], m \in markerDisk, c \in currentDisk}
  BY DEF IInv, TypeOK
<1>b. v \in allowed'[d] /\ \A x \in Dest \ {d} : allowed'[x] = allowed[x]
  BY <1>b1 DEF IInv, TypeOK
<1>c. \A x \in Dest : Window(x) => allowed[x] \subseteq allowed'[x]
  BY <1>b, <1>b1
<1>d. \A e \in entryDisk[d], m \in markerDisk, c \in currentDisk :
         Settled(v, e, m, c) \in allowed'[d]
  BY <1>b1
<1>u. UNCHANGED <<journal, selection, process>>
  OBVIOUS
<1>t. allowed' \in [Dest -> SUBSET State] /\ live' \in [Dest -> State]
      /\ liveDisk' \in [Dest -> SUBSET State]
  <2>1. \A e \in entryDisk[d] : \A m, c : Settled(v, e, m, c) \in State
    BY <1>0, EntryTyped, UndoChoices DEF Settled, Entry
  <2>2. {Settled(v, e, m, c) : e \in entryDisk[d], m \in markerDisk, c \in currentDisk}
          \subseteq State
    BY <2>1
  <2>3. QED
    BY <1>0, <2>2 DEF IInv, TypeOK
<1> HIDE DEF Edit
<1>1. TypeOK'
  BY <1>t, <1>u DEF IInv, TypeOK, journal, selection, process
<1>2. DiskInv'
  BY <1>0, <1>u DEF IInv, TypeOK, DiskInv, journal, selection
<1>3. MarkerInv'
  BY <1>u DEF IInv, MarkerInv, Committed, journal, selection
<1>4. EntryInv'
  BY <1>0, <1>a, <1>u DEF IInv, EntryInv, journal
<1>5. OutcomeInv'
  <2>1. \A l, e : Undo(l, e)' = Undo(l, e)
    BY DEF Undo, Restores
  <2>2. \A m, c : Committed(m, c)' = Committed(m, c)
    BY DEF Committed
  <2>3. MayUndo => \A e \in entryDisk[d] : Undo(v, e) \in allowed'[d]
    BY <1>d DEF MayUndo, Settled
  <2>4. MayUndo' => MayUndo
    BY <1>u, <2>2 DEF MayUndo, journal, selection
  <2>5. ASSUME NEW x \in Dest, MayUndo', NEW l \in liveDisk'[x], NEW e \in entryDisk'[x]
        PROVE  Undo(l, e)' \in allowed'[x]
    <3>1. CASE x = d
      BY <1>u, <3>1, <1>0, <2>1, <2>3, <2>4, <2>5 DEF journal
    <3>2. CASE x # d
      BY <1>u, <3>2, <1>0, <1>b, <2>1, <2>4, <2>5 DEF IInv, OutcomeInv, journal
    <3>3. QED
      BY <3>1, <3>2
  <2>6. ASSUME NEW x \in Dest, NEW m \in markerDisk', NEW c \in currentDisk',
               Committed(m, c)'
        PROVE  Single(x)' /\ (currentDisk' = {c} => live'[x] \in allowed'[x])
    <3>1. CASE x = d
      BY <3>1, <1>0, <1>b DEF Single
    <3>2. CASE x # d
      BY <1>u, <3>2, <1>0, <1>a, <1>b, <2>2, <2>6 DEF IInv, OutcomeInv, journal, selection
    <3>3. QED
      BY <3>1, <3>2
  <2>7. QED
    BY <2>5, <2>6 DEF OutcomeInv
<1>6. RunInv'
  BY <1>a, <1>u DEF IInv, RunInv, NextMarker, journal, selection, process
<1>7. CaptureInv'
  BY <1>u, <1>0, <1>b, <1>c, OpInFlight DEF IInv, CaptureInv, Window, FollowsPrevious, journal, process
<1>8. RecoveryInv'
  <2>1. \A x \in Dest : live[x] \in allowed[x] => live'[x] \in allowed'[x]
    BY <1>0, <1>b
  <2>2. Committed(marker, current)' = Committed(marker, current)
        /\ Uncommitted(marker, current)' = Uncommitted(marker, current)
    BY <1>u DEF Committed, Uncommitted, journal, selection
  <2>3. pc = "restore" => op.want \in allowed'[op.dest]
    BY <1>c, OpInFlight DEF IInv, RecoveryInv, Window
  <2>4. QED
    BY <1>a, <1>u, <2>1, <2>2, <2>3, OpInFlight
    DEF IInv, TypeOK, RecoveryInv, journal, selection, process
<1>9. QED
  BY <1>1, <1>2, <1>3, <1>4, <1>5, <1>6, <1>7, <1>8 DEF IInv

\* A power loss leaves one of the worlds every earlier step provided for.
LEMMA PowerLossStep ==
  ASSUME IInv, PowerLoss
  PROVE  IInv'
<1> USE DEF PowerLoss, Halt
<1>0. /\ \A d \in Dest : live'[d] \in liveDisk[d] /\ entry'[d] \in entryDisk[d]
      /\ \A d \in Dest : liveDisk'[d] = {live'[d]} /\ entryDisk'[d] = {entry'[d]}
      /\ marker' \in markerDisk /\ markerDisk' = {marker'}
      /\ current' \in currentDisk /\ currentDisk' = {current'}
      /\ pc' = "idle" /\ op' = NoOp /\ staged' = "none" /\ todo' = {} /\ onDone' = "idle"
      /\ UNCHANGED issued
  BY DEF Outcomes
<1>a. live' \in [Dest -> State] /\ entry' \in [Dest -> Entry \cup {NoEntry}]
  <2>1. DOMAIN live' = Dest /\ live' = [d \in Dest |-> live'[d]]
    BY DEF Outcomes
  <2>2. DOMAIN entry' = Dest /\ entry' = [d \in Dest |-> entry'[d]]
    BY DEF Outcomes
  <2>3. \A d \in Dest : live'[d] \in State /\ entry'[d] \in Entry \cup {NoEntry}
    BY <1>0 DEF IInv, TypeOK, DiskInv
  <2>4. QED
    BY <2>1, <2>2, <2>3
<1>b. \A d \in Dest : allowed'[d] = IF Committed(marker', current') THEN {live'[d]} ELSE allowed[d]
  OBVIOUS
<1>c. allowed' \in [Dest -> SUBSET State]
  BY <1>a DEF IInv, TypeOK
<1>1. TypeOK'
  BY <1>0, <1>a, <1>c DEF IInv, TypeOK, PC
<1>2. DiskInv'
  BY <1>0 DEF IInv, DiskInv
<1>3. MarkerInv'
  <2>1. current' <= issued
    <3>1. CASE marker = NoMarker \/ ~Committed(marker, current)
      BY <3>1, <1>0, SentinelAssumption DEF IInv, MarkerInv, Committed
    <3>2. CASE Committed(marker, current)
      BY <3>2, <1>0, SentinelAssumption DEF IInv, TypeOK, Txn, DiskInv, MarkerInv, Committed, Marker
    <3>3. QED
      BY <3>1, <3>2
  <2>2. marker' = NoMarker => \A d \in Dest : entryDisk'[d] = {NoEntry}
    BY <1>0 DEF IInv, MarkerInv
  <2>3. QED
    BY <1>0, <2>1, <2>2 DEF IInv, MarkerInv
<1>4. EntryInv'
  BY <1>0 DEF IInv, EntryInv, Single
<1>5. OutcomeInv'
  <2>1. \A l, e : Undo(l, e)' = Undo(l, e)
    BY DEF Undo, Restores
  <2>2. Committed(marker', current') <=> Committed(marker, current)'
    BY DEF Committed
  <2>3. CASE Committed(marker', current')
    BY <1>0, <1>b, <2>2, <2>3 DEF OutcomeInv, MayUndo, Single
  <2>4. CASE ~Committed(marker', current')
    BY <1>0, <1>b, <2>1, <2>2, <2>4 DEF IInv, OutcomeInv, MayUndo
  <2>5. QED
    BY <2>3, <2>4
<1>6. RunInv'
  BY <1>0 DEF RunInv, Compensated
<1>7. CaptureInv'
  BY <1>0 DEF CaptureInv
<1>8. RecoveryInv'
  BY <1>0 DEF RecoveryInv
<1>9. QED
  BY <1>1, <1>2, <1>3, <1>4, <1>5, <1>6, <1>7, <1>8 DEF IInv

-----------------------------------------------------------------------------
(* The theorems.                                                           *)

\* IInv is inductive: one lemma for each action of Next.
LEMMA NextInv == IInv /\ [Next]_vars => IInv'
<1> SUFFICES ASSUME IInv, [Next]_vars PROVE IInv'
  OBVIOUS
<1>1. CASE Recovery
  BY <1>1, StartStep, ReconcileStep, SealCurrentStep, SealUnchangedStep, RecoveredStep,
     RecoverEntryStep, RestoreEffectStep, SyncRestoreStep, VerifyRestoreStep, AbandonStep
  DEF Recovery
<1>2. CASE Cleanup
  BY <1>2, RemoveEntryStep, SyncEntriesStep, RemoveMarkerStep, SyncMarkerStep DEF Cleanup
<1>3. CASE Run
  <2>1. CASE PublishRecord
    BY <2>1, PublishMarkerStep, PublishEntryStep DEF PublishRecord
  <2>2. CASE BeginRun \/ Quit \/ Capture \/ \E d \in Dest, w \in Intent : Decide(d, w)
    BY <2>2, BeginRunStep, QuitStep, CaptureStep, DecideStep
  <2>3. CASE StageRecord \/ SyncRecord \/ SyncNamespace
    BY <2>3, StageRecordStep, SyncRecordStep, SyncNamespaceStep
  <2>4. CASE Effect \/ SyncEffect \/ VerifyEffect \/ Flip \/ SyncFlip \/ EndRun
    BY <2>4, EffectStep, SyncEffectStep, VerifyEffectStep, FlipStep, SyncFlipStep, EndRunStep
  <2>5. QED
    BY <1>3, <2>1, <2>2, <2>3, <2>4 DEF Run
<1>4. CASE Faults
  BY <1>4, AbandonStep, PowerLossStep DEF Faults
<1>5. CASE User
  BY <1>5, EditStep DEF User
<1>6. CASE UNCHANGED vars
  <2>1. OnDisk'
    BY <1>6, DiskKept DEF IInv, OnDisk, vars
  <2>2. TypeOK' /\ RunInv' /\ CaptureInv' /\ RecoveryInv'
    BY <1>6 DEF IInv, TypeOK, RunInv, CaptureInv, RecoveryInv, vars, disk, process,
       Single, NextMarker, FollowsPrevious
  <2>3. QED
    BY <2>1, <2>2 DEF IInv, OnDisk
<1>7. QED
  BY <1>1, <1>2, <1>3, <1>4, <1>5, <1>6 DEF Next

LEMMA Inductive == Spec => []IInv
BY InitInv, NextInv, PTL DEF Spec

\* Every name on disk holds a value of its kind, crashes and edits included.
THEOREM TypeCorrect == Spec => []TypeOK
<1>1. IInv => TypeOK
  BY DEF IInv
<1>2. QED
  BY <1>1, Inductive, PTL

\* Whatever names a power loss leaves, the next command settles every
\* destination as committed or as an undone run may leave it.
THEOREM OutcomeIsAtomic == Spec => []AtomicOutcome
<1>1. IInv => AtomicOutcome
  BY DEF IInv, OutcomeInv, AtomicOutcome, MayUndo, Single
<1>2. QED
  BY <1>1, Inductive, PTL

\* The marker outlives every entry, on every disk.
THEOREM MarkerOutlivesEntries == Spec => []MarkerCoversEntries
<1>1. IInv => MarkerCoversEntries
  BY DEF IInv, MarkerInv, MarkerCoversEntries
<1>2. QED
  BY <1>1, Inductive, PTL

\* No crash leaves a torn record or a pointer that recovery must refuse.
THEOREM RecoveryNeverBlocked == Spec => []NeverBlocked
<1>1. IInv => NeverBlocked
  <2> SUFFICES ASSUME IInv, NEW m \in markerDisk, NEW c \in currentDisk
               PROVE  Committed(m, c) \/ Uncommitted(m, c)
    BY DEF IInv, DiskInv, NeverBlocked
  <2>1. CASE m = NoMarker
    BY <2>1 DEF Uncommitted
  <2>2. CASE m # NoMarker
    BY <2>2 DEF IInv, TypeOK, DiskInv, MarkerInv, Committed, Uncommitted, Marker, Txn
  <2>3. QED
    BY <2>1, <2>2
<1>2. QED
  BY <1>1, Inductive, PTL

\* A finished transaction stays finished.
THEOREM QuietMeansDurable == Spec => []QuietIsDurable
<1>1. IInv => QuietIsDurable
  <2> SUFFICES ASSUME IInv, markerDisk = {NoMarker}, NEW d \in Dest
               PROVE  /\ liveDisk[d] = {live[d]} /\ live[d] \in allowed[d]
                      /\ entryDisk[d] = {NoEntry}
    BY DEF QuietIsDurable
  <2>1. entryDisk[d] = {NoEntry} /\ Single(d)
    BY DEF IInv, DiskInv, MarkerInv, EntryInv
  <2>2. MayUndo
    BY SentinelAssumption DEF IInv, DiskInv, MayUndo, Committed
  <2>3. Undo(live[d], NoEntry) \in allowed[d]
    BY <2>1, <2>2 DEF IInv, DiskInv, OutcomeInv
  <2>4. QED
    BY <2>1, <2>3, UndoNothing DEF Single
<1>2. QED
  BY <1>1, Inductive, PTL

-----------------------------------------------------------------------------
(* The refinement: under the mapping of JournalRefinement the journal's    *)
(* initial states are those of the atomic run, and each of its steps is a  *)
(* step of it or leaves it alone.                                          *)

\* Between its commit and its close a run is final: nothing but what stands is allowed.
CommittedIsFinal == RunPhase = "committed" => \A d \in Dest : allowed[d] = {live[d]}

-----------------------------------------------------------------------------
(* What the mapping shows of a disk.                                       *)

\* The smallest pointer a power loss can show is the durable selection.
LEMMA DurableIs ==
  ASSUME currentDisk \subseteq Nat, NEW c \in currentDisk, \A b \in currentDisk : c <= b
  PROVE  Durable = c
<1>1. Durable \in currentDisk /\ \A b \in currentDisk : Durable <= b
  BY DEF Durable
<1>2. QED
  BY <1>1

\* With a marker on some disk, the pointer is at one end of its transaction, and the
\* run is committed when no disk shows the other end.
Pointed(m) ==
  /\ m \in Marker /\ m.previous \in Nat /\ m.target \in Nat /\ m.previous < m.target
  /\ currentDisk # {} /\ currentDisk \subseteq {m.previous, m.target}
  /\ RunPhase = IF currentDisk = {m.target} THEN "committed" ELSE "open"
  /\ Durable = IF currentDisk = {m.target} THEN m.target ELSE m.previous

Shown ==
  /\ \A m \in markerDisk \ {NoMarker} : Pointed(m)
  /\ NoMarker \in markerDisk =>
       /\ currentDisk = {current} /\ Durable = current /\ current \in Nat
       /\ \A d \in Dest : entryDisk[d] = {NoEntry}
  /\ RunPhase = "closed" <=> markerDisk = {NoMarker}

LEMMA InvShows == IInv => Shown
<1> SUFFICES ASSUME IInv PROVE Shown
  OBVIOUS
<1>1. ASSUME NEW m \in markerDisk \ {NoMarker} PROVE Pointed(m)
  <2>1. m \in Marker /\ m.previous \in Nat /\ m.target \in Nat /\ m.previous < m.target
    BY MaxTxnAssumption DEF IInv, TypeOK, DiskInv, MarkerInv, Marker, Txn
  <2>2. currentDisk # {} /\ currentDisk \subseteq {m.previous, m.target}
    BY DEF IInv, DiskInv, MarkerInv
  <2>3. \A n \in markerDisk : n \in Marker => n = m
    BY SentinelAssumption DEF IInv, MarkerInv
  <2>4. RunPhase = IF currentDisk = {m.target} THEN "committed" ELSE "open"
    BY <2>1, <2>3 DEF RunPhase
  <2>5. CASE currentDisk = {m.target}
    BY <2>1, <2>2, <2>4, <2>5, DurableIs DEF Pointed
  <2>6. CASE currentDisk # {m.target}
    <3>1. m.previous \in currentDisk /\ \A b \in currentDisk : m.previous <= b
      BY <2>1, <2>2, <2>6
    <3>2. Durable = m.previous
      BY <2>1, <2>2, <3>1, DurableIs
    <3>3. QED
      BY <2>1, <2>2, <2>4, <2>6, <3>2 DEF Pointed
  <2>7. QED
    BY <2>5, <2>6
<1>2. ASSUME NoMarker \in markerDisk
      PROVE  /\ currentDisk = {current} /\ Durable = current /\ current \in Nat
             /\ \A d \in Dest : entryDisk[d] = {NoEntry}
  <2>1. currentDisk = {current} /\ \A d \in Dest : entryDisk[d] = {NoEntry}
    BY <1>2 DEF IInv, MarkerInv
  <2>2. current \in Nat
    BY MaxTxnAssumption DEF IInv, TypeOK, Txn
  <2>3. QED
    BY <2>1, <2>2, DurableIs
<1>3. RunPhase = "closed" <=> markerDisk = {NoMarker}
  BY DEF RunPhase
<1>4. QED
  BY <1>1, <1>2, <1>3 DEF Shown

\* The same of the state after a step.
LEMMA InvShowsNext == IInv' => Shown'
BY InvShows, PTL

-----------------------------------------------------------------------------
(* Steps by what they do to the disks.                                     *)

Maps == [Atomic!Next]_(Atomic!vars)

\* The phase and the durable selection are functions of two names on disk.
LEMMA SameNames ==
  ASSUME UNCHANGED <<markerDisk, currentDisk>>
  PROVE  RunPhase' = RunPhase /\ Durable' = Durable
BY DEF RunPhase, Durable

LEMMA Stutters ==
  ASSUME UNCHANGED <<live, allowed, markerDisk, currentDisk>>
  PROVE  Maps
BY SameNames DEF Maps, Atomic!vars

\* Once the run is declared, and while its pointer is not the only one on disk, the
\* destinations may be moved about.
LEMMA Touches ==
  ASSUME IInv', RunPhase = "open", UNCHANGED <<allowed, markerDisk, currentDisk>>
  PROVE  Maps
<1>1. live' \in [Dest -> State]
  BY DEF IInv, TypeOK
<1>2. Atomic!Touch
  BY <1>1, SameNames DEF Atomic!Touch
<1>3. QED
  BY <1>2 DEF Maps, Atomic!Next

\* The barrier on a pointer that is at the target commits the run, if no barrier has
\* done so before.
LEMMA Commits ==
  ASSUME IInv, IInv', CommittedIsFinal, Committed(marker, current),
         currentDisk' = {current}, allowed' = [d \in Dest |-> {live[d]}],
         UNCHANGED <<live, marker, markerDisk, current>>
  PROVE  Maps
<1>1. marker \in markerDisk \ {NoMarker} /\ current = marker.target
  BY SentinelAssumption DEF IInv, DiskInv, Committed
<1>2. Pointed(marker)
  BY <1>1, InvShows DEF Shown
<1>3. Pointed(marker)'
  BY <1>1, InvShowsNext DEF Shown
<1>4. RunPhase' = "committed" /\ Durable' = marker.target
  BY <1>1, <1>3 DEF Pointed
<1>5. CASE currentDisk = {marker.target}
  <2>1. RunPhase = "committed" /\ Durable = marker.target
    BY <1>2, <1>5 DEF Pointed
  <2>2. allowed' = allowed
    BY <2>1 DEF CommittedIsFinal, IInv, TypeOK
  <2>3. QED
    BY <1>4, <2>1, <2>2 DEF Maps, Atomic!vars
<1>6. CASE currentDisk # {marker.target}
  <2>1. RunPhase = "open" /\ Durable = marker.previous
    BY <1>2, <1>6 DEF Pointed
  <2>2. marker.previous \in Nat /\ marker.target \in Nat /\ marker.previous < marker.target
    BY <1>2 DEF Pointed
  <2>3. Atomic!Commit
    BY <1>4, <2>1, <2>2 DEF Atomic!Commit
  <2>4. QED
    BY <2>3 DEF Maps, Atomic!Next
<1>7. QED
  BY <1>5, <1>6

\* The barrier on the journal closes the run if its marker is gone, and else changes
\* nothing that the atomic run can see.
LEMMA Closes ==
  ASSUME IInv, IInv', SyncJournal, UNCHANGED <<live, allowed, marker, currentDisk>>,
         marker = NoMarker => \A d \in Dest : live[d] \in allowed[d]
  PROVE  Maps
<1>0. marker \in markerDisk /\ markerDisk' = {marker} /\ live \in [Dest -> State]
  BY DEF IInv, TypeOK, DiskInv, SyncJournal
<1>1. Durable' = Durable
  BY DEF Durable
<1>2. CASE marker = NoMarker
  <2>1. RunPhase' = "closed"
    BY <1>0, <1>2 DEF RunPhase
  <2>2. CASE RunPhase = "closed"
    BY <1>1, <2>1, <2>2 DEF Maps, Atomic!vars
  <2>3. CASE RunPhase # "closed"
    <3>1. Atomic!Close
      BY <1>0, <1>1, <1>2, <2>1, <2>3 DEF Atomic!Close
    <3>2. QED
      BY <3>1 DEF Maps, Atomic!Next
  <2>4. QED
    BY <2>2, <2>3
<1>3. CASE marker # NoMarker
  <2>1. Pointed(marker)
    BY <1>0, <1>3, InvShows DEF Shown
  <2>2. Pointed(marker)'
    BY <1>0, <1>3, InvShowsNext DEF Shown
  <2>3. RunPhase' = RunPhase
    BY <2>1, <2>2 DEF Pointed
  <2>4. QED
    BY <1>1, <2>3 DEF Maps, Atomic!vars
<1>4. QED
  BY <1>2, <1>3

-----------------------------------------------------------------------------
(* The steps of Next.                                                      *)

LEMMA InitMaps == Init => Atomic!Init
<1> SUFFICES ASSUME Init PROVE Atomic!Init
  OBVIOUS
<1>1. Durable = 0
  BY DurableIs DEF Init
<1>2. RunPhase = "closed"
  BY DEF Init, RunPhase
<1>3. QED
  BY <1>1, <1>2 DEF Init, Atomic!Init

LEMMA RecoveryMaps ==
  ASSUME IInv, IInv', CommittedIsFinal, Recovery
  PROVE  Maps
<1>1. CASE Start \/ Reconcile \/ Recovered \/ VerifyRestore \/ Refuse
             \/ \E d \in Dest : RecoverEntry(d)
  BY <1>1, Stutters
  DEF Start, Reconcile, Recovered, VerifyRestore, Refuse, Abandon, RecoverEntry, disk
<1>2. CASE SealUnchanged \/ SyncRestore
  BY <1>2, Stutters
  DEF SealUnchanged, SyncRestore, SyncParent, journal, selection
<1>3. CASE SealCurrent
  <2>1. Committed(marker, current)
    BY <1>3 DEF IInv, RecoveryInv, SealCurrent
  <2>2. QED
    BY <1>3, <2>1, Commits DEF SealCurrent, destination, journal
<1>4. CASE RestoreEffect
  <2>1. op.dest \in Dest /\ entry[op.dest] # NoEntry /\ Uncommitted(marker, current)
    BY <1>4, OpInFlight DEF IInv, RecoveryInv, RestoreEffect, Replace
  <2>2. NoMarker \notin markerDisk
    BY <2>1 DEF IInv, DiskInv, MarkerInv
  <2>3. marker \in markerDisk \ {NoMarker} /\ current \in currentDisk
    BY <2>2 DEF IInv, DiskInv
  <2>4. Pointed(marker) /\ current # marker.target
    BY <2>1, <2>3, InvShows DEF Shown, Uncommitted
  <2>5. RunPhase = "open"
    BY <2>3, <2>4 DEF Pointed
  <2>6. QED
    BY <1>4, <2>5, Touches DEF RestoreEffect, Replace, journal, selection
<1>5. QED
  BY <1>1, <1>2, <1>3, <1>4 DEF Recovery

LEMMA CleanupMaps ==
  ASSUME IInv, IInv', Cleanup
  PROVE  Maps
<1>1. CASE \E d \in Dest : RemoveEntry(d)
  BY <1>1, Stutters DEF RemoveEntry, destination, selection
<1>2. CASE SyncEntries \/ SyncMarker
  <2>1. \A d \in Dest : live[d] \in allowed[d]
    BY <1>2 DEF IInv, RecoveryInv, SyncEntries, SyncMarker
  <2>2. QED
    BY <1>2, <2>1, Closes DEF SyncEntries, SyncMarker, destination, selection
<1>3. CASE RemoveMarker
  <2>1. RunPhase' = RunPhase
    BY <1>3, SentinelAssumption DEF RemoveMarker, RunPhase, IInv, DiskInv, selection
  <2>2. Durable' = Durable
    BY <1>3 DEF RemoveMarker, Durable, selection
  <2>3. QED
    BY <1>3, <2>1, <2>2 DEF Maps, Atomic!vars, RemoveMarker, destination
<1>4. QED
  BY <1>1, <1>2, <1>3 DEF Cleanup

LEMMA RunMaps ==
  ASSUME IInv, IInv', CommittedIsFinal, Run
  PROVE  Maps
<1>1. CASE Quit \/ Capture \/ StageRecord \/ SyncRecord \/ VerifyEffect \/ EndRun
             \/ \E d \in Dest, w \in Intent : Decide(d, w)
  BY <1>1, Stutters
  DEF Quit, Capture, StageRecord, SyncRecord, VerifyEffect, EndRun, Decide, disk
<1>2. CASE SyncEffect
  BY <1>2, Stutters DEF SyncEffect, SyncParent, journal, selection
<1>3. CASE BeginRun
  <2>1. RunPhase = "closed"
    BY <1>3 DEF BeginRun, NothingPending, IInv, RunInv, RunPhase
  <2>2. RunPhase' = RunPhase /\ Durable' = Durable
    BY <1>3, SameNames DEF BeginRun, journal
  <2>3. Atomic!Observe
    BY <1>3, <2>1, <2>2 DEF Atomic!Observe, BeginRun, destination
  <2>4. QED
    BY <2>3 DEF Maps, Atomic!Next
<1>4. CASE PublishRecord /\ pc = "begin"
  <2>1. markerDisk = {NoMarker} /\ currentDisk = {current} /\ current < issued
    BY <1>4 DEF PublishRecord, IInv, RunInv
  <2>2. NextMarker \in markerDisk' \ {NoMarker} /\ NextMarker.target = issued
        /\ NextMarker.previous = current
    <3>1. NextMarker \in Marker
      BY DEF NextMarker, Marker, IInv, TypeOK
    <3>2. QED
      BY <1>4, <3>1, SentinelAssumption DEF PublishRecord, NextMarker
  <2>3. Pointed(NextMarker)'
    BY <2>2, InvShowsNext, <1>4 DEF Shown, PublishRecord, NextMarker, selection
  <2>4. currentDisk' = currentDisk /\ NextMarker' = NextMarker
    BY <1>4 DEF PublishRecord, selection, NextMarker
  <2>5. RunPhase' = "open" /\ Durable' = current
    BY <2>1, <2>2, <2>3, <2>4 DEF Pointed
  <2>6. RunPhase = "closed" /\ Durable = current
    BY <2>1, InvShows DEF Shown
  <2>7. Atomic!Open
    BY <1>4, <2>5, <2>6 DEF Atomic!Open, PublishRecord, destination
  <2>8. QED
    BY <2>7 DEF Maps, Atomic!Next
<1>5. CASE PublishRecord /\ pc = "captured"
  BY <1>5, Stutters DEF PublishRecord, destination, selection
<1>6. CASE SyncNamespace
  <2>1. pc \in {"begin", "captured"} /\ marker # NoMarker
    <3>1. NextMarker \in Marker
      BY DEF NextMarker, Marker, IInv, TypeOK
    <3>2. QED
      BY <1>6, <3>1, SentinelAssumption DEF SyncNamespace, IInv, RunInv, Compensated
  <2>2. QED
    BY <1>6, <2>1, Closes DEF SyncNamespace, destination, selection
<1>7. CASE Effect
  <2>1. /\ marker \in Marker /\ current = marker.previous
        /\ marker.previous < marker.target
        /\ markerDisk = {marker} /\ currentDisk = {current}
    BY <1>7, BeforeFlip DEF Effect, Replace, Compensated
  <2>2. Pointed(marker)
    BY <2>1, SentinelAssumption, InvShows DEF Shown
  <2>3. RunPhase = "open"
    BY <2>1, <2>2 DEF Pointed
  <2>4. QED
    BY <1>7, <2>3, Touches DEF Effect, Replace, journal, selection
<1>8. CASE Flip
  <2>1. /\ marker \in markerDisk \ {NoMarker} /\ current = marker.previous
        /\ currentDisk = {current}
    BY <1>8, BeforeFlip, SentinelAssumption DEF Flip, Compensated
  <2>2. Pointed(marker)
    BY <2>1, InvShows DEF Shown
  <2>3. Pointed(marker)'
    BY <1>8, <2>1, InvShowsNext DEF Shown, Flip, journal
  <2>4. marker' = marker /\ currentDisk' = {marker.previous, marker.target}
    BY <1>8, <2>1 DEF Flip, journal
  <2>5. RunPhase' = RunPhase /\ Durable' = Durable
    BY <2>1, <2>2, <2>3, <2>4 DEF Pointed
  <2>6. QED
    BY <1>8, <2>5 DEF Maps, Atomic!vars, Flip, destination
<1>9. CASE SyncFlip
  <2>1. Committed(marker, current)
    BY <1>9 DEF SyncFlip, IInv, TypeOK, DiskInv, RunInv, Compensated, Committed
  <2>2. QED
    BY <1>9, <2>1, Commits DEF SyncFlip, destination, journal
<1>10. QED
  BY <1>1, <1>2, <1>3, <1>4, <1>5, <1>6, <1>7, <1>8, <1>9 DEF Run, PublishRecord

\* What a power loss shows is one of the states the run may be left in.
LEMMA PowerLossMaps ==
  ASSUME IInv, IInv', CommittedIsFinal, PowerLoss
  PROVE  Maps
<1> USE DEF PowerLoss
<1>0. /\ \A d \in Dest : live'[d] \in liveDisk[d] /\ entry'[d] \in entryDisk[d]
      /\ marker' \in markerDisk /\ current' \in currentDisk
      /\ markerDisk' = {marker'} /\ currentDisk' = {current'}
      /\ live \in [Dest -> State] /\ live' \in [Dest -> State]
  BY DEF Outcomes, IInv, TypeOK
<1>1. CASE marker' = NoMarker
  <2>1. currentDisk = {current} /\ Durable = current
        /\ \A d \in Dest : entryDisk[d] = {NoEntry}
    BY <1>0, <1>1, InvShows DEF Shown
  <2>2. RunPhase' = "closed" /\ Durable' = Durable
    BY <1>0, <1>1, <2>1, InvShowsNext DEF Shown, RunPhase
  <2>3. live' = live
    BY <1>0, <2>1 DEF IInv, EntryInv, DiskInv, Single
  <2>4. allowed' = allowed
    BY <1>1, SentinelAssumption DEF Committed
  <2>5. CASE RunPhase = "closed"
    BY <2>2, <2>3, <2>4, <2>5 DEF Maps, Atomic!vars
  <2>6. CASE RunPhase # "closed"
    <3>1. ASSUME NEW d \in Dest PROVE live'[d] \in allowed[d]
      <4>1. MayUndo
        BY <1>0, <1>1, SentinelAssumption DEF MayUndo, Committed
      <4>2. Undo(live[d], NoEntry) \in allowed[d]
        BY <2>1, <4>1 DEF IInv, DiskInv, OutcomeInv
      <4>3. QED
        BY <2>3, <4>2, UndoNothing
    <3>2. Atomic!Close
      BY <1>0, <2>2, <2>3, <2>4, <2>6, <3>1 DEF Atomic!Close
    <3>3. QED
      BY <3>2 DEF Maps, Atomic!Next
  <2>7. QED
    BY <2>5, <2>6
<1>2. CASE marker' # NoMarker
  <2> DEFINE m == marker'
  <2>1. Pointed(m)
    BY <1>0, <1>2, InvShows DEF Shown
  <2>2. RunPhase' = IF currentDisk' = {m.target} THEN "committed" ELSE "open"
    <3>1. m \in Marker /\ markerDisk' = {m} /\ m # NoMarker
      BY <1>0, <1>2, <2>1 DEF Pointed
    <3>2. QED
      BY <3>1 DEF RunPhase
  <2>3. Durable' = current'
    <3>1. Durable' \in currentDisk'
      BY <1>0 DEF Durable
    <3>2. QED
      BY <1>0, <3>1
  <2>4. m \in Marker /\ m.previous \in Nat /\ m.target \in Nat /\ m.previous < m.target
        /\ current' \in {m.previous, m.target}
    BY <1>0, <2>1 DEF Pointed
  <2>5. CASE current' = m.target
    <3>1. RunPhase' = "committed" /\ Durable' = m.target
      BY <1>0, <2>2, <2>3, <2>5
    <3>2. Committed(m, current') /\ allowed' = [d \in Dest |-> {live'[d]}]
      BY <2>4, <2>5 DEF Committed
    <3>3. live' = live
      BY <1>0, <3>2 DEF IInv, OutcomeInv, Single
    <3>4. CASE currentDisk = {m.target}
      <4>1. RunPhase = "committed" /\ Durable = m.target
        BY <2>1, <3>4 DEF Pointed
      <4>2. allowed' = allowed
        BY <3>2, <3>3, <4>1 DEF CommittedIsFinal, IInv, TypeOK
      <4>3. QED
        BY <3>1, <3>3, <4>1, <4>2 DEF Maps, Atomic!vars
    <3>5. CASE currentDisk # {m.target}
      <4>1. RunPhase = "open" /\ Durable = m.previous
        BY <2>1, <3>5 DEF Pointed
      <4>2. Atomic!Commit
        BY <2>4, <3>1, <3>2, <3>3, <4>1 DEF Atomic!Commit
      <4>3. QED
        BY <4>2 DEF Maps, Atomic!Next
    <3>6. QED
      BY <3>4, <3>5
  <2>6. CASE current' = m.previous
    <3>1. RunPhase' = "open" /\ Durable' = m.previous
      BY <1>0, <2>2, <2>3, <2>4, <2>6
    <3>2. RunPhase = "open" /\ Durable = m.previous
      BY <1>0, <2>1, <2>4, <2>6 DEF Pointed
    <3>3. allowed' = allowed
      BY <2>4, <2>6 DEF Committed
    <3>4. Atomic!Touch
      BY <1>0, <3>1, <3>2, <3>3 DEF Atomic!Touch
    <3>5. QED
      BY <3>4 DEF Maps, Atomic!Next
  <2>7. QED
    BY <2>4, <2>5, <2>6
<1>3. QED
  BY <1>1, <1>2

\* A user's edit: what it may be settled in is the edit itself, unless an open run
\* raced with it or takes the deletion for its own.
LEMMA EditMaps ==
  ASSUME IInv, IInv', NEW d \in Dest, NEW v \in Foreign \cup {Absent}, Edit(d, v)
  PROVE  Maps
<1> USE DEF Edit
<1> DEFINE s == allowed'[d]
<1>0. RunPhase' = RunPhase /\ Durable' = Durable
  BY SameNames DEF journal, selection
<1>1. /\ v \in State /\ s \in SUBSET State
      /\ live' = [live EXCEPT ![d] = v] /\ allowed' = [allowed EXCEPT ![d] = s]
  BY DEF IInv, TypeOK, State, Object
<1>2. s = (IF Window(d) THEN allowed[d] ELSE {}) \cup {v} \cup
          {Settled(v, e, m, c) : e \in entryDisk[d], m \in markerDisk, c \in currentDisk}
  BY DEF IInv, TypeOK
<1>3. ASSUME v # Absent, NEW e \in entryDisk[d], NEW m \in markerDisk, NEW c \in currentDisk
      PROVE  Settled(v, e, m, c) = v
  <2>1. e \in Entry \cup {NoEntry}
    BY EntryTyped
  <2>2. e # NoEntry => e.before = e.prior \/ e.before \in Intent
    BY DEF IInv, EntryInv
  <2>3. Undo(v, e) = v
    BY <1>1, <1>3, <2>1, <2>2, UndoForeign, UndoNothing, UndoChoices
  <2>4. QED
    BY <2>3 DEF Settled
<1>4. ASSUME RunPhase # "open" PROVE s = {v}
  <2>1. ~Window(d)
    <3>1. ASSUME pc \in {"captured", "permit"} PROVE FALSE
      <4>1. /\ marker \in Marker /\ current = marker.previous
            /\ marker.previous < marker.target
            /\ markerDisk = {marker} /\ currentDisk = {current}
        BY <3>1, BeforeFlip DEF Compensated
      <4>2. Pointed(marker)
        BY <4>1, SentinelAssumption, InvShows DEF Shown
      <4>3. QED
        BY <1>4, <4>1, <4>2 DEF Pointed
    <3>2. ASSUME pc = "restore" PROVE FALSE
      <4>1. op.dest \in Dest /\ entry[op.dest] # NoEntry /\ Uncommitted(marker, current)
        BY <3>2, OpInFlight DEF IInv, RecoveryInv
      <4>2. NoMarker \notin markerDisk
        BY <4>1 DEF IInv, DiskInv, MarkerInv
      <4>3. marker \in markerDisk \ {NoMarker} /\ current \in currentDisk
        BY <4>2 DEF IInv, DiskInv
      <4>4. Pointed(marker) /\ current # marker.target
        BY <4>1, <4>3, InvShows DEF Shown, Uncommitted
      <4>5. QED
        BY <1>4, <4>3, <4>4 DEF Pointed
    <3>3. QED
      BY <3>1, <3>2 DEF Window
  <2>2. ASSUME NEW e \in entryDisk[d], NEW m \in markerDisk, NEW c \in currentDisk
        PROVE  Settled(v, e, m, c) = v
    <3>1. CASE NoMarker \in markerDisk
      <4>1. e = NoEntry
        BY <3>1, InvShows DEF Shown
      <4>2. QED
        BY <4>1, UndoNothing DEF Settled
    <3>2. CASE NoMarker \notin markerDisk
      <4>1. Pointed(m)
        BY <3>2, InvShows DEF Shown
      <4>2. Committed(m, c)
        BY <1>4, <4>1 DEF Pointed, Committed
      <4>3. QED
        BY <4>2 DEF Settled
    <3>3. QED
      BY <3>1, <3>2
  <2>3. QED
    BY <1>2, <2>1, <2>2
<1>5. v \in s /\ (s # {v} => RunPhase = "open")
  BY <1>2, <1>4
<1>6. s \subseteq IF v = Absent THEN State ELSE allowed[d] \cup {v}
  BY <1>1, <1>2, <1>3
<1>7. Atomic!UserEdit(d, v)
  BY <1>0, <1>1, <1>5, <1>6 DEF Atomic!UserEdit
<1>8. QED
  BY <1>1, <1>7 DEF Maps, Atomic!Next

-----------------------------------------------------------------------------
(* The theorem.                                                            *)

\* What is allowed once a run has committed is what stands, in the atomic run itself.
LEMMA FinalStays == CommittedIsFinal /\ IInv /\ IInv' /\ Maps => CommittedIsFinal'
<1> SUFFICES ASSUME CommittedIsFinal, IInv, IInv', Maps, RunPhase' = "committed",
                    NEW d \in Dest
             PROVE  allowed'[d] = {live'[d]}
  BY DEF CommittedIsFinal
<1>1. CASE UNCHANGED Atomic!vars
  BY <1>1 DEF CommittedIsFinal, Atomic!vars
<1>2. CASE Atomic!Commit
  BY <1>2 DEF Atomic!Commit
<1>3. CASE Atomic!Open \/ Atomic!Observe \/ Atomic!Touch \/ Atomic!Close
  BY <1>3 DEF Atomic!Open, Atomic!Observe, Atomic!Touch, Atomic!Close
<1>4. CASE \E x \in Dest, v \in State : Atomic!UserEdit(x, v)
  <2>1. PICK x \in Dest, v \in State : Atomic!UserEdit(x, v)
    BY <1>4
  <2>2. RunPhase = "committed"
    BY <2>1 DEF Atomic!UserEdit
  <2>3. live' = [live EXCEPT ![x] = v] /\ allowed' = [allowed EXCEPT ![x] = {v}]
    BY <2>1, <2>2 DEF Atomic!UserEdit
  <2>4. QED
    BY <2>2, <2>3 DEF CommittedIsFinal, IInv, TypeOK
<1>5. QED
  BY <1>1, <1>2, <1>3, <1>4 DEF Maps, Atomic!Next

LEMMA StepMaps == IInv /\ IInv' /\ CommittedIsFinal /\ [Next]_vars => Maps
<1> SUFFICES ASSUME IInv, IInv', CommittedIsFinal, [Next]_vars PROVE Maps
  OBVIOUS
<1>1. CASE Recovery \/ Cleanup \/ Run
  BY <1>1, RecoveryMaps, CleanupMaps, RunMaps
<1>2. CASE Fail \/ ProcessDeath
  BY <1>2, Stutters DEF Fail, Abandon, ProcessDeath, disk
<1>3. CASE PowerLoss
  BY <1>3, PowerLossMaps
<1>4. CASE User
  BY <1>4, EditMaps DEF User
<1>5. CASE UNCHANGED vars
  BY <1>5, Stutters DEF vars, disk
<1>6. QED
  BY <1>1, <1>2, <1>3, <1>4, <1>5 DEF Next, Faults

\* Every behaviour of the journal, with its crashes, power losses and edits, is one of
\* the atomic run.
THEOREM Implements == Spec => ImplementsAtomicRun
<1>1. Init => CommittedIsFinal
  BY DEF Init, RunPhase, CommittedIsFinal
<1>2. CommittedIsFinal /\ IInv /\ IInv' /\ [Next]_vars => CommittedIsFinal' /\ Maps
  BY StepMaps, FinalStays
<1>3. QED
  BY <1>1, <1>2, InitMaps, Inductive, PTL
  DEF Spec, ImplementsAtomicRun, Atomic!Spec, Maps

-----------------------------------------------------------------------------
\* Both journals side by side.

\* Each of the two journals takes its own steps only.
LEMMA JournalsApart == AllSpec => Spec /\ Trees!Spec
<1>1. AllInit => Init /\ Trees!Init
  BY DEF AllInit
<1>2. [AllNext]_all => [Next]_vars /\ [Trees!Next]_(Trees!vars)
  BY DEF AllNext, all, trees, Trees!vars, Trees!tree, Trees!nodes, Trees!past, Trees!journal,
     Trees!count
<1> QED
  BY <1>1, <1>2, PTL DEF AllSpec, Spec, Trees!Spec

\* Every variable of either journal keeps its type.
THEOREM JournalTypes ==
  ASSUME Trees!Distinct
  PROVE  AllSpec => []TypesOK
<1>1. TypeOK /\ Trees!TypeOK => TypesOK
  BY DEF TypesOK
<1> QED
  BY <1>1, JournalsApart, TypeCorrect, Trees!TypeCorrect, PTL

\* Whatever is cut, a retained generation's directories exist, and recovery looks leaves up
\* in the hierarchy their record names, where unlinks reach the disk in order.
THEOREM TreesAlwaysSurvive ==
  ASSUME Trees!Distinct, OrderedUnlinks
  PROVE  AllSpec => []TreesSurvive
<1>1. Trees!RetainedSurvive /\ Trees!PinsTheHierarchy => TreesSurvive
  BY DEF TreesSurvive
<1> QED
  BY <1>1, JournalsApart, Trees!RetainedAlwaysSurvive, Trees!PinsHierarchy, PTL
=============================================================================
