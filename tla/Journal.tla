------------------------------- MODULE Journal -------------------------------
(***************************************************************************)
(* The leaf transaction journal of gripsack-store (journal/*.rs) with the  *)
(* one pointer that commits it (generations/current.rs).                   *)
(*                                                                         *)
(* A deploy run replaces destination objects one by one, each replacement  *)
(* covered by a write-ahead entry, and commits all of them by flipping the *)
(* `current' link.  The next command reconciles whatever a crash left.     *)
(*                                                                         *)
(* A name on disk is modelled twice: what the kernel shows now (live,      *)
(* entry, marker, current) and the set of contents a power loss may leave  *)
(* it with (the ...Disk variables).  A rename or an unlink adds to that    *)
(* set; an fsync of the directory collapses it to what is shown.           *)
(***************************************************************************)
EXTENDS Naturals

CONSTANTS
  Dest,       \* managed destinations
  Written,    \* object identities that a run deploys
  Foreign,    \* object identities that only a user writes
  Absent,     \* no object at the destination
  NoEntry,    \* no journal entry for the destination
  NoMarker,   \* no run marker
  Torn,       \* a record whose bytes never reached the disk
  NoOp,       \* no mutation or restoration in flight
  MaxTxn      \* bound: selections ever reserved

Object == Written \cup Foreign
State  == Object \cup {Absent}
Intent == Written \cup {Absent}
Txn    == 0..MaxTxn                \* 0: nothing was ever selected
Entry  == [prior : State, before : State, after : Intent]
Marker == [previous : Txn, target : Txn]
Op     == [dest : Dest, want : State, seen : State]

ASSUME IdentityAssumption ==
  /\ Written \cap Foreign = {}
  /\ Absent \notin Object
ASSUME SentinelAssumption ==
  /\ NoEntry \notin Entry /\ Torn \notin Entry /\ NoEntry # Torn
  /\ NoMarker \notin Marker /\ Torn \notin Marker /\ NoMarker # Torn
  /\ NoOp \notin Op
ASSUME MaxTxnAssumption == MaxTxn \in Nat

VARIABLES
  live, liveDisk,         \* the object at each destination
  entry, entryDisk,       \* journal/<hash of destination>.json
  marker, markerDisk,     \* journal/run.json
  current, currentDisk,   \* the selection that `current' names
  issued,                 \* selections reserved so far
  pc,                     \* where the process holding the session lock is
  op,                     \* its mutation or restoration in flight
  staged,                 \* how far its record publication has come
  todo,                   \* entries recovery has not yet reconciled
  onDone,                 \* where a finished cleanup returns to
  allowed                 \* history: the states an uncommitted run may settle in

disk    == <<live, liveDisk, entry, entryDisk, marker, markerDisk,
             current, currentDisk, issued>>
process == <<pc, op, staged, todo, onDone>>
vars    == <<disk, process, allowed>>

destination == <<live, liveDisk>>
journal     == <<entry, entryDisk, marker, markerDisk>>
selection   == <<current, currentDisk, issued>>

PC == {"idle", "reconcile", "ready", "begin", "run", "decided", "captured",
       "permit", "effected", "landed", "flipped", "seal", "recover", "restore",
       "restored", "recheck", "unchanged", "cleanup", "unmark", "unmarked"}
Compensated == {"run", "decided", "captured", "permit",
                "effected", "landed", "flipped"}

TypeOK ==
  /\ live \in [Dest -> State] /\ liveDisk \in [Dest -> SUBSET State]
  /\ entry \in [Dest -> Entry \cup {NoEntry, Torn}]
  /\ entryDisk \in [Dest -> SUBSET (Entry \cup {NoEntry, Torn})]
  /\ marker \in Marker \cup {NoMarker, Torn}
  /\ markerDisk \in SUBSET (Marker \cup {NoMarker, Torn})
  /\ current \in Txn /\ currentDisk \in SUBSET Txn
  /\ issued \in Txn
  /\ pc \in PC
  /\ op \in Op \cup {NoOp}
  /\ staged \in {"none", "written", "synced", "visible"}
  /\ todo \in SUBSET Dest
  /\ onDone \in {"idle", "ready"}
  /\ allowed \in [Dest -> SUBSET State]

-----------------------------------------------------------------------------
(* Decisions.                                                              *)

Committed(m, c) == m \in Marker /\ c = m.target
MarkedUncommitted(m, c) == m \in Marker /\ c = m.previous /\ c # m.target   \* mutant
Uncommitted(m, c) == m = NoMarker \/ (m \in Marker /\ c = m.previous /\ c # m.target)

\* recover.rs decide_from: what an uncommitted entry asks for, given the live
\* object.  What the run wrote, and what it wrote before that, is restored; so
\* is an object that is gone; anything else is the prior, or the user's.
Restores(l, e) ==
  IF l = Absent THEN e.prior # Absent
  ELSE l = e.after \/ (l = e.before /\ l # e.prior)

Verdict(l, e) ==
  IF Restores(l, e) THEN "Restore"
  ELSE IF l = e.prior THEN "Unchanged" ELSE "Keep"

\* The state recovery leaves for a live object and its entry, and the state
\* any command leaves given the marker and the pointer it finds as well.
Undo(l, e) == IF e # NoEntry /\ Restores(l, e) THEN e.prior ELSE l
Settled(l, e, m, c) == IF Committed(m, c) THEN l ELSE Undo(l, e)

ForgetfulNextEntry == [prior |-> op.seen, before |-> op.seen, after |-> op.want]   \* mutant

\* The entry that covers the mutation in flight: the first one of the run for
\* its destination, or the previous one advanced with its prior kept.
NextEntry ==
  IF entry[op.dest] = NoEntry
  THEN [prior |-> op.seen, before |-> op.seen, after |-> op.want]
  ELSE [entry[op.dest] EXCEPT !.before = op.seen, !.after = op.want]

NextMarkerAhead == [previous |-> current, target |-> issued + 1]   \* mutant
NextMarker == [previous |-> current, target |-> issued]

\* Between observing a destination and replacing it there is no compare-and-
\* swap: an edit made then is overwritten.
Window(d) ==
  /\ pc \in {"captured", "permit", "restore"}
  /\ op.dest = d

SyncJournal ==
  /\ entryDisk' = [d \in Dest |-> {entry[d]}]
  /\ markerDisk' = {marker}

\* read_uncommitted admits every record or none: a torn one is quarantined.
Legible == \A d \in Dest : entry[d] # Torn

NothingPending == marker = NoMarker /\ \A d \in Dest : entry[d] = NoEntry

-----------------------------------------------------------------------------
Init ==
  /\ live \in [Dest -> State]
  /\ liveDisk = [d \in Dest |-> {live[d]}]
  /\ entry = [d \in Dest |-> NoEntry] /\ entryDisk = [d \in Dest |-> {NoEntry}]
  /\ marker = NoMarker /\ markerDisk = {NoMarker}
  /\ current = 0 /\ currentDisk = {0} /\ issued = 0
  /\ pc = "idle" /\ op = NoOp /\ staged = "none" /\ todo = {} /\ onDone = "idle"
  /\ allowed = [d \in Dest |-> {live[d]}]

-----------------------------------------------------------------------------
(* Reconciliation: every command that takes the session lock starts here.  *)

Start ==
  /\ pc = "idle"
  /\ pc' = "reconcile" /\ onDone' = "ready"
  /\ UNCHANGED <<disk, op, staged, todo, allowed>>

\* read_uncommitted and classify: a torn record or a pointer that is neither
\* end of the transaction is an error, which is Fail below.
Reconcile ==
  /\ pc = "reconcile"
  /\ Legible
  /\ \/ /\ Committed(marker, current)
        /\ pc' = "seal"
        /\ UNCHANGED todo
     \/ /\ Uncommitted(marker, current)
        /\ pc' = "recover"
        /\ todo' = {d \in Dest : entry[d] # NoEntry}
  /\ UNCHANGED <<disk, op, staged, onDone, allowed>>

SealNothing ==   \* mutant: the observed pointer is taken as durable
  /\ pc = "seal"
  /\ allowed' = [d \in Dest |-> {live[d]}]
  /\ pc' = "cleanup"
  /\ UNCHANGED <<destination, journal, selection, op, staged, todo, onDone>>

\* The pointer was seen at the target; its barrier comes before cleanup.
SealCurrent ==
  /\ pc = "seal"
  /\ currentDisk' = {current}
  /\ allowed' = [d \in Dest |-> {live[d]}]
  /\ pc' = "cleanup"
  /\ UNCHANGED <<destination, journal, current, issued, op, staged, todo, onDone>>

RecoverEntry(d) ==
  /\ pc = "recover" /\ d \in todo
  /\ \/ /\ Verdict(live[d], entry[d]) = "Restore"
        /\ pc' = "restore"
        /\ op' = [dest |-> d, want |-> entry[d].prior, seen |-> live[d]]
        /\ UNCHANGED todo
     \/ /\ Verdict(live[d], entry[d]) = "Unchanged"
        /\ pc' = "unchanged"
        /\ op' = [dest |-> d, want |-> live[d], seen |-> live[d]]
        /\ UNCHANGED todo
     \/ /\ Verdict(live[d], entry[d]) = "Keep"
        /\ todo' = todo \ {d}
        /\ UNCHANGED <<pc, op>>
  /\ UNCHANGED <<disk, staged, onDone, allowed>>

SkipSealing ==   \* mutant: an object that reads as the prior is left unsealed
  /\ pc = "unchanged"
  /\ todo' = todo \ {op.dest}
  /\ pc' = "recover" /\ op' = NoOp
  /\ UNCHANGED <<destination, journal, selection, staged, onDone, allowed>>

\* seal_observed_prior
SealUnchanged ==
  /\ pc = "unchanged"
  /\ liveDisk' = [liveDisk EXCEPT ![op.dest] = {live[op.dest]}]
  /\ todo' = todo \ {op.dest}
  /\ pc' = "recover" /\ op' = NoOp
  /\ UNCHANGED <<live, journal, selection, staged, onDone, allowed>>

Recovered ==
  /\ pc = "recover" /\ todo = {}
  /\ pc' = "cleanup"
  /\ UNCHANGED <<disk, op, staged, todo, onDone, allowed>>

-----------------------------------------------------------------------------
(* Cleanup: entries, a barrier, the marker, a barrier.                     *)

RemoveEntry(d) ==
  /\ pc = "cleanup" /\ entry[d] # NoEntry
  /\ entry' = [entry EXCEPT ![d] = NoEntry]
  /\ entryDisk' = [entryDisk EXCEPT ![d] = @ \cup {NoEntry}]
  /\ UNCHANGED <<destination, marker, markerDisk, selection, process, allowed>>

SyncEntries ==
  /\ pc = "cleanup" /\ \A d \in Dest : entry[d] = NoEntry
  /\ SyncJournal
  /\ pc' = "unmark"
  /\ UNCHANGED <<destination, entry, marker, selection, op, staged, todo, onDone, allowed>>

RemoveMarker ==
  /\ pc = "unmark"
  /\ marker' = NoMarker /\ markerDisk' = markerDisk \cup {NoMarker}
  /\ pc' = "unmarked"
  /\ UNCHANGED <<destination, entry, entryDisk, selection, op, staged, todo, onDone, allowed>>

SyncMarker ==
  /\ pc = "unmarked"
  /\ SyncJournal
  /\ pc' = onDone
  /\ UNCHANGED <<destination, entry, marker, selection, op, staged, todo, onDone, allowed>>

-----------------------------------------------------------------------------
(* A run: the marker, then for each mutation an entry and the effect.      *)

\* begin_run up to the marker: refuse a pending journal, reserve a selection
\* no run ever had.
BeginRun ==
  /\ pc = "ready" /\ NothingPending
  /\ issued < MaxTxn
  /\ issued' = issued + 1
  /\ allowed' = [d \in Dest |-> {live[d]}]
  /\ pc' = "begin"
  /\ UNCHANGED <<destination, journal, current, currentDisk, op, staged, todo, onDone>>

Quit ==
  /\ pc = "ready"
  /\ pc' = "idle" /\ onDone' = "idle"
  /\ UNCHANGED <<disk, op, staged, todo, allowed>>

\* The drift decision reads the destination; capture reads it again.
Decide(d, w) ==
  /\ pc = "run" /\ w # live[d]
  /\ op' = [dest |-> d, want |-> w, seen |-> live[d]]
  /\ pc' = "decided"
  /\ UNCHANGED <<disk, staged, todo, onDone, allowed>>

Capture ==
  /\ pc = "decided" /\ live[op.dest] = op.seen
  /\ pc' = "captured"
  /\ UNCHANGED <<disk, op, staged, todo, onDone, allowed>>

FollowsAnything == TRUE   \* mutant
\* record: a destination this run already wrote must still hold what it wrote.
FollowsPrevious == entry[op.dest] # NoEntry => entry[op.dest].after = op.seen

StageRecord ==
  /\ staged = "none"
  /\ pc = "begin" \/ (pc = "captured" /\ FollowsPrevious)
  /\ staged' = "written"
  /\ UNCHANGED <<disk, pc, op, todo, onDone, allowed>>

SyncRecord ==
  /\ staged = "written"
  /\ staged' = "synced"
  /\ UNCHANGED <<disk, pc, op, todo, onDone, allowed>>

Unsynced == IF staged = "synced" THEN {} ELSE {Torn}

PublishRecord ==
  /\ staged = "synced"
  /\ staged' = "visible"
  /\ \/ /\ pc = "begin"
        /\ marker' = NextMarker
        /\ markerDisk' = markerDisk \cup {NextMarker} \cup Unsynced
        /\ UNCHANGED <<entry, entryDisk>>
     \/ /\ pc = "captured"
        /\ entry' = [entry EXCEPT ![op.dest] = NextEntry]
        /\ entryDisk' = [entryDisk EXCEPT ![op.dest] = @ \cup {NextEntry} \cup Unsynced]
        /\ UNCHANGED <<marker, markerDisk>>
  /\ UNCHANGED <<destination, selection, pc, op, todo, onDone, allowed>>

SyncNamespace ==
  /\ staged = "visible"
  /\ SyncJournal
  /\ staged' = "none"
  /\ pc' = IF pc = "begin" THEN "run" ELSE "permit"
  /\ UNCHANGED <<destination, entry, marker, selection, op, todo, onDone, allowed>>

\* An atomic replacement or removal, its parent barrier, and the check that
\* the destination reads back as intended: MutationPermit::execute, and the
\* same three steps when recovery restores a prior.
Replace(from, to) ==
  /\ pc = from
  /\ live' = [live EXCEPT ![op.dest] = op.want]
  /\ liveDisk' = [liveDisk EXCEPT ![op.dest] = @ \cup {op.want}]
  /\ pc' = to
  /\ UNCHANGED <<journal, selection, op, staged, todo, onDone, allowed>>

SyncParent(from, to) ==
  /\ pc = from
  /\ liveDisk' = [liveDisk EXCEPT ![op.dest] = {live[op.dest]}]
  /\ pc' = to
  /\ UNCHANGED <<live, journal, selection, op, staged, todo, onDone, allowed>>

Effect == Replace("permit", "effected")
SyncEffect == SyncParent("effected", "landed")
VerifyEffect ==
  /\ pc = "landed" /\ live[op.dest] = op.want
  /\ pc' = "run" /\ op' = NoOp
  /\ UNCHANGED <<disk, staged, todo, onDone, allowed>>

RestoreEffect == Replace("restore", "restored")
SyncRestore == SyncParent("restored", "recheck")
VerifyRestore ==
  /\ pc = "recheck" /\ live[op.dest] = op.want
  /\ todo' = todo \ {op.dest}
  /\ pc' = "recover" /\ op' = NoOp
  /\ UNCHANGED <<disk, staged, onDone, allowed>>

\* flip: one rename of `current', its barrier, then commit_run's cleanup.
Flip ==
  /\ pc = "run"
  /\ current' = marker.target
  /\ currentDisk' = currentDisk \cup {marker.target}
  /\ pc' = "flipped"
  /\ UNCHANGED <<destination, journal, issued, op, staged, todo, onDone, allowed>>

SyncFlip ==
  /\ pc = "flipped"
  /\ currentDisk' = {current}
  /\ allowed' = [d \in Dest |-> {live[d]}]
  /\ pc' = "cleanup" /\ onDone' = "idle"
  /\ UNCHANGED <<destination, journal, current, issued, op, staged, todo>>

\* end_run: a run that mutated nothing takes its marker back.
EndRun ==
  /\ pc = "run" /\ \A d \in Dest : entry[d] = NoEntry
  /\ pc' = "cleanup" /\ onDone' = "idle"
  /\ UNCHANGED <<disk, op, staged, todo, allowed>>

-----------------------------------------------------------------------------
(* The environment: failed effects, crashes, power loss, users.            *)

\* An error once the run is declared is compensated by reconciling in the
\* same process; any other error ends the command with the journal retained.
Abandon ==
  /\ pc' = IF pc \in Compensated THEN "reconcile" ELSE "idle"
  /\ op' = NoOp /\ staged' = "none" /\ todo' = {} /\ onDone' = "idle"
  /\ UNCHANGED <<disk, allowed>>

Refused ==
  \/ pc = "decided" /\ live[op.dest] # op.seen
  \/ pc = "captured" /\ staged = "none" /\ ~FollowsPrevious
  \/ pc \in {"landed", "recheck"} /\ live[op.dest] # op.want

\* The program's own checks stop it: someone else changed the destination.
Refuse == Refused /\ Abandon

\* Any effect may report an error, before or after it took place.
Fail == pc \notin {"idle", "ready"} /\ ~Refused /\ Abandon

Halt == pc' = "idle" /\ op' = NoOp /\ staged' = "none" /\ todo' = {} /\ onDone' = "idle"

ProcessDeath ==
  /\ pc # "idle"
  /\ Halt
  /\ UNCHANGED <<disk, allowed>>

Outcomes(d) == {f \in [Dest -> UNION {d[x] : x \in Dest}] : \A x \in Dest : f[x] \in d[x]}

PowerLoss ==
  /\ live' \in Outcomes(liveDisk) /\ liveDisk' = [d \in Dest |-> {live'[d]}]
  /\ entry' \in Outcomes(entryDisk) /\ entryDisk' = [d \in Dest |-> {entry'[d]}]
  /\ marker' \in markerDisk /\ markerDisk' = {marker'}
  /\ current' \in currentDisk /\ currentDisk' = {current'}
  /\ allowed' = IF Committed(marker', current')
                THEN [d \in Dest |-> {live'[d]}] ELSE allowed
  /\ Halt
  /\ UNCHANGED issued

\* A user replaces or deletes the object at a destination.  The edit is what
\* the destination must settle in, unless it fell in the window; a deletion
\* while an uncommitted entry may remain can also read as the run's removal.
Edit(d, v) ==
  /\ v # live[d]
  /\ live' = [live EXCEPT ![d] = v]
  /\ liveDisk' = [liveDisk EXCEPT ![d] = {v}]
  /\ allowed' = [allowed EXCEPT ![d] =
       (IF Window(d) THEN @ ELSE {}) \cup {v} \cup
       {Settled(v, e, m, c) : e \in entryDisk[d], m \in markerDisk, c \in currentDisk}]
  /\ UNCHANGED <<journal, selection, process>>

-----------------------------------------------------------------------------
Recovery ==
  \/ Start \/ Reconcile \/ SealCurrent \/ SealUnchanged \/ Recovered
  \/ \E d \in Dest : RecoverEntry(d)
  \/ RestoreEffect \/ SyncRestore \/ VerifyRestore \/ Refuse

Cleanup ==
  \/ \E d \in Dest : RemoveEntry(d)
  \/ SyncEntries \/ RemoveMarker \/ SyncMarker

Run ==
  \/ BeginRun \/ Quit \/ Capture
  \/ \E d \in Dest, w \in Intent : Decide(d, w)
  \/ StageRecord \/ SyncRecord \/ PublishRecord \/ SyncNamespace
  \/ Effect \/ SyncEffect \/ VerifyEffect
  \/ Flip \/ SyncFlip \/ EndRun

Faults == Fail \/ ProcessDeath \/ PowerLoss
User == \E d \in Dest, v \in Foreign \cup {Absent} : Edit(d, v)

Next == Recovery \/ Cleanup \/ Run \/ Faults \/ User

Spec == Init /\ [][Next]_vars

-----------------------------------------------------------------------------
(* Properties.                                                             *)

\* Whatever combination of names a power loss leaves, the next command settles
\* every destination in one of two ways: as the committed run left it, or in a
\* state an uncommitted run may leave (the prior, or the user's later edit).
AtomicOutcome ==
  \A d \in Dest : \A l \in liveDisk[d], e \in entryDisk[d], m \in markerDisk, c \in currentDisk :
    IF Committed(m, c) THEN l = live[d] ELSE Undo(l, e) \in allowed[d]

\* A durable entry without a durable marker would read as an uncommitted run
\* and undo a committed one: the marker outlives every entry, on every disk.
MarkerCoversEntries ==
  \A d \in Dest : entryDisk[d] # {NoEntry} => NoMarker \notin markerDisk

\* No crash can leave a record that recovery must quarantine, nor a pointer
\* that is neither end of the marker's transaction.
NeverBlocked ==
  /\ \A d \in Dest : Torn \notin entryDisk[d]
  /\ \A m \in markerDisk, c \in currentDisk : Committed(m, c) \/ Uncommitted(m, c)

\* Once no disk can show the run's marker, no destination has anything left to
\* recover, each stands in an allowed state, and no power loss takes it back.
QuietIsDurable ==
  markerDisk = {NoMarker} =>
    \A d \in Dest : /\ liveDisk[d] = {live[d]} /\ live[d] \in allowed[d]
                    /\ entryDisk[d] = {NoEntry}

\* exec/apply.rs says of the flip: an error from it means nothing flipped, so
\* a compensation is never entered with the pointer already at the target.
FlipErrorMeansNothingFlipped ==
  [][(pc \in Compensated /\ pc' = "reconcile") => current # marker.target]_vars
=============================================================================
