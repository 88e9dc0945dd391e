--------------------------- MODULE JournalInvariant ---------------------------
(***************************************************************************)
(* The inductive invariant of Journal: what is true of the disk between    *)
(* any two steps, and what each program counter may rely on.               *)
(***************************************************************************)
EXTENDS Journal

Single(d) == liveDisk[d] = {live[d]}

\* Some combination of names a power loss can leave is not a committed run.
MayUndo == \E m \in markerDisk, c \in currentDisk : ~Committed(m, c)

\* What is shown is one of the possibilities; nothing is torn.
DiskInv ==
  /\ \A d \in Dest : live[d] \in liveDisk[d] /\ entry[d] \in entryDisk[d]
  /\ marker \in markerDisk /\ current \in currentDisk
  /\ \A d \in Dest : Torn \notin entryDisk[d]
  /\ Torn \notin markerDisk

\* One transaction at a time, and the pointer is at one of its ends.
MarkerInv ==
  /\ current <= issued
  /\ \A m \in markerDisk \ {NoMarker} :
       /\ m.previous < m.target /\ m.target = issued
       /\ currentDisk \subseteq {m.previous, m.target}
  /\ \A m, n \in markerDisk \ {NoMarker} : m = n
  /\ NoMarker \in markerDisk =>
       currentDisk = {current} /\ \A d \in Dest : entryDisk[d] = {NoEntry}
  /\ currentDisk # {current} => Committed(marker, current)

EntryInv == \A d \in Dest :
  /\ \A e \in entryDisk[d] \ {NoEntry} : e.before = e.prior \/ e.before \in Intent
  /\ \A e, f \in entryDisk[d] \ {NoEntry} : e.prior = f.prior
  /\ ~Single(d) => /\ entry[d] # NoEntry
                   /\ live[d] \in {entry[d].prior, entry[d].after}

OutcomeInv == \A d \in Dest :
  /\ MayUndo => \A l \in liveDisk[d], e \in entryDisk[d] : Undo(l, e) \in allowed[d]
  /\ \A m \in markerDisk, c \in currentDisk :
       Committed(m, c) => Single(d) /\ (currentDisk = {c} => live[d] \in allowed[d])

\* What each stretch of the program relies on.
RunInv ==
  /\ pc \in {"begin", "ready"} /\ staged # "visible" =>
       markerDisk = {NoMarker} /\ \A d \in Dest : Single(d)
  /\ pc = "begin" => current < issued /\ currentDisk = {current}
  /\ pc = "begin" /\ staged = "visible" =>
       marker = NextMarker /\ \A d \in Dest : Single(d)
  /\ staged # "none" => pc \in {"begin", "captured"}
  /\ pc \in Compensated =>
       /\ markerDisk = {marker} /\ marker # NoMarker
       /\ pc # "flipped" => current = marker.previous
       /\ pc # "effected" => \A d \in Dest : Single(d)
       /\ \A d \in Dest : entry[d] = NoEntry => entryDisk[d] = {NoEntry}
  /\ pc = "flipped" => current = marker.target
  /\ pc \in {"decided", "captured", "permit", "effected", "landed"} =>
       op # NoOp /\ op.want \in Intent
  /\ pc = "effected" => \A d \in Dest : Single(d) \/ d = op.dest

CaptureInv ==
  /\ pc \in {"captured", "permit"} =>
       live[op.dest] \in {op.seen} \cup Foreign \cup {Absent}
  /\ pc = "captured" /\ staged # "visible" =>
       /\ staged # "none" => FollowsPrevious
       /\ entry[op.dest] = NoEntry => op.seen \in allowed[op.dest]
       /\ entry[op.dest] # NoEntry /\ FollowsPrevious =>
            entry[op.dest].prior \in allowed[op.dest]
  /\ (pc = "captured" /\ staged = "visible") \/ pc = "permit" =>
       /\ entry[op.dest] # NoEntry /\ entry[op.dest].after = op.want
       /\ entry[op.dest].prior \in allowed[op.dest]
  /\ pc = "permit" => entryDisk[op.dest] = {entry[op.dest]}

RecoveryInv ==
  /\ pc = "seal" => Committed(marker, current)
  /\ pc \in {"recover", "restore", "restored", "recheck", "unchanged"} =>
       /\ Uncommitted(marker, current)
       /\ \A d \in Dest \ todo : Single(d) /\ live[d] \in allowed[d]
       /\ \A d \in todo : entry[d] # NoEntry
  /\ pc \in {"restore", "restored", "recheck", "unchanged"} =>
       op # NoOp /\ op.dest \in todo
  /\ pc = "restore" => /\ op.want = entry[op.dest].prior
                       /\ op.want \in allowed[op.dest]
  /\ pc \in {"restored", "recheck", "unchanged"} => live[op.dest] \in allowed[op.dest]
  /\ pc = "recheck" => Single(op.dest)
  /\ pc \in {"cleanup", "unmark", "unmarked"} =>
       /\ currentDisk = {current}
       /\ \A d \in Dest : Single(d) /\ live[d] \in allowed[d]
  /\ pc \in {"unmark", "unmarked"} => \A d \in Dest : entryDisk[d] = {NoEntry}
  /\ pc = "unmarked" => marker = NoMarker

IInv ==
  /\ TypeOK
  /\ DiskInv /\ MarkerInv /\ EntryInv /\ OutcomeInv
  /\ RunInv /\ CaptureInv /\ RecoveryInv
=============================================================================
