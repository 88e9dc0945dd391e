--------------------------- MODULE ComponentsProofs ---------------------------
(***************************************************************************)
(* What the components keep, side by side, for every value of their        *)
(* constants: the generations, the HTTP operations, the throttle and the   *)
(* supervision of a child, proved here, and the services, proved in        *)
(* ServicesProofs.                                                         *)
(***************************************************************************)
EXTENDS Components, Integers, WellFoundedInduction, TLAPS

-----------------------------------------------------------------------------
(* Generations: what runs and collections keep, for every number of them,  *)
(* every retention setting and any kills and power losses.                 *)

\* The inductive invariant.

Planning == {"gc", "counting", "prune"}
Retiring == {"retire", "unstaged", "retiring", "removing", "consumed", "removed"}
Sweeping == {"sweep", "swept", "collect"}
Collecting == Planning \cup Retiring \cup Sweeping
Building == {"run", "raising", "raised"}

\* What is shown is one of the things that a power loss may leave, and what is no longer
\* in the history cannot come back into it.
DiskInv ==
  /\ \A n \in Gen : place[n] \in placeDisk[n]
  /\ floor \in floorDisk /\ current \in currentDisk
  /\ \A n \in Gen : place[n] \in {"none", "retired"} => "live" \notin placeDisk[n]

\* A number that was once published is remembered by the counter on every disk, or by its
\* name: histories may predate the counter.
CounterInv ==
  \A n \in used : (\A f \in floorDisk : n <= f) \/ placeDisk[n] = {"live"}

\* Receipts name what came before.
ReceiptInv == \A n \in Gen : \A p \in needs[n] : p < n

\* A run's number is new and above the selected one; it is made durable before the name.
RunInv ==
  /\ pc \in Building => target \notin used /\ current < target
  /\ pc \in {"raising", "raised"} => target <= floor
  /\ pc = "raised" => floorDisk = {floor} /\ \A n \in Gen : placeDisk[n] = {place[n]}
  /\ pc \in Building \cup {"renamed", "published"} \cup (Retiring \ {"retire"}) => target \in Gen

\* What a collection has still to do is as it planned it.
PlanInv ==
  pc \in Collecting =>
    /\ \A n \in doomed : place[n] = "live" /\ n \notin currentDisk
    /\ \A n \in queue : place[n] = "retiring"
    /\ \A n \in spent : /\ place[n] = "retired"
                        /\ pc \notin {"gc", "counting"} => placeDisk[n] = {"retired"}
    /\ \A n \in Gen : "live" \in placeDisk[n] =>
                        n \in kept \/ n \in doomed \/ (pc = "prune" /\ n \in queue)
    /\ pc \notin Planning => doomed = {}

\* The counter covers what is pruned, and what is kept needs none of it.
PruneInv ==
  /\ pc = "counting" => \A n \in doomed : n <= floor
  /\ pc = "prune" => \A n \in doomed : \A f \in floorDisk : n <= f
  /\ pc \in Planning => \A n \in kept : needs[n] \cap doomed = {}

\* How far the retirement of a target has come.
RetireInv ==
  /\ pc \in {"retire", "unstaged"} => \A n \in queue : placeDisk[n] = {"retiring"}
  /\ pc = "unstaged" => target \in queue /\ target \notin staged
  /\ pc \in {"retiring", "removing", "consumed"} => place[target] = "retired" /\ target \notin spent
  /\ pc \in {"removing", "consumed"} => placeDisk[target] = {"retired"}
  /\ pc \in {"retiring", "removing", "consumed", "removed"} =>
       \A n \in queue : placeDisk[n] = {"retiring"}
  /\ pc = "retiring" => "live" \notin placeDisk[target]

IInv ==
  /\ TypeOK /\ SelectionIsSound
  /\ DiskInv /\ CounterInv /\ ReceiptInv /\ RunInv /\ PlanInv /\ PruneInv /\ RetireInv

-----------------------------------------------------------------------------
\* What the steps are made of.

USE DEF names, counter, pointer, objects, plan, Goto
USE DEF Building, Planning, Retiring, Sweeping, Collecting

LEMMA Numbers == MaxGen \in Nat /\ Gen \subseteq Id /\ Id \subseteq Nat /\ 0 \notin Gen
  BY MaxGenAssumption DEF Gen, Id

\* A move changes one name.
LEMMA MoveIs ==
  ASSUME TypeOK, NEW n \in Gen, NEW to \in Place, Move(n, to)
  PROVE  /\ place' \in [Gen -> Place] /\ placeDisk' \in [Gen -> SUBSET Place]
         /\ place'[n] = to /\ placeDisk'[n] = placeDisk[n] \cup {to}
         /\ \A m \in Gen \ {n} : place'[m] = place[m] /\ placeDisk'[m] = placeDisk[m]
  BY DEF TypeOK, Move

\* A barrier leaves every name as it is shown, and the selection as sound as it was.
LEMMA SealIs ==
  ASSUME IInv, SyncGenerations, UNCHANGED <<place, payload, staged, whole>>,
         \A c \in currentDisk' \ {0} : c \in Gen /\ place[c] = "live"
  PROVE  /\ placeDisk' \in [Gen -> SUBSET Place] /\ \A n \in Gen : placeDisk'[n] = {place[n]}
         /\ SelectionIsSound'
<1>1. placeDisk' \in [Gen -> SUBSET Place] /\ \A n \in Gen : placeDisk'[n] = {place[n]}
  BY DEF IInv, TypeOK, SyncGenerations
<1>2. CurrentIsPublished'
  BY <1>1 DEF CurrentIsPublished
<1>3. NamesKeepTheirBytes'
  BY <1>1 DEF IInv, SelectionIsSound, NamesKeepTheirBytes, DiskInv
<1>4. StagingHasAuthority'
  BY <1>1 DEF IInv, TypeOK, SelectionIsSound, StagingHasAuthority, DiskInv
<1> QED
  BY <1>1, <1>2, <1>3, <1>4 DEF SelectionIsSound

LEMMA SelectedIsLive ==
  ASSUME IInv, NEW c \in currentDisk \ {0}
  PROVE  c \in Gen /\ place[c] = "live"
  BY Numbers DEF IInv, TypeOK, Id, Gen, SelectionIsSound, CurrentIsPublished, DiskInv

-----------------------------------------------------------------------------
\* The steps.

LEMMA QuietStep ==
  ASSUME IInv, Reconcile \/ SyncMarker \/ Quit \/ EndRun \/ SyncFlip
         \/ CommitRun \/ CleanupPending \/ AllSwept
  PROVE  IInv'
<1>1. TypeOK'
  BY Numbers DEF IInv, TypeOK, PC, Reconcile, SyncMarker, Quit, EndRun, SyncFlip,
     CommitRun, CleanupPending, AllSwept, SyncHome
<1>2. SelectionIsSound'
  BY DEF IInv, SelectionIsSound, CurrentIsPublished, NamesKeepTheirBytes,
     StagingHasAuthority, DiskInv, Reconcile, SyncMarker, Quit, EndRun, SyncFlip,
     CommitRun, CleanupPending, AllSwept, SyncHome
<1>3. DiskInv' /\ CounterInv' /\ ReceiptInv'
  BY Numbers DEF IInv, DiskInv, CounterInv, ReceiptInv, Reconcile, SyncMarker, Quit,
     EndRun, SyncFlip, CommitRun, CleanupPending, AllSwept, SyncHome
<1>4. RunInv' /\ PlanInv' /\ PruneInv' /\ RetireInv'
  BY Numbers DEF IInv, RunInv, PlanInv, PruneInv, RetireInv, Reconcile, SyncMarker, Quit,
     EndRun, SyncFlip, CommitRun, CleanupPending, AllSwept
<1> QED
  BY <1>1, <1>2, <1>3, <1>4 DEF IInv

LEMMA StopStep ==
  ASSUME IInv, Stop
  PROVE  IInv'
<1>1. TypeOK'
  <2>1. /\ pc' = "idle" /\ target' = 0 /\ doomed' = {} /\ queue' = {} /\ spent' = {} /\ kept' = {}
        /\ UNCHANGED <<place, placeDisk, needs, floor, floorDisk, current, currentDisk, marker,
                       payload, staged, whole, used>>
    BY DEF Stop, Forget
  <2> QED
    BY <2>1, Numbers DEF IInv, TypeOK, Id, PC
<1>2. SelectionIsSound'
  BY DEF IInv, SelectionIsSound, CurrentIsPublished, NamesKeepTheirBytes,
     StagingHasAuthority, Stop
<1>3. DiskInv' /\ CounterInv' /\ ReceiptInv'
  BY Numbers DEF IInv, DiskInv, CounterInv, ReceiptInv, Stop
<1>4. RunInv' /\ PlanInv' /\ PruneInv' /\ RetireInv'
  BY Numbers DEF RunInv, PlanInv, PruneInv, RetireInv, Stop, Forget
<1> QED
  BY <1>1, <1>2, <1>3, <1>4 DEF IInv

LEMMA BarrierStep ==
  ASSUME IInv, SyncFloor \/ SyncPublished \/ SyncCounter \/ SyncPruned
                 \/ SyncRetired \/ SyncRemoved \/ AllRetired \/ SyncSwept
  PROVE  IInv'
<1>1. /\ SyncGenerations /\ floorDisk' = {floor}
      /\ UNCHANGED <<place, floor, needs, current, currentDisk, marker, payload, staged, whole,
                     target, doomed, queue, spent, kept, used>>
  BY DEF SyncFloor, SyncPublished, SyncCounter, SyncPruned, SyncRetired, SyncRemoved,
     AllRetired, SyncSwept, Barrier, SyncGenerations
<1>2. \/ pc = "raising" /\ pc' = "raised"
      \/ pc = "renamed" /\ pc' = "published"
      \/ pc = "counting" /\ pc' = "prune"
      \/ doomed = {} /\ pc = "prune" /\ pc' = "retire"
      \/ pc = "retiring" /\ pc' = "removing"
      \/ pc = "removed" /\ pc' = "retire"
      \/ queue = {} /\ pc = "retire" /\ pc' = "sweep"
      \/ pc = "swept" /\ pc' = "sweep"
  BY DEF SyncFloor, SyncPublished, SyncCounter, SyncPruned, SyncRetired, SyncRemoved,
     AllRetired, SyncSwept, Barrier
<1>3. /\ placeDisk' \in [Gen -> SUBSET Place] /\ \A n \in Gen : placeDisk'[n] = {place[n]}
      /\ SelectionIsSound'
  BY <1>1, SealIs, SelectedIsLive
<1>4. TypeOK'
  BY <1>1, <1>2, <1>3 DEF IInv, TypeOK, PC
<1>5. DiskInv' /\ CounterInv' /\ ReceiptInv'
  BY <1>1, <1>3 DEF IInv, TypeOK, DiskInv, CounterInv, ReceiptInv
<1>6. RunInv'
  BY <1>1, <1>2, <1>3 DEF IInv, RunInv
<1>7. PlanInv'
  BY <1>1, <1>2, <1>3 DEF IInv, TypeOK, DiskInv, PlanInv
<1>8. PruneInv' /\ RetireInv'
  BY <1>1, <1>2, <1>3 DEF IInv, TypeOK, PlanInv, PruneInv, RunInv, RetireInv
<1> QED
  BY <1>3, <1>4, <1>5, <1>6, <1>7, <1>8 DEF IInv

LEMMA AllocateStep ==
  ASSUME IInv, Allocate
  PROVE  IInv'
<1>1. TypeOK'
  BY Numbers DEF IInv, TypeOK, Gen, Id, PC, Allocate, IsLargest
<1>2. SelectionIsSound'
  BY DEF IInv, SelectionIsSound, CurrentIsPublished, NamesKeepTheirBytes,
     StagingHasAuthority, Allocate
<1>3. DiskInv' /\ CounterInv' /\ ReceiptInv'
  BY Numbers DEF IInv, DiskInv, CounterInv, ReceiptInv, Allocate
<1>4. RunInv' /\ PlanInv' /\ PruneInv' /\ RetireInv'
  <2>1. /\ pc' = "run" /\ target' \in Gen
        /\ \A n \in Gen : n \in {current, floor} \cup At("live") => n < target'
        /\ current < target' /\ floor < target'
    BY Numbers DEF Allocate, IsLargest, IInv, TypeOK, Id, Gen
  <2>2. \A n \in used : n < target'
    BY <2>1, Numbers DEF IInv, TypeOK, CounterInv, DiskInv, At, Id, Gen
  <2>3. UNCHANGED <<current, used>>
    BY DEF Allocate
  <2>4. target' \notin used /\ current < target'
    BY <2>1, <2>2, Numbers
  <2> QED
    BY <2>1, <2>3, <2>4 DEF RunInv, PlanInv, PruneInv, RetireInv
<1> QED
  BY <1>1, <1>2, <1>3, <1>4 DEF IInv

LEMMA RaiseFloorStep ==
  ASSUME IInv, RaiseFloor
  PROVE  IInv'
<1>1. TypeOK'
  BY Numbers DEF IInv, TypeOK, Gen, Id, PC, RaiseFloor, Raise
<1>2. SelectionIsSound'
  BY DEF IInv, SelectionIsSound, CurrentIsPublished, NamesKeepTheirBytes,
     StagingHasAuthority, RaiseFloor
<1>3. DiskInv' /\ CounterInv' /\ ReceiptInv'
  BY Numbers DEF IInv, TypeOK, DiskInv, CounterInv, ReceiptInv, RaiseFloor, Raise
<1>4. RunInv' /\ PlanInv' /\ PruneInv' /\ RetireInv'
  BY Numbers DEF IInv, TypeOK, RunInv, PlanInv, PruneInv, RetireInv, RaiseFloor, Raise
<1> QED
  BY <1>1, <1>2, <1>3, <1>4 DEF IInv

LEMMA PublishStep ==
  ASSUME IInv, NEW receipts \in SUBSET Gen, Publish(receipts)
  PROVE  IInv'
<1>1. TypeOK'
  <2>1. target \in Gen /\ Move(target, "live")
    BY DEF IInv, RunInv, Publish
  <2>2. needs' \in [Gen -> SUBSET Gen]
    BY <2>1 DEF IInv, TypeOK, Publish
  <2> QED
    BY <2>1, <2>2, MoveIs DEF IInv, TypeOK, Place, PC, Publish
<1>2. SelectionIsSound'
  BY DEF IInv, SelectionIsSound, CurrentIsPublished, NamesKeepTheirBytes,
     StagingHasAuthority, RunInv, Publish, Move
<1>3. DiskInv' /\ CounterInv' /\ ReceiptInv'
  <2>1. DiskInv'
    BY DEF IInv, TypeOK, DiskInv, RunInv, Publish, Move
  <2>2. CounterInv'
    BY Numbers DEF IInv, TypeOK, CounterInv, RunInv, Id, Publish, Move
  <2>3. target \in Gen /\ \A p \in receipts : p < target
    BY Numbers DEF IInv, TypeOK, ReceiptInv, RunInv, Gen, Id, Publish
  <2>4. ReceiptInv'
    BY <2>3 DEF IInv, TypeOK, ReceiptInv, Publish
  <2> QED
    BY <2>1, <2>2, <2>4
<1>4. RunInv' /\ PlanInv' /\ PruneInv' /\ RetireInv'
  BY Numbers DEF IInv, RunInv, PlanInv, PruneInv, RetireInv, Publish
<1> QED
  BY <1>1, <1>2, <1>3, <1>4 DEF IInv

LEMMA RollbackStep ==
  ASSUME IInv, NEW n \in Gen, Rollback(n)
  PROVE  IInv'
<1>1. TypeOK'
  BY Numbers DEF IInv, TypeOK, Gen, Id, PC, Rollback
<1>2. SelectionIsSound'
  BY DEF IInv, SelectionIsSound, CurrentIsPublished, NamesKeepTheirBytes,
     StagingHasAuthority, Rollback
<1>3. DiskInv' /\ CounterInv' /\ ReceiptInv'
  BY Numbers DEF IInv, DiskInv, CounterInv, ReceiptInv, Rollback
<1>4. RunInv' /\ PlanInv' /\ PruneInv' /\ RetireInv'
  BY Numbers DEF RunInv, PlanInv, PruneInv, RetireInv, Rollback
<1> QED
  BY <1>1, <1>2, <1>3, <1>4 DEF IInv

LEMMA FlipStep ==
  ASSUME IInv, Flip
  PROVE  IInv'
<1>1. TypeOK'
  BY Numbers DEF IInv, TypeOK, Gen, Id, PC, Flip, SyncGenerations
<1>2. SelectionIsSound'
  <2>1. \A c \in currentDisk' \ {0} : c \in Gen /\ place[c] = "live"
    BY SelectedIsLive DEF IInv, DiskInv, RunInv, Flip
  <2> QED
    BY <2>1, SealIs DEF Flip
<1>3. DiskInv' /\ CounterInv' /\ ReceiptInv'
  BY Numbers DEF IInv, TypeOK, DiskInv, CounterInv, ReceiptInv, Flip, SyncGenerations
<1>4. RunInv' /\ PlanInv' /\ PruneInv' /\ RetireInv'
  BY Numbers DEF RunInv, PlanInv, PruneInv, RetireInv, Flip
<1> QED
  BY <1>1, <1>2, <1>3, <1>4 DEF IInv

LEMMA CountFirstStep ==
  ASSUME IInv, CountFirst
  PROVE  IInv'
<1>1. TypeOK'
  BY Numbers DEF IInv, TypeOK, Gen, Id, PC, CountFirst, IsLargest, Raise
<1>2. SelectionIsSound'
  BY DEF IInv, SelectionIsSound, CurrentIsPublished, NamesKeepTheirBytes,
     StagingHasAuthority, CountFirst
<1>3. DiskInv' /\ CounterInv' /\ ReceiptInv'
  BY Numbers DEF IInv, TypeOK, DiskInv, CounterInv, ReceiptInv, CountFirst, Raise
<1>4. RunInv' /\ PlanInv' /\ PruneInv' /\ RetireInv'
  BY Numbers DEF IInv, TypeOK, RunInv, PlanInv, PruneInv, RetireInv, CountFirst,
     IsLargest, Raise
<1> QED
  BY <1>1, <1>2, <1>3, <1>4 DEF IInv

LEMMA PruneNextStep ==
  ASSUME IInv, PruneNext
  PROVE  IInv'
<1>1. TypeOK'
  <2>1. PICK n \in doomed : /\ Move(n, "retiring")
                            /\ doomed' = doomed \ {n} /\ queue' = queue \cup {n}
    BY DEF PruneNext
  <2> QED
    BY <2>1, MoveIs DEF IInv, TypeOK, Place, PC, PruneNext
<1>2. SelectionIsSound'
  BY DEF IInv, SelectionIsSound, CurrentIsPublished, NamesKeepTheirBytes,
     StagingHasAuthority, DiskInv, PlanInv, PruneNext, Move
<1>3. DiskInv' /\ CounterInv' /\ ReceiptInv'
  BY Numbers DEF IInv, TypeOK, DiskInv, CounterInv, ReceiptInv, PruneInv, PruneNext, Move
<1>4. RunInv' /\ PlanInv' /\ PruneInv' /\ RetireInv'
  BY Numbers DEF IInv, TypeOK, RunInv, PlanInv, PruneInv, RetireInv, PruneNext, Move
<1> QED
  BY <1>1, <1>2, <1>3, <1>4 DEF IInv

LEMMA UnstageStep ==
  ASSUME IInv, Unstage
  PROVE  IInv'
<1>1. TypeOK'
  BY Numbers DEF IInv, TypeOK, Gen, Id, PC, Unstage
<1>2. SelectionIsSound'
  BY DEF IInv, SelectionIsSound, CurrentIsPublished, NamesKeepTheirBytes,
     StagingHasAuthority, Unstage
<1>3. DiskInv' /\ CounterInv' /\ ReceiptInv'
  BY Numbers DEF IInv, DiskInv, CounterInv, ReceiptInv, Unstage
<1>4. RunInv' /\ PlanInv' /\ PruneInv' /\ RetireInv'
  BY Numbers DEF IInv, TypeOK, RunInv, PlanInv, PruneInv, RetireInv, Unstage
<1> QED
  BY <1>1, <1>2, <1>3, <1>4 DEF IInv

LEMMA FinishRetirementStep ==
  ASSUME IInv, FinishRetirement
  PROVE  IInv'
<1>1. TypeOK'
  <2>1. target \in Gen /\ Move(target, "retired")
    BY DEF IInv, RunInv, FinishRetirement
  <2> QED
    BY <2>1, MoveIs, Numbers DEF IInv, TypeOK, Place, PC, FinishRetirement
<1>2. SelectionIsSound'
  BY DEF IInv, SelectionIsSound, CurrentIsPublished, NamesKeepTheirBytes,
     StagingHasAuthority, RetireInv, FinishRetirement, Move
<1>3. DiskInv' /\ CounterInv' /\ ReceiptInv'
  BY Numbers DEF IInv, TypeOK, DiskInv, CounterInv, ReceiptInv, PlanInv, RetireInv,
     FinishRetirement, Move
<1>4. RunInv' /\ PlanInv' /\ PruneInv' /\ RetireInv'
  BY Numbers DEF IInv, TypeOK, RunInv, PlanInv, PruneInv, RetireInv, FinishRetirement,
     Move
<1> QED
  BY <1>1, <1>2, <1>3, <1>4 DEF IInv

LEMMA ConsumeManifestStep ==
  ASSUME IInv, ConsumeManifest
  PROVE  IInv'
<1>1. TypeOK'
  BY Numbers DEF IInv, TypeOK, Gen, Id, PC, ConsumeManifest
<1>2. SelectionIsSound'
  BY DEF IInv, SelectionIsSound, CurrentIsPublished, NamesKeepTheirBytes,
     StagingHasAuthority, RetireInv, ConsumeManifest
<1>3. DiskInv' /\ CounterInv' /\ ReceiptInv'
  BY Numbers DEF IInv, DiskInv, CounterInv, ReceiptInv, ConsumeManifest
<1>4. RunInv' /\ PlanInv' /\ PruneInv' /\ RetireInv'
  BY Numbers DEF IInv, RunInv, PlanInv, PruneInv, RetireInv, ConsumeManifest
<1> QED
  BY <1>1, <1>2, <1>3, <1>4 DEF IInv

LEMMA RemoveRetiredStep ==
  ASSUME IInv, RemoveRetired
  PROVE  IInv'
<1>1. TypeOK'
  <2>1. target \in Gen /\ Move(target, "none")
    BY DEF IInv, RunInv, RemoveRetired
  <2> QED
    BY <2>1, MoveIs, Numbers DEF IInv, TypeOK, Place, PC, RemoveRetired
<1>2. SelectionIsSound'
  BY DEF IInv, SelectionIsSound, CurrentIsPublished, NamesKeepTheirBytes,
     StagingHasAuthority, RetireInv, RemoveRetired, Move
<1>3. DiskInv' /\ CounterInv' /\ ReceiptInv'
  BY Numbers DEF IInv, TypeOK, DiskInv, CounterInv, ReceiptInv, RetireInv, RemoveRetired,
     Move
<1>4. RunInv' /\ PlanInv' /\ PruneInv' /\ RetireInv'
  BY Numbers DEF IInv, RunInv, PlanInv, PruneInv, RetireInv, RemoveRetired, Move
<1> QED
  BY <1>1, <1>2, <1>3, <1>4 DEF IInv

LEMMA SweepNextStep ==
  ASSUME IInv, SweepNext
  PROVE  IInv'
<1>1. TypeOK'
  <2>1. PICK n \in spent : Move(n, "none") /\ whole' = whole \ {n} /\ spent' = spent \ {n}
    BY DEF SweepNext
  <2> QED
    BY <2>1, MoveIs DEF IInv, TypeOK, Place, PC, SweepNext
<1>2. SelectionIsSound'
  BY DEF IInv, SelectionIsSound, CurrentIsPublished, NamesKeepTheirBytes,
     StagingHasAuthority, PlanInv, SweepNext, Move
<1>3. DiskInv' /\ CounterInv' /\ ReceiptInv'
  BY Numbers DEF IInv, TypeOK, DiskInv, CounterInv, ReceiptInv, RunInv, PlanInv, PruneInv,
     RetireInv, SweepNext, Move
<1>4. RunInv' /\ PlanInv' /\ PruneInv' /\ RetireInv'
  BY Numbers DEF IInv, RunInv, PlanInv, PruneInv, RetireInv, SweepNext, Move
<1> QED
  BY <1>1, <1>2, <1>3, <1>4 DEF IInv

LEMMA CollectPayloadStep ==
  ASSUME IInv, NEW n \in Gen, CollectPayload(n)
  PROVE  IInv'
<1>1. TypeOK'
  BY Numbers DEF IInv, TypeOK, Gen, Id, PC, CollectPayload, Unreferenced
<1>2. SelectionIsSound'
  BY DEF IInv, SelectionIsSound, CurrentIsPublished, NamesKeepTheirBytes,
     StagingHasAuthority, PlanInv, CollectPayload, Unreferenced
<1>3. DiskInv' /\ CounterInv' /\ ReceiptInv'
  BY Numbers DEF IInv, DiskInv, CounterInv, ReceiptInv, CollectPayload
<1>4. RunInv' /\ PlanInv' /\ PruneInv' /\ RetireInv'
  BY Numbers DEF IInv, RunInv, PlanInv, PruneInv, RetireInv, CollectPayload
<1> QED
  BY <1>1, <1>2, <1>3, <1>4 DEF IInv

LEMMA CollectedStep ==
  ASSUME IInv, Collected
  PROVE  IInv'
<1>1. TypeOK'
  BY Numbers DEF IInv, TypeOK, Gen, Id, PC, Collected
<1>2. SelectionIsSound'
  BY DEF IInv, SelectionIsSound, CurrentIsPublished, NamesKeepTheirBytes,
     StagingHasAuthority, Collected
<1>3. DiskInv' /\ CounterInv' /\ ReceiptInv'
  BY Numbers DEF IInv, DiskInv, CounterInv, ReceiptInv, Collected
<1>4. RunInv' /\ PlanInv' /\ PruneInv' /\ RetireInv'
  BY Numbers DEF RunInv, PlanInv, PruneInv, RetireInv, Collected
<1> QED
  BY <1>1, <1>2, <1>3, <1>4 DEF IInv

\* What is kept is in the history, has the selected generation in it, and needs nothing of
\* what is not kept.
LEMMA RetainedIs ==
  ASSUME IInv, NEW keep, Admitted
  PROVE  /\ Retained(keep) \subseteq At("live")
         /\ current # 0 => current \in Retained(keep)
         /\ \A n \in Retained(keep) : needs[n] \cap At("live") \subseteq Retained(keep)
<1>1. Retained(keep) \subseteq At("live")
  BY DEF Retained
<1>2. current # 0 => current \in Retained(keep)
  BY DEF Admitted, Retained, Excess
<1>3. ASSUME NEW n \in Retained(keep), NEW p \in needs[n] \cap At("live")
      PROVE  p \in Retained(keep)
  BY DEF Retained, Closed
<1> QED
  BY <1>1, <1>2, <1>3

LEMMA CollectStep ==
  ASSUME IInv, NEW keep \in Keep, Collect(keep)
  PROVE  IInv'
<1>1. /\ pc' = "gc" /\ kept' = Retained(keep) /\ doomed' = At("live") \ kept'
      /\ queue' = At("retiring") /\ spent' = At("retired") /\ Admitted
      /\ UNCHANGED <<place, floor, current, needs, marker, payload, staged, whole, target, used>>
  BY DEF Collect, Tombstones
<1>2. /\ kept' \subseteq At("live") /\ (current # 0 => current \in kept')
      /\ \A n \in kept' : needs[n] \cap doomed' = {}
  BY <1>1, RetainedIs
<1>3. CASE At("live") \cup At("retiring") = {}
  <2>1. UNCHANGED <<placeDisk, floorDisk, currentDisk>>
    BY <1>3 DEF Collect, Tombstones
  <2>2. doomed' = {} /\ queue' = {} /\ kept' = {}
    BY <1>1, <1>2, <1>3
  <2>3. TypeOK'
    BY <1>1, <2>1, <2>2 DEF IInv, TypeOK, At, PC
  <2>4. \A n \in Gen : "live" \notin placeDisk[n]
    BY <1>3 DEF IInv, TypeOK, DiskInv, At, Place
  <2>5. SelectionIsSound' /\ DiskInv' /\ CounterInv' /\ ReceiptInv'
    BY <1>1, <2>1 DEF IInv, SelectionIsSound, CurrentIsPublished, NamesKeepTheirBytes,
       StagingHasAuthority, DiskInv, CounterInv, ReceiptInv
  <2>6. PlanInv'
    BY <1>1, <2>1, <2>2, <2>4 DEF PlanInv, At
  <2>7. RunInv' /\ PruneInv' /\ RetireInv'
    BY <1>1, <2>2 DEF RunInv, PruneInv, RetireInv
  <2> QED
    BY <2>3, <2>5, <2>6, <2>7 DEF IInv
<1>4. CASE At("live") \cup At("retiring") # {}
  <2>1. SyncGenerations /\ SyncHome /\ floorDisk' = {floor} /\ currentDisk' = {current}
    BY <1>4 DEF Collect, Tombstones, SyncGenerations, SyncHome
  <2>2. \A c \in currentDisk' \ {0} : c \in Gen /\ place[c] = "live"
    BY <1>1, <2>1, SelectedIsLive DEF IInv, DiskInv
  <2>3. /\ placeDisk' \in [Gen -> SUBSET Place] /\ \A n \in Gen : placeDisk'[n] = {place[n]}
        /\ SelectionIsSound'
    BY <1>1, <2>1, <2>2, SealIs
  <2>4. TypeOK'
    BY <1>1, <1>2, <2>1, <2>3 DEF IInv, TypeOK, At, PC
  <2>5. DiskInv' /\ CounterInv' /\ ReceiptInv'
    BY <1>1, <2>1, <2>3 DEF IInv, TypeOK, DiskInv, CounterInv, ReceiptInv
  <2>6. PlanInv'
    BY <1>1, <1>2, <2>1, <2>3, Numbers DEF PlanInv, At
  <2>7. RunInv' /\ PruneInv' /\ RetireInv'
    BY <1>1, <1>2 DEF RunInv, PruneInv, RetireInv
  <2> QED
    BY <2>3, <2>4, <2>5, <2>6, <2>7 DEF IInv
<1> QED
  BY <1>3, <1>4

LEMMA PowerLossStep == ASSUME IInv, PowerLoss PROVE IInv'
<1>1. /\ place' \in [Gen -> Place] /\ placeDisk' \in [Gen -> SUBSET Place]
      /\ \A n \in Gen : place'[n] \in placeDisk[n] /\ placeDisk'[n] = {place'[n]}
  BY DEF PowerLoss
<1>2. /\ floor' \in floorDisk /\ floorDisk' = {floor'}
      /\ current' \in currentDisk /\ currentDisk' = {current'} /\ pc' = "idle" /\ target' = 0
      /\ doomed' = {} /\ queue' = {} /\ spent' = {} /\ kept' = {}
      /\ UNCHANGED <<needs, payload, staged, whole, used>>
  BY DEF PowerLoss, Forget
<1>3. TypeOK'
  <2>1. marker' \in {"open", "closing", "none"}
    BY DEF PowerLoss, IInv, TypeOK
  <2> QED
    BY <1>1, <1>2, <2>1, Numbers DEF IInv, TypeOK, Id, PC
<1>4. SelectionIsSound'
  <2>1. CurrentIsPublished'
    BY <1>1, <1>2, SelectedIsLive DEF IInv, SelectionIsSound, CurrentIsPublished
  <2>2. NamesKeepTheirBytes' /\ StagingHasAuthority'
    BY <1>1, <1>2 DEF IInv, TypeOK, SelectionIsSound, NamesKeepTheirBytes,
       StagingHasAuthority
  <2> QED
    BY <2>1, <2>2 DEF SelectionIsSound
<1>5. DiskInv' /\ CounterInv' /\ ReceiptInv'
  BY <1>1, <1>2 DEF IInv, TypeOK, DiskInv, CounterInv, ReceiptInv
<1>6. RunInv' /\ PlanInv' /\ PruneInv' /\ RetireInv'
  BY <1>2 DEF RunInv, PlanInv, PruneInv, RetireInv
<1> QED
  BY <1>3, <1>4, <1>5, <1>6 DEF IInv

LEMMA StutterStep == ASSUME IInv, UNCHANGED vars PROVE IInv'
<1>1. UNCHANGED <<place, placeDisk, needs, floor, floorDisk, current, currentDisk, marker,
                  payload, staged, whole, pc, target, doomed, queue, spent, kept, used>>
  BY DEF vars
<1>2. TypeOK' /\ SelectionIsSound'
  BY <1>1 DEF IInv, TypeOK, SelectionIsSound, CurrentIsPublished, NamesKeepTheirBytes,
     StagingHasAuthority
<1>3. DiskInv' /\ CounterInv' /\ ReceiptInv' /\ RunInv'
  BY <1>1 DEF IInv, DiskInv, CounterInv, ReceiptInv, RunInv
<1>4. PlanInv' /\ PruneInv' /\ RetireInv'
  BY <1>1 DEF IInv, PlanInv, PruneInv, RetireInv
<1> QED
  BY <1>2, <1>3, <1>4 DEF IInv

LEMMA InitIsIInv == ASSUME Init PROVE IInv
<1>1. PICK past \in 0..(MaxGen - 1) :
        /\ place = [n \in Gen |-> IF n <= past THEN "live" ELSE "none"]
        /\ floor \in {0, past} /\ current \in (IF past = 0 THEN {0} ELSE 1..past)
  BY DEF Init
<1>2. /\ placeDisk = [n \in Gen |-> {place[n]}] /\ needs \in [Gen -> SUBSET Gen]
      /\ \A n \in Gen : needs[n] \subseteq {n - 1}
      /\ floorDisk = {floor} /\ currentDisk = {current} /\ marker = "none"
      /\ payload = At("live") /\ staged = At("live") /\ whole = At("live") /\ used = At("live")
      /\ pc = "idle" /\ target = 0 /\ doomed = {} /\ queue = {} /\ spent = {} /\ kept = {}
  BY DEF Init
<1>3. TypeOK
  <2>1. floor \in Id /\ current \in Id /\ 0 \in Id
    BY <1>1, Numbers DEF Id
  <2>2. place \in [Gen -> Place] /\ placeDisk \in [Gen -> SUBSET Place]
    BY <1>1, <1>2 DEF Place
  <2> QED
    BY <1>2, <2>1, <2>2 DEF TypeOK, At, PC
<1>4. \A n \in Gen : place[n] \in {"live", "none"} /\ placeDisk[n] = {place[n]}
  BY <1>1, <1>2
<1>5. SelectionIsSound
  <2>1. CurrentIsPublished
    BY <1>1, <1>2, Numbers DEF CurrentIsPublished, Gen
  <2>2. NamesKeepTheirBytes /\ StagingHasAuthority
    BY <1>2, <1>4 DEF NamesKeepTheirBytes, StagingHasAuthority, At
  <2> QED
    BY <2>1, <2>2 DEF SelectionIsSound
<1>6. DiskInv /\ CounterInv /\ ReceiptInv
  BY <1>2, <1>4, Numbers DEF DiskInv, CounterInv, ReceiptInv, At, Id
<1>7. RunInv /\ PlanInv /\ PruneInv /\ RetireInv
  BY <1>2 DEF RunInv, PlanInv, PruneInv, RetireInv
<1> QED
  BY <1>3, <1>5, <1>6, <1>7 DEF IInv

LEMMA NextStep == ASSUME IInv, [Next]_vars PROVE IInv'
<1>1. CASE Lifecycle
  BY <1>1, QuietStep, BarrierStep, AllocateStep, RaiseFloorStep, PublishStep,
     RollbackStep, FlipStep DEF Lifecycle
<1>2. CASE Collection
  BY <1>2, QuietStep, BarrierStep, CollectStep, CountFirstStep, PruneNextStep,
     UnstageStep, FinishRetirementStep, ConsumeManifestStep, RemoveRetiredStep,
     SweepNextStep, CollectPayloadStep, CollectedStep DEF Collection
<1>3. CASE Faults
  BY <1>3, QuietStep, StopStep DEF Faults
<1> QED
  BY <1>1, <1>2, <1>3, PowerLossStep, StutterStep DEF Next

NumbersMove == Init /\ [][Next]_vars

LEMMA Invariance == NumbersMove => []IInv
<1>1. Init => IInv
  BY InitIsIInv
<1>2. IInv /\ [Next]_vars => IInv'
  BY NextStep
<1> QED
  BY <1>1, <1>2, PTL DEF NumbersMove

-----------------------------------------------------------------------------
\* No command breaks a lineage.

\* Names that move without entering or leaving the history change no lineage.
LEMMA MoveKeepsLineage ==
  ASSUME IInv, Lineage(place), NEW n \in Gen, NEW to \in Place, Move(n, to), UNCHANGED needs,
         place[n] # "live", to # "live"
  PROVE  Lineage(place)'
<1>1. \A m \in Gen : place'[m] = "live" <=> place[m] = "live"
  BY MoveIs DEF IInv
<1> QED
  BY <1>1 DEF Lineage, IInv, TypeOK

LEMMA PublishKeepsLineage ==
  ASSUME IInv, Lineage(place), NEW receipts \in SUBSET Gen, Publish(receipts)
  PROVE  Lineage(place)'
<1>1. /\ target \in Gen /\ place[target] = "none" /\ Move(target, "live")
      /\ receipts \subseteq IF current = 0 THEN {} ELSE {current} \cup needs[current]
      /\ needs' = [needs EXCEPT ![target] = receipts]
  BY DEF IInv, RunInv, Publish
<1>2. /\ place'[target] = "live"
      /\ \A m \in Gen \ {target} : place'[m] = place[m]
  BY <1>1, MoveIs DEF IInv, Place
<1>3. current # 0 => current \in Gen /\ place[current] = "live"
  BY SelectedIsLive DEF IInv, DiskInv
<1>4. \A p \in receipts : p \in Gen /\ place[p] = "live"
  BY <1>1, <1>3 DEF Lineage
<1>5. ASSUME NEW n \in Gen, place'[n] = "live", NEW p \in needs'[n] PROVE place'[p] = "live"
  <2>1. CASE n = target
    BY <1>1, <1>2, <1>4, <1>5, <2>1 DEF IInv, TypeOK
  <2>2. CASE n # target
    <3>1. place[n] = "live" /\ p \in needs[n] /\ p \in Gen
      BY <1>1, <1>2, <1>5, <2>2 DEF IInv, TypeOK
    <3> QED
      BY <1>1, <1>2, <3>1 DEF Lineage
  <2> QED
    BY <2>1, <2>2
<1> QED
  BY <1>5 DEF Lineage

\* The highest of the doomed is needed by nothing that is kept, and by nothing below it.
LEMMA PruneKeepsLineage ==
  ASSUME IInv, Lineage(place), PruneNext
  PROVE  Lineage(place)'
<1>1. PICK d \in doomed : IsLargest(d, doomed) /\ Move(d, "retiring")
  BY DEF PruneNext
<1>2. /\ UNCHANGED needs /\ pc = "prune" /\ d \in Gen
  BY DEF PruneNext, IInv, TypeOK
<1>3. place'[d] = "retiring" /\ \A m \in Gen \ {d} : place'[m] = place[m]
  BY <1>1, <1>2, MoveIs DEF IInv, Place
<1>4. ASSUME NEW n \in Gen, place'[n] = "live", NEW p \in needs'[n] PROVE place'[p] = "live"
  <2>1. n # d /\ place[n] = "live" /\ p \in needs[n] /\ p \in Gen
    BY <1>2, <1>3, <1>4 DEF IInv, TypeOK
  <2>2. place[p] = "live"
    BY <2>1 DEF Lineage
  <2>3. "live" \in placeDisk[n] /\ n \notin queue
    BY <1>2, <2>1 DEF IInv, DiskInv, PlanInv
  <2>4. n \in kept \/ n \in doomed
    BY <1>2, <2>3 DEF IInv, PlanInv
  <2>5. CASE n \in kept
    BY <1>2, <1>3, <2>1, <2>2, <2>5 DEF IInv, PruneInv
  <2>6. CASE n \in doomed
    <3>1. n <= d /\ p < n
      BY <1>1, <2>1, <2>6 DEF IsLargest, IInv, ReceiptInv
    <3>2. n \in Nat /\ d \in Nat /\ p \in Nat
      BY <1>2, <2>1, Numbers
    <3>3. p # d
      BY <3>1, <3>2
    <3> QED
      BY <1>3, <2>1, <2>2, <3>3
  <2> QED
    BY <2>4, <2>5, <2>6
<1> QED
  BY <1>4 DEF Lineage

LEMMA LineageStep ==
  ASSUME IInv, [Next]_vars, Lineage(place), ~PowerLoss
  PROVE  Lineage(place)'
<1>1. CASE \E receipts \in SUBSET Gen : Publish(receipts)
  BY <1>1, PublishKeepsLineage
<1>2. CASE PruneNext
  BY <1>2, PruneKeepsLineage
<1>3. CASE FinishRetirement
  <2>1. target \in Gen /\ place[target] = "retiring" /\ Move(target, "retired") /\ UNCHANGED needs
    BY <1>3 DEF IInv, RunInv, PlanInv, RetireInv, FinishRetirement
  <2> QED
    BY <2>1, MoveKeepsLineage DEF Place
<1>4. CASE RemoveRetired
  <2>1. target \in Gen /\ place[target] = "retired" /\ Move(target, "none") /\ UNCHANGED needs
    BY <1>4 DEF IInv, RunInv, RetireInv, RemoveRetired
  <2> QED
    BY <2>1, MoveKeepsLineage DEF Place
<1>5. CASE SweepNext
  <2>1. PICK n \in spent : Move(n, "none")
    BY <1>5 DEF SweepNext
  <2>2. n \in Gen /\ place[n] = "retired" /\ UNCHANGED needs
    BY <1>5 DEF IInv, TypeOK, PlanInv, SweepNext
  <2> QED
    BY <2>1, <2>2, MoveKeepsLineage DEF Place
<1>6. CASE UNCHANGED <<place, needs>>
  BY <1>6 DEF Lineage
<1>7. CASE Lifecycle /\ ~(\E receipts \in SUBSET Gen : Publish(receipts))
  <2>1. UNCHANGED <<place, needs>>
    BY <1>7 DEF Lifecycle, Reconcile, SyncMarker, Quit, Allocate, EndRun, RaiseFloor,
       SyncFloor, SyncPublished, Flip, SyncFlip, CommitRun, Rollback, Barrier
  <2> QED
    BY <1>6, <2>1
<1>8. CASE Collection /\ ~(PruneNext \/ FinishRetirement \/ RemoveRetired \/ SweepNext)
  <2>1. UNCHANGED <<place, needs>>
    BY <1>8 DEF Collection, Collect, CountFirst, SyncCounter, SyncPruned, Unstage,
       SyncRetired, ConsumeManifest, SyncRemoved, AllRetired, SyncSwept, AllSwept,
       Collected, CollectPayload, Barrier
  <2> QED
    BY <1>6, <2>1
<1>9. CASE Faults \/ UNCHANGED vars
  BY <1>6, <1>9 DEF Faults, CleanupPending, Stop, vars
<1> QED
  BY <1>1, <1>2, <1>3, <1>4, <1>5, <1>7, <1>8, <1>9 DEF Next

HIDE DEF names, counter, pointer, objects, plan, Goto
HIDE DEF Building, Planning, Retiring, Sweeping, Collecting

-----------------------------------------------------------------------------
(* HttpOperation: whatever answers, delays and redirects there are.        *)

\* There are hosts, and times and sizes are numbers.
Numbered ==
  /\ Host # {} /\ Deadlines \subseteq Nat /\ Delays \subseteq Nat
  /\ Allowance \in Nat /\ Penalty \in Nat /\ Limit \in Nat /\ MaxTime \in Nat

Asking == {"admit", "ready", "flying", "reading", "completing", "judging"}
HttpAnswers == [kind : {"none", "body", "limited", "server", "client", "transient", "broken"},
            delay : Nat \cup {Http!NoDelay, Http!Unknown}, from : Host, at : Nat]
HttpReasons == {"none", "success", "NonRetryable", "AttemptLimit", "Deadline", "WaitBudget",
            "ServerCooldown", "UnknownServerDelay", "TooLarge"}
HttpOperations ==
  [at : Asking \cup {"sleeping", "done"}, host : Host, end : Nat, attempts : Nat, waited : Nat,
   until : Nat, left : Nat, answer : HttpAnswers, stop : HttpReasons]

HttpShapeInv ==
  /\ now \in Nat /\ cooldown \in [Host -> Nat] /\ told \in [Host -> Nat]
  /\ op \in HttpOperations /\ received \in Nat /\ notBefore \in Int

\* A pause that is still on is the one that the host was last told of.
HttpCoolInv == \A h \in Host :
  /\ cooldown[h] > now => told[h] = cooldown[h]
  /\ told[h] > now => cooldown[h] = told[h]

\* No attempt is on its way before its time, and its bytes are accounted for.
HttpOperationInv ==
  /\ op.at # "done" => op.stop = "none" /\ received + op.left <= Limit /\ op.answer.at <= now
  /\ op.answer.kind = "limited" => op.answer.delay # Http!NoDelay
  /\ op.at \in Asking => told[op.host] <= now
  /\ op.at \in {"admit", "ready"} => notBefore <= now
  /\ op.at = "sleeping" => told[op.host] <= op.until /\ notBefore <= op.until

HttpInv == HttpShapeInv /\ HttpCoolInv /\ HttpOperationInv

HttpSteps ==
  /\ op'.attempts > op.attempts => now >= notBefore /\ now >= told[op.host]
  /\ op'.stop = "ServerCooldown" /\ op'.at = "done" /\ op # op' => told[op'.host] > now
  /\ op.stop = "none" /\ op'.stop = "success" => now < op.end /\ received <= Limit

LEMMA HttpConstants ==
  ASSUME Numbered
  PROVE  /\ Http!Answer \in HttpAnswers /\ Http!Answer.kind = "none" /\ Http!Answer.at = 0
         /\ Http!Fresh \in HttpOperations /\ Http!Fresh.at = "done" /\ Http!Fresh.stop = "none" /\ Http!Fresh.attempts = 0
         /\ Http!Fresh.left = Limit /\ Http!Fresh.answer = Http!Answer
         /\ Http!Never \in Nat
         /\ \A n \in Nat : Http!Backoff(n) \in Nat /\ Http!Backoff(n) >= 1
<1>1. (CHOOSE h \in Host : TRUE) \in Host
  BY DEF Numbered
<1>2. Http!Answer \in HttpAnswers /\ Http!Answer.kind = "none" /\ Http!Answer.at = 0
  BY <1>1 DEF Http!Answer, HttpAnswers, Http!NoDelay
<1>3. Http!Fresh \in HttpOperations /\ Http!Fresh.at = "done" /\ Http!Fresh.stop = "none" /\ Http!Fresh.attempts = 0
      /\ Http!Fresh.left = Limit /\ Http!Fresh.answer = Http!Answer
  BY <1>1, <1>2 DEF Http!Fresh, HttpOperations, Numbered, HttpReasons
<1> QED
  BY <1>2, <1>3 DEF Http!Never, Numbered, Http!Backoff

\* An operation that stops leaves nothing but how and of which host.
LEMMA HttpStopped ==
  ASSUME Numbered, HttpInv, NEW why \in HttpReasons, Http!Stop(why)
  PROVE  /\ op' \in HttpOperations /\ op'.at = "done" /\ op'.host = op.host /\ op'.stop = why
         /\ op'.attempts = 0 /\ op'.answer = Http!Answer
  BY HttpConstants DEF HttpInv, HttpShapeInv, HttpOperations, Http!Stop, Asking

LEMMA HttpStopStep ==
  ASSUME Numbered, HttpInv, NEW why \in HttpReasons \ {"ServerCooldown"}, Http!Stop(why),
         op.at # "done", op.stop = "none", why = "success" => now < op.end /\ received <= Limit,
         received' \in Nat, UNCHANGED <<now, cooldown, notBefore, told>>
  PROVE  HttpInv' /\ HttpSteps
<1>1. /\ op' \in HttpOperations /\ op'.at = "done" /\ op'.host = op.host /\ op'.stop = why
      /\ op'.attempts = 0 /\ op'.answer = Http!Answer
  BY HttpStopped
<1>2. op.attempts \in Nat /\ Http!Answer.kind = "none"
  BY HttpConstants DEF HttpInv, HttpShapeInv, HttpOperations
<1>3. HttpInv'
  BY <1>1, <1>2 DEF HttpInv, HttpShapeInv, HttpCoolInv, HttpOperationInv, Asking
<1> QED
  BY <1>1, <1>2, <1>3 DEF HttpSteps

\* What a response cannot be read of is left.
LEMMA HttpReadIs ==
  ASSUME HttpInv, NEW n \in Nat
  PROVE  Http!Read(n) \in Nat /\ Http!Read(n) <= op.left /\ Http!Read(n) <= n /\ (n <= op.left => Http!Read(n) = n)
  BY DEF HttpInv, HttpShapeInv, HttpOperations, Http!Read, Http!AtMost

LEMMA HttpBeginStep ==
  ASSUME Numbered, HttpInv, Http!Begin
  PROVE  HttpInv' /\ HttpSteps
<1>1. PICK h \in Host, d \in Deadlines, secure \in BOOLEAN :
        /\ now + d < MaxTime
        /\ LET cooling == cooldown[h] > now
               started == [Http!Fresh EXCEPT !.host = h, !.end = now + d] IN
           /\ op' = CASE ~secure -> [started EXCEPT !.stop = "NonRetryable"]
                      [] secure /\ cooling -> [started EXCEPT !.stop = "ServerCooldown"]
                      [] OTHER -> [started EXCEPT !.at = "admit"]
           /\ cooldown' = IF secure /\ ~cooling THEN [cooldown EXCEPT ![h] = 0] ELSE cooldown
  BY DEF Http!Begin
<1>2. op.at = "done" /\ received' = 0 /\ notBefore' = 0 /\ UNCHANGED <<now, told>>
  BY DEF Http!Begin
<1> DEFINE started == [Http!Fresh EXCEPT !.host = h, !.end = now + d]
<1>3. /\ started \in HttpOperations /\ started.host = h /\ started.stop = "none" /\ started.at = "done"
      /\ started.attempts = 0 /\ started.left = Limit /\ started.answer = Http!Answer
  <2>1. now + d \in Nat
    BY DEF HttpInv, HttpShapeInv, Numbered
  <2> DEFINE end == now + d
  <2>2. end \in Nat
    BY <2>1
  <2> HIDE DEF end
  <2>3. started = [Http!Fresh EXCEPT !.host = h, !.end = end]
    BY DEF end
  <2>4. [Http!Fresh EXCEPT !.host = h, !.end = end] \in HttpOperations
    BY <2>2, HttpConstants DEF HttpOperations
  <2> HIDE DEF started
  <2> QED
    BY <2>2, <2>3, <2>4, HttpConstants DEF HttpOperations
<1> HIDE DEF started
<1>4. op.attempts \in Nat /\ Limit \in Nat /\ now \in Nat
  BY DEF HttpInv, HttpShapeInv, HttpOperations, Numbered
<1>5. ASSUME NEW o \in HttpOperations, op' = o, o.at = "done", o.host = h, o.attempts = 0, o.answer = Http!Answer,
             o.stop # "success", o.stop = "ServerCooldown" => cooldown[h] > now, cooldown' = cooldown
      PROVE  HttpInv' /\ HttpSteps
  <2>1. HttpInv'
    BY <1>2, <1>5, HttpConstants DEF HttpInv, HttpShapeInv, HttpCoolInv, HttpOperationInv, Asking
  <2> QED
    BY <1>4, <1>5, <2>1 DEF HttpSteps, HttpInv, HttpCoolInv
<1>6. CASE ~secure
  <2> DEFINE o == [started EXCEPT !.stop = "NonRetryable"]
  <2>1. o \in HttpOperations /\ o.at = "done" /\ o.host = h /\ o.attempts = 0 /\ o.answer = Http!Answer
        /\ o.stop = "NonRetryable"
    BY <1>3 DEF HttpOperations, HttpReasons
  <2>2. op' = o /\ cooldown' = cooldown
    BY <1>1, <1>6 DEF started
  <2> QED
    BY <1>5, <2>1, <2>2
<1>7. CASE secure /\ cooldown[h] > now
  <2> DEFINE o == [started EXCEPT !.stop = "ServerCooldown"]
  <2>1. o \in HttpOperations /\ o.at = "done" /\ o.host = h /\ o.attempts = 0 /\ o.answer = Http!Answer
        /\ o.stop = "ServerCooldown"
    BY <1>3 DEF HttpOperations, HttpReasons
  <2>2. op' = o /\ cooldown' = cooldown
    BY <1>1, <1>7 DEF started
  <2> QED
    BY <1>5, <1>7, <2>1, <2>2
<1>8. CASE secure /\ ~(cooldown[h] > now)
  <2> DEFINE o == [started EXCEPT !.at = "admit"]
  <2>1. /\ o \in HttpOperations /\ o.at = "admit" /\ o.host = h /\ o.attempts = 0 /\ o.stop = "none"
        /\ o.left = Limit /\ o.answer = Http!Answer
    BY <1>3 DEF HttpOperations, Asking
  <2>2. op' = o /\ cooldown' = [cooldown EXCEPT ![h] = 0]
    BY <1>1, <1>8 DEF started
  <2> HIDE DEF o
  <2>3. told[h] <= now
    BY <1>4, <1>8 DEF HttpInv, HttpShapeInv, HttpCoolInv
  <2>4. HttpShapeInv'
    BY <1>2, <2>1, <2>2 DEF HttpInv, HttpShapeInv
  <2>5. HttpCoolInv'
    BY <1>2, <2>2, <2>3 DEF HttpInv, HttpShapeInv, HttpCoolInv
  <2>6. HttpOperationInv'
    BY <1>2, <1>4, <2>1, <2>2, <2>3, HttpConstants DEF HttpOperationInv, Asking
  <2>7. HttpSteps
    BY <1>4, <2>1, <2>2 DEF HttpSteps
  <2> QED
    BY <2>4, <2>5, <2>6, <2>7 DEF HttpInv
<1> QED
  BY <1>6, <1>7, <1>8

\* A step on the way from an answer to the next attempt, or to the end of the body.
LEMMA HttpWayStep ==
  ASSUME Numbered, HttpInv, NEW o \in HttpOperations, op' = o, op.at # "done",
         o.host = op.host, o.end = op.end, o.stop = op.stop, o.at \in Asking,
         o.attempts <= op.attempts \/ (notBefore <= now /\ op.at \in Asking),
         received' \in Nat, received' + o.left <= Limit, o.answer.at <= now,
         o.answer.kind = "limited" => o.answer.delay # Http!NoDelay,
         op.at = "sleeping" => now >= op.until,
         o.at \in {"admit", "ready"} => op.at \in {"admit", "ready", "sleeping"},
         UNCHANGED <<now, cooldown, notBefore, told>>
  PROVE  HttpInv' /\ HttpSteps
<1>1. /\ now \in Nat /\ notBefore \in Int /\ op.attempts \in Nat /\ o.attempts \in Nat
      /\ told[op.host] \in Nat /\ op.until \in Nat
  BY DEF HttpInv, HttpShapeInv, HttpOperations
<1>2. told[op.host] <= now /\ op.stop = "none"
  BY <1>1 DEF HttpInv, HttpShapeInv, HttpOperationInv, HttpOperations
<1>3. o.at \in {"admit", "ready"} => notBefore <= now
  BY <1>1 DEF HttpInv, HttpOperationInv
<1>4. HttpShapeInv' /\ HttpCoolInv'
  BY DEF HttpInv, HttpShapeInv, HttpCoolInv
<1>5. HttpOperationInv'
  BY <1>2, <1>3 DEF HttpInv, HttpOperationInv, Asking
<1>6. HttpSteps
  BY <1>1, <1>2 DEF HttpSteps, Asking
<1> QED
  BY <1>4, <1>5, <1>6 DEF HttpInv

LEMMA HttpAdmitStep ==
  ASSUME Numbered, HttpInv, Http!Admit
  PROVE  HttpInv' /\ HttpSteps
<1>1. op.at = "admit" /\ op.stop = "none" /\ UNCHANGED <<now, cooldown, received, notBefore, told>>
      /\ received \in Nat /\ received + op.left <= Limit
  BY DEF Http!Admit, HttpInv, HttpShapeInv, HttpOperationInv
<1>2. CASE Http!Stop("Deadline")
  BY <1>1, <1>2, HttpStopStep DEF HttpReasons
<1>3. CASE op' = [op EXCEPT !.at = "ready", !.answer = Http!Answer]
  <2> DEFINE o == [op EXCEPT !.at = "ready", !.answer = Http!Answer]
  <2>1. /\ o \in HttpOperations /\ o.at = "ready" /\ o.answer = Http!Answer /\ o.host = op.host /\ o.end = op.end
        /\ o.stop = op.stop /\ o.attempts = op.attempts /\ o.left = op.left /\ o.attempts \in Nat
    BY HttpConstants DEF HttpInv, HttpShapeInv, HttpOperations, Asking
  <2> HIDE DEF o
  <2>2. op' = o /\ now \in Nat
    BY <1>3 DEF o, HttpInv, HttpShapeInv
  <2> QED
    BY <1>1, <2>1, <2>2, HttpWayStep, HttpConstants DEF Asking
<1> QED
  BY <1>2, <1>3 DEF Http!Admit

LEMMA HttpLaunchStep ==
  ASSUME Numbered, HttpInv, Http!Launch
  PROVE  HttpInv' /\ HttpSteps
<1>1. op.at = "ready" /\ op.stop = "none" /\ UNCHANGED <<now, cooldown, received, notBefore, told>>
      /\ received \in Nat /\ received + op.left <= Limit /\ notBefore <= now /\ op.answer.at <= now
      /\ (op.answer.kind = "limited" => op.answer.delay # Http!NoDelay)
  BY DEF Http!Launch, HttpInv, HttpShapeInv, HttpOperationInv
<1>2. CASE Http!Stop("Deadline") \/ Http!Stop("AttemptLimit")
  BY <1>1, <1>2, HttpStopStep DEF HttpReasons
<1>3. CASE op' = [op EXCEPT !.at = "flying", !.attempts = @ + 1, !.until = 0]
  <2> DEFINE n == op.attempts + 1
             o == [op EXCEPT !.at = "flying", !.attempts = n, !.until = 0]
  <2>0. n \in Nat
    BY DEF HttpInv, HttpShapeInv, HttpOperations
  <2> HIDE DEF n
  <2>1. /\ o \in HttpOperations /\ o.at = "flying" /\ o.answer = op.answer /\ o.host = op.host
        /\ o.end = op.end /\ o.stop = op.stop /\ o.left = op.left
    BY <2>0 DEF HttpInv, HttpShapeInv, HttpOperations, Asking
  <2> HIDE DEF o
  <2>2. op' = o
    BY <1>3 DEF o, n
  <2> QED
    BY <1>1, <2>1, <2>2, HttpWayStep DEF Asking
<1> QED
  BY <1>2, <1>3 DEF Http!Launch

LEMMA HttpRespondStep ==
  ASSUME Numbered, HttpInv, Http!Respond
  PROVE  HttpInv' /\ HttpSteps
<1>1. op.at = "flying" /\ op.stop = "none" /\ UNCHANGED <<now, cooldown, notBefore, told>>
      /\ received \in Nat /\ received + op.left <= Limit
  BY DEF Http!Respond, HttpInv, HttpShapeInv, HttpOperationInv
<1>2. PICK kind \in {"body", "limited", "server", "client", "transient", "broken"},
           delay \in Delays \cup {Http!NoDelay, Http!Unknown}, h \in Host, n \in 0..1 :
        /\ kind \notin Http!Statuses => delay = Http!NoDelay /\ n = 0
        /\ op' = [op EXCEPT
             !.at = IF kind = "body" THEN "reading" ELSE "judging",
             !.left = IF kind = "body" THEN @ ELSE @ - Http!Read(n),
             !.answer = [kind |-> kind, from |-> h, at |-> now,
                         delay |-> IF kind = "limited" /\ delay = Http!NoDelay THEN Penalty ELSE delay]]
        /\ received' = IF kind = "body" THEN received ELSE received + Http!Read(n)
  BY DEF Http!Respond
<1> DEFINE a == [kind |-> kind, from |-> h, at |-> now,
                 delay |-> IF kind = "limited" /\ delay = Http!NoDelay THEN Penalty ELSE delay]
           left == IF kind = "body" THEN op.left ELSE op.left - Http!Read(n)
           phase == IF kind = "body" THEN "reading" ELSE "judging"
           o == [op EXCEPT !.at = phase, !.left = left, !.answer = a]
<1>3. op' = o
  BY <1>2
<1>4. a \in HttpAnswers /\ a.at = now /\ (a.kind = "limited" => a.delay # Http!NoDelay) /\ now \in Nat
  BY DEF HttpAnswers, Numbered, HttpInv, HttpShapeInv, Http!NoDelay
<1>5. Http!Read(n) \in Nat /\ Http!Read(n) <= op.left /\ op.left \in Nat
  BY HttpReadIs DEF HttpInv, HttpShapeInv, HttpOperations
<1>6. left \in Nat /\ received' \in Nat /\ received' + left <= Limit
  BY <1>1, <1>2, <1>5 DEF Numbered
<1> HIDE DEF a, left
<1>7. /\ o \in HttpOperations /\ o.at = phase /\ o.at \in Asking /\ o.at \notin {"admit", "ready"} /\ o.answer = a
      /\ o.host = op.host /\ o.end = op.end /\ o.stop = op.stop /\ o.left = left
      /\ o.attempts = op.attempts /\ o.attempts \in Nat
  BY <1>4, <1>6 DEF HttpInv, HttpShapeInv, HttpOperations, Asking
<1> HIDE DEF o
<1> QED
  BY <1>1, <1>3, <1>4, <1>6, <1>7, HttpWayStep

LEMMA HttpConsumeStep ==
  ASSUME Numbered, HttpInv, Http!Consume
  PROVE  HttpInv' /\ HttpSteps
<1>1. op.at = "reading" /\ op.stop = "none" /\ UNCHANGED <<now, cooldown, notBefore, told>>
      /\ received \in Nat /\ received + op.left <= Limit /\ op.left \in Nat /\ op \in HttpOperations
      /\ op.answer.at <= now
  BY DEF Http!Consume, HttpInv, HttpShapeInv, HttpOperationInv, HttpOperations
<1>2. PICK n \in 0..(op.left + 1), end \in {"whole", "cut", "refused"} :
        /\ received' = received + Http!Read(n)
        /\ CASE now >= op.end ->
                  n = 0 /\ op' = [op EXCEPT !.at = "judging", !.answer.kind = "transient"]
             [] now < op.end /\ (n > op.left \/ end = "refused") -> Http!Stop("NonRetryable")
             [] now < op.end /\ n <= op.left /\ end = "cut" ->
                  op' = [op EXCEPT !.at = "judging", !.answer.kind = "transient",
                                   !.left = @ - n]
             [] OTHER -> op' = [op EXCEPT !.at = "completing", !.left = @ - n]
  BY DEF Http!Consume
<1>3. n \in Nat /\ Http!Read(n) \in Nat /\ Http!Read(n) <= op.left /\ (n <= op.left => Http!Read(n) = n)
  BY <1>1, HttpReadIs
<1>4. CASE Http!Stop("NonRetryable")
  <2>1. received' \in Nat
    BY <1>1, <1>2, <1>3
  <2> QED
    BY <1>1, <1>4, <2>1, HttpStopStep DEF HttpReasons
<1> DEFINE a == [op.answer EXCEPT !.kind = "transient"]
           o(phase, answer, m) == [op EXCEPT !.at = phase, !.answer = answer, !.left = op.left - m]
<1>5. /\ a \in HttpAnswers /\ a.kind = "transient" /\ a.at = op.answer.at
      /\ op.answer \in HttpAnswers
  BY <1>1 DEF HttpOperations, HttpAnswers
<1> HIDE DEF a
<1>6. ASSUME NEW phase \in {"judging", "completing"}, NEW answer \in {a, op.answer}, n <= op.left,
             op' = o(phase, answer, n)
      PROVE  HttpInv' /\ HttpSteps
  <2>0. op.left - n \in Nat /\ answer \in HttpAnswers /\ phase \in Asking
    BY <1>1, <1>3, <1>5, <1>6 DEF Asking
  <2>1. /\ o(phase, answer, n) \in HttpOperations /\ o(phase, answer, n).at = phase
        /\ o(phase, answer, n).answer = answer /\ o(phase, answer, n).host = op.host
        /\ o(phase, answer, n).end = op.end /\ o(phase, answer, n).stop = op.stop
        /\ o(phase, answer, n).attempts = op.attempts /\ op.attempts \in Nat
        /\ o(phase, answer, n).left = op.left - n
    BY <1>1, <2>0 DEF HttpOperations
  <2>2. received' \in Nat /\ received' + (op.left - n) <= Limit
    BY <1>1, <1>2, <1>3, <1>6 DEF Numbered
  <2>3. answer.at <= now /\ (answer.kind = "limited" => answer.delay # Http!NoDelay)
    BY <1>1, <1>5 DEF HttpInv, HttpOperationInv
  <2> HIDE DEF o
  <2> QED
    BY <1>1, <1>6, <2>1, <2>2, <2>3, HttpWayStep DEF Asking
<1>7. CASE op' = [op EXCEPT !.at = "judging", !.answer.kind = "transient"] /\ n = 0
  <2> DEFINE left == op.left - n
  <2>0. left = op.left /\ op' = [op EXCEPT !.at = "judging", !.answer = a]
    BY <1>1, <1>7 DEF a
  <2> HIDE DEF left
  <2>1. [op EXCEPT !.at = "judging", !.answer = a] = [op EXCEPT !.at = "judging", !.answer = a, !.left = left]
    BY <1>1, <2>0 DEF HttpOperations
  <2>2. op' = o("judging", a, n)
    BY <2>0, <2>1 DEF left
  <2> QED
    BY <1>1, <1>6, <1>7, <2>2
<1>8. CASE op' = [op EXCEPT !.at = "judging", !.answer.kind = "transient", !.left = @ - n] /\ n <= op.left
  <2>1. op' = o("judging", a, n)
    BY <1>1, <1>8 DEF a, HttpOperations
  <2> QED
    BY <1>6, <1>8, <2>1
<1>9. CASE op' = [op EXCEPT !.at = "completing", !.left = @ - n] /\ n <= op.left
  <2>1. op' = o("completing", op.answer, n)
    BY <1>1, <1>9 DEF HttpOperations
  <2> QED
    BY <1>6, <1>9, <2>1
<1>10. now \in Nat /\ op.end \in Nat
  BY <1>1 DEF HttpInv, HttpShapeInv, HttpOperations
<1> QED
  BY <1>1, <1>2, <1>3, <1>4, <1>7, <1>8, <1>9, <1>10

LEMMA HttpCompleteStep ==
  ASSUME Numbered, HttpInv, Http!Complete
  PROVE  HttpInv' /\ HttpSteps
<1>1. op.at = "completing" /\ op.stop = "none" /\ UNCHANGED <<now, cooldown, received, notBefore, told>>
      /\ received \in Nat /\ received <= Limit
  BY DEF Http!Complete, HttpInv, HttpShapeInv, HttpOperationInv, HttpOperations, Numbered
<1>2. PICK why \in {"success", "Deadline"} : Http!Stop(why) /\ (why = "success" => now < op.end)
  BY DEF Http!Complete
<1> QED
  BY <1>1, <1>2, HttpStopStep DEF HttpReasons

LEMMA HttpWakeStep ==
  ASSUME Numbered, HttpInv, Http!Wake
  PROVE  HttpInv' /\ HttpSteps
<1>1. op.at = "sleeping" /\ op.stop = "none" /\ UNCHANGED <<now, cooldown, received, notBefore, told>>
      /\ received \in Nat /\ received + op.left <= Limit /\ op.answer.at <= now /\ now >= op.until
      /\ (op.answer.kind = "limited" => op.answer.delay # Http!NoDelay)
      /\ op' = [op EXCEPT !.at = "admit"]
  BY DEF Http!Wake, HttpInv, HttpShapeInv, HttpOperationInv
<1> DEFINE o == [op EXCEPT !.at = "admit"]
<1>2. /\ o \in HttpOperations /\ o.at = "admit" /\ o.answer = op.answer /\ o.host = op.host
      /\ o.end = op.end /\ o.stop = op.stop /\ o.left = op.left /\ o.attempts = op.attempts
      /\ o.attempts \in Nat
  BY DEF HttpInv, HttpShapeInv, HttpOperations, Asking
<1> HIDE DEF o
<1>3. op' = o
  BY <1>1 DEF o
<1> QED
  BY <1>1, <1>2, <1>3, HttpWayStep DEF Asking

\* What an answer says of its host, and of the next attempt.
LEMMA HttpWaitIs ==
  ASSUME Numbered, HttpInv, op.at = "judging", NEW a, a = op.answer
  PROVE  /\ a \in HttpAnswers /\ a.at <= now /\ a.at \in Nat /\ a.delay \in Int /\ now \in Nat
         /\ Http!Wait(a) \in Int
         /\ (Http!Wait(a) = Http!Unknown) <=> (a.delay = Http!Unknown)
         /\ a.kind = "limited" /\ a.delay # Http!Unknown =>
              /\ a.delay \in Nat /\ Http!Wait(a) \in Nat /\ now + Http!Wait(a) >= a.at + a.delay
              /\ now + Http!Wait(a) > now => now + Http!Wait(a) = a.at + a.delay
              /\ a.at + a.delay > now => now + Http!Wait(a) = a.at + a.delay
         /\ a.delay # Http!Unknown => a.at + a.delay <= now + Http!Wait(a) \/ Http!Wait(a) = -1
         /\ Http!Wait(a) = -1 => a.at + a.delay <= now
         /\ a.at + a.delay \in Int
<1>1. a \in HttpAnswers /\ a.at <= now /\ now \in Nat /\ (a.kind = "limited" => a.delay # Http!NoDelay)
  BY DEF HttpInv, HttpShapeInv, HttpOperationInv, HttpOperations
<1>2. a.at \in Nat /\ a.delay \in Nat \cup {-1, -2} 
  BY <1>1 DEF HttpAnswers, Http!NoDelay, Http!Unknown
<1>3. Http!Wait(a) = IF a.delay < 0 THEN a.delay ELSE Http!AtLeast(0, a.delay - (now - a.at))
  BY DEF Http!Wait
<1> QED
  BY <1>1, <1>2, <1>3 DEF Http!AtLeast, Http!NoDelay, Http!Unknown

LEMMA HttpJudgeStep ==
  ASSUME Numbered, HttpInv, Http!Judge
  PROVE  HttpInv' /\ HttpSteps
<1> DEFINE a == op.answer
           pause == Http!Pause(a)
           backoff == Http!Backoff(op.attempts)
           wait == Http!Wait(a)
<1>1. /\ op.at = "judging" /\ op.stop = "none" /\ UNCHANGED <<now, received>>
      /\ received \in Nat /\ received + op.left <= Limit /\ op \in HttpOperations /\ told[op.host] <= now
      /\ op.attempts \in Nat /\ op.left \in Nat /\ op.waited \in Nat /\ a.at <= now /\ a.at \in Nat
      /\ (a.kind = "limited" => a.delay # Http!NoDelay)
  BY DEF Http!Judge, HttpInv, HttpShapeInv, HttpOperationInv, HttpOperations, Asking, HttpAnswers
<1>2. /\ cooldown' = Http!Cool(a)
      /\ told' = IF a.kind = "limited"
                 THEN [told EXCEPT ![a.from] = IF a.delay = Http!Unknown THEN Http!Never ELSE a.at + a.delay]
                 ELSE told
      /\ notBefore' = Http!AtLeast(now + backoff, a.at + a.delay)
  BY DEF Http!Judge
<1>3. \/ \E why \in HttpReasons \ {"ServerCooldown", "success"} : Http!Stop(why)
      \/ /\ op' = [op EXCEPT !.at = "sleeping", !.until = now + pause, !.waited = @ + pause]
         /\ wait # Http!Unknown
  BY DEF Http!Judge, HttpReasons
<1>4. /\ a \in HttpAnswers /\ a.delay \in Int /\ now \in Nat /\ wait \in Int
      /\ (wait = Http!Unknown) <=> (a.delay = Http!Unknown)
      /\ a.kind = "limited" /\ a.delay # Http!Unknown =>
           /\ a.delay \in Nat /\ wait \in Nat /\ now + wait >= a.at + a.delay
           /\ now + wait > now => now + wait = a.at + a.delay
           /\ a.at + a.delay > now => now + wait = a.at + a.delay
      /\ a.delay # Http!Unknown => a.at + a.delay <= now + wait \/ wait = -1
      /\ wait = -1 => a.at + a.delay <= now
      /\ a.at + a.delay \in Int
  BY <1>1, HttpWaitIs
<1>5. backoff \in Nat /\ backoff >= 1 /\ Http!Never \in Nat
  BY <1>1, HttpConstants
<1>6. pause \in Nat /\ pause >= backoff /\ pause >= wait
  BY <1>4, <1>5 DEF Http!Pause, Http!AtLeast
<1>7. notBefore' \in Int /\ (wait # Http!Unknown => notBefore' <= now + pause)
  BY <1>2, <1>4, <1>5, <1>6 DEF Http!AtLeast
<1>8. /\ cooldown' \in [Host -> Nat] /\ told' \in [Host -> Nat] /\ HttpCoolInv'
      /\ (wait # Http!Unknown => told'[op.host] <= now + pause)
  <2>1. CASE a.kind # "limited"
    <3>1. cooldown' = cooldown /\ told' = told
      BY <1>2, <2>1 DEF Http!Cool
    <3>2. told[op.host] \in Nat /\ now + pause >= now
      BY <1>1, <1>4, <1>6 DEF HttpInv, HttpShapeInv, HttpOperations
    <3> QED
      BY <1>1, <1>4, <1>6, <3>1, <3>2 DEF HttpInv, HttpShapeInv, HttpCoolInv
  <2>2. CASE a.kind = "limited"
    <3> DEFINE c == IF wait = Http!Unknown THEN Http!Never ELSE now + wait
               t == IF a.delay = Http!Unknown THEN Http!Never ELSE a.at + a.delay
    <3>1. cooldown' = [cooldown EXCEPT ![a.from] = c] /\ told' = [told EXCEPT ![a.from] = t]
      BY <1>2, <2>2 DEF Http!Cool
    <3>2. c \in Nat /\ t \in Nat /\ (c > now => t = c) /\ (t > now => c = t)
      BY <1>1, <1>4, <1>5, <2>2
    <3>3. wait # Http!Unknown => t <= now + pause
      BY <1>1, <1>4, <1>5, <1>6, <2>2
    <3> HIDE DEF c, t
    <3>4. a.from \in Host /\ op.host \in Host
      BY <1>1, <1>4 DEF HttpAnswers, HttpOperations
    <3>5. cooldown' \in [Host -> Nat] /\ told' \in [Host -> Nat]
      BY <3>1, <3>2 DEF HttpInv, HttpShapeInv
    <3>6. \A h \in Host : /\ cooldown'[h] = (IF h = a.from THEN c ELSE cooldown[h])
                          /\ told'[h] = (IF h = a.from THEN t ELSE told[h])
      BY <3>1 DEF HttpInv, HttpShapeInv
    <3>7. HttpCoolInv'
      BY <1>1, <3>2, <3>6 DEF HttpInv, HttpCoolInv
    <3>8. told[op.host] \in Nat /\ now + pause >= now
      BY <1>4, <1>6, <3>4 DEF HttpInv, HttpShapeInv
    <3>9. wait # Http!Unknown => told'[op.host] <= now + pause
      BY <1>1, <1>4, <1>6, <3>3, <3>4, <3>6, <3>8
    <3> QED
      BY <3>5, <3>7, <3>9
  <2> QED
    BY <2>1, <2>2
<1> HIDE DEF pause, wait, backoff
<1>9. CASE \E why \in HttpReasons \ {"ServerCooldown", "success"} : Http!Stop(why)
  <2>1. PICK why \in HttpReasons \ {"ServerCooldown", "success"} : Http!Stop(why)
    BY <1>9
  <2>2. /\ op' \in HttpOperations /\ op'.at = "done" /\ op'.host = op.host /\ op'.stop = why
        /\ op'.attempts = 0 /\ op'.answer = Http!Answer
    BY <2>1, HttpStopped
  <2>3. Http!Answer.kind = "none"
    BY HttpConstants
  <2>4. HttpShapeInv'
    BY <1>1, <1>4, <1>7, <1>8, <2>2 DEF HttpShapeInv
  <2>5. HttpOperationInv'
    BY <2>2, <2>3 DEF HttpOperationInv, Asking
  <2>6. HttpSteps
    BY <1>1, <2>1, <2>2 DEF HttpSteps
  <2> QED
    BY <1>8, <2>4, <2>5, <2>6 DEF HttpInv
<1>10. CASE /\ op' = [op EXCEPT !.at = "sleeping", !.until = now + pause, !.waited = @ + pause]
            /\ wait # Http!Unknown
  <2> DEFINE until == now + pause
             waited == op.waited + pause
             o == [op EXCEPT !.at = "sleeping", !.until = until, !.waited = waited]
  <2>1. until \in Nat /\ waited \in Nat /\ op' = o
    BY <1>1, <1>4, <1>6, <1>10
  <2> HIDE DEF until, waited
  <2>2. /\ o \in HttpOperations /\ o.at = "sleeping" /\ o.host = op.host /\ o.stop = op.stop
        /\ o.attempts = op.attempts /\ o.until = until /\ o.left = op.left /\ o.answer = a
    BY <1>1, <2>1 DEF HttpOperations
  <2> HIDE DEF o
  <2>3. notBefore' <= until /\ told'[op.host] <= until
    BY <1>7, <1>8, <1>10 DEF until
  <2>4. HttpShapeInv'
    BY <1>1, <1>4, <1>7, <1>8, <2>1, <2>2 DEF HttpShapeInv
  <2>5. HttpOperationInv'
    BY <1>1, <2>1, <2>2, <2>3 DEF HttpOperationInv, Asking
  <2>6. HttpSteps
    BY <1>1, <2>1, <2>2 DEF HttpSteps
  <2> QED
    BY <1>8, <2>4, <2>5, <2>6 DEF HttpInv
<1> QED
  BY <1>3, <1>9, <1>10

LEMMA HttpTickStep ==
  ASSUME Numbered, HttpInv, Http!Tick
  PROVE  HttpInv' /\ HttpSteps
<1>1. now' = now + 1 /\ now \in Nat /\ UNCHANGED <<cooldown, op, received, notBefore, told>>
  BY DEF Http!Tick, HttpInv, HttpShapeInv
<1>2. /\ \A h \in Host : told[h] \in Nat /\ cooldown[h] \in Nat
      /\ op \in HttpOperations /\ op.host \in Host /\ op.attempts \in Nat /\ op.answer.at \in Nat
      /\ notBefore \in Int
  BY DEF HttpInv, HttpShapeInv, HttpOperations, HttpAnswers
<1>3. HttpShapeInv' /\ HttpCoolInv'
  BY <1>1, <1>2 DEF HttpInv, HttpShapeInv, HttpCoolInv
<1>4. HttpOperationInv'
  BY <1>1, <1>2 DEF HttpInv, HttpOperationInv
<1>5. HttpSteps
  BY <1>1, <1>2 DEF HttpSteps
<1> QED
  BY <1>3, <1>4, <1>5 DEF HttpInv

LEMMA HttpInit ==
  ASSUME Numbered, Http!Init
  PROVE  HttpInv
<1>1. now = 0 /\ op = Http!Fresh /\ received = 0 /\ notBefore = 0
      /\ cooldown = [h \in Host |-> 0] /\ told = [h \in Host |-> 0]
  BY DEF Http!Init
<1>2. HttpShapeInv /\ HttpCoolInv
  BY <1>1, HttpConstants DEF HttpShapeInv, HttpCoolInv
<1>3. HttpOperationInv
  BY <1>1, HttpConstants DEF HttpOperationInv, Asking
<1> QED
  BY <1>2, <1>3 DEF HttpInv

LEMMA HttpNext ==
  ASSUME Numbered, HttpInv, [Http!Next]_(Http!vars)
  PROVE  HttpInv' /\ (UNCHANGED Http!vars \/ HttpSteps)
<1>1. CASE UNCHANGED Http!vars
  BY <1>1 DEF Http!vars, HttpInv, HttpShapeInv, HttpCoolInv, HttpOperationInv
<1> QED
  BY <1>1, HttpBeginStep, HttpAdmitStep, HttpLaunchStep, HttpRespondStep, HttpConsumeStep, HttpCompleteStep, HttpJudgeStep,
     HttpWakeStep, HttpTickStep DEF Http!Next, Http!Work

\* The bounds of the types: no server asks for more than the sentinel stands for, and there
\* is a budget of waiting.
Bounded == Numbered /\ Delays \subseteq 0..(Allowance + Penalty) /\ WaitBudget \in Nat

HttpFits(o) ==
  /\ o.attempts <= Http!Attempts /\ o.waited <= WaitBudget /\ o.end <= MaxTime
  /\ o.left <= Limit /\ o.answer.delay <= Allowance + Penalty

HttpBoundInv ==
  /\ now <= MaxTime /\ HttpFits(op)
  /\ \A h \in Host : cooldown[h] <= Http!Never /\ told[h] <= Http!Never

LEMMA HttpFreshFits ==
  ASSUME Bounded, NEW o, o \in HttpOperations, o.attempts = 0, o.waited = 0, o.end <= MaxTime,
         o.left = Limit, o.answer = Http!Answer
  PROVE  HttpFits(o)
<1>1. Http!Answer.delay = -1
  BY DEF Http!Answer, Http!NoDelay
<1> QED
  BY <1>1 DEF HttpFits, Bounded, Numbered, Http!Attempts

LEMMA HttpStopFits ==
  ASSUME Bounded, HttpInv, NEW why, Http!Stop(why)
  PROVE  HttpFits(op')
<1>1. /\ op' = [Http!Fresh EXCEPT !.host = op.host, !.stop = why]
  BY DEF Http!Stop
<1>2. /\ Http!Fresh.attempts = 0 /\ Http!Fresh.waited = 0 /\ Http!Fresh.end = 0
      /\ Http!Fresh.left = Limit /\ Http!Fresh.answer.delay = -1
  BY DEF Http!Fresh, Http!Answer, Http!NoDelay
<1>3. /\ op'.attempts = 0 /\ op'.waited = 0 /\ op'.end = 0 /\ op'.left = Limit
      /\ op'.answer.delay = -1
  BY <1>1, <1>2, HttpConstants DEF Bounded, HttpOperations
<1> QED
  BY <1>3 DEF HttpFits, Bounded, Numbered, Http!Attempts

\* Whatever an answer asks for is within the sentinel.
LEMMA HttpCoolFits ==
  ASSUME Bounded, HttpInv, HttpBoundInv, Http!Judge
  PROVE  \A h \in Host : cooldown'[h] <= Http!Never /\ told'[h] <= Http!Never
<1> DEFINE a == op.answer
           c == IF Http!Wait(a) = Http!Unknown THEN Http!Never ELSE now + Http!Wait(a)
           t == IF a.delay = Http!Unknown THEN Http!Never ELSE a.at + a.delay
<1>1. Numbered /\ op.at = "judging"
  BY DEF Bounded, Http!Judge
<1>2. /\ a.at <= now /\ a.at \in Nat /\ a.delay \in Int /\ now \in Nat /\ Http!Wait(a) \in Int
  BY <1>1, HttpWaitIs
<1>3. /\ now <= MaxTime /\ a.delay <= Allowance + Penalty
      /\ MaxTime \in Nat /\ Allowance \in Nat /\ Penalty \in Nat
  BY DEF HttpBoundInv, HttpFits, Bounded, Numbered
<1>4. Http!Wait(a) = IF a.delay < 0 THEN a.delay ELSE Http!AtLeast(0, a.delay - (now - a.at))
  BY DEF Http!Wait
<1>5. Http!Wait(a) <= Allowance + Penalty
  BY <1>2, <1>3, <1>4 DEF Http!AtLeast
<1> HIDE DEF a
<1>6. c <= Http!Never /\ t <= Http!Never
  BY <1>2, <1>3, <1>5 DEF Http!Never
<1>7. /\ cooldown' = IF a.kind # "limited" THEN cooldown ELSE [cooldown EXCEPT ![a.from] = c]
      /\ told' = IF a.kind = "limited" THEN [told EXCEPT ![a.from] = t] ELSE told
  BY DEF Http!Judge, Http!Cool, a
<1> HIDE DEF c, t
<1> QED
  BY <1>6, <1>7 DEF HttpInv, HttpShapeInv, HttpBoundInv

LEMMA HttpOpFits ==
  ASSUME Bounded, HttpInv, HttpBoundInv, Http!Begin \/ Http!Work
  PROVE  HttpFits(op')
<1>1. /\ Numbered /\ op \in HttpOperations /\ HttpFits(op) /\ WaitBudget \in Nat
      /\ Allowance \in Nat /\ Penalty \in Nat
  BY DEF Bounded, Numbered, HttpInv, HttpShapeInv, HttpBoundInv
<1>2. CASE Http!Begin
  <2>1. PICK h \in Host, d \in Deadlines, secure \in BOOLEAN :
          /\ now + d < MaxTime
          /\ LET cooling == cooldown[h] > now
                 started == [Http!Fresh EXCEPT !.host = h, !.end = now + d] IN
             /\ op' = CASE ~secure -> [started EXCEPT !.stop = "NonRetryable"]
                        [] secure /\ cooling -> [started EXCEPT !.stop = "ServerCooldown"]
                        [] OTHER -> [started EXCEPT !.at = "admit"]
             /\ cooldown' = IF secure /\ ~cooling THEN [cooldown EXCEPT ![h] = 0] ELSE cooldown
    BY <1>2 DEF Http!Begin
  <2> DEFINE end == now + d
             started == [Http!Fresh EXCEPT !.host = h, !.end = end]
  <2>2. end \in Nat /\ end <= MaxTime
    BY <1>1, <2>1 DEF HttpInv, HttpShapeInv, Numbered
  <2>3. \/ op' = [started EXCEPT !.stop = "NonRetryable"]
        \/ op' = [started EXCEPT !.stop = "ServerCooldown"]
        \/ op' = [started EXCEPT !.at = "admit"]
    BY <2>1
  <2> HIDE DEF end
  <2>4. /\ Http!Fresh \in HttpOperations /\ Http!Fresh.attempts = 0 /\ Http!Fresh.waited = 0
        /\ Http!Fresh.left = Limit /\ Http!Fresh.answer = Http!Answer
    BY <1>1, HttpConstants DEF Http!Fresh
  <2>5. /\ op'.attempts = 0 /\ op'.waited = 0 /\ op'.end = end /\ op'.left = Limit
        /\ op'.answer = Http!Answer
    BY <2>3, <2>4 DEF HttpOperations
  <2>6. op' \in HttpOperations
    BY <2>2, <2>3, <2>4 DEF HttpOperations, HttpReasons, Asking
  <2> QED
    BY <2>2, <2>5, <2>6, HttpFreshFits
<1>3. CASE \E why \in HttpReasons : Http!Stop(why)
  BY <1>3, HttpStopFits
<1>4. CASE op' = [op EXCEPT !.at = "ready", !.answer = Http!Answer]
  <2>1. Http!Answer.delay = -1
    BY DEF Http!Answer, Http!NoDelay
  <2>2. /\ op'.attempts = op.attempts /\ op'.waited = op.waited /\ op'.end = op.end
        /\ op'.left = op.left /\ op'.answer = Http!Answer
    BY <1>1, <1>4 DEF HttpOperations
  <2> QED
    BY <1>1, <2>1, <2>2 DEF HttpFits
<1>5. CASE /\ op.attempts < Http!Attempts
           /\ op' = [op EXCEPT !.at = "flying", !.attempts = @ + 1, !.until = 0]
  BY <1>1, <1>5 DEF HttpFits, HttpOperations, Http!Attempts
<1>6. CASE Http!Respond
  <2>1. PICK kind \in {"body", "limited", "server", "client", "transient", "broken"},
             delay \in Delays \cup {Http!NoDelay, Http!Unknown}, h \in Host, n \in 0..1 :
          /\ kind \notin Http!Statuses => delay = Http!NoDelay /\ n = 0
          /\ op' = [op EXCEPT
               !.at = IF kind = "body" THEN "reading" ELSE "judging",
               !.left = IF kind = "body" THEN @ ELSE @ - Http!Read(n),
               !.answer = [kind |-> kind, from |-> h, at |-> now,
                           delay |-> IF kind = "limited" /\ delay = Http!NoDelay THEN Penalty ELSE delay]]
          /\ received' = IF kind = "body" THEN received ELSE received + Http!Read(n)
    BY <1>6 DEF Http!Respond
  <2> DEFINE told2 == IF kind = "limited" /\ delay = Http!NoDelay THEN Penalty ELSE delay
             rest == IF kind = "body" THEN op.left ELSE op.left - Http!Read(n)
  <2>2. told2 <= Allowance + Penalty
    BY <1>1 DEF Bounded, Http!NoDelay, Http!Unknown
  <2>3. rest <= Limit
    BY <1>1, HttpReadIs DEF HttpOperations, HttpFits, Bounded, Numbered
  <2> HIDE DEF told2, rest
  <2>4. op' = [op EXCEPT !.at = IF kind = "body" THEN "reading" ELSE "judging", !.left = rest,
                 !.answer = [kind |-> kind, from |-> h, at |-> now, delay |-> told2]]
    BY <2>1 DEF told2, rest
  <2>5. /\ op'.attempts = op.attempts /\ op'.waited = op.waited /\ op'.end = op.end
        /\ op'.left = rest /\ op'.answer.delay = told2
    BY <1>1, <2>4 DEF HttpOperations
  <2> QED
    BY <1>1, <2>2, <2>3, <2>5 DEF HttpFits
<1>7. CASE \E n \in 0..op.left :
             \/ op' = [op EXCEPT !.at = "judging", !.answer.kind = "transient"]
             \/ op' = [op EXCEPT !.at = "judging", !.answer.kind = "transient", !.left = @ - n]
             \/ op' = [op EXCEPT !.at = "completing", !.left = @ - n]
  <2>1. PICK n \in 0..op.left :
             \/ op' = [op EXCEPT !.at = "judging", !.answer.kind = "transient"]
             \/ op' = [op EXCEPT !.at = "judging", !.answer.kind = "transient", !.left = @ - n]
             \/ op' = [op EXCEPT !.at = "completing", !.left = @ - n]
    BY <1>7
  <2> DEFINE a == [op.answer EXCEPT !.kind = "transient"]
  <2>2. a.delay = op.answer.delay
    BY <1>1 DEF HttpOperations, HttpAnswers
  <2>3. \/ op' = [op EXCEPT !.at = "judging", !.answer = a]
        \/ op' = [op EXCEPT !.at = "judging", !.answer = a, !.left = @ - n]
        \/ op' = [op EXCEPT !.at = "completing", !.left = @ - n]
    BY <1>1, <2>1 DEF HttpOperations
  <2> HIDE DEF a
  <2>4. /\ op'.attempts = op.attempts /\ op'.waited = op.waited /\ op'.end = op.end
        /\ op'.left \in {op.left, op.left - n} /\ op'.answer \in {op.answer, a}
    BY <1>1, <2>3 DEF HttpOperations
  <2>5. op'.left <= op.left /\ op.left <= Limit /\ op'.left <= Limit
    BY <1>1, <2>4 DEF HttpFits, HttpOperations, Bounded, Numbered
  <2> QED
    BY <1>1, <2>2, <2>4, <2>5 DEF HttpFits
<1>8. CASE op' = [op EXCEPT !.at = "admit"]
  BY <1>1, <1>8 DEF HttpFits, HttpOperations
<1>9. CASE \E pause \in Int :
             /\ pause <= Http!Spare
             /\ op' = [op EXCEPT !.at = "sleeping", !.until = now + pause, !.waited = @ + pause]
  <2>1. PICK pause \in Int :
             /\ pause <= Http!Spare
             /\ op' = [op EXCEPT !.at = "sleeping", !.until = now + pause, !.waited = @ + pause]
    BY <1>9
  <2>2. /\ op'.attempts = op.attempts /\ op'.waited = op.waited + pause /\ op'.end = op.end
        /\ op'.left = op.left /\ op'.answer = op.answer
    BY <1>1, <2>1 DEF HttpOperations
  <2> QED
    BY <1>1, <2>1, <2>2 DEF HttpFits, HttpOperations, Http!Spare
<1>10. CASE Http!Admit
  BY <1>3, <1>4, <1>10 DEF Http!Admit, HttpReasons
<1>11. CASE Http!Launch
  <2>1. \/ Http!Stop("Deadline") \/ Http!Stop("AttemptLimit")
        \/ ~ (op.attempts >= Http!Attempts)
           /\ op' = [op EXCEPT !.at = "flying", !.attempts = @ + 1, !.until = 0]
        \/ ~ (now >= op.end) /\ ~ (now < op.end)
    BY <1>11 DEF Http!Launch
  <2>2. op.attempts \in Nat /\ now \in Nat /\ op.end \in Nat
    BY <1>1 DEF HttpOperations, HttpInv, HttpShapeInv
  <2> QED
    BY <1>3, <1>5, <2>1, <2>2 DEF HttpReasons, Http!Attempts
<1>12. CASE Http!Consume
  <2>1. PICK n \in 0..(op.left + 1), end \in {"whole", "cut", "refused"} :
          /\ received' = received + Http!Read(n)
          /\ CASE now >= op.end ->
                    n = 0 /\ op' = [op EXCEPT !.at = "judging", !.answer.kind = "transient"]
               [] now < op.end /\ (n > op.left \/ end = "refused") -> Http!Stop("NonRetryable")
               [] now < op.end /\ n <= op.left /\ end = "cut" ->
                    op' = [op EXCEPT !.at = "judging", !.answer.kind = "transient",
                                     !.left = @ - n]
               [] OTHER -> op' = [op EXCEPT !.at = "completing", !.left = @ - n]
    BY <1>12 DEF Http!Consume
  <2>2. now \in Nat /\ op.end \in Nat /\ op.left \in Nat
    BY <1>1 DEF HttpOperations, HttpInv, HttpShapeInv
  <2>3. \/ Http!Stop("NonRetryable")
        \/ /\ n \in 0..op.left
           /\ \/ op' = [op EXCEPT !.at = "judging", !.answer.kind = "transient"]
              \/ op' = [op EXCEPT !.at = "judging", !.answer.kind = "transient", !.left = @ - n]
              \/ op' = [op EXCEPT !.at = "completing", !.left = @ - n]
    BY <2>1, <2>2
  <2> QED
    BY <1>3, <1>7, <2>3 DEF HttpReasons
<1>13. CASE Http!Complete
  BY <1>3, <1>13 DEF Http!Complete, HttpReasons
<1>14. CASE Http!Judge
  <2> DEFINE pause == Http!Pause(op.answer)
  <2>1. \/ \E why \in HttpReasons : Http!Stop(why)
        \/ /\ op' = [op EXCEPT !.at = "sleeping", !.until = now + pause, !.waited = @ + pause]
           /\ ~ (pause > Http!Spare)
    BY <1>14 DEF Http!Judge, HttpReasons
  <2>2. pause \in Int /\ Http!Spare \in Int
    <3>1. op.attempts \in Nat /\ op.waited \in Nat
      BY <1>1 DEF HttpOperations
    <3>2. Http!Wait(op.answer) \in Int /\ Http!Backoff(op.attempts) \in Nat
      BY <1>1, <1>14, <3>1, HttpWaitIs, HttpConstants DEF Http!Judge
    <3> QED
      BY <1>1, <3>1, <3>2 DEF Http!Pause, Http!AtLeast, Http!Spare
  <2> HIDE DEF pause
  <2>3. ~ (pause > Http!Spare) => pause <= Http!Spare
    BY <2>2
  <2> QED
    BY <1>3, <1>9, <2>1, <2>2, <2>3, Zenon
<1>15. CASE Http!Wake
  BY <1>8, <1>15 DEF Http!Wake
<1> QED
  BY <1>2, <1>6, <1>10, <1>11, <1>12, <1>13, <1>14, <1>15 DEF Http!Work

LEMMA HttpBoundNext ==
  ASSUME Bounded, HttpInv, HttpBoundInv, [Http!Next]_(Http!vars)
  PROVE  HttpBoundInv'
<1>1. CASE UNCHANGED Http!vars
  BY <1>1 DEF Http!vars, HttpBoundInv
<1>2. CASE Http!Tick
  <2>1. now' <= MaxTime /\ UNCHANGED <<cooldown, op, told>>
    BY <1>2 DEF Http!Tick, HttpInv, HttpShapeInv, Bounded, Numbered
  <2> QED
    BY <2>1 DEF HttpBoundInv
<1>3. CASE Http!Begin \/ Http!Work
  <2>1. now' = now
    BY <1>3 DEF Http!Begin, Http!Work, Http!Admit, Http!Launch, Http!Respond, Http!Consume,
       Http!Complete, Http!Judge, Http!Wake
  <2>2. \A h \in Host : cooldown'[h] <= Http!Never /\ told'[h] <= Http!Never
    <3>1. CASE Http!Judge
      BY <3>1, HttpCoolFits
    <3>2. CASE Http!Begin
      <4>1. PICK h \in Host : cooldown' = [cooldown EXCEPT ![h] = 0] \/ cooldown' = cooldown
        BY <3>2 DEF Http!Begin
      <4>2. told' = told /\ 0 <= Http!Never
        BY <3>2, HttpConstants DEF Http!Begin, Bounded
      <4> QED
        BY <4>1, <4>2 DEF HttpInv, HttpShapeInv, HttpBoundInv
    <3>3. CASE UNCHANGED <<cooldown, told>>
      BY <3>3 DEF HttpBoundInv
    <3> QED
      BY <1>3, <3>1, <3>2, <3>3 DEF Http!Work, Http!Admit, Http!Launch, Http!Respond,
         Http!Consume, Http!Complete, Http!Wake
  <2>3. HttpFits(op')
    BY <1>3, HttpOpFits
  <2> QED
    BY <2>1, <2>2, <2>3 DEF HttpBoundInv
<1> QED
  BY <1>1, <1>2, <1>3 DEF Http!Next

LEMMA HttpBoundInit == ASSUME Bounded, Http!Init PROVE HttpBoundInv
<1>1. /\ now = 0 /\ op = Http!Fresh /\ cooldown = [h \in Host |-> 0] /\ told = [h \in Host |-> 0]
  BY DEF Http!Init
<1>2. /\ Http!Fresh \in HttpOperations /\ Http!Fresh.attempts = 0 /\ Http!Fresh.waited = 0
      /\ Http!Fresh.end = 0 /\ Http!Fresh.left = Limit /\ Http!Fresh.answer = Http!Answer
  BY HttpConstants DEF Http!Fresh, Bounded
<1>3. HttpFits(op)
  BY <1>1, <1>2, HttpFreshFits DEF Bounded, Numbered
<1>4. 0 <= Http!Never
  BY HttpConstants DEF Bounded
<1> QED
  BY <1>1, <1>3, <1>4 DEF HttpBoundInv, Bounded, Numbered

LEMMA HttpTyped == ASSUME Bounded, HttpInv, HttpBoundInv PROVE Http!TypeOK
<1>1. /\ now \in 0..MaxTime /\ op \in HttpOperations /\ received \in Nat
      /\ cooldown \in [Host -> Nat] /\ told \in [Host -> Nat] /\ Http!Never \in Nat
  BY HttpConstants DEF HttpInv, HttpShapeInv, HttpBoundInv, Bounded, Numbered
<1>2. cooldown \in [Host -> 0..Http!Never] /\ told \in [Host -> 0..Http!Never]
  BY <1>1 DEF HttpBoundInv
<1>3. /\ op.at \in Asking \cup {"sleeping", "done"} /\ op.stop \in HttpReasons
      /\ op.attempts \in Nat /\ op.waited \in Nat /\ op.end \in Nat /\ op.left \in Nat
  BY <1>1 DEF HttpOperations
<1>4. /\ op.attempts \in 0..Http!Attempts /\ op.waited \in 0..WaitBudget
      /\ op.end \in 0..MaxTime /\ op.left \in 0..Limit
  BY <1>3 DEF HttpBoundInv, HttpFits, Bounded, Numbered, Http!Attempts
<1> QED
  BY <1>1, <1>2, <1>3, <1>4 DEF Http!TypeOK, Asking, HttpReasons

-----------------------------------------------------------------------------
(* Supervisor: whatever its deadlines.  The clock has no part in it: only  *)
(* its type needs the bound to be a number.                                *)

\* What the guard believes of the leader is so, except that a child whose exit it saw
\* may have been stolen since, which is a race.
GuardBeliefInv ==
  /\ leader = "gone" => life.leader = "reaped"
  /\ life.leader = "lost" => leader = "stolen"
  /\ life.leader = "exited" /\ leader = "stolen" => raced
  /\ struck => raced
  /\ raced => leader = "stolen"

\* Where a signal is about to be sent, the leader was just seen.
GuardAimInv ==
  /\ duty = "kill" => life.leader = "exited"
  /\ duty = "strike" => Guard!Owned /\ (leader = "stolen" => raced)

\* The group is dead once it was signalled while it was there, and a leader is reaped
\* after that or with an error.
GuardGroupInv ==
  /\ life.group = "signalled" => kids \cap Guard!Grouped = {} \/ leader = "stolen"
  /\ life.leader = "reaped" => life.group = "signalled" \/ error
  /\ duty = "reap" /\ life.leader = "exited" =>
       life.group # "pending" /\ (life.group = "signalled" \/ error)
  /\ duty \in {"drain", "decide", "done"} => life.leader # "exited"

\* The pipes were at their end, or given up with a reason.
GuardPipesInv ==
  /\ drained /\ ~error /\ reason # "panic" => kids \subseteq {"silent"}
  /\ duty = "done" /\ ~error => life.leader = "reaped" /\ drained /\ reaped

GuardInv == Guard!TypeOK /\ GuardBeliefInv /\ GuardAimInv /\ GuardGroupInv /\ GuardPipesInv

-----------------------------------------------------------------------------
\* The steps.

\* What an observation leaves the guard believing.
GuardLife == [leader : {"running", "exited", "reaped", "lost"},
         group : {"pending", "attempted", "signalled"}, observed : BOOLEAN]
GuardLifeIsTrue ==
  /\ life \in GuardLife
  /\ life.leader = "exited" => leader \in {"zombie", "stolen"} /\ life.observed
  /\ life.leader = "reaped" => leader = "gone" /\ reaped /\ life.group # "pending"

LEMMA GuardInit == ASSUME CleanupEnd \in Nat, Guard!Init PROVE GuardInv
<1>1. Guard!TypeOK
  <2>1. GuardLifeIsTrue
    BY DEF Guard!Init, GuardLifeIsTrue, GuardLife
  <2>2. /\ leader = "running" /\ kids \subseteq Guard!Kid /\ tick \in 0..CleanupEnd
        /\ reason = "none" /\ duty = "drive"
    BY DEF Guard!Init
  <2>3. /\ signalled = FALSE /\ drained = FALSE /\ reaped = FALSE
        /\ error = FALSE /\ struck = FALSE /\ raced = FALSE
    BY Zenon DEF Guard!Init
  <2>4. {signalled, drained, reaped, error, struck, raced} \subseteq BOOLEAN
    BY <2>3
  <2> QED
    BY <2>1, <2>2, <2>4 DEF Guard!TypeOK, GuardLifeIsTrue, GuardLife
<1>2. GuardBeliefInv /\ GuardAimInv /\ GuardGroupInv /\ GuardPipesInv
  BY DEF Guard!Init, GuardBeliefInv, GuardAimInv, GuardGroupInv, GuardPipesInv
<1> QED
  BY <1>1, <1>2 DEF GuardInv

LEMMA GuardSeesIs ==
  ASSUME GuardInv, NEW exited \in BOOLEAN, NEW group \in {"pending", "attempted", "signalled"},
         Guard!Sees(exited, group), UNCHANGED <<leader, reaped>>
  PROVE  GuardLifeIsTrue'
<1>1. CASE exited
  <2>1. life' = [leader |-> "exited", group |-> group, observed |-> TRUE]
    BY <1>1 DEF Guard!Sees
  <2>2. leader \in {"zombie", "stolen"}
    BY <1>1 DEF Guard!Sees, Guard!Owned, GuardInv, Guard!TypeOK, GuardBeliefInv
  <2> QED
    BY <2>1, <2>2 DEF GuardLifeIsTrue, GuardLife
<1>2. CASE exited = FALSE
  <2>1. life' = [leader |-> "running", group |-> group, observed |-> TRUE]
    BY <1>2 DEF Guard!Sees, Guard!Owned
  <2> QED
    BY <2>1 DEF GuardLifeIsTrue, GuardLife
<1> QED
  BY <1>1, <1>2

LEMMA GuardLoseIs ==
  ASSUME GuardInv, Guard!Lose
  PROVE  GuardLifeIsTrue'
  BY DEF GuardInv, Guard!TypeOK, Guard!Lose, GuardLifeIsTrue, GuardLife

LEMMA GuardDriveStep == ASSUME GuardInv, Guard!Drive PROVE GuardInv'
<1>1. Guard!TypeOK'
  <2>1. GuardLifeIsTrue'
    <3>1. UNCHANGED <<leader, reaped>> /\ life.group \in {"pending", "attempted", "signalled"}
      BY DEF GuardInv, Guard!TypeOK, Guard!Drive
    <3>2. Guard!Attempted \in {"pending", "attempted", "signalled"}
      BY DEF Guard!Attempted
    <3>3. CASE UNCHANGED life
      BY <3>1, <3>3 DEF GuardInv, Guard!TypeOK, GuardLifeIsTrue, GuardLife
    <3>4. CASE Guard!Lose
      BY <3>4, GuardLoseIs
    <3>5. CASE \E exited \in BOOLEAN, group \in {Guard!Attempted, life.group} : Guard!Sees(exited, group)
      BY <3>1, <3>2, <3>5, GuardSeesIs
    <3> QED
      BY <3>3, <3>4, <3>5 DEF Guard!Drive, Guard!Unseen
  <2> QED
    BY <2>1 DEF GuardInv, Guard!TypeOK, GuardLifeIsTrue, GuardLife, Guard!Drive, Guard!Stop
<1>2. GuardBeliefInv'
  BY DEF GuardInv, Guard!TypeOK, GuardBeliefInv, Guard!Drive, Guard!Sees, Guard!Unseen, Guard!Lose, Guard!Owned
<1>3. GuardAimInv'
  BY DEF GuardAimInv, Guard!Drive, Guard!Stop
<1>4. GuardGroupInv'
  BY DEF GuardInv, Guard!TypeOK, GuardGroupInv, Guard!Drive, Guard!Stop, Guard!Sees, Guard!Unseen, Guard!Lose, Guard!Attempted
<1>5. GuardPipesInv'
  BY DEF GuardInv, Guard!TypeOK, GuardPipesInv, Guard!Drive, Guard!Stop
<1> QED
  BY <1>1, <1>2, <1>3, <1>4, <1>5 DEF GuardInv

LEMMA GuardLookStep == ASSUME GuardInv, Guard!Look PROVE GuardInv'
<1>1. Guard!TypeOK'
  <2>1. GuardLifeIsTrue'
    <3>1. UNCHANGED <<leader, reaped>> /\ life.group \in {"pending", "attempted", "signalled"}
      BY DEF GuardInv, Guard!TypeOK, Guard!Look
    <3>2. Guard!Attempted \in {"pending", "attempted", "signalled"}
      BY DEF Guard!Attempted
    <3>3. CASE UNCHANGED life
      BY <3>1, <3>3 DEF GuardInv, Guard!TypeOK, GuardLifeIsTrue, GuardLife
    <3>4. CASE Guard!Lose
      BY <3>4, GuardLoseIs
    <3>5. CASE \E exited \in BOOLEAN, group \in {Guard!Attempted, life.group} : Guard!Sees(exited, group)
      BY <3>1, <3>2, <3>5, GuardSeesIs
    <3> QED
      BY <3>3, <3>4, <3>5 DEF Guard!Look, Guard!Unseen
  <2> QED
    BY <2>1 DEF GuardInv, Guard!TypeOK, GuardLifeIsTrue, GuardLife, Guard!Look, Guard!Stop, Guard!Unseen, Guard!Lose, Guard!Owned
<1>2. GuardBeliefInv'
  BY DEF GuardInv, Guard!TypeOK, GuardBeliefInv, Guard!Look, Guard!Sees, Guard!Unseen, Guard!Lose, Guard!Owned
<1>3. GuardAimInv'
  BY DEF GuardAimInv, Guard!Look, Guard!Stop, Guard!Sees
<1>4. GuardGroupInv'
  BY DEF GuardInv, Guard!TypeOK, GuardGroupInv, Guard!Look, Guard!Sees, Guard!Unseen, Guard!Lose
<1>5. GuardPipesInv'
  BY DEF GuardInv, Guard!TypeOK, GuardPipesInv, Guard!Look, Guard!Stop
<1> QED
  BY <1>1, <1>2, <1>3, <1>4, <1>5 DEF GuardInv

LEMMA GuardKillStep == ASSUME GuardInv, Guard!Kill PROVE GuardInv'
<1>1. Guard!TypeOK'
  BY DEF GuardInv, Guard!TypeOK, Guard!Kill, Guard!Signal, Guard!Strike, Guard!Stop, Guard!Attempted
<1>2. GuardBeliefInv'
  BY DEF GuardInv, Guard!TypeOK, GuardBeliefInv, GuardAimInv, Guard!Kill, Guard!Signal, Guard!Strike, Guard!Stop, Guard!Attempted
<1>3. GuardAimInv'
  BY DEF GuardAimInv, Guard!Kill, Guard!Stop
<1>4. GuardGroupInv'
  BY DEF GuardInv, Guard!TypeOK, GuardAimInv, GuardGroupInv, Guard!Kill, Guard!Signal, Guard!Strike, Guard!Stop, Guard!Attempted
<1>5. GuardPipesInv'
  BY DEF GuardInv, Guard!TypeOK, GuardPipesInv, Guard!Kill, Guard!Signal, Guard!Strike, Guard!Stop
<1> QED
  BY <1>1, <1>2, <1>3, <1>4, <1>5 DEF GuardInv

LEMMA GuardStepStep == ASSUME GuardInv, Guard!Step PROVE GuardInv'
<1>1. Guard!TypeOK'
  BY DEF GuardInv, Guard!TypeOK, Guard!Step, Guard!Stop, Guard!AtEnd
<1>2. GuardBeliefInv'
  BY DEF GuardInv, Guard!TypeOK, GuardBeliefInv, GuardAimInv, Guard!Step, Guard!Stop, Guard!AtEnd
<1>3. GuardAimInv'
  BY DEF GuardInv, Guard!TypeOK, GuardBeliefInv, GuardAimInv, Guard!Owned, Guard!Step, Guard!Stop, Guard!AtEnd
<1>4. GuardGroupInv'
  BY DEF GuardInv, Guard!TypeOK, GuardBeliefInv, GuardAimInv, GuardGroupInv, Guard!Step, Guard!Stop, Guard!AtEnd
<1>5. GuardPipesInv'
  BY DEF GuardInv, Guard!TypeOK, GuardAimInv, GuardGroupInv, GuardPipesInv, Guard!Step, Guard!Stop, Guard!AtEnd
<1> QED
  BY <1>1, <1>2, <1>3, <1>4, <1>5 DEF GuardInv

LEMMA GuardTerminateStep == ASSUME GuardInv, Guard!Terminate PROVE GuardInv'
<1>1. Guard!TypeOK'
  <2>1. GuardLifeIsTrue'
    <3>1. UNCHANGED <<leader, reaped>> /\ life.group \in {"pending", "attempted", "signalled"}
      BY DEF GuardInv, Guard!TypeOK, Guard!Terminate
    <3>2. Guard!Attempted \in {"pending", "attempted", "signalled"}
      BY DEF Guard!Attempted
    <3>3. CASE UNCHANGED life
      BY <3>1, <3>3 DEF GuardInv, Guard!TypeOK, GuardLifeIsTrue, GuardLife
    <3>4. CASE Guard!Lose
      BY <3>4, GuardLoseIs
    <3>5. CASE \E exited \in BOOLEAN, group \in {Guard!Attempted, life.group} : Guard!Sees(exited, group)
      BY <3>1, <3>2, <3>5, GuardSeesIs
    <3> QED
      BY <3>3, <3>4, <3>5 DEF Guard!Terminate, Guard!Unseen
  <2> QED
    BY <2>1 DEF GuardInv, Guard!TypeOK, GuardLifeIsTrue, GuardLife, Guard!Terminate, Guard!NeedsTermination, Guard!Unseen, Guard!Lose, Guard!Owned
<1>2. GuardBeliefInv'
  BY DEF GuardInv, Guard!TypeOK, GuardBeliefInv, Guard!Terminate, Guard!Sees, Guard!Unseen, Guard!Lose, Guard!Owned
<1>3. GuardAimInv'
  BY DEF GuardInv, GuardBeliefInv, GuardAimInv, Guard!Owned, Guard!Terminate, Guard!Sees, Guard!Owned
<1>4. GuardGroupInv'
  BY DEF GuardInv, Guard!TypeOK, GuardGroupInv, Guard!Terminate, Guard!NeedsTermination, Guard!Sees, Guard!Unseen, Guard!Lose, Guard!Owned
<1>5. GuardPipesInv'
  BY DEF GuardInv, GuardPipesInv, Guard!Terminate
<1> QED
  BY <1>1, <1>2, <1>3, <1>4, <1>5 DEF GuardInv

LEMMA GuardStrikeGroupStep == ASSUME GuardInv, Guard!StrikeGroup PROVE GuardInv'
<1>1. Guard!TypeOK'
  BY DEF GuardInv, Guard!TypeOK, Guard!StrikeGroup, Guard!Signal, Guard!Strike, Guard!Attempted
<1>2. CASE Guard!Signal(TRUE) /\ UNCHANGED error /\ life.group # "signalled"
  <2>1. /\ life' = [life EXCEPT !.group = "signalled"] /\ UNCHANGED <<drained, reason, reaped, error, raced>>
        /\ leader' = IF leader = "running" THEN "zombie" ELSE leader
        /\ kids' = IF leader \in {"running", "zombie"} THEN kids \ Guard!Grouped ELSE kids
        /\ struck' => (struck \/ leader \in {"gone", "stolen"})
        /\ duty = "strike" /\ duty' = "reap"
    BY <1>2 DEF Guard!StrikeGroup, Guard!Signal, Guard!Strike
  <2>2. GuardBeliefInv'
    BY <2>1 DEF GuardInv, Guard!TypeOK, GuardBeliefInv, GuardAimInv, Guard!Owned
  <2>3. GuardAimInv' /\ GuardGroupInv' /\ GuardPipesInv'
    BY <2>1 DEF GuardInv, Guard!TypeOK, GuardBeliefInv, GuardAimInv, GuardGroupInv, GuardPipesInv, Guard!Owned
  <2> QED
    BY <1>1, <2>2, <2>3 DEF GuardInv
<1>3. CASE ~(Guard!Signal(TRUE) /\ UNCHANGED error /\ life.group # "signalled")
  <2>1. /\ \/ life' = [life EXCEPT !.group = "signalled"] /\ life.group = "signalled" /\ UNCHANGED error
           \/ life' = [life EXCEPT !.group = Guard!Attempted] /\ error' = TRUE
        /\ UNCHANGED <<leader, kids, drained, reason, reaped, raced, struck>>
        /\ duty = "strike" /\ duty' = "reap"
    BY <1>3 DEF Guard!StrikeGroup, Guard!Signal
  <2>2. GuardBeliefInv'
    BY <2>1 DEF GuardInv, Guard!TypeOK, GuardBeliefInv
  <2>3. GuardAimInv' /\ GuardGroupInv' /\ GuardPipesInv'
    BY <2>1 DEF GuardInv, Guard!TypeOK, GuardBeliefInv, GuardAimInv, GuardGroupInv, GuardPipesInv, Guard!Owned, Guard!Attempted
  <2> QED
    BY <1>1, <2>2, <2>3 DEF GuardInv
<1> QED
  BY <1>2, <1>3

LEMMA GuardReapStep == ASSUME GuardInv, Guard!Reap PROVE GuardInv'
<1>1. Guard!TypeOK'
  <2>1. GuardLifeIsTrue'
    <3>1. CASE UNCHANGED <<leader, reaped, life>>
      BY <3>1 DEF GuardInv, Guard!TypeOK, GuardLifeIsTrue, GuardLife
    <3>2. CASE Guard!Lose
      BY <3>2, GuardLoseIs
    <3>3. CASE leader = "running" /\ life' = [life EXCEPT !.observed = TRUE] /\ UNCHANGED <<leader, reaped>>
      BY <3>3 DEF GuardInv, Guard!TypeOK, GuardLifeIsTrue, GuardLife
    <3>4. CASE /\ Guard!ShouldReap /\ leader' = "gone" /\ reaped' = TRUE
               /\ life' = [life EXCEPT !.leader = "reaped", !.observed = TRUE]
      <4>1. /\ life' \in GuardLife /\ life'.leader = "reaped" /\ life'.group = life.group
        BY <3>4 DEF GuardInv, Guard!TypeOK, GuardLife
      <4> QED
        BY <3>4, <4>1 DEF GuardInv, GuardGroupInv, Guard!Reap, GuardLifeIsTrue, Guard!ShouldReap
    <3> QED
      BY <3>1, <3>2, <3>3, <3>4 DEF Guard!Reap
  <2>2. /\ leader' \in {"running", "zombie", "gone", "stolen"} /\ {reaped', error'} \subseteq BOOLEAN
        /\ duty = "reap" /\ duty' = "drain"
        /\ UNCHANGED <<kids, tick, signalled, drained, reason, struck, raced>>
    BY DEF GuardInv, Guard!TypeOK, Guard!Reap, Guard!Lose
  <2> QED
    BY <2>1, <2>2 DEF GuardInv, Guard!TypeOK, GuardLifeIsTrue, GuardLife
<1>2. GuardBeliefInv'
  BY DEF GuardInv, Guard!TypeOK, GuardBeliefInv, GuardAimInv, Guard!Reap, Guard!ShouldReap, Guard!Lose, Guard!Owned
<1>3. GuardAimInv'
  BY DEF GuardInv, Guard!TypeOK, GuardBeliefInv, GuardAimInv, Guard!Owned, Guard!Reap, Guard!ShouldReap, Guard!Lose, Guard!Owned
<1>4. GuardGroupInv'
  BY DEF GuardInv, Guard!TypeOK, GuardBeliefInv, GuardAimInv, GuardGroupInv, Guard!Reap, Guard!ShouldReap, Guard!Lose, Guard!Owned
<1>5. GuardPipesInv'
  BY DEF GuardInv, Guard!TypeOK, GuardAimInv, GuardGroupInv, GuardPipesInv, Guard!Reap, Guard!ShouldReap, Guard!Lose, Guard!Owned
<1> QED
  BY <1>1, <1>2, <1>3, <1>4, <1>5 DEF GuardInv

LEMMA GuardDrainStep == ASSUME GuardInv, Guard!Drain PROVE GuardInv'
<1>1. Guard!TypeOK'
  BY DEF GuardInv, Guard!TypeOK, Guard!Drain, Guard!AtEnd
<1>2. GuardBeliefInv'
  BY DEF GuardInv, Guard!TypeOK, GuardBeliefInv, GuardAimInv, Guard!Drain, Guard!AtEnd
<1>3. GuardAimInv'
  BY DEF GuardInv, Guard!TypeOK, GuardBeliefInv, GuardAimInv, Guard!Owned, Guard!Drain, Guard!AtEnd
<1>4. GuardGroupInv'
  BY DEF GuardInv, Guard!TypeOK, GuardBeliefInv, GuardAimInv, GuardGroupInv, Guard!Drain, Guard!AtEnd
<1>5. GuardPipesInv'
  BY DEF GuardInv, Guard!TypeOK, GuardAimInv, GuardGroupInv, GuardPipesInv, Guard!Drain, Guard!AtEnd
<1> QED
  BY <1>1, <1>2, <1>3, <1>4, <1>5 DEF GuardInv

LEMMA GuardDecideStep == ASSUME GuardInv, Guard!Decide PROVE GuardInv'
<1>1. Guard!TypeOK'
  BY DEF GuardInv, Guard!TypeOK, Guard!Decide, Guard!Decision
<1>2. GuardBeliefInv'
  BY DEF GuardInv, Guard!TypeOK, GuardBeliefInv, GuardAimInv, Guard!Decide, Guard!Decision
<1>3. GuardAimInv'
  BY DEF GuardInv, Guard!TypeOK, GuardBeliefInv, GuardAimInv, Guard!Owned, Guard!Decide, Guard!Decision
<1>4. GuardGroupInv'
  BY DEF GuardInv, Guard!TypeOK, GuardBeliefInv, GuardAimInv, GuardGroupInv, Guard!Decide, Guard!Decision
<1>5. GuardPipesInv'
  BY DEF GuardInv, Guard!TypeOK, GuardAimInv, GuardGroupInv, GuardPipesInv, Guard!Decide, Guard!Decision
<1> QED
  BY <1>1, <1>2, <1>3, <1>4, <1>5 DEF GuardInv

LEMMA GuardEndsStep == ASSUME GuardInv, Guard!Ends PROVE GuardInv'
<1>1. Guard!TypeOK'
  BY DEF GuardInv, Guard!TypeOK, Guard!Ends
<1>2. GuardBeliefInv'
  BY DEF GuardInv, Guard!TypeOK, GuardBeliefInv, GuardAimInv, Guard!Ends
<1>3. GuardAimInv'
  BY DEF GuardInv, Guard!TypeOK, GuardBeliefInv, GuardAimInv, Guard!Owned, Guard!Ends
<1>4. GuardGroupInv'
  BY DEF GuardInv, Guard!TypeOK, GuardBeliefInv, GuardAimInv, GuardGroupInv, Guard!Ends
<1>5. GuardPipesInv'
  BY DEF GuardInv, Guard!TypeOK, GuardAimInv, GuardGroupInv, GuardPipesInv, Guard!Ends
<1> QED
  BY <1>1, <1>2, <1>3, <1>4, <1>5 DEF GuardInv

LEMMA GuardCancelStep == ASSUME GuardInv, Guard!Cancel PROVE GuardInv'
<1>1. Guard!TypeOK'
  BY DEF GuardInv, Guard!TypeOK, Guard!Cancel
<1>2. GuardBeliefInv'
  BY DEF GuardInv, Guard!TypeOK, GuardBeliefInv, GuardAimInv, Guard!Cancel
<1>3. GuardAimInv'
  BY DEF GuardInv, Guard!TypeOK, GuardBeliefInv, GuardAimInv, Guard!Owned, Guard!Cancel
<1>4. GuardGroupInv'
  BY DEF GuardInv, Guard!TypeOK, GuardBeliefInv, GuardAimInv, GuardGroupInv, Guard!Cancel
<1>5. GuardPipesInv'
  BY DEF GuardInv, Guard!TypeOK, GuardAimInv, GuardGroupInv, GuardPipesInv, Guard!Cancel
<1> QED
  BY <1>1, <1>2, <1>3, <1>4, <1>5 DEF GuardInv

LEMMA GuardStealStep == ASSUME GuardInv, Guard!Steal PROVE GuardInv'
<1>1. Guard!TypeOK'
  BY DEF GuardInv, Guard!TypeOK, Guard!Steal
<1>2. GuardBeliefInv'
  BY DEF GuardInv, Guard!TypeOK, GuardBeliefInv, GuardAimInv, Guard!Steal
<1>3. GuardAimInv'
  BY DEF GuardInv, Guard!TypeOK, GuardBeliefInv, GuardAimInv, Guard!Owned, Guard!Steal
<1>4. GuardGroupInv'
  BY DEF GuardInv, Guard!TypeOK, GuardBeliefInv, GuardAimInv, GuardGroupInv, Guard!Steal
<1>5. GuardPipesInv'
  BY DEF GuardInv, Guard!TypeOK, GuardAimInv, GuardGroupInv, GuardPipesInv, Guard!Steal
<1> QED
  BY <1>1, <1>2, <1>3, <1>4, <1>5 DEF GuardInv

LEMMA GuardTickStep == ASSUME CleanupEnd \in Nat, GuardInv, Guard!Tick PROVE GuardInv'
<1>1. tick' \in 0..CleanupEnd
  BY DEF GuardInv, Guard!TypeOK, Guard!Tick
<1>2. UNCHANGED <<leader, kids, life, signalled, drained, reason, reaped, error, duty, struck, raced>>
  BY DEF Guard!Tick
<1> QED
  BY <1>1, <1>2 DEF GuardInv, Guard!TypeOK, GuardBeliefInv, GuardAimInv, GuardGroupInv, GuardPipesInv, Guard!Owned

LEMMA GuardStutterStep == ASSUME GuardInv, UNCHANGED Guard!vars PROVE GuardInv'
  BY DEF Guard!vars, GuardInv, Guard!TypeOK, GuardBeliefInv, GuardAimInv, GuardGroupInv, GuardPipesInv, Guard!Owned

GuardMoves == Guard!Init /\ [][Guard!Next]_(Guard!vars)

LEMMA GuardInvariance == ASSUME CleanupEnd \in Nat PROVE GuardMoves => []GuardInv
<1>1. Guard!Init => GuardInv
  BY GuardInit
<1>2. GuardInv /\ [Guard!Next]_(Guard!vars) => GuardInv'
  BY GuardDriveStep, GuardLookStep, GuardKillStep, GuardStepStep, GuardTerminateStep, GuardStrikeGroupStep, GuardReapStep,
     GuardDrainStep, GuardDecideStep, GuardEndsStep, GuardCancelStep, GuardStealStep, GuardTickStep, GuardStutterStep
  DEF Guard!Next, Guard!Supervise
<1> QED
  BY <1>1, <1>2, PTL DEF GuardMoves

-----------------------------------------------------------------------------
(* Throttle: whatever rates the commands declare and whatever the clocks   *)
(* do, one bucket of the most generous rate would have given every token.  *)

\* Rates are numbers of tokens in numbers of ticks, as many as there may be but bounded,
\* and their periods have a common multiple; the sentinel is no bucket.
Measured ==
  /\ Rates # {} /\ Rates \subseteq [n : Nat \ {0}, p : Nat \ {0}]
  /\ \E b \in Nat : \A r \in Rates : r.n <= b
  /\ \E g \in 1..100 : \A r \in Rates : g % r.p = 0
  /\ NoBucket \notin [rate : Rates, credits : Nat, updated : Nat]
  /\ NoBucket \notin [credits : Nat, period : Nat \ {0}, updated : Nat]
  /\ Patience \in Nat /\ PaceTime \in Nat

\* What a credit of a bucket of period p is worth in the ideal one.
PaceWeight(p) == Pace!Grain \div p
PaceGap(time, updated) == IF time < updated THEN 0 ELSE time - updated
PaceWorth(credits, p, updated) == credits * PaceWeight(p) + Pace!Earned * PaceGap(wall, updated)
PaceCovered(credits, p, updated) ==
  ideal >= Pace!Burst * Pace!Grain \/ ideal >= PaceWorth(credits, p, updated)

PaceShapeInv ==
  /\ Pace!TypeOK /\ wall <= elapsed + 1
  /\ source = "off" => bucket = NoBucket /\ ask = Pace!Idle
  /\ saved = NoBucket \/ saved \in [credits : Nat, period : {r.p : r \in Rates}, updated : Nat]
  /\ bucket = NoBucket \/ bucket \in [rate : Rates, credits : Nat, updated : 0..(PaceTime + 1)]
  /\ ask \in [at : {"idle", "declare", "acquire"}, until : Int, deadline : Int]

\* While nothing was lost, the ideal bucket holds at least what the real one does, or
\* would after a refill at the best rate.
PaceCreditInv == lost = {} =>
  /\ source = "off" /\ saved = NoBucket => ideal >= Pace!Burst * Pace!Grain
  /\ source = "off" /\ saved # NoBucket => PaceCovered(saved.credits, saved.period, saved.updated)
  /\ source # "off" => bucket # NoBucket /\ PaceCovered(bucket.credits, bucket.rate.p, bucket.updated)

PaceInv == PaceShapeInv /\ PaceCreditInv

-----------------------------------------------------------------------------
LEMMA PaceGapIs ==
  ASSUME NEW t \in Nat, NEW u \in Nat
  PROVE  PaceGap(t, u) \in Nat /\ (t <= u => PaceGap(t, u) = 0)
  BY DEF PaceGap

LEMMA PaceGapGrows ==
  ASSUME NEW t \in Nat, NEW s \in Nat, NEW u \in Nat, s <= t + 1
  PROVE  PaceGap(s, u) <= PaceGap(t, u) + 1 /\ (s < t => PaceGap(s, u) <= PaceGap(t, u))
  BY DEF PaceGap

LEMMA PaceDivideIs ==
  ASSUME NEW a \in Nat, NEW b \in Nat \ {0}
  PROVE  a \div b \in Nat /\ (a \div b) * b <= a /\ (a % b = 0 => (a \div b) * b = a)
  OBVIOUS

\* Of some bounded numbers one is the greatest.
LEMMA PaceGreatest ==
  ASSUME NEW S, S \subseteq Nat, S # {}, NEW b \in Nat, \A n \in S : n <= b
  PROVE  \E m \in S : \A n \in S : n <= m
<1> DEFINE Less == {p \in Nat \X Nat : p[1] < p[2]}
           Gaps == {b - n : n \in S}
<1>1. IsWellFoundedOn(Less, Nat)
  <2>1. OpToRel(<, Nat) = Less
    BY DEF OpToRel
  <2> QED
    BY <2>1, NatLessThanWellFounded
<1>2. Gaps \subseteq Nat /\ Gaps # {}
  <2>1. \A n \in S : b - n \in Nat
    OBVIOUS
  <2> QED
    BY <2>1
<1>3. PICK x \in Gaps : \A y \in Gaps : ~ (<<y, x>> \in Less)
  <2> HIDE DEF Less, Gaps
  <2> QED
    BY <1>1, <1>2, WFMin
<1>4. PICK m \in S : x = b - m
  OBVIOUS
<1>5. ASSUME NEW n \in S PROVE n <= m
  <2>1. m \in Nat /\ n \in Nat /\ b - m \in Nat /\ b - n \in Nat
    BY <1>2
  <2>2. ~ (<<b - n, b - m>> \in Less)
    BY <1>3, <1>4
  <2> QED
    BY <2>1, <2>2
<1> QED
  BY <1>5

LEMMA PaceGrainIs ==
  ASSUME Measured
  PROVE  Pace!Grain \in 1..100 /\ \A r \in Rates : Pace!Grain % r.p = 0
  BY DEF Measured, Pace!Grain

LEMMA PaceWeightIs ==
  ASSUME Measured, NEW r \in Rates
  PROVE  PaceWeight(r.p) \in Nat \ {0} /\ PaceWeight(r.p) * r.p = Pace!Grain
<1>1. r.p \in Nat \ {0} /\ Pace!Grain \in Nat \ {0} /\ Pace!Grain % r.p = 0
  BY PaceGrainIs DEF Measured
<1>2. PaceWeight(r.p) \in Nat /\ PaceWeight(r.p) * r.p = Pace!Grain
  BY <1>1, PaceDivideIs DEF PaceWeight
<1> QED
  BY <1>1, <1>2

LEMMA PaceBurstIs ==
  ASSUME Measured
  PROVE  Pace!Burst \in Nat /\ \A r \in Rates : r.n <= Pace!Burst
<1>1. PICK b \in Nat : \A r \in Rates : r.n <= b
  BY DEF Measured
<1> DEFINE S == {r.n : r \in Rates}
<1>2. S \subseteq Nat /\ S # {} /\ \A n \in S : n <= b
  BY <1>1 DEF Measured
<1>3. \E m \in S : \A n \in S : n <= m
  <2> HIDE DEF S
  <2> QED
    BY <1>2, PaceGreatest
<1>4. Pace!Burst = CHOOSE m \in S : \A r \in Rates : r.n <= m
  BY DEF Pace!Burst, Pace!Most
<1> QED
  BY <1>2, <1>3, <1>4

LEMMA PaceEarnedIs ==
  ASSUME Measured
  PROVE  Pace!Earned \in Nat /\ \A r \in Rates : r.n * PaceWeight(r.p) <= Pace!Earned
<1>1. PICK b \in Nat : \A r \in Rates : r.n <= b
  BY DEF Measured
<1> DEFINE f(r) == (r.n * Pace!Grain) \div r.p
           S == {f(r) : r \in Rates}
<1>2. ASSUME NEW r \in Rates
      PROVE  f(r) \in Nat /\ f(r) = r.n * PaceWeight(r.p) /\ f(r) <= b * Pace!Grain
  <2> DEFINE w == PaceWeight(r.p)
  <2>1. r.n \in Nat /\ r.p \in Nat \ {0} /\ w \in Nat /\ w * r.p = Pace!Grain /\ r.n <= b /\ Pace!Grain \in Nat
    BY <1>1, PaceWeightIs, PaceGrainIs DEF Measured
  <2> HIDE DEF w
  <2>2. r.n * Pace!Grain = (r.n * w) * r.p /\ r.n * w \in Nat
    BY <2>1
  <2>3. ((r.n * w) * r.p) \div r.p = r.n * w
    BY <2>1, <2>2
  <2>4. f(r) = r.n * w
    BY <2>2, <2>3
  <2>5. w <= Pace!Grain
    BY <2>1
  <2>6. r.n * w <= b * Pace!Grain
    BY <2>1, <2>5
  <2> QED
    BY <2>2, <2>4, <2>6 DEF w
<1>3. S \subseteq Nat /\ S # {} /\ b * Pace!Grain \in Nat /\ \A n \in S : n <= b * Pace!Grain
  BY <1>2, PaceGrainIs DEF Measured
<1>4. \E m \in S : \A n \in S : n <= m
  <2> HIDE DEF S
  <2> QED
    BY <1>3, PaceGreatest
<1>5. Pace!Earned = CHOOSE m \in S : \A r \in Rates : f(r) <= m
  BY DEF Pace!Earned, Pace!Most
<1> QED
  BY <1>2, <1>3, <1>4, <1>5

-----------------------------------------------------------------------------
\* A balance that is rescaled to another period is worth no more than before.
LEMMA PaceRescaleIs ==
  ASSUME Measured, NEW c \in Nat, NEW q \in Rates, NEW r \in Rates
  PROVE  /\ Pace!Rescale(c, q.p, r) \in 0..Pace!Capacity(r)
         /\ Pace!Rescale(c, q.p, r) * PaceWeight(r.p) <= c * PaceWeight(q.p)
<1> DEFINE v == PaceWeight(q.p)
           w == PaceWeight(r.p)
           x == (c * r.p) \div q.p
<1>1. /\ v \in Nat \ {0} /\ w \in Nat \ {0} /\ v * q.p = Pace!Grain /\ w * r.p = Pace!Grain
      /\ q.p \in Nat \ {0} /\ r.p \in Nat \ {0} /\ r.n \in Nat /\ Pace!Grain \in Nat \ {0}
  <2>1. v \in Nat \ {0} /\ v * q.p = Pace!Grain
    BY PaceWeightIs
  <2>2. w \in Nat \ {0} /\ w * r.p = Pace!Grain
    BY PaceWeightIs
  <2> HIDE DEF v, w
  <2>3. q.p \in Nat \ {0} /\ r.p \in Nat \ {0} /\ r.n \in Nat
    BY DEF Measured
  <2>4. Pace!Grain \in Nat \ {0}
    BY PaceGrainIs
  <2> QED
    BY <2>1, <2>2, <2>3, <2>4
<1> HIDE DEF v, w
<1>2. c * r.p \in Nat
  BY <1>1
<1>3. x \in Nat /\ x * q.p <= c * r.p
  BY <1>1, <1>2, PaceDivideIs
<1>4. Pace!Rescale(c, q.p, r) \in 0..Pace!Capacity(r) /\ Pace!Rescale(c, q.p, r) <= x
  <2>1. Pace!Capacity(r) \in Nat
    BY <1>1 DEF Pace!Capacity
  <2> HIDE DEF x
  <2>2. Pace!Rescale(c, q.p, r) = Pace!Least(Pace!Capacity(r), x)
    BY DEF Pace!Rescale, x
  <2> QED
    BY <1>3, <2>1, <2>2 DEF Pace!Least
<1> HIDE DEF x
<1>5. x * w <= c * v
  <2>1. (x * w) * Pace!Grain = (x * q.p) * (v * w)
    BY <1>1, <1>3
  <2>2. (c * v) * Pace!Grain = (c * r.p) * (v * w)
    BY <1>1
  <2>3. v * w \in Nat /\ x * q.p \in Nat /\ x * w \in Nat /\ c * v \in Nat
    BY <1>1, <1>3
  <2>4. (x * q.p) * (v * w) <= (c * r.p) * (v * w)
    BY <1>2, <1>3, <2>3
  <2>5. (x * w) * Pace!Grain <= (c * v) * Pace!Grain
    BY <2>1, <2>2, <2>4
  <2> QED
    BY <1>1, <2>3, <2>5
<1>6. Pace!Rescale(c, q.p, r) * w <= x * w
  BY <1>1, <1>3, <1>4
<1> QED
  BY <1>1, <1>3, <1>4, <1>5, <1>6 DEF v, w

\* A full bucket is worth no more than the ideal one holds.
LEMMA PaceFullIs ==
  ASSUME Measured, NEW r \in Rates
  PROVE  Pace!Capacity(r) \in Nat /\ Pace!Capacity(r) * PaceWeight(r.p) <= Pace!Burst * Pace!Grain
<1> DEFINE w == PaceWeight(r.p)
<1>1. r.n \in Nat /\ r.p \in Nat /\ w \in Nat /\ w * r.p = Pace!Grain /\ Pace!Grain \in Nat
      /\ Pace!Burst \in Nat /\ r.n <= Pace!Burst
  BY PaceWeightIs, PaceBurstIs, PaceGrainIs DEF Measured
<1> HIDE DEF w
<1>2. Pace!Capacity(r) \in Nat /\ Pace!Capacity(r) * w = r.n * Pace!Grain
  BY <1>1 DEF Pace!Capacity
<1>3. r.n * Pace!Grain <= Pace!Burst * Pace!Grain
  BY <1>1
<1> QED
  BY <1>2, <1>3 DEF w

LEMMA PaceInit == ASSUME Measured, Pace!Init PROVE PaceInv
<1>1. Pace!Burst * Pace!Grain \in Nat
  BY PaceBurstIs, PaceGrainIs
<1>2. PaceShapeInv
  BY <1>1 DEF PaceShapeInv, Pace!TypeOK, Pace!Init, Pace!Idle, Measured
<1>3. PaceCreditInv
  BY <1>1 DEF PaceCreditInv, Pace!Init
<1> QED
  BY <1>2, <1>3 DEF PaceInv

\* A bucket that is made or declared again: what PaceInv says of it.
LEMMA PaceFullCovers ==
  ASSUME Measured, PaceInv, NEW r \in Rates
  PROVE  /\ Pace!Full(r) # NoBucket /\ Pace!Full(r).rate = r /\ Pace!Full(r).credits = Pace!Capacity(r)
         /\ Pace!Full(r) \in [rate : Rates, credits : Nat, updated : 0..(PaceTime + 1)]
         /\ ideal >= Pace!Burst * Pace!Grain =>
              PaceCovered(Pace!Full(r).credits, Pace!Full(r).rate.p, Pace!Full(r).updated)
<1>1. Pace!Capacity(r) \in Nat
  BY PaceFullIs
<1>2. Pace!Full(r) \in [rate : Rates, credits : Nat, updated : 0..(PaceTime + 1)] /\ Pace!Full(r).rate = r
      /\ Pace!Full(r).credits = Pace!Capacity(r)
  BY <1>1 DEF Pace!Full, PaceInv, PaceShapeInv, Pace!TypeOK
<1>3. Pace!Full(r) # NoBucket
  BY <1>2 DEF Measured
<1> QED
  BY <1>2, <1>3 DEF PaceCovered

LEMMA PaceStartStep == ASSUME Measured, PaceInv, Pace!Start PROVE PaceInv'
<1>1. PICK s \in {"default", "user", "plugin"}, rate \in Rates :
        /\ source' = s
        /\ bucket' = IF s = "plugin" THEN NoBucket ELSE Pace!Restored(rate)
        /\ lost' = lost \cup (IF s = "plugin" THEN {"undeclared"} ELSE {})
  BY DEF Pace!Start
<1>2. source = "off" /\ UNCHANGED <<elapsed, wall, saved, ask, ideal>>
  BY DEF Pace!Start
<1>3. CASE s = "plugin"
  <2>1. PaceShapeInv'
    BY <1>1, <1>2, <1>3 DEF PaceInv, PaceShapeInv, Pace!TypeOK
  <2>2. lost' # {}
    BY <1>1, <1>3
  <2> QED
    BY <2>1, <2>2 DEF PaceInv, PaceCreditInv
<1>4. CASE s # "plugin" /\ saved = NoBucket
  <2>1. bucket' = Pace!Full(rate) /\ lost' = lost
    BY <1>1, <1>4 DEF Pace!Restored
  <2>2. PaceShapeInv'
    BY <1>1, <1>2, <1>4, <2>1, PaceFullCovers, PaceFullIs DEF PaceInv, PaceShapeInv, Pace!TypeOK
  <2>3. lost = {} => PaceCovered(bucket'.credits, bucket'.rate.p, bucket'.updated)
    BY <1>2, <1>4, <2>1, PaceFullCovers DEF PaceInv, PaceCreditInv
  <2>4. PaceCreditInv'
    BY <1>1, <1>2, <1>4, <2>1, <2>3, PaceFullCovers DEF PaceCreditInv, PaceCovered, PaceWorth
  <2> QED
    BY <2>2, <2>4 DEF PaceInv
<1>5. CASE s # "plugin" /\ saved # NoBucket
  <2>1. PICK q \in Rates : saved.period = q.p
    BY <1>5 DEF PaceInv, PaceShapeInv
  <2>2. saved.credits \in Nat /\ saved.updated \in 0..(PaceTime + 1)
    BY <1>5 DEF PaceInv, PaceShapeInv, Pace!TypeOK
  <2> DEFINE c == Pace!Rescale(saved.credits, saved.period, rate)
  <2>3. c \in 0..Pace!Capacity(rate) /\ c * PaceWeight(rate.p) <= saved.credits * PaceWeight(saved.period)
        /\ Pace!Capacity(rate) \in Nat
    BY <2>1, <2>2, PaceRescaleIs, PaceFullIs
  <2>4. bucket' = [rate |-> rate, credits |-> c, updated |-> saved.updated] /\ lost' = lost
    BY <1>1, <1>5 DEF Pace!Restored
  <2> HIDE DEF c
  <2>5. bucket' # NoBucket /\ bucket' \in [rate : Rates, credits : Nat, updated : 0..(PaceTime + 1)]
        /\ bucket' \in [rate : Rates, credits : Nat, updated : Nat]
    BY <2>2, <2>3, <2>4 DEF Measured
  <2>6. PaceShapeInv'
    BY <1>1, <1>2, <1>5, <2>3, <2>4, <2>5 DEF PaceInv, PaceShapeInv, Pace!TypeOK
  <2>7. PaceWeight(rate.p) \in Nat /\ PaceWeight(saved.period) \in Nat /\ Pace!Earned \in Nat /\ wall \in Nat
        /\ Pace!Burst * Pace!Grain \in Nat /\ ideal \in Nat
    BY <2>1, PaceWeightIs, PaceEarnedIs, PaceBurstIs, PaceGrainIs DEF PaceInv, PaceShapeInv, Pace!TypeOK
  <2>8. PaceCovered(saved.credits, saved.period, saved.updated) => PaceCovered(c, rate.p, saved.updated)
    <3> DEFINE gap == PaceGap(wall, saved.updated)
    <3>1. gap \in Nat
      <4>1. wall \in Nat /\ saved.updated \in Nat
        BY <2>2, <2>7
      <4> QED
        BY <4>1, PaceGapIs
    <3> HIDE DEF gap
    <3>2. Pace!Earned * gap \in Nat /\ c * PaceWeight(rate.p) \in Nat /\ saved.credits * PaceWeight(saved.period) \in Nat
      BY <2>2, <2>3, <2>7, <3>1
    <3>3. PaceWorth(c, rate.p, saved.updated) = c * PaceWeight(rate.p) + Pace!Earned * gap
          /\ PaceWorth(saved.credits, saved.period, saved.updated) = saved.credits * PaceWeight(saved.period) + Pace!Earned * gap
      BY DEF PaceWorth, gap
    <3> QED
      BY <2>3, <2>7, <3>2, <3>3 DEF PaceCovered
  <2>9. lost = {} => PaceCovered(c, rate.p, saved.updated)
    BY <1>2, <1>5, <2>8 DEF PaceInv, PaceCreditInv
  <2>10. PaceCreditInv'
    BY <1>1, <1>2, <1>5, <2>4, <2>5, <2>9 DEF PaceCreditInv, PaceCovered, PaceWorth
  <2> QED
    BY <2>6, <2>10 DEF PaceInv
<1> QED
  BY <1>3, <1>4, <1>5

LEMMA PaceAskStep == ASSUME Measured, PaceInv, Pace!Ask PROVE PaceInv'
<1>1. source # "off" /\ UNCHANGED <<elapsed, wall, saved, source, bucket, ideal, lost>>
  BY DEF Pace!Ask
<1>2. ask' \in [at : {"idle", "declare", "acquire"}, until : Int, deadline : Int]
  BY DEF Pace!Ask, Measured, PaceInv, PaceShapeInv, Pace!TypeOK
<1>3. PaceShapeInv'
  BY <1>1, <1>2 DEF PaceInv, PaceShapeInv, Pace!TypeOK
<1>4. PaceCreditInv'
  BY <1>1 DEF PaceInv, PaceCreditInv, PaceCovered, PaceWorth
<1> QED
  BY <1>3, <1>4 DEF PaceInv

\* A bucket under another rate is worth no more than it was.
LEMMA PaceRescaledCovers ==
  ASSUME Measured, PaceInv, bucket # NoBucket, NEW rate \in Rates
  PROVE  LET b == [bucket EXCEPT !.rate = rate,
                                 !.credits = Pace!Rescale(@, bucket.rate.p, rate)]
         IN /\ b \in [rate : Rates, credits : Nat, updated : 0..(PaceTime + 1)]
            /\ b # NoBucket /\ b.credits \in 0..Pace!Capacity(b.rate)
            /\ PaceCovered(bucket.credits, bucket.rate.p, bucket.updated) =>
                 PaceCovered(b.credits, b.rate.p, b.updated)
<1>1. bucket \in [rate : Rates, credits : Nat, updated : 0..(PaceTime + 1)] /\ PaceTime \in Nat
  BY DEF PaceInv, PaceShapeInv, Measured
<1> DEFINE c == Pace!Rescale(bucket.credits, bucket.rate.p, rate)
           b == [bucket EXCEPT !.rate = rate, !.credits = c]
<1>2. c \in 0..Pace!Capacity(rate) /\ c * PaceWeight(rate.p) <= bucket.credits * PaceWeight(bucket.rate.p)
      /\ Pace!Capacity(rate) \in Nat
  BY <1>1, PaceRescaleIs, PaceFullIs
<1> HIDE DEF c
<1>3. b \in [rate : Rates, credits : Nat, updated : 0..(PaceTime + 1)] /\ b.rate = rate
      /\ b.credits = c /\ b.updated = bucket.updated
  <2>1. c \in Nat
    BY <1>2
  <2>2. b.rate = rate /\ b.credits = c /\ b.updated = bucket.updated
    BY <1>1
  <2> QED
    BY <1>1, <2>1, <2>2
<1> HIDE DEF b
<1>4. b # NoBucket
  <2>1. b \in [rate : Rates, credits : Nat, updated : Nat]
    BY <1>1, <1>3
  <2> QED
    BY <2>1 DEF Measured
<1>5. PaceWeight(rate.p) \in Nat /\ PaceWeight(bucket.rate.p) \in Nat /\ Pace!Earned \in Nat
      /\ Pace!Burst * Pace!Grain \in Nat
  BY <1>1, PaceWeightIs, PaceEarnedIs, PaceBurstIs, PaceGrainIs
<1>6. wall \in Nat /\ ideal \in Nat
  BY <1>5 DEF PaceInv, PaceShapeInv, Pace!TypeOK
<1>7. PaceCovered(bucket.credits, bucket.rate.p, bucket.updated) => PaceCovered(c, rate.p, bucket.updated)
  <2> DEFINE gap == PaceGap(wall, bucket.updated)
  <2>1. gap \in Nat
    <3>1. wall \in Nat /\ bucket.updated \in Nat
      BY <1>1, <1>6
    <3> QED
      BY <3>1, PaceGapIs
  <2> HIDE DEF gap
  <2>2. Pace!Earned * gap \in Nat /\ c * PaceWeight(rate.p) \in Nat
        /\ bucket.credits * PaceWeight(bucket.rate.p) \in Nat
    BY <1>1, <1>2, <1>5, <2>1
  <2>3. PaceWorth(c, rate.p, bucket.updated) = c * PaceWeight(rate.p) + Pace!Earned * gap
        /\ PaceWorth(bucket.credits, bucket.rate.p, bucket.updated)
             = bucket.credits * PaceWeight(bucket.rate.p) + Pace!Earned * gap
    BY DEF PaceWorth, gap
  <2> QED
    BY <1>2, <1>5, <1>6, <2>2, <2>3 DEF PaceCovered
<1>8. b = [bucket EXCEPT !.rate = rate, !.credits = Pace!Rescale(@, bucket.rate.p, rate)]
  BY DEF b, c
<1> QED
  BY <1>2, <1>3, <1>4, <1>7, <1>8

LEMMA PaceDeclareStep == ASSUME Measured, PaceInv, Pace!Declare PROVE PaceInv'
<1> DEFINE inTime == elapsed < ask.deadline
<1>1. /\ ask.at = "declare" /\ UNCHANGED <<elapsed, wall, saved, source, ideal, lost>>
      /\ ask' = IF inTime THEN [ask EXCEPT !.at = "acquire"] ELSE Pace!Idle
  BY DEF Pace!Declare
<1>2. PICK rate \in Rates :
        bucket' = CASE source = "user" \/ ~inTime -> bucket
                    [] bucket = NoBucket -> Pace!Full(rate)
                    [] OTHER -> [bucket EXCEPT !.rate = rate,
                                   !.credits = Pace!Rescale(@, bucket.rate.p, rate)]
  BY DEF Pace!Declare
<1>3. source # "off"
  BY <1>1 DEF PaceInv, PaceShapeInv, Pace!Idle
<1>4. ask' \in [at : {"idle", "declare", "acquire"}, until : Int, deadline : Int]
  BY <1>1 DEF PaceInv, PaceShapeInv, Pace!Idle
<1> HIDE DEF inTime
<1>5. CASE bucket' = bucket
  <2>1. PaceShapeInv'
    BY <1>1, <1>3, <1>4, <1>5 DEF PaceInv, PaceShapeInv, Pace!TypeOK
  <2>2. PaceCreditInv'
    BY <1>1, <1>5 DEF PaceInv, PaceCreditInv, PaceCovered, PaceWorth
  <2> QED
    BY <2>1, <2>2 DEF PaceInv
<1>6. CASE bucket = NoBucket /\ bucket' = Pace!Full(rate)
  <2>1. PaceShapeInv'
    BY <1>1, <1>3, <1>4, <1>6, PaceFullCovers, PaceFullIs DEF PaceInv, PaceShapeInv, Pace!TypeOK
  <2>2. lost # {}
    BY <1>3, <1>6 DEF PaceInv, PaceCreditInv
  <2> QED
    BY <1>1, <2>1, <2>2 DEF PaceInv, PaceCreditInv
<1>7. CASE /\ bucket # NoBucket
           /\ bucket' = [bucket EXCEPT !.rate = rate,
                                       !.credits = Pace!Rescale(@, bucket.rate.p, rate)]
  <2>1. /\ bucket' \in [rate : Rates, credits : Nat, updated : 0..(PaceTime + 1)]
        /\ bucket' # NoBucket /\ bucket'.credits \in 0..Pace!Capacity(bucket'.rate)
        /\ PaceCovered(bucket.credits, bucket.rate.p, bucket.updated) =>
             PaceCovered(bucket'.credits, bucket'.rate.p, bucket'.updated)
    BY <1>7, PaceRescaledCovers
  <2>2. PaceShapeInv'
    BY <1>1, <1>3, <1>4, <2>1 DEF PaceInv, PaceShapeInv, Pace!TypeOK
  <2>3. PaceCreditInv'
    BY <1>1, <1>3, <2>1 DEF PaceInv, PaceCreditInv, PaceCovered, PaceWorth
  <2> QED
    BY <2>2, <2>3 DEF PaceInv
<1> QED
  BY <1>2, <1>5, <1>6, <1>7

\* What a refill gives a bucket the ideal one has too.
LEMMA PaceRefillIs ==
  ASSUME Measured, PaceInv, bucket # NoBucket
  PROVE  LET b == Pace!Refill(bucket)
         IN /\ b \in [rate : Rates, credits : Nat, updated : 0..(PaceTime + 1)]
            /\ b.rate = bucket.rate /\ b.credits \in 0..Pace!Capacity(b.rate)
            /\ wall <= b.updated
            /\ lost = {} => ideal >= b.credits * PaceWeight(b.rate.p)
<1>1. /\ bucket \in [rate : Rates, credits : Nat, updated : 0..(PaceTime + 1)]
      /\ wall \in 0..(PaceTime + 1) /\ PaceTime \in Nat
      /\ bucket.credits \in 0..Pace!Capacity(bucket.rate)
  BY DEF PaceInv, PaceShapeInv, Pace!TypeOK, Measured
<1> DEFINE n == bucket.rate.n
           w == PaceWeight(bucket.rate.p)
           cap == Pace!Capacity(bucket.rate)
           gap == PaceGap(wall, bucket.updated)
<1>2. /\ w \in Nat /\ n \in Nat /\ cap \in Nat /\ cap * w <= Pace!Burst * Pace!Grain
      /\ n * w <= Pace!Earned /\ Pace!Earned \in Nat /\ Pace!Burst * Pace!Grain \in Nat
  <2>1. bucket.rate \in Rates /\ n \in Nat
    BY <1>1 DEF Measured
  <2>2. w \in Nat
    BY <2>1, PaceWeightIs
  <2>3. n * w <= Pace!Earned /\ Pace!Earned \in Nat
    BY <2>1, PaceEarnedIs
  <2>4. cap \in Nat /\ cap * w <= Pace!Burst * Pace!Grain
    BY <2>1, PaceFullIs
  <2>5. Pace!Burst * Pace!Grain \in Nat
    BY PaceBurstIs, PaceGrainIs
  <2> QED
    BY <2>1, <2>2, <2>3, <2>4, <2>5
<1>3. gap \in Nat
  <2>1. wall \in Nat /\ bucket.updated \in Nat
    BY <1>1
  <2> QED
    BY <2>1, PaceGapIs
<1>4. ideal \in Nat
  BY <1>2 DEF PaceInv, PaceShapeInv, Pace!TypeOK
<1>5. lost = {} => \/ ideal >= Pace!Burst * Pace!Grain
                   \/ ideal >= bucket.credits * w + Pace!Earned * gap
  BY DEF PaceInv, PaceShapeInv, PaceCreditInv, PaceCovered, PaceWorth
<1> DEFINE c == Pace!Least(cap, bucket.credits + n * gap)
<1>6. /\ Pace!Refill(bucket).credits = c \/ (wall < bucket.updated /\ Pace!Refill(bucket) = bucket)
      /\ Pace!Refill(bucket) \in [rate : Rates, credits : Nat, updated : 0..(PaceTime + 1)]
      /\ Pace!Refill(bucket).rate = bucket.rate /\ wall <= Pace!Refill(bucket).updated
  <2>1. CASE wall < bucket.updated
    BY <1>1, <2>1 DEF Pace!Refill
  <2>2. CASE ~ (wall < bucket.updated)
    <3>1. gap = wall - bucket.updated /\ n * gap \in Nat
      BY <1>1, <1>2, <1>3, <2>2 DEF PaceGap
    <3>2. c \in Nat
      BY <1>1, <1>2, <3>1 DEF Pace!Least
    <3>3. Pace!Refill(bucket) = [bucket EXCEPT !.credits = c, !.updated = wall]
      BY <2>2, <3>1 DEF Pace!Refill
    <3> HIDE DEF c
    <3>4. Pace!Refill(bucket).credits = c /\ Pace!Refill(bucket).updated = wall
          /\ Pace!Refill(bucket).rate = bucket.rate
      BY <1>1, <3>3
    <3>5. Pace!Refill(bucket) \in [rate : Rates, credits : Nat, updated : 0..(PaceTime + 1)]
      BY <1>1, <3>2, <3>3
    <3> QED
      BY <1>1, <3>4, <3>5
  <2> QED
    BY <2>1, <2>2
<1> HIDE DEF gap, w, n, cap
<1>7. c \in 0..cap /\ c * w <= cap * w /\ c * w <= bucket.credits * w + Pace!Earned * gap
  <2>1. n * gap \in Nat /\ bucket.credits \in Nat
    BY <1>1, <1>2, <1>3
  <2>2. c \in 0..cap /\ c <= bucket.credits + n * gap
    BY <1>2, <2>1 DEF Pace!Least
  <2> HIDE DEF c
  <2>3. c * w <= cap * w
    BY <1>2, <2>2
  <2>4. c * w <= (bucket.credits + n * gap) * w
    BY <1>2, <2>1, <2>2
  <2>5. (n * gap) * w = (n * w) * gap /\ (n * w) * gap <= Pace!Earned * gap
    BY <1>2, <1>3
  <2>6. (bucket.credits + n * gap) * w = bucket.credits * w + (n * gap) * w
    BY <1>2, <2>1
  <2>7. (n * gap) * w \in Nat /\ Pace!Earned * gap \in Nat /\ bucket.credits * w \in Nat /\ c * w \in Nat
    BY <1>2, <1>3, <2>1, <2>2
  <2> QED
    BY <2>2, <2>3, <2>4, <2>5, <2>6, <2>7
<1> HIDE DEF c
<1>8. CASE Pace!Refill(bucket).credits = c
  <2>1. c * w \in Nat /\ cap * w \in Nat /\ Pace!Earned * gap \in Nat /\ bucket.credits * w \in Nat
    BY <1>1, <1>2, <1>3, <1>7
  <2>2. lost = {} => ideal >= c * w
    BY <1>2, <1>4, <1>5, <1>7, <2>1
  <2> QED
    BY <1>6, <1>7, <1>8, <2>2 DEF w, cap
<1>9. CASE wall < bucket.updated /\ Pace!Refill(bucket) = bucket
  <2>1. gap = 0 /\ Pace!Earned * gap = 0
    BY <1>1, <1>2, <1>9, PaceGapIs DEF gap
  <2>2. bucket.credits * w \in Nat /\ bucket.credits * w <= cap * w /\ cap * w \in Nat
    BY <1>1, <1>2 DEF cap
  <2>3. lost = {} => ideal >= bucket.credits * w
    BY <1>2, <1>4, <1>5, <2>1, <2>2
  <2> QED
    BY <1>1, <1>6, <1>9, <2>3 DEF w
<1> QED
  BY <1>6, <1>8, <1>9

LEMMA PaceAttemptStep ==
  ASSUME Measured, PaceInv, Pace!Attempt
  PROVE  PaceInv' /\ (Pace!Granted /\ lost = {} => ideal >= Pace!Grain)
<1> DEFINE b == Pace!Refill(bucket)
           inTime == elapsed < ask.deadline
           granted == inTime /\ b.credits >= b.rate.p
           wait == Pace!Ratio(b.rate.p - b.credits, b.rate.n)
           w == PaceWeight(b.rate.p)
           less == [b EXCEPT !.credits = @ - b.rate.p]
<1>1. /\ ask.at = "acquire" /\ bucket # NoBucket /\ UNCHANGED <<elapsed, wall, saved, source, lost>>
      /\ bucket' = CASE granted -> less
                     [] inTime /\ ~granted -> b
                     [] OTHER -> bucket
      /\ ask' = IF ~granted /\ inTime /\ elapsed + wait < ask.deadline
                THEN [ask EXCEPT !.until = elapsed + wait] ELSE Pace!Idle
      /\ ideal' = IF granted /\ ideal >= Pace!Grain THEN ideal - Pace!Grain ELSE ideal
  BY DEF Pace!Attempt
<1>2. source # "off"
  BY <1>1 DEF PaceInv, PaceShapeInv
<1>3. /\ b \in [rate : Rates, credits : Nat, updated : 0..(PaceTime + 1)]
      /\ b.rate = bucket.rate /\ b.credits \in 0..Pace!Capacity(b.rate)
      /\ wall <= b.updated
      /\ lost = {} => ideal >= b.credits * w
  BY <1>1, PaceRefillIs
<1> HIDE DEF b
<1>4. /\ b.rate \in Rates /\ b.credits \in Nat /\ b.updated \in 0..(PaceTime + 1)
      /\ Pace!Capacity(b.rate) \in Nat
  BY <1>3, PaceFullIs
<1>5. b.rate.n \in Nat \ {0} /\ b.rate.p \in Nat \ {0} /\ w \in Nat /\ w * b.rate.p = Pace!Grain
  BY <1>4, PaceWeightIs DEF Measured
<1> HIDE DEF w
<1>6. /\ Pace!Burst * Pace!Grain \in Nat /\ Pace!Grain \in Nat /\ Pace!Earned \in Nat /\ PaceTime \in Nat
      /\ elapsed \in Nat /\ wall \in Nat
  <2>1. Pace!Burst \in Nat /\ Pace!Grain \in Nat /\ Pace!Earned \in Nat
    BY PaceBurstIs, PaceGrainIs, PaceEarnedIs
  <2>2. Pace!Burst * Pace!Grain \in Nat
    BY <2>1
  <2>3. PaceTime \in Nat /\ elapsed \in Nat /\ wall \in Nat
    BY DEF PaceInv, PaceShapeInv, Pace!TypeOK, Measured
  <2> QED
    BY <2>1, <2>2, <2>3
<1>7. ideal \in 0..(Pace!Burst * Pace!Grain)
  BY DEF PaceInv, PaceShapeInv, Pace!TypeOK
<1>8. ask' \in [at : {"idle", "declare", "acquire"}, until : Int, deadline : Int]
  <2>1. CASE ~granted /\ inTime
    <3>1. b.rate.p - b.credits + b.rate.n - 1 \in Nat
      BY <1>4, <1>5, <2>1
    <3>2. wait \in Nat
      BY <1>5, <3>1, PaceDivideIs DEF Pace!Ratio
    <3> HIDE DEF wait
    <3>3. elapsed + wait \in Int
      BY <1>6, <3>2
    <3> QED
      BY <1>1, <3>3 DEF PaceInv, PaceShapeInv, Pace!Idle
  <2>2. CASE granted \/ ~inTime
    BY <1>1, <2>2 DEF Pace!Idle
  <2> QED
    BY <2>1, <2>2
<1> HIDE DEF wait
<1>9. CASE granted
  <2>1. bucket' = less
    BY <1>1, <1>9
  <2> DEFINE c == b.credits - b.rate.p
  <2>2. c \in Nat /\ c <= b.credits
    BY <1>4, <1>5, <1>9
  <2>3. less = [b EXCEPT !.credits = c]
    OBVIOUS
  <2> HIDE DEF c, less
  <2>4. /\ bucket'.rate = b.rate /\ bucket'.credits = c /\ bucket'.updated = b.updated
        /\ bucket' \in [rate : Rates, credits : Nat, updated : 0..(PaceTime + 1)]
    BY <1>3, <1>4, <2>1, <2>2, <2>3
  <2>5. bucket' # NoBucket /\ c \in 0..Pace!Capacity(b.rate)
    <3>1. bucket' \in [rate : Rates, credits : Nat, updated : Nat]
      BY <1>6, <2>4
    <3>2. b.credits <= Pace!Capacity(b.rate)
      BY <1>3, <1>4
    <3>3. c <= Pace!Capacity(b.rate)
      BY <1>4, <2>2, <3>2
    <3> QED
      BY <1>4, <2>2, <3>1, <3>3 DEF Measured
  <2>6. b.credits * w \in Nat /\ c * w \in Nat /\ b.credits * w = c * w + Pace!Grain
    <3>1. c * w \in Nat /\ b.credits * w \in Nat
      BY <1>4, <1>5, <2>2
    <3>2. b.credits = c + b.rate.p
      BY <1>4, <1>5 DEF c
    <3>3. (c + b.rate.p) * w = c * w + w * b.rate.p
      BY <1>5, <2>2
    <3> QED
      BY <1>5, <3>1, <3>2, <3>3
  <2>7. lost = {} => ideal >= Pace!Grain /\ ideal' >= c * w
    BY <1>1, <1>3, <1>6, <1>7, <1>9, <2>6
  <2>8. ideal' \in 0..(Pace!Burst * Pace!Grain)
    BY <1>1, <1>6, <1>7
  <2>9. PaceShapeInv'
    BY <1>1, <1>2, <1>8, <2>4, <2>5, <2>8 DEF PaceInv, PaceShapeInv, Pace!TypeOK
  <2>10. PaceWorth(bucket.credits, bucket.rate.p, bucket.updated)' = c * w
    <3>1. PaceGap(wall', b.updated) = 0
      BY <1>1, <1>3, <1>4, <1>6, PaceGapIs
    <3>2. PaceWorth(bucket.credits, bucket.rate.p, bucket.updated)' = c * w + Pace!Earned * 0
      BY <2>4, <3>1 DEF PaceWorth, w
    <3> QED
      BY <1>6, <2>6, <3>2
  <2>11. PaceCreditInv'
    BY <1>1, <1>2, <2>5, <2>7, <2>10 DEF PaceCreditInv, PaceCovered
  <2> QED
    BY <2>7, <2>9, <2>11 DEF PaceInv
<1>10. CASE inTime /\ ~granted
  <2>1. bucket' = b /\ ideal' = ideal
    BY <1>1, <1>10
  <2>2. bucket' # NoBucket
    <3>1. b \in [rate : Rates, credits : Nat, updated : Nat]
      BY <1>3, <1>6
    <3> QED
      BY <2>1, <3>1 DEF Measured
  <2>3. PaceShapeInv'
    BY <1>1, <1>2, <1>3, <1>8, <2>1, <2>2 DEF PaceInv, PaceShapeInv, Pace!TypeOK
  <2>4. PaceWorth(bucket.credits, bucket.rate.p, bucket.updated)' = b.credits * w
    <3>1. PaceGap(wall', b.updated) = 0
      BY <1>1, <1>3, <1>4, <1>6, PaceGapIs
    <3>2. PaceWorth(bucket.credits, bucket.rate.p, bucket.updated)' = b.credits * w + Pace!Earned * 0
      BY <2>1, <3>1 DEF PaceWorth, w
    <3>3. b.credits * w \in Nat
      BY <1>4, <1>5
    <3> QED
      BY <1>6, <3>2, <3>3
  <2>5. PaceCreditInv'
    BY <1>1, <1>2, <1>3, <2>1, <2>2, <2>4 DEF PaceCreditInv, PaceCovered
  <2>6. ~Pace!Granted
    BY <1>4, <2>1 DEF Pace!Granted, b
  <2> QED
    BY <2>3, <2>5, <2>6 DEF PaceInv
<1>11. CASE ~inTime
  <2>1. bucket' = bucket /\ ideal' = ideal
    BY <1>1, <1>11
  <2>2. PaceShapeInv'
    BY <1>1, <1>2, <1>8, <2>1 DEF PaceInv, PaceShapeInv, Pace!TypeOK
  <2>3. PaceCreditInv'
    BY <1>1, <2>1 DEF PaceInv, PaceCreditInv, PaceCovered, PaceWorth
  <2>4. ~Pace!Granted
    BY <1>11 DEF Pace!Granted
  <2> QED
    BY <2>2, <2>3, <2>4 DEF PaceInv
<1> QED
  BY <1>9, <1>10, <1>11

LEMMA PaceEndStep == ASSUME Measured, PaceInv, Pace!Save \/ Pace!Forget PROVE PaceInv'
<1>1. source # "off" /\ source' = "off" /\ bucket' = NoBucket /\ ask' = Pace!Idle
      /\ UNCHANGED <<elapsed, wall, ideal>>
  BY DEF Pace!Save, Pace!Forget, Pace!Ends
<1>2. Pace!Idle \in [at : {"idle", "declare", "acquire"}, until : Int, deadline : Int]
      /\ Pace!Idle.at = "idle"
  BY DEF Pace!Idle
<1>3. CASE Pace!Save /\ bucket # NoBucket
  <2>1. saved' = [credits |-> bucket.credits, period |-> bucket.rate.p, updated |-> bucket.updated]
        /\ lost' = lost
    BY <1>3 DEF Pace!Save
  <2>2. bucket \in [rate : Rates, credits : Nat, updated : 0..(PaceTime + 1)] /\ PaceTime \in Nat
    BY <1>3 DEF PaceInv, PaceShapeInv, Measured
  <2>3. /\ saved'.credits \in Nat /\ saved'.updated \in 0..(PaceTime + 1)
        /\ saved' \in [credits : Nat, period : {r.p : r \in Rates}, updated : Nat]
    BY <2>1, <2>2
  <2>4. saved' # NoBucket
    <3>1. saved' \in [credits : Nat, period : Nat \ {0}, updated : Nat]
      BY <2>1, <2>2 DEF Measured
    <3> QED
      BY <3>1 DEF Measured
  <2>5. PaceShapeInv'
    BY <1>1, <1>2, <2>1, <2>3 DEF PaceInv, PaceShapeInv, Pace!TypeOK
  <2>6. PaceCreditInv'
    BY <1>1, <2>1, <2>4 DEF PaceInv, PaceCreditInv, PaceCovered, PaceWorth
  <2> QED
    BY <2>5, <2>6 DEF PaceInv
<1>4. CASE Pace!Save /\ bucket = NoBucket
  <2>1. saved' = NoBucket /\ lost' = lost
    BY <1>4 DEF Pace!Save
  <2>2. lost # {}
    BY <1>1, <1>4 DEF PaceInv, PaceCreditInv
  <2>3. PaceShapeInv'
    BY <1>1, <1>2, <2>1 DEF PaceInv, PaceShapeInv, Pace!TypeOK
  <2> QED
    BY <2>1, <2>2, <2>3 DEF PaceInv, PaceCreditInv
<1>5. CASE Pace!Forget
  <2>1. lost' = lost \cup {"forgotten"} /\ saved' = saved
    BY <1>5 DEF Pace!Forget
  <2>2. PaceShapeInv'
    BY <1>1, <1>2, <2>1 DEF PaceInv, PaceShapeInv, Pace!TypeOK
  <2>3. lost' # {}
    BY <2>1
  <2> QED
    BY <2>2, <2>3 DEF PaceInv, PaceCreditInv
<1> QED
  BY <1>3, <1>4, <1>5

\* As time goes on the ideal bucket earns at least as much as any other, and a clock that
\* is set back earns nothing.
LEMMA PaceClockStep == ASSUME Measured, PaceInv, Pace!Tick \/ Pace!SetBack PROVE PaceInv'
<1>1. UNCHANGED <<saved, source, bucket, ask, lost>>
  BY DEF Pace!Tick, Pace!SetBack
<1>2. /\ Pace!Burst * Pace!Grain \in Nat /\ Pace!Earned \in Nat /\ PaceTime \in Nat /\ elapsed \in 0..PaceTime
      /\ wall \in 0..(PaceTime + 1) /\ wall <= elapsed + 1 /\ ideal \in 0..(Pace!Burst * Pace!Grain)
  <2>1. Pace!Burst \in Nat /\ Pace!Grain \in Nat /\ Pace!Earned \in Nat
    BY PaceBurstIs, PaceGrainIs, PaceEarnedIs
  <2>2. Pace!Burst * Pace!Grain \in Nat
    BY <2>1
  <2>3. /\ PaceTime \in Nat /\ elapsed \in 0..PaceTime /\ wall \in 0..(PaceTime + 1)
        /\ wall <= elapsed + 1 /\ ideal \in 0..(Pace!Burst * Pace!Grain)
    BY DEF Measured, PaceInv, PaceShapeInv, Pace!TypeOK
  <2> QED
    BY <2>1, <2>2, <2>3
<1>3. /\ elapsed' \in 0..PaceTime /\ wall' \in 0..(PaceTime + 1) /\ wall' <= elapsed' + 1
      /\ ideal' \in 0..(Pace!Burst * Pace!Grain) /\ (wall' < wall \/ wall' = wall + 1)
      /\ ideal' = IF wall' < wall THEN ideal ELSE Pace!Least(Pace!Burst * Pace!Grain, ideal + Pace!Earned)
  <2>1. CASE Pace!Tick
    BY <1>2, <2>1 DEF Pace!Tick, Pace!Least
  <2>2. CASE Pace!SetBack
    BY <1>2, <2>2 DEF Pace!SetBack
  <2> QED
    BY <2>1, <2>2
<1>4. PaceShapeInv'
  BY <1>1, <1>2, <1>3 DEF PaceInv, PaceShapeInv, Pace!TypeOK
<1>5. ASSUME NEW c \in Nat, NEW q \in Rates, NEW u \in Nat, PaceCovered(c, q.p, u)
      PROVE  ideal' >= Pace!Burst * Pace!Grain \/ ideal' >= c * PaceWeight(q.p) + Pace!Earned * PaceGap(wall', u)
  <2> DEFINE gap == PaceGap(wall, u)
             next == PaceGap(wall', u)
             x == c * PaceWeight(q.p)
  <2>1. x \in Nat
    <3>1. PaceWeight(q.p) \in Nat
      BY PaceWeightIs
    <3> QED
      BY <3>1
  <2>2. ideal >= Pace!Burst * Pace!Grain \/ ideal >= x + Pace!Earned * gap
    BY <1>5 DEF PaceCovered, PaceWorth
  <2>3. gap \in Nat /\ next \in Nat /\ next <= gap + 1 /\ (wall' < wall => next <= gap)
    <3>1. wall \in Nat /\ wall' \in Nat /\ wall' <= wall + 1
      BY <1>2, <1>3
    <3> QED
      BY <3>1, PaceGapIs, PaceGapGrows
  <2> HIDE DEF gap, next, x
  <2>4. Pace!Earned * gap \in Nat /\ Pace!Earned * next \in Nat /\ Pace!Earned * next <= Pace!Earned * gap + Pace!Earned
        /\ (wall' < wall => Pace!Earned * next <= Pace!Earned * gap)
    BY <1>2, <2>3
  <2>5. ideal' >= Pace!Burst * Pace!Grain \/ ideal' >= x + Pace!Earned * next
    BY <1>2, <1>3, <2>1, <2>2, <2>4 DEF Pace!Least
  <2> QED
    BY <2>5 DEF x, next
<1>6. PaceCreditInv'
  <2>1. ASSUME saved # NoBucket, PaceCovered(saved.credits, saved.period, saved.updated)
        PROVE  PaceCovered(saved.credits, saved.period, saved.updated)'
    <3>1. PICK q \in Rates : saved.period = q.p
      BY <2>1 DEF PaceInv, PaceShapeInv
    <3>2. saved.credits \in Nat /\ saved.updated \in Nat
      BY <2>1 DEF PaceInv, PaceShapeInv
    <3> QED
      BY <1>1, <1>5, <2>1, <3>1, <3>2 DEF PaceCovered, PaceWorth
  <2>2. ASSUME bucket # NoBucket, PaceCovered(bucket.credits, bucket.rate.p, bucket.updated)
        PROVE  PaceCovered(bucket.credits, bucket.rate.p, bucket.updated)'
    <3>1. bucket.rate \in Rates /\ bucket.credits \in Nat /\ bucket.updated \in Nat
      BY <1>2, <2>2 DEF PaceInv, PaceShapeInv
    <3> QED
      BY <1>1, <1>5, <2>2, <3>1 DEF PaceCovered, PaceWorth
  <2>3. ideal >= Pace!Burst * Pace!Grain => ideal' >= Pace!Burst * Pace!Grain
    BY <1>2, <1>3 DEF Pace!Least
  <2> QED
    BY <1>1, <2>1, <2>2, <2>3 DEF PaceInv, PaceCreditInv
<1> QED
  BY <1>4, <1>6 DEF PaceInv

LEMMA PaceNext ==
  ASSUME Measured, PaceInv, [Pace!Next]_(Pace!vars)
  PROVE  PaceInv' /\ [Pace!Granted /\ lost = {} => ideal >= Pace!Grain]_(Pace!vars)
<1>1. CASE Pace!Start
  BY <1>1, PaceStartStep DEF Pace!Start, Pace!Granted, Pace!Idle
<1>2. CASE Pace!Ask
  BY <1>2, PaceAskStep DEF Pace!Ask, Pace!Granted
<1>3. CASE Pace!Declare
  BY <1>3, PaceDeclareStep DEF Pace!Declare, Pace!Granted
<1>4. CASE Pace!Attempt
  BY <1>4, PaceAttemptStep
<1>5. CASE Pace!PassUnknown
  <2>1. PaceInv'
    <3>1. UNCHANGED <<elapsed, wall, saved, source, bucket, ideal, lost>> /\ ask' = Pace!Idle
      BY <1>5 DEF Pace!PassUnknown
    <3>2. PaceShapeInv'
      BY <3>1 DEF PaceInv, PaceShapeInv, Pace!TypeOK, Pace!Idle
    <3>3. PaceCreditInv'
      BY <3>1 DEF PaceInv, PaceCreditInv, PaceCovered, PaceWorth
    <3> QED
      BY <3>2, <3>3 DEF PaceInv
  <2> QED
    BY <1>5, <2>1 DEF Pace!PassUnknown, Pace!Granted
<1>6. CASE Pace!Save \/ Pace!Forget
  BY <1>6, PaceEndStep DEF Pace!Save, Pace!Forget, Pace!Ends, Pace!Granted
<1>7. CASE Pace!Tick \/ Pace!SetBack
  <2>1. ask' = ask
    BY <1>7 DEF Pace!Tick, Pace!SetBack
  <2> QED
    BY <1>7, <2>1, PaceClockStep DEF Pace!Granted, Pace!Idle
<1>8. CASE UNCHANGED Pace!vars
  <2>1. PaceShapeInv'
    BY <1>8 DEF Pace!vars, PaceInv, PaceShapeInv, Pace!TypeOK
  <2>2. PaceCreditInv'
    BY <1>8 DEF Pace!vars, PaceInv, PaceCreditInv, PaceCovered, PaceWorth
  <2> QED
    BY <1>8, <2>1, <2>2 DEF PaceInv
<1> QED
  BY <1>1, <1>2, <1>3, <1>4, <1>5, <1>6, <1>7, <1>8 DEF Pace!Next, Pace!Asking

-----------------------------------------------------------------------------
\* Each component takes its own steps only.

LEMMA ComponentsApart ==
  AllSpec => /\ Init /\ [][Next]_vars
             /\ Pace!Init /\ [][Pace!Next]_(Pace!vars)
             /\ Http!Init /\ [][Http!Next]_(Http!vars)
             /\ Serve!Init /\ [][Serve!Next]_(Serve!vars)
             /\ Guard!Init /\ [][Guard!Next]_(Guard!vars)
<1>1. AllInit => Init /\ Pace!Init /\ Http!Init /\ Serve!Init /\ Guard!Init
  BY DEF AllInit
<1>2. [AllNext]_all => /\ [Next]_vars /\ [Pace!Next]_(Pace!vars) /\ [Http!Next]_(Http!vars)
                       /\ [Serve!Next]_(Serve!vars) /\ [Guard!Next]_(Guard!vars)
  BY DEF AllNext, OfNumbers, OfPace, OfHttp, OfServe, OfGuard, Rest, all, pacing, fetching, serving,
     guarding, Pace!vars, Http!vars, Serve!vars, Guard!vars
<1> QED
  BY <1>1, <1>2, PTL DEF AllSpec

-----------------------------------------------------------------------------
\* The theorems.

\* Of the generations every variable keeps its type; in particular no number goes past
\* the last.
THEOREM TypeCorrect == Spec => []TypeOK
  BY Invariance, PTL DEF IInv, Spec, NumbersMove

\* On every disk that a power loss can leave the pointer selects a published generation,
\* what can come back has its bytes, and what still has staging has its manifest.
THEOREM Sound == Spec \/ AllSpec => []SelectionIsSound
<1>1. Spec => NumbersMove
  BY PTL DEF Spec, NumbersMove
<1>2. AllSpec => NumbersMove
  BY ComponentsApart, PTL DEF NumbersMove
<1> QED
  BY <1>1, <1>2, Invariance, PTL DEF IInv

\* No number is published twice, and only a power loss can part a generation from the
\* predecessors it names.
THEOREM Kept == Spec \/ AllSpec => LineageIsKept
<1>1. IInv /\ [Next]_vars => (pc = "raised" /\ pc' = "renamed" => target \notin used)
  BY DEF IInv, RunInv, Building
<1>2. IInv /\ [Next]_vars => (Lineage(place) => Lineage(place)' \/ PowerLoss)
  BY LineageStep
<1>3. Spec => NumbersMove
  BY PTL DEF Spec, NumbersMove
<1>4. AllSpec => NumbersMove
  BY ComponentsApart, PTL DEF NumbersMove
<1> QED
  BY <1>1, <1>2, <1>3, <1>4, Invariance, PTL
  DEF NumbersMove, LineageIsKept, NumbersAreNotReused, CommandsKeepLineage

\* Side by side every variable of every component keeps its type: no clock, attempt, wait,
\* byte, credit or identity goes past its bound.
THEOREM ComponentsTyped ==
  ASSUME Bounded, Measured, Serve!Hypothesis, CleanupEnd \in Nat
  PROVE  AllSpec => []TypesOK
<1>1. Http!Init => HttpInv /\ HttpBoundInv
  BY HttpInit, HttpBoundInit DEF Bounded
<1>2. HttpInv /\ HttpBoundInv /\ [Http!Next]_(Http!vars) => (HttpInv /\ HttpBoundInv)'
  BY HttpNext, HttpBoundNext DEF Bounded
<1>3. Pace!Init => PaceInv
  BY PaceInit
<1>4. PaceInv /\ [Pace!Next]_(Pace!vars) => PaceInv'
  BY PaceNext
<1>5. IInv /\ HttpInv /\ HttpBoundInv /\ PaceInv /\ Serve!IInv /\ GuardInv => TypesOK
  <2>1. HttpInv /\ HttpBoundInv => Http!TypeOK
    BY HttpTyped
  <2>2. Serve!IInv => Serve!TypeOK
    BY DEF Serve!IInv
  <2> QED
    BY <2>1, <2>2 DEF TypesOK, IInv, PaceInv, PaceShapeInv, GuardInv
<1> QED
  BY <1>1, <1>2, <1>3, <1>4, <1>5, ComponentsApart, Invariance, Serve!Invariance,
     GuardInvariance, PTL DEF NumbersMove, Serve!Moves, GuardMoves

\* Whatever hosts answer, and whatever redirects, retries and operations lie between, no
\* request leaves before its time, a host is refused unasked only for what it said itself,
\* and an operation succeeds within one deadline and one budget of bytes.
THEOREM LimitsAlwaysKept ==
  ASSUME Numbered
  PROVE  AllSpec => RequestsKeepLimits
<1>1. Http!Init => HttpInv
  BY HttpInit
<1>2. HttpInv /\ [Http!Next]_(Http!vars) => HttpInv'
  BY HttpNext
<1>3. HttpInv /\ [Http!Next]_(Http!vars) =>
        [op'.attempts > op.attempts => now >= notBefore /\ now >= told[op.host]]_(Http!vars)
  BY HttpNext DEF HttpSteps
<1>4. HttpInv /\ [Http!Next]_(Http!vars) =>
        [op'.stop = "ServerCooldown" /\ op'.at = "done" /\ op # op' => told[op'.host] > now]_(Http!vars)
  BY HttpNext DEF HttpSteps
<1>5. HttpInv /\ [Http!Next]_(Http!vars) =>
        [op.stop = "none" /\ op'.stop = "success" => now < op.end /\ received <= Limit]_(Http!vars)
  BY HttpNext DEF HttpSteps
<1> QED
  BY <1>1, <1>2, <1>3, <1>4, <1>5, ComponentsApart, PTL
  DEF RequestsKeepLimits, Http!NoEarlyRequest, Http!HealthyHostsAreServed, Http!SuccessIsWithinBudget

\* Whatever rates the commands declare, however their clocks are set, and whenever they
\* ask, refuse and wait: as long as each saves what it has, together they never take more
\* than one bucket of the most generous rate would give them.
THEOREM AlwaysPaced ==
  ASSUME Measured
  PROVE  AllSpec => RunsArePaced
<1>1. Pace!Init => PaceInv
  BY PaceInit
<1>2. PaceInv /\ [Pace!Next]_(Pace!vars) => PaceInv'
  BY PaceNext
<1>3. PaceInv /\ [Pace!Next]_(Pace!vars) =>
        [Pace!Granted /\ lost = {} => ideal >= Pace!Grain]_(Pace!vars)
  BY PaceNext
<1> QED
  BY <1>1, <1>2, <1>3, ComponentsApart, PTL DEF RunsArePaced, Pace!RunsArePaced

\* Whatever was created is on record, and a later command finds it (proved in
\* ServicesProofs of the component).
THEOREM NothingEverStranded ==
  ASSUME Serve!Hypothesis
  PROVE  AllSpec => []NothingIsStranded
<1>1. Serve!NothingIsStranded => NothingIsStranded
  BY DEF NothingIsStranded
<1> QED
  BY <1>1, ComponentsApart, Serve!StrandsNothing, PTL DEF Serve!Moves

\* Whatever exits, fails, is interrupted or cancelled, no signal goes to a group that is
\* not the child's, a clean end leaves nothing of it, and an exit once seen is reaped.
THEOREM SupervisionAlwaysClean ==
  ASSUME CleanupEnd \in Nat
  PROVE  AllSpec => []SupervisionIsClean
<1>1. GuardInv => Guard!SignalsOnlyItsOwn
  BY DEF GuardInv, GuardBeliefInv, Guard!SignalsOnlyItsOwn
<1>2. GuardInv => Guard!SeenExitIsReaped
  BY DEF GuardInv, GuardGroupInv, Guard!SeenExitIsReaped
<1>3. GuardInv => Guard!CleanEndLeavesNothing
  <2> SUFFICES ASSUME GuardInv, duty = "done", ~error
               PROVE  /\ leader = "gone" /\ reaped /\ kids \cap Guard!Grouped = {}
                      /\ reason # "panic" => kids = {}
    BY DEF Guard!CleanEndLeavesNothing
  <2>1. leader = "gone" /\ reaped /\ drained
    BY DEF GuardInv, Guard!TypeOK, GuardPipesInv
  <2>2. kids \cap Guard!Grouped = {}
    BY <2>1 DEF GuardInv, GuardPipesInv, GuardGroupInv
  <2>3. reason # "panic" => kids \subseteq {"silent"}
    BY <2>1 DEF GuardInv, GuardPipesInv
  <2> QED
    BY <2>1, <2>2, <2>3 DEF Guard!Grouped
<1>4. GuardInv => SupervisionIsClean
  BY <1>1, <1>2, <1>3 DEF SupervisionIsClean, Guard!SupervisionIsClean
<1> QED
  BY <1>4, ComponentsApart, GuardInvariance, PTL DEF GuardMoves
=============================================================================
