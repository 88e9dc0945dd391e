---------------------------- MODULE LedgerProofs ----------------------------
(* Proofs that IntentLedger keeps its inductive invariant, what follows    *)
(* from it, and that IntentLedger implements HookContract.                 *)
EXTENDS LedgerRefinement, LedgerInvariant, TLAPS, WellFoundedInduction

USE DEF At, Intents, home, plans, records, archive, memory, history, Goto

\* What does not depend on where the process is.
OnDisk == DiskInv /\ PlanInv /\ OutcomeInv /\ ReceiptInv /\ OwedInv

-----------------------------------------------------------------------------
(* Lemmas about the operators.                                             *)

\* The least number of a set of numbers.
LEMMA LeastNumber ==
  ASSUME NEW S, S \subseteq Nat, S # {}
  PROVE  \E i \in S : \A j \in S : i <= j
<1> DEFINE Less == {p \in Nat \X Nat : p[1] < p[2]}
<1>1. OpToRel(<, Nat) = Less
  BY DEF OpToRel
<1>2. IsWellFoundedOn(Less, Nat)
  BY <1>1, NatLessThanWellFounded
<1>3. PICK i \in S : \A j \in S : ~ (<<j, i>> \in Less)
  <2> HIDE DEF Less
  <2> QED
    BY <1>2, WFMin
<1>4. ASSUME NEW j \in S PROVE i <= j
  <2>1. i \in Nat /\ j \in Nat
    OBVIOUS
  <2>2. j < i => <<j, i>> \in Less
    BY <2>1
  <2>3. ~(j < i)
    BY <2>2, <1>3
  <2>4. QED
    BY <2>1, <2>3
<1>5. QED
  BY <1>4

\* A pointer to a batch is no legacy record, and names its batch.
LEMMA PointersDiffer ==
  ASSUME NEW t \in Instance
  PROVE  /\ At(t) \in Current /\ At(t) \notin Legacy /\ At(t) # NoPointer
         /\ \A u \in Instance : At(t) = At(u) => t = u
<1>1. At(t) \in Current
  BY DEF Current
<1>2. ASSUME At(t) \in Legacy PROVE FALSE
  <2>1. DOMAIN At(t) = {"instance"}
    OBVIOUS
  <2>2. "count" \in DOMAIN At(t)
    BY <1>2 DEF Legacy
  <2>3. QED
    BY <2>1, <2>2
<1>3. ASSUME NEW u \in Instance, At(t) = At(u) PROVE t = u
  <2>1. At(t).instance = t /\ At(u).instance = u
    OBVIOUS
  <2>2. QED
    BY <2>1, <1>3
<1>4. QED
  BY <1>1, <1>2, <1>3, SentinelAssumption

\* Records are typed.
LEMMA Typed ==
  ASSUME TypeOK
  PROVE  /\ issued \in Nat /\ selected \in Nat /\ batch \in Nat
         /\ \A t \in Instance : t \in Nat /\ t # 0
         /\ \A t \in Instance : plan[t] # NoPlan =>
              plan[t] \in Plan /\ Intents(t) \subseteq Ordinal /\ Intents(t) \subseteq Nat
BY BoundsAssumption DEF TypeOK, Plan, Ordinal, Instance, Selection

\* A batch that is pointed at on every disk has a plan on every disk.
LEMMA PointedAt ==
  ASSUME TypeOK, DiskInv, PlanInv, batch # 0, pointerDisk = {At(batch)}
  PROVE  /\ batch \in Instance /\ pointer = At(batch) /\ pointer # NoPointer
         /\ plan[batch] # NoPlan /\ NoPlan \notin planDisk[batch]
         /\ plan[batch] \in Plan /\ Intents(batch) \subseteq Ordinal /\ Intents(batch) \subseteq Nat
         /\ Unsettled = {i \in Intents(batch) : ~Terminal(states[i])}
<1>1. batch \in Instance
  BY BoundsAssumption DEF TypeOK, Selection, Instance
<1>2. NoPlan \notin planDisk[batch] /\ plan[batch] # NoPlan
  BY <1>1 DEF PlanInv, DiskInv
<1>3. pointer = At(batch)
  BY DEF DiskInv
<1>4. QED
  BY <1>1, <1>2, <1>3, PointersDiffer, Typed DEF Unsettled

\* The loops reach an unsettled intent as long as there is one.
LEMMA CursorIsUnsettled ==
  ASSUME IInv, pc \in Settling, Unsettled # {}
  PROVE  /\ Cursor \in Unsettled /\ Cursor \in Intents(batch) /\ Cursor \in Ordinal
         /\ ~Terminal(states[Cursor])
<1>1. Unsettled \subseteq Nat /\ Unsettled \subseteq Intents(batch) /\ Intents(batch) \subseteq Ordinal
  BY PointedAt DEF IInv, CommandInv
<1>2. \E i \in Unsettled : \A j \in Unsettled : i <= j
  BY <1>1, LeastNumber
<1>3. Cursor \in Unsettled
  BY <1>2 DEF Cursor
<1>4. QED
  BY <1>1, <1>3 DEF Unsettled

-----------------------------------------------------------------------------
(* The initial state, and the steps that leave every disk alone.           *)

LEMMA InitTyped == Fresh \in Outcome /\ Pending \in States /\ ~Executed(Fresh) /\ 0 \in Selection
BY BoundsAssumption DEF Fresh, Pending, Outcome, States, Executed, Selection

LEMMA InitInv == Init => IInv
<1> SUFFICES ASSUME Init PROVE IInv
  OBVIOUS
<1> USE DEF Init
<1>0. Fresh \in Outcome /\ Pending \in States /\ ~Executed(Fresh) /\ 0 \in Selection
  BY InitTyped
<1>1. TypeOK
  <2>1. \A t \in Instance, i \in Ordinal : {Fresh} \in SUBSET Outcome
    BY <1>0
  <2>2. pointer \in Pointer /\ pc \in PC
    BY DEF Pointer, PC
  <2>3. QED
    BY <1>0, <2>1, <2>2 DEF TypeOK
<1>2. DiskInv
  BY DEF DiskInv, Pending
<1>3. SelectionInv
  BY DEF SelectionInv
<1>8. PlanInv
  <2>1. \A t \in Instance : At(t) \notin pointerDisk
    BY PointersDiffer
  <2>2. QED
    BY <2>1 DEF PlanInv, Untouched
<1>4. OutcomeInv /\ ReceiptInv
  BY <1>0 DEF OutcomeInv, ReceiptInv, Pending
<1>5. OwedInv
  BY DEF OwedInv
<1>6. CommandInv /\ MemoryInv
  BY DEF CommandInv, MemoryInv, Creating, Settling, Running
<1>7. QED
  BY <1>1, <1>2, <1>3, <1>4, <1>5, <1>6, <1>8 DEF IInv

LEMMA CursorKept ==
  ASSUME UNCHANGED <<plan, batch, states>>
  PROVE  Unsettled' = Unsettled /\ Cursor' = Cursor
BY DEF Unsettled, Cursor

LEMMA DiskKept ==
  ASSUME OnDisk, UNCHANGED <<home, issued, plans, records, archive, history>>
  PROVE  OnDisk'
BY DEF OnDisk, DiskInv, PlanInv, OutcomeInv, ReceiptInv, OwedInv, Untouched, AllExecuted

\* A command that ends leaves what the disks say.
LEMMA HaltKeeps ==
  ASSUME IInv, UNCHANGED <<home, journal, issued, plans, records, archive, history>>,
         Forget, pc' \in {"idle", "reconcile"}
  PROVE  IInv'
<1>1. OnDisk'
  BY DiskKept DEF IInv, OnDisk
<1>2. TypeOK'
  BY InitTyped DEF IInv, TypeOK, Forget, PC
<1>3. SelectionInv'
  BY DEF IInv, SelectionInv
<1>4. CommandInv' /\ MemoryInv'
  BY DEF CommandInv, MemoryInv, Forget, Creating, Settling, Running
<1>5. QED
  BY <1>1, <1>2, <1>3, <1>4 DEF IInv, OnDisk

LEMMA StopStep == ASSUME IInv, Fail \/ ProcessDeath PROVE IInv'
<1>1. pc' \in {"idle", "reconcile"}
  BY DEF Fail, ProcessDeath
<1>2. QED
  BY <1>1, HaltKeeps DEF Fail, ProcessDeath

LEMMA LockStep == ASSUME IInv, Lock PROVE IInv'
<1> USE DEF Lock
<1>1. OnDisk'
  BY DiskKept DEF IInv, OnDisk
<1>2. TypeOK'
  BY DEF IInv, TypeOK, PC
<1>3. SelectionInv'
  BY DEF IInv, SelectionInv
<1>4. CommandInv'
  BY DEF IInv, CommandInv, Creating, Settling, Running
<1>5. MemoryInv'
  BY DEF IInv, MemoryInv, Settling, Publishing
<1>6. QED
  BY <1>1, <1>2, <1>3, <1>4, <1>5 DEF IInv, OnDisk

LEMMA QuitStep == ASSUME IInv, Quit PROVE IInv'
<1> USE DEF Quit
<1>1. OnDisk'
  BY DiskKept DEF IInv, OnDisk
<1>2. TypeOK'
  BY DEF IInv, TypeOK, PC
<1>3. SelectionInv'
  BY DEF IInv, SelectionInv
<1>4. CommandInv'
  BY DEF IInv, CommandInv, Creating, Settling, Running
<1>5. MemoryInv'
  BY DEF IInv, MemoryInv, Settling, Publishing
<1>6. QED
  BY <1>1, <1>2, <1>3, <1>4, <1>5 DEF IInv, OnDisk

LEMMA EndRunStep == ASSUME IInv, EndRun PROVE IInv'
<1> USE DEF EndRun
<1>1. OnDisk'
  BY DiskKept DEF IInv, OnDisk
<1>2. TypeOK'
  BY DEF IInv, TypeOK, PC
<1>3. SelectionInv'
  BY DEF IInv, SelectionInv
<1>4. CommandInv'
  BY DEF IInv, CommandInv, Creating, Settling, Running
<1>5. MemoryInv'
  BY DEF IInv, MemoryInv, Settling, Publishing
<1>6. QED
  BY <1>1, <1>2, <1>3, <1>4, <1>5 DEF IInv, OnDisk

LEMMA AllSettledStep == ASSUME IInv, AllSettled PROVE IInv'
<1> USE DEF AllSettled
<1>1. OnDisk'
  BY DiskKept DEF IInv, OnDisk
<1>2. TypeOK'
  BY DEF IInv, TypeOK, PC
<1>3. SelectionInv'
  BY DEF IInv, SelectionInv
<1>4. CommandInv'
  BY DEF IInv, CommandInv, Creating, Settling, Running
<1>5. MemoryInv'
  BY CursorKept DEF IInv, MemoryInv, Settling, Publishing
<1>6. QED
  BY <1>1, <1>2, <1>3, <1>4, <1>5 DEF IInv, OnDisk

LEMMA CommitRunStep == ASSUME IInv, CommitRun PROVE IInv'
<1> USE DEF CommitRun
<1>1. OnDisk'
  BY DiskKept DEF IInv, OnDisk
<1>2. TypeOK'
  BY DEF IInv, TypeOK, PC
<1>3. SelectionInv'
  BY DEF IInv, SelectionInv
<1>4. CommandInv'
  BY DEF IInv, CommandInv, Creating, Settling, Running
<1>5. CASE batch = 0
  <2>1. MemoryInv'
    BY <1>5 DEF MemoryInv, Settling
  <2>2. QED
    BY <1>1, <1>2, <1>3, <1>4, <2>1 DEF IInv, OnDisk
<1>6. CASE batch # 0
  <2>1. Untouched(batch) /\ states = Pending /\ ~archived /\ Intents(batch) \subseteq Ordinal
    BY <1>6, PointedAt DEF IInv, CommandInv
  <2>2. \A i \in Intents(batch) : outcomeDisk[batch][i] = {states[i]}
    BY <2>1 DEF Untouched, Pending
  <2>3. MemoryInv'
    BY <1>6, <2>1, <2>2 DEF MemoryInv, Publishing, Untouched
  <2>4. QED
    BY <1>1, <1>2, <1>3, <1>4, <2>3 DEF IInv, OnDisk
<1>7. QED
  BY <1>5, <1>6

LEMMA BeginStep == ASSUME IInv, Begin PROVE IInv'
<1> USE DEF Begin
<1>0. /\ issued \in Nat /\ issued' = issued + 1 /\ issued' \in Instance /\ issued' \in Selection
      /\ selected \in Nat /\ \A x \in selectedDisk \cup committed : x \in Nat /\ x <= issued
      /\ \A t \in Instance : t \in Nat
  BY BoundsAssumption DEF IInv, TypeOK, Selection, Instance, SelectionInv
<1>1. OnDisk'
  <2>1. PlanInv'
    <3> SUFFICES ASSUME NEW t \in Instance
                 PROVE  /\ planDisk[t] \subseteq {NoPlan, plan[t]}
                        /\ plan[t] # NoPlan => t <= issued'
                        /\ NoPlan \in planDisk[t] =>
                             Untouched(t) /\ At(t) \notin pointerDisk /\ \A l \in launched : l[1] # t
      BY DEF PlanInv, Untouched
    <3>1. plan[t] # NoPlan => t <= issued
      BY DEF IInv, PlanInv
    <3>2. QED
      BY <1>0, <3>1 DEF IInv, PlanInv
  <2>2. DiskInv' /\ OutcomeInv' /\ ReceiptInv' /\ OwedInv'
    BY DEF IInv, DiskInv, OutcomeInv, ReceiptInv, OwedInv, AllExecuted
  <2>3. QED
    BY <2>1, <2>2 DEF OnDisk
<1>2. TypeOK'
  BY <1>0 DEF IInv, TypeOK, PC
<1>3. SelectionInv'
  BY <1>0 DEF IInv, SelectionInv
<1>4. CommandInv'
  <2>1. plan[issued'] = NoPlan
    <3>1. plan[issued'] # NoPlan => issued' <= issued
      BY <1>0 DEF IInv, PlanInv
    <3>2. QED
      BY <1>0, <3>1
  <2>3. issued' # 0 /\ issued' \notin committed \cup selectedDisk
    BY <1>0
  <2>2. QED
    BY <2>1, <2>3 DEF IInv, CommandInv, Creating, Settling, Running
<1>5. MemoryInv'
  BY DEF MemoryInv, Settling
<1>6. QED
  BY <1>1, <1>2, <1>3, <1>4, <1>5 DEF IInv, OnDisk

LEMMA LaunchStep == ASSUME IInv, Launch PROVE IInv'
<1> USE DEF Launch
<1>0. /\ batch \in Instance /\ NoPlan \notin planDisk[batch] /\ Cursor \in Ordinal
      /\ Cursor \in Intents(batch) /\ states[Cursor] \in Outcome
      /\ outcomeDisk[batch][Cursor] = {states[Cursor]} /\ states[Cursor].attempt > 0
      /\ ~Terminal(states[Cursor])
  <2>1. pc \in Settling /\ Unsettled # {}
    BY DEF IInv, MemoryInv, Settling, Publishing
  <2>2. Cursor \in Intents(batch) /\ Cursor \in Ordinal /\ ~Terminal(states[Cursor])
    BY <2>1, CursorIsUnsettled
  <2>3. QED
    BY <2>1, <2>2, PointedAt DEF IInv, CommandInv, MemoryInv, Settling, Publishing, TypeOK, States
<1>1. OnDisk'
  <2>1. PlanInv'
    <3> SUFFICES ASSUME NEW t \in Instance, NoPlan \in planDisk[t], NEW l \in launched'
                 PROVE  l[1] # t
      BY DEF IInv, PlanInv, Untouched
    <3>1. t # batch
      BY <1>0
    <3>2. \A k \in launched : k[1] # t
      BY DEF IInv, PlanInv
    <3>3. l \in launched \/ l[1] = batch
      OBVIOUS
    <3>4. QED
      BY <3>1, <3>2, <3>3
  <2>2. OutcomeInv'
    <3> SUFFICES ASSUME NEW t \in Instance, NEW i \in Ordinal, NEW o \in outcomeDisk[t][i]
                 PROVE  /\ \A l \in launched' : l[1] = t /\ l[2] = i => l[3] <= o.attempt
                        /\ Executed(o) => <<t, i, o.attempt>> \in launched'
      BY DEF IInv, OutcomeInv
    <3>1. \A l \in launched : l[1] = t /\ l[2] = i => l[3] <= o.attempt
      BY DEF IInv, OutcomeInv
    <3>2. t = batch /\ i = Cursor => states[Cursor].attempt <= o.attempt
      BY <1>0, BoundsAssumption DEF Outcome
    <3>3. Executed(o) => <<t, i, o.attempt>> \in launched
      BY DEF IInv, OutcomeInv
    <3>4. QED
      BY <3>1, <3>2, <3>3
  <2>3. DiskInv' /\ ReceiptInv' /\ OwedInv'
    BY DEF IInv, DiskInv, ReceiptInv, OwedInv, AllExecuted
  <2>4. QED
    BY <2>1, <2>2, <2>3 DEF OnDisk
<1>2. TypeOK'
  <2>1. states[Cursor].attempt \in 1..MaxAttempt
    BY <1>0, BoundsAssumption DEF Outcome
  <2>2. QED
    BY <1>0, <2>1 DEF IInv, TypeOK, PC
<1>3. SelectionInv'
  BY DEF IInv, SelectionInv
<1>4. CommandInv'
  BY DEF IInv, CommandInv, Creating, Settling, Running
<1>5. MemoryInv'
  BY CursorKept DEF IInv, MemoryInv, Settling, Publishing
<1>6. QED
  BY <1>1, <1>2, <1>3, <1>4, <1>5 DEF IInv, OnDisk

-----------------------------------------------------------------------------
(* Reconciliation, and what a command resumes.                             *)

\* A barrier on the home directory leaves a part of what was possible.
LEMMA HomeSynced ==
  ASSUME IInv, SyncHome, UNCHANGED <<issued, plans, records, archive, launched>>
  PROVE  /\ OnDisk' /\ SelectionInv'
         /\ selected' \in Selection /\ selectedDisk' \in SUBSET Selection
         /\ pointer' \in Pointer /\ pointerDisk' \in SUBSET Pointer
         /\ committed' \in SUBSET Selection
         /\ selectedDisk' = {selected'} /\ pointerDisk' = {pointer'} /\ UNCHANGED <<selected, pointer>>
         /\ committed' \cup selectedDisk' \subseteq committed \cup selectedDisk
<1> USE DEF SyncHome
<1>1. /\ selectedDisk' = {selected'} /\ selected' \in committed'
      /\ pointerDisk' = {pointer'} /\ pointerDisk' \subseteq pointerDisk
      /\ committed' \cup selectedDisk' \subseteq committed \cup selectedDisk
  BY DEF IInv, DiskInv
<1>2. \A x \in committed' \cup selectedDisk' : x <= issued'
  BY <1>1 DEF IInv, SelectionInv
<1>3. DiskInv'
  BY DEF IInv, DiskInv
<1>4. PlanInv'
  BY <1>1 DEF IInv, PlanInv, Untouched
<1>5. \A t \in Instance : pointerDisk = {At(t)} => pointerDisk' = {At(t)}
  BY <1>1 DEF IInv, DiskInv
<1>6. OutcomeInv'
  BY <1>5 DEF IInv, OutcomeInv
<1>7. ReceiptInv'
  BY DEF IInv, ReceiptInv
<1>8. OwedInv'
  <2> SUFFICES ASSUME NEW t \in (committed' \cup selectedDisk') \ {0}, plan[t] # NoPlan
               PROVE  /\ plan[t].selection = t /\ NoPlan \notin planDisk[t]
                      /\ \A i \in Intents(t) : \A o \in outcomeDisk[t][i] : o.state # "Superseded"
                      /\ \/ AllExecuted(t)
                         \/ pointerDisk' = {At(t)} /\ selected' = t /\ selectedDisk' = {t}
    BY DEF OwedInv, AllExecuted
  <2>1. t \in (committed \cup selectedDisk) \ {0} /\ t \in Instance
    BY <1>1, BoundsAssumption DEF IInv, TypeOK, Selection, Instance
  <2>2. QED
    BY <2>1, <1>1, <1>5 DEF IInv, OwedInv
<1>9. SelectionInv'
  BY <1>1, <1>2 DEF SelectionInv
<1>10. /\ selected' \in Selection /\ selectedDisk' \in SUBSET Selection
       /\ pointer' \in Pointer /\ pointerDisk' \in SUBSET Pointer
       /\ committed' \in SUBSET Selection
  BY DEF IInv, TypeOK
<1>11. OnDisk'
  BY <1>3, <1>4, <1>6, <1>7, <1>8 DEF OnDisk
<1>12. QED
  BY <1>1, <1>9, <1>10, <1>11

LEMMA ReconcileStep == ASSUME IInv, Reconcile PROVE IInv'
<1> USE DEF Reconcile
<1>1. CASE journal /\ selected = issued
  <2>1. OnDisk' /\ SelectionInv'
    BY <1>1, HomeSynced
  <2>2. TypeOK'
    BY <1>1, HomeSynced DEF IInv, TypeOK, PC
  <2>3. CommandInv'
    BY DEF IInv, CommandInv, Creating, Settling, Running, TypeOK
  <2>4. MemoryInv'
    BY DEF MemoryInv, Settling
  <2>5. QED
    BY <2>1, <2>2, <2>3, <2>4 DEF IInv, OnDisk
<1>2. CASE ~(journal /\ selected = issued)
  <2>1. OnDisk'
    BY <1>2, DiskKept DEF IInv, OnDisk
  <2>2. SelectionInv'
    BY <1>2 DEF IInv, SelectionInv
  <2>3. TypeOK'
    BY <1>2 DEF IInv, TypeOK, PC
  <2>4. CommandInv'
    BY <1>2 DEF IInv, CommandInv, Creating, Settling, Running, TypeOK
  <2>5. MemoryInv'
    BY DEF MemoryInv, Settling
  <2>6. QED
    BY <2>1, <2>2, <2>3, <2>4, <2>5 DEF IInv, OnDisk
<1>3. QED
  BY <1>1, <1>2

LEMMA LoadPointerStep == ASSUME IInv, LoadPointer PROVE IInv'
<1> USE DEF LoadPointer
<1>1. CASE pointer = NoPointer /\ pc' = "ready" /\ UNCHANGED <<home, batch, committed>>
  <2>1. OnDisk'
    BY <1>1, DiskKept DEF IInv, OnDisk
  <2>2. SelectionInv'
    BY <1>1 DEF IInv, SelectionInv
  <2>3. TypeOK'
    BY <1>1 DEF IInv, TypeOK, PC
  <2>4. CommandInv'
    BY <1>1 DEF IInv, CommandInv, Creating, Settling, Running
  <2>5. MemoryInv'
    BY <1>1 DEF MemoryInv, Settling
  <2>6. QED
    BY <2>1, <2>2, <2>3, <2>4, <2>5 DEF IInv, OnDisk
<1>2. CASE pointer \in Current /\ pc' = "open" /\ batch' = pointer.instance /\ SyncHome
  <2>1. PICK t \in Instance : pointer = At(t)
    BY <1>2 DEF Current
  <2>2. batch' = t /\ batch' \in Selection /\ batch' # 0
    BY <1>2, <2>1, BoundsAssumption DEF Instance, Selection
  <2>3. TypeOK'
    BY <1>2, <2>2, HomeSynced DEF IInv, TypeOK, PC
  <2>4. CommandInv'
    BY <1>2, <2>1, <2>2, HomeSynced DEF IInv, CommandInv, Creating, Settling, Running
  <2>5. MemoryInv'
    BY <1>2 DEF MemoryInv, Settling
  <2>6. QED
    BY <1>2, <2>3, <2>4, <2>5, HomeSynced DEF IInv, OnDisk
<1>3. CASE pointer \in Legacy /\ pc' = "migrate" /\ SyncHome /\ UNCHANGED batch
  <2>1. TypeOK'
    BY <1>3, HomeSynced DEF IInv, TypeOK, PC
  <2>2. CommandInv'
    BY <1>3, HomeSynced DEF IInv, CommandInv, Creating, Settling, Running
  <2>3. MemoryInv'
    BY <1>3 DEF MemoryInv, Settling
  <2>4. QED
    BY <1>3, <2>1, <2>2, <2>3, HomeSynced DEF IInv, OnDisk
<1>4. QED
  BY <1>1, <1>2, <1>3

\* A barrier on records leaves some of what was possible, what is shown among it.
LEMMA RecordsSynced ==
  ASSUME IInv, UNCHANGED <<home, issued, plans, outcome, receipt, history>>,
         \A t \in Instance, i \in Ordinal :
           outcome[t][i] \in outcomeDisk'[t][i] /\ outcomeDisk'[t][i] \subseteq outcomeDisk[t][i],
         \A t \in Instance :
           receipt[t] \in receiptDisk'[t] /\ receiptDisk'[t] \subseteq receiptDisk[t]
  PROVE  OnDisk'
<1>1. ASSUME NEW t \in Instance, NEW i \in Ordinal, NEW x, outcomeDisk[t][i] = {x}
      PROVE  outcomeDisk'[t][i] = {x}
  <2>1. outcome[t][i] \in outcomeDisk'[t][i] /\ outcomeDisk'[t][i] \subseteq outcomeDisk[t][i]
    OBVIOUS
  <2>2. QED
    BY <2>1, <1>1
<1>2. DiskInv'
  BY DEF IInv, DiskInv
<1>3. PlanInv'
  <2> SUFFICES ASSUME NEW t \in Instance, Untouched(t) PROVE Untouched(t)'
    BY DEF IInv, PlanInv
  <2>1. \A i \in Ordinal : outcomeDisk'[t][i] = {Fresh}
    BY <1>1 DEF Untouched
  <2>2. receiptDisk'[t] = {NoReceipt}
    BY DEF Untouched
  <2>3. QED
    BY <2>1, <2>2 DEF Untouched
<1>4. OutcomeInv'
  <2> SUFFICES ASSUME NEW t \in Instance, NEW i \in Ordinal
               PROVE  /\ \A o \in outcomeDisk'[t][i] :
                           /\ \A l \in launched : l[1] = t /\ l[2] = i => l[3] <= o.attempt
                           /\ Executed(o) => <<t, i, o.attempt>> \in launched
                      /\ outcomeDisk'[t][i] # {outcome[t][i]} =>
                           /\ pointerDisk = {At(t)} /\ i \in Intents(t)
                           /\ \A j \in Ordinal : outcomeDisk'[t][j] # {outcome[t][j]} => j = i
    BY DEF OutcomeInv
  <2>1. \A j \in Ordinal : outcomeDisk'[t][j] # {outcome[t][j]} => outcomeDisk[t][j] # {outcome[t][j]}
    BY <1>1
  <2>2. outcomeDisk'[t][i] \subseteq outcomeDisk[t][i]
    OBVIOUS
  <2>3. \A o \in outcomeDisk'[t][i] :
           /\ \A l \in launched : l[1] = t /\ l[2] = i => l[3] <= o.attempt
           /\ Executed(o) => <<t, i, o.attempt>> \in launched
    BY <2>2 DEF IInv, OutcomeInv
  <2>4. ASSUME outcomeDisk'[t][i] # {outcome[t][i]}
        PROVE  /\ pointerDisk = {At(t)} /\ i \in Intents(t)
               /\ \A j \in Ordinal : outcomeDisk'[t][j] # {outcome[t][j]} => j = i
    <3>1. outcomeDisk[t][i] # {outcome[t][i]}
      BY <2>1, <2>4
    <3>2. /\ pointerDisk = {At(t)} /\ i \in Intents(t)
          /\ \A j \in Ordinal : outcomeDisk[t][j] # {outcome[t][j]} => j = i
      BY <3>1 DEF IInv, OutcomeInv
    <3>3. QED
      BY <3>2, <2>1
  <2>5. QED
    BY <2>3, <2>4
<1>5. ReceiptInv'
  <2> SUFFICES ASSUME NEW t \in Instance, NEW r \in receiptDisk[t] \ {NoReceipt}, NEW i \in Intents(t)
               PROVE  Terminal(r[i]) /\ outcomeDisk'[t][i] = {r[i]}
    BY DEF ReceiptInv
  <2>1. Terminal(r[i]) /\ outcomeDisk[t][i] = {r[i]}
    BY DEF IInv, ReceiptInv
  <2>2. plan[t] # NoPlan
    <3>1. NoPlan \in planDisk[t] => receiptDisk[t] = {NoReceipt}
      BY DEF IInv, PlanInv, Untouched
    <3>2. QED
      BY <3>1 DEF IInv, DiskInv
  <2>3. i \in Ordinal
    BY <2>2, Typed DEF IInv
  <2>4. QED
    BY <2>1, <2>3, <1>1
<1>6. OwedInv'
  <2> SUFFICES ASSUME NEW t \in (committed \cup selectedDisk) \ {0}, plan[t] # NoPlan
               PROVE  /\ \A i \in Intents(t) : \A o \in outcomeDisk'[t][i] : o.state # "Superseded"
                      /\ AllExecuted(t) => AllExecuted(t)'
    BY DEF IInv, OwedInv
  <2>1. t \in Instance /\ Intents(t) \subseteq Ordinal
    BY Typed, BoundsAssumption DEF IInv, TypeOK, Selection, Instance
  <2>2. \A i \in Intents(t) : outcomeDisk'[t][i] \subseteq outcomeDisk[t][i]
    BY <2>1
  <2>3. QED
    BY <2>2 DEF IInv, OwedInv, AllExecuted
<1>7. QED
  BY <1>2, <1>3, <1>4, <1>5, <1>6 DEF OnDisk

\* The barrier of a batch's outcomes.
LEMMA OutcomesSynced ==
  ASSUME IInv, batch \in Instance,
         outcomeDisk' = [outcomeDisk EXCEPT ![batch] = [i \in Ordinal |-> {outcome[batch][i]}]]
  PROVE  /\ outcomeDisk' \in [Instance -> [Ordinal -> SUBSET Outcome]]
         /\ \A t \in Instance, i \in Ordinal :
              /\ outcome[t][i] \in outcomeDisk'[t][i] /\ outcomeDisk'[t][i] \subseteq outcomeDisk[t][i]
              /\ t # batch => outcomeDisk'[t][i] = outcomeDisk[t][i]
              /\ t = batch => outcomeDisk'[t][i] = {outcome[t][i]}
BY DEF IInv, TypeOK, DiskInv, States

LEMMA OpenBatchStep == ASSUME IInv, OpenBatch PROVE IInv'
<1> USE DEF OpenBatch
<1>0. /\ batch \in Instance /\ batch # 0 /\ pointerDisk = {At(batch)} /\ Intents(batch) \subseteq Ordinal
      /\ receipt[batch] \in receiptDisk[batch] /\ outcome[batch] \in States
      /\ receipt[batch] \in States \cup {NoReceipt}
  BY PointedAt DEF IInv, CommandInv, TypeOK, DiskInv
<1>1. SelectionInv'
  BY DEF IInv, SelectionInv
<1>2. CommandInv'
  BY DEF IInv, CommandInv, Creating, Settling, Running
<1>3. receiptDisk' \in [Instance -> SUBSET (States \cup {NoReceipt})]
  BY <1>0 DEF IInv, TypeOK
<1>4. \A t \in Instance : receiptDisk'[t] \subseteq receiptDisk[t] /\ receipt[t] \in receiptDisk'[t]
  BY <1>0 DEF IInv, TypeOK, DiskInv
<1>5. CASE receipt[batch] # NoReceipt
  <2>1. receipt[batch] \in States /\ states' \in States
    BY <1>0, <1>5
  <2>2. TypeOK'
    BY <1>3, <1>5, <2>1 DEF IInv, TypeOK, PC
  <2>3. OnDisk'
    BY <1>4, <1>5, RecordsSynced DEF IInv, DiskInv
  <2>4. \A i \in Intents(batch) : Terminal(receipt[batch][i]) /\ outcomeDisk[batch][i] = {receipt[batch][i]}
    BY <1>0, <1>5 DEF IInv, ReceiptInv
  <2>5. MemoryInv'
    BY <2>4, <1>5 DEF MemoryInv, Publishing
  <2>6. QED
    BY <1>1, <1>2, <2>2, <2>3, <2>5 DEF IInv, OnDisk
<1>6. CASE receipt[batch] = NoReceipt
  <2>1. TypeOK'
    BY <1>0, <1>3, <1>6, OutcomesSynced DEF IInv, TypeOK, PC
  <2>2. OnDisk'
    BY <1>0, <1>4, <1>6, OutcomesSynced, RecordsSynced
  <2>3. \A i \in Intents(batch) : outcomeDisk'[batch][i] = {states'[i]}
    BY <1>0, <1>6, OutcomesSynced
  <2>4. receiptDisk'[batch] = {NoReceipt}
    BY <1>0, <1>6 DEF IInv, TypeOK
  <2>5. MemoryInv'
    BY <1>6, <2>3, <2>4 DEF MemoryInv, Publishing
  <2>6. QED
    BY <1>1, <1>2, <2>1, <2>2, <2>5 DEF IInv, OnDisk
<1>7. QED
  BY <1>5, <1>6

-----------------------------------------------------------------------------
(* A batch is created.                                                     *)

\* A plan is written under an identity that nothing was recorded of.
LEMMA PlanCreated ==
  ASSUME IInv, NEW t \in Instance, NEW p \in Plan, CreatePlan(t, p),
         t \notin committed \cup selectedDisk, t <= issued', issued <= issued', issued' \in Nat,
         UNCHANGED <<home, records, archive, history>>
  PROVE  /\ OnDisk' /\ plan' \in [Instance -> Plan \cup {NoPlan}]
         /\ planDisk' \in [Instance -> SUBSET (Plan \cup {NoPlan})]
         /\ plan'[t] = p /\ plan'[t] # NoPlan
         /\ Untouched(t)' /\ At(t) \notin pointerDisk'
<1> USE DEF CreatePlan
<1>1. /\ plan' \in [Instance -> Plan \cup {NoPlan}]
      /\ planDisk' \in [Instance -> SUBSET (Plan \cup {NoPlan})]
      /\ plan'[t] = p /\ p # NoPlan /\ planDisk'[t] = planDisk[t] \cup {p}
      /\ \A u \in Instance : u # t => plan'[u] = plan[u] /\ planDisk'[u] = planDisk[u]
  BY SentinelAssumption DEF IInv, TypeOK
<1>2. /\ planDisk[t] = {NoPlan} /\ Untouched(t) /\ At(t) \notin pointerDisk
      /\ \A l \in launched : l[1] # t
  BY DEF IInv, PlanInv, DiskInv
<1>3. Untouched(t)' /\ At(t) \notin pointerDisk'
  BY <1>2 DEF Untouched
<1>4. DiskInv'
  BY <1>1 DEF IInv, DiskInv
<1>5. PlanInv'
  <2> SUFFICES ASSUME NEW u \in Instance
               PROVE  /\ planDisk'[u] \subseteq {NoPlan, plan'[u]}
                      /\ plan'[u] # NoPlan => u <= issued'
                      /\ NoPlan \in planDisk'[u] =>
                           Untouched(u) /\ At(u) \notin pointerDisk /\ \A l \in launched : l[1] # u
    BY DEF PlanInv, Untouched
  <2>1. CASE u = t
    BY <2>1, <1>1, <1>2
  <2>2. CASE u # t
    <3>1. plan[u] # NoPlan => u <= issued
      BY DEF IInv, PlanInv
    <3>2. u \in Nat /\ issued \in Nat
      BY Typed DEF IInv
    <3>3. plan'[u] # NoPlan => u <= issued'
      BY <2>2, <3>1, <3>2, <1>1
    <3>4. QED
      BY <2>2, <1>1, <3>3 DEF IInv, PlanInv
  <2>3. QED
    BY <2>1, <2>2
<1>6. OutcomeInv'
  <2> SUFFICES ASSUME NEW u \in Instance, NEW i \in Ordinal, outcomeDisk[u][i] # {outcome[u][i]}
               PROVE  plan'[u] = plan[u]
    BY DEF IInv, OutcomeInv
  <2>1. u # t
    BY <1>2 DEF Untouched, IInv, DiskInv
  <2>2. QED
    BY <2>1, <1>1
<1>7. ReceiptInv'
  <2> SUFFICES ASSUME NEW u \in Instance, receiptDisk[u] # {NoReceipt} PROVE plan'[u] = plan[u]
    BY DEF IInv, ReceiptInv
  <2>1. QED
    BY <1>1, <1>2 DEF Untouched
<1>8. OwedInv'
  <2> SUFFICES ASSUME NEW u \in (committed \cup selectedDisk) \ {0}
               PROVE  plan'[u] = plan[u] /\ planDisk'[u] = planDisk[u]
    BY DEF IInv, OwedInv, AllExecuted
  <2>1. u \in Instance
    BY BoundsAssumption DEF IInv, TypeOK, Selection, Instance
  <2>2. QED
    BY <2>1, <1>1
<1>9. QED
  BY <1>1, <1>3, <1>4, <1>5, <1>6, <1>7, <1>8 DEF OnDisk

LEMMA MigrateStep == ASSUME IInv, Migrate PROVE IInv'
<1> USE DEF Migrate
<1>0. /\ issued' \in Instance /\ issued' \in Selection /\ issued \in Nat /\ issued' = issued + 1 /\ issued' # 0
      /\ \A x \in selectedDisk \cup committed : x \in Nat /\ x <= issued
  BY BoundsAssumption DEF IInv, TypeOK, Selection, Instance, SelectionInv
<1>1. issued' \notin committed \cup selectedDisk
  BY <1>0
<1>2. pointer \in Legacy /\ pointer \in Plan
  BY BoundsAssumption DEF IInv, CommandInv, Legacy, Plan, Selection
<1> PICK t \in Instance : t = issued'
  BY <1>0
<1>3. /\ OnDisk' /\ plan' \in [Instance -> Plan \cup {NoPlan}]
      /\ planDisk' \in [Instance -> SUBSET (Plan \cup {NoPlan})]
      /\ plan'[t] # NoPlan /\ Untouched(t)' /\ At(t) \notin pointerDisk'
      /\ batch' = t /\ pc' = "planned"
  <2>1. t <= issued' /\ issued <= issued' /\ issued' \in Nat
    BY <1>0
  <2>2. t \notin committed \cup selectedDisk /\ CreatePlan(t, pointer)
    BY <1>1
  <2>3. QED
    BY <1>2, <2>1, <2>2, PlanCreated DEF CreatePlan
<1>4. TypeOK'
  BY <1>0, <1>3 DEF IInv, TypeOK, PC
<1>5. SelectionInv'
  BY <1>0 DEF IInv, SelectionInv
<1>6. pointer \notin Current
  BY <1>2, PointersDiffer DEF Current
<1>7. CommandInv'
  <2>1. Untouched(batch)' /\ plan'[batch'] # NoPlan /\ At(batch') \notin pointerDisk'
    BY <1>3 DEF Untouched
  <2>2. QED
    BY <1>0, <1>1, <1>3, <1>6, <2>1 DEF IInv, CommandInv, Creating, Settling, Running
<1>8. MemoryInv'
  BY <1>3 DEF MemoryInv, Settling
<1>9. QED
  BY <1>3, <1>4, <1>5, <1>7, <1>8 DEF IInv, OnDisk

LEMMA PrepareStep == ASSUME IInv, NEW n \in Ordinal, Prepare(n) PROVE IInv'
<1> USE DEF Prepare
<1>0. issued \in Instance /\ issued \in Selection /\ issued \in Nat /\ issued # 0
  BY BoundsAssumption DEF IInv, CommandInv, TypeOK, Selection, Instance
<1>1. issued \notin committed \cup selectedDisk /\ pointer = NoPointer
  BY DEF IInv, CommandInv
<1>2. [selection |-> issued, count |-> n] \in Plan
  BY <1>0, BoundsAssumption DEF Plan, Ordinal
<1>3. /\ OnDisk' /\ plan' \in [Instance -> Plan \cup {NoPlan}]
      /\ planDisk' \in [Instance -> SUBSET (Plan \cup {NoPlan})]
      /\ plan'[issued] = [selection |-> issued, count |-> n] /\ plan'[issued] # NoPlan
      /\ Untouched(issued)' /\ At(issued) \notin pointerDisk' /\ batch' = issued /\ pc' = "planned"
  <2>1. issued <= issued' /\ issued' \in Nat
    BY <1>0
  <2>2. QED
    BY <1>0, <1>1, <1>2, <2>1, PlanCreated DEF CreatePlan
<1>4. TypeOK'
  BY <1>0, <1>3 DEF IInv, TypeOK, PC
<1>5. SelectionInv'
  BY <1>3 DEF IInv, SelectionInv
<1>6. pointer \notin Current
  BY <1>1, SentinelAssumption
<1>7. CommandInv'
  BY <1>0, <1>1, <1>3, <1>6 DEF IInv, CommandInv, Creating, Settling, Running
<1>8. MemoryInv'
  BY <1>3 DEF MemoryInv, Settling
<1>9. QED
  BY <1>3, <1>4, <1>5, <1>7, <1>8 DEF IInv, OnDisk

LEMMA SyncPlanStep == ASSUME IInv, SyncPlan PROVE IInv'
<1> USE DEF SyncPlan
<1>1. \A t \in Instance : planDisk'[t] = {plan[t]} /\ (NoPlan \in planDisk'[t] => NoPlan \in planDisk[t])
  BY DEF IInv, DiskInv
<1>2. PlanInv'
  BY <1>1 DEF IInv, PlanInv, Untouched
<1>3. OwedInv'
  <2> SUFFICES ASSUME NEW t \in (committed \cup selectedDisk) \ {0}, NoPlan \notin planDisk[t]
               PROVE  NoPlan \notin planDisk'[t]
    BY DEF IInv, OwedInv, AllExecuted
  <2>1. t \in Instance
    BY BoundsAssumption DEF IInv, TypeOK, Selection, Instance
  <2>2. QED
    BY <2>1, <1>1
<1>4. DiskInv' /\ OutcomeInv' /\ ReceiptInv'
  BY <1>1 DEF IInv, DiskInv, OutcomeInv, ReceiptInv
<1>5. TypeOK'
  BY DEF IInv, TypeOK, PC
<1>6. SelectionInv'
  BY DEF IInv, SelectionInv
<1>7. CommandInv'
  <2>1. pc = "planned" => batch \in Instance /\ plan[batch] # NoPlan
    BY BoundsAssumption DEF IInv, CommandInv, Creating, TypeOK, Selection, Instance
  <2>2. NoPlan \notin planDisk'[batch]
    BY <2>1, <1>1
  <2>3. QED
    BY <2>2 DEF IInv, CommandInv, Creating, Settling, Running, Untouched
<1>8. MemoryInv'
  BY DEF MemoryInv, Settling
<1>9. QED
  BY <1>2, <1>3, <1>4, <1>5, <1>6, <1>7, <1>8 DEF IInv

LEMMA PublishPointerStep == ASSUME IInv, PublishPointer PROVE IInv'
<1> USE DEF PublishPointer
<1>0. /\ batch \in Instance /\ NoPlan \notin planDisk[batch] /\ pointer \notin Current
      /\ pointer \in pointerDisk /\ At(batch) \in Current /\ pointer' = At(batch)
      /\ pointerDisk' = pointerDisk \cup {At(batch)}
  <2>1. batch \in Instance
    BY BoundsAssumption DEF IInv, CommandInv, Creating, TypeOK, Selection, Instance
  <2>2. At(batch) \in Current
    BY <2>1, PointersDiffer
  <2>3. NoPlan \notin planDisk[batch] /\ pointer \notin Current /\ pointer \in pointerDisk
    BY DEF IInv, CommandInv, DiskInv
  <2>4. QED
    BY <2>1, <2>2, <2>3
<1>1. ASSUME NEW t \in Instance, pointerDisk = {At(t)} PROVE FALSE
  <2>1. At(t) \in Current
    BY PointersDiffer
  <2>2. QED
    BY <2>1, <1>0, <1>1
<1>2. PlanInv'
  <2> SUFFICES ASSUME NEW t \in Instance, NoPlan \in planDisk[t] PROVE At(t) \notin pointerDisk'
    BY DEF IInv, PlanInv, Untouched
  <2>1. t # batch /\ At(t) \notin pointerDisk
    BY <1>0 DEF IInv, PlanInv
  <2>2. QED
    BY <2>1, <1>0, PointersDiffer
<1>3. OutcomeInv'
  BY <1>1 DEF IInv, OutcomeInv
<1>4. OwedInv'
  <2> SUFFICES ASSUME NEW t \in (committed \cup selectedDisk) \ {0}, plan[t] # NoPlan PROVE AllExecuted(t)
    BY DEF IInv, OwedInv, AllExecuted
  <2>1. t \in Instance
    BY BoundsAssumption DEF IInv, TypeOK, Selection, Instance
  <2>2. QED
    BY <2>1, <1>1 DEF IInv, OwedInv
<1>5. DiskInv' /\ ReceiptInv'
  BY <1>0 DEF IInv, DiskInv, ReceiptInv
<1>6. TypeOK'
  BY <1>0 DEF IInv, TypeOK, PC, Pointer
<1>7. SelectionInv'
  BY DEF IInv, SelectionInv
<1>8. CommandInv'
  BY <1>0 DEF IInv, CommandInv, Creating, Settling, Running, Untouched
<1>9. MemoryInv'
  BY DEF MemoryInv, Settling
<1>10. QED
  BY <1>2, <1>3, <1>4, <1>5, <1>6, <1>7, <1>8, <1>9 DEF IInv

LEMMA SyncPointerStep == ASSUME IInv, SyncPointer PROVE IInv'
<1> USE DEF SyncPointer
<1>0. /\ OnDisk' /\ SelectionInv'
      /\ pointer' = At(batch) /\ pointerDisk' = {At(batch)} /\ batch # 0 /\ plan[batch] # NoPlan
      /\ Untouched(batch) /\ batch = issued
      /\ committed' \cup selectedDisk' \subseteq committed \cup selectedDisk
  BY HomeSynced DEF IInv, CommandInv, Creating
<1>1. TypeOK'
  BY HomeSynced, InitTyped DEF IInv, TypeOK, PC
<1>2. CommandInv'
  BY <1>0 DEF IInv, CommandInv, Creating, Settling, Running, Untouched, TypeOK
<1>3. MemoryInv'
  <2>1. batch \in Instance /\ Intents(batch) \subseteq Ordinal
    BY <1>0, Typed, BoundsAssumption DEF IInv, TypeOK, Selection, Instance
  <2>2. \A i \in Intents(batch) : outcomeDisk[batch][i] = {Pending[i]}
    BY <1>0, <2>1 DEF Untouched, Pending
  <2>3. QED
    BY <1>0, <2>2 DEF MemoryInv, Settling, Publishing, Untouched
<1>4. QED
  BY <1>0, <1>1, <1>2, <1>3 DEF IInv, OnDisk

LEMMA AuthorizeStep == ASSUME IInv, Authorize PROVE IInv'
<1> USE DEF Authorize
<1>1. CASE selected # plan[batch].selection /\ pc' = "supersede" /\ UNCHANGED <<home, committed>>
  <2>1. OnDisk'
    BY <1>1, DiskKept DEF IInv, OnDisk
  <2>2. TypeOK'
    BY <1>1 DEF IInv, TypeOK, PC
  <2>3. SelectionInv'
    BY <1>1 DEF IInv, SelectionInv
  <2>4. CommandInv'
    BY <1>1 DEF IInv, CommandInv, Creating, Settling, Running
  <2>5. MemoryInv'
    BY <1>1, CursorKept DEF IInv, MemoryInv, Settling, Publishing
  <2>6. QED
    BY <2>1, <2>2, <2>3, <2>4, <2>5 DEF IInv, OnDisk
<1>2. CASE selected = plan[batch].selection /\ pc' = "replay" /\ SyncHome
  <2>1. OnDisk' /\ SelectionInv'
    BY <1>2, HomeSynced
  <2>2. TypeOK'
    BY <1>2, HomeSynced DEF IInv, TypeOK, PC
  <2>3. CommandInv'
    BY <1>2, PointedAt, HomeSynced DEF IInv, CommandInv, Creating, Settling, Running
  <2>4. MemoryInv'
    BY <1>2, CursorKept, HomeSynced DEF IInv, MemoryInv, Settling, Publishing
  <2>5. QED
    BY <2>1, <2>2, <2>3, <2>4 DEF IInv, OnDisk
<1>3. QED
  BY <1>1, <1>2

-----------------------------------------------------------------------------
(* The run.                                                                *)

LEMMA FlipStep == ASSUME IInv, Flip PROVE IInv'
<1> USE DEF Flip
<1>0. /\ issued \in Instance /\ issued \in Selection /\ issued \in Nat /\ issued # 0
      /\ issued \notin committed \cup selectedDisk /\ journal /\ purpose = "run"
      /\ selected' = issued /\ selectedDisk' = selectedDisk \cup {issued}
  BY BoundsAssumption DEF IInv, CommandInv, Running, TypeOK, Selection, Instance
<1>1. \A t \in Instance \ {issued} : pointerDisk # {At(t)}
  <2>1. CASE pc = "run"
    BY <2>1, PointersDiffer DEF IInv, CommandInv, DiskInv
  <2>2. CASE pc = "prepared"
    BY <1>0, <2>2, PointersDiffer DEF IInv, CommandInv, DiskInv
  <2>3. QED
    BY <2>1, <2>2
<1>2. OwedInv'
  <2> SUFFICES ASSUME NEW t \in (committed \cup selectedDisk \cup {issued}) \ {0}, plan[t] # NoPlan
               PROVE  /\ plan[t].selection = t /\ NoPlan \notin planDisk[t]
                      /\ \A i \in Intents(t) : \A o \in outcomeDisk[t][i] : o.state # "Superseded"
                      /\ AllExecuted(t) \/ (pointerDisk = {At(t)} /\ t = issued)
    BY <1>0 DEF OwedInv, AllExecuted
  <2>1. t \in Instance
    BY <1>0, BoundsAssumption DEF IInv, TypeOK, Selection, Instance
  <2>2. CASE t = issued
    <3>1. pc = "prepared" /\ batch = issued /\ pointerDisk = {At(issued)} /\ Untouched(issued)
          /\ plan[issued].selection = issued
      BY <1>0, <2>2 DEF IInv, CommandInv
    <3>2. NoPlan \notin planDisk[issued] /\ Intents(issued) \subseteq Ordinal
      BY <1>0, <3>1, PointedAt DEF IInv
    <3>3. \A i \in Intents(t) : \A o \in outcomeDisk[t][i] : o.state # "Superseded"
      BY <2>2, <3>1, <3>2 DEF Untouched, Fresh
    <3>4. QED
      BY <2>2, <3>1, <3>2, <3>3
  <2>3. CASE t # issued
    <3>1. t \in (committed \cup selectedDisk) \ {0} /\ pointerDisk # {At(t)}
      BY <1>1, <2>1, <2>3
    <3>2. OwedInv
      BY DEF IInv
    <3>3. /\ plan[t].selection = t /\ NoPlan \notin planDisk[t]
          /\ \A i \in Intents(t) : \A o \in outcomeDisk[t][i] : o.state # "Superseded"
          /\ AllExecuted(t) \/ pointerDisk = {At(t)}
      BY <3>1, <3>2 DEF OwedInv
    <3>4. QED
      BY <3>1, <3>3
  <2>4. QED
    BY <2>2, <2>3
<1>3. DiskInv' /\ PlanInv' /\ OutcomeInv' /\ ReceiptInv'
  BY DEF IInv, DiskInv, PlanInv, OutcomeInv, ReceiptInv, Untouched
<1>4. TypeOK'
  BY <1>0 DEF IInv, TypeOK, PC
<1>5. SelectionInv'
  <2>1. \A x \in selectedDisk' \cup committed : x <= issued
    BY <1>0 DEF IInv, SelectionInv
  <2>2. selectedDisk' # {selected'}
    <3>1. selected \in selectedDisk
      BY DEF IInv, DiskInv
    <3>2. QED
      BY <1>0, <3>1
  <2>3. QED
    BY <1>0, <2>1, <2>2 DEF SelectionInv
<1>6. CommandInv'
  BY <1>0 DEF IInv, CommandInv, Creating, Settling, Running, Untouched
<1>7. MemoryInv'
  BY DEF MemoryInv, Settling
<1>8. QED
  BY <1>2, <1>3, <1>4, <1>5, <1>6, <1>7 DEF IInv

LEMMA SyncFlipStep == ASSUME IInv, SyncFlip PROVE IInv'
<1> USE DEF SyncFlip
<1>1. OnDisk' /\ SelectionInv' /\ pointerDisk' = {pointer'} /\ UNCHANGED <<selected, pointer>>
  BY HomeSynced
<1>2. TypeOK'
  BY HomeSynced DEF IInv, TypeOK, PC
<1>3. CommandInv'
  BY <1>1 DEF IInv, CommandInv, Creating, Settling, Running, Untouched, DiskInv
<1>4. MemoryInv'
  BY DEF MemoryInv, Settling
<1>5. QED
  BY <1>1, <1>2, <1>3, <1>4 DEF IInv, OnDisk

-----------------------------------------------------------------------------
(* The batch is settled, and cleared.                                      *)

\* An outcome record is replaced: by a later attempt, or by the result of a launched
\* one, and it is superseded only where the selection is no longer the plan's.
LEMMA Published ==
  ASSUME IInv, pc \in Settling \ Publishing, Unsettled # {}, NEW next \in Outcome, Publish(next),
         next.attempt >= states[Cursor].attempt,
         Executed(next) => <<batch, Cursor, next.attempt>> \in launched,
         next.state = "Superseded" => selected # plan[batch].selection,
         UNCHANGED <<home, issued, plans, archive, history>>
  PROVE  /\ OnDisk' /\ outcome' \in [Instance -> States]
         /\ outcomeDisk' \in [Instance -> [Ordinal -> SUBSET Outcome]]
         /\ outcome'[batch][Cursor] = next /\ outcomeDisk'[batch][Cursor] = {states[Cursor], next}
         /\ \A i \in Ordinal \ {Cursor} : outcomeDisk'[batch][i] = outcomeDisk[batch][i]
<1> USE DEF Publish
<1>0. /\ batch \in Instance /\ batch # 0 /\ pointerDisk = {At(batch)} /\ plan[batch] # NoPlan
      /\ NoPlan \notin planDisk[batch] /\ Intents(batch) \subseteq Ordinal
  BY PointedAt DEF IInv, CommandInv
<1>1. Cursor \in Intents(batch) /\ Cursor \in Ordinal /\ ~Terminal(states[Cursor])
  BY CursorIsUnsettled
<1>2. outcomeDisk[batch][Cursor] = {states[Cursor]} /\ states[Cursor] \in Outcome
  BY <1>1 DEF IInv, MemoryInv, TypeOK, States
<1>3. /\ outcome' \in [Instance -> States] /\ outcomeDisk' \in [Instance -> [Ordinal -> SUBSET Outcome]]
      /\ outcome'[batch][Cursor] = next /\ outcomeDisk'[batch][Cursor] = {states[Cursor], next}
      /\ \A t \in Instance, i \in Ordinal : t # batch \/ i # Cursor =>
           outcome'[t][i] = outcome[t][i] /\ outcomeDisk'[t][i] = outcomeDisk[t][i]
  BY <1>0, <1>1, <1>2 DEF IInv, TypeOK, States
<1>4. \A t \in Instance, i \in Ordinal : outcomeDisk[t][i] = {outcome[t][i]}
  <2> SUFFICES ASSUME NEW t \in Instance, NEW i \in Ordinal, outcomeDisk[t][i] # {outcome[t][i]}
               PROVE  FALSE
    OBVIOUS
  <2>1. pointerDisk = {At(t)} /\ i \in Intents(t) /\ outcome[t][i] \in outcomeDisk[t][i]
    BY DEF IInv, OutcomeInv, DiskInv
  <2>2. t = batch
    BY <1>0, <2>1, PointersDiffer
  <2>3. outcomeDisk[t][i] = {states[i]}
    BY <2>1, <2>2 DEF IInv, MemoryInv
  <2>4. QED
    BY <2>1, <2>3
<1>5. DiskInv'
  BY <1>3 DEF IInv, DiskInv
<1>6. PlanInv'
  <2> SUFFICES ASSUME NEW t \in Instance, NoPlan \in planDisk[t], Untouched(t) PROVE Untouched(t)'
    BY DEF IInv, PlanInv
  <2>1. t # batch
    BY <1>0
  <2>2. QED
    BY <1>3, <2>1 DEF Untouched
<1>7. OutcomeInv'
  <2> SUFFICES ASSUME NEW t \in Instance, NEW i \in Ordinal
               PROVE  /\ \A o \in outcomeDisk'[t][i] :
                           /\ \A l \in launched : l[1] = t /\ l[2] = i => l[3] <= o.attempt
                           /\ Executed(o) => <<t, i, o.attempt>> \in launched
                      /\ outcomeDisk'[t][i] # {outcome'[t][i]} =>
                           /\ pointerDisk = {At(t)} /\ i \in Intents(t)
                           /\ \A j \in Ordinal : outcomeDisk'[t][j] # {outcome'[t][j]} => j = i
    BY DEF OutcomeInv
  <2>1. \A o \in outcomeDisk[t][i] :
           /\ \A l \in launched : l[1] = t /\ l[2] = i => l[3] <= o.attempt
           /\ Executed(o) => <<t, i, o.attempt>> \in launched
    BY DEF IInv, OutcomeInv
  <2>2. ASSUME NEW j \in Ordinal, outcomeDisk'[t][j] # {outcome'[t][j]} PROVE t = batch /\ j = Cursor
    BY <2>2, <1>3, <1>4
  <2>3. CASE t = batch /\ i = Cursor
    <3>1. \A l \in launched : l[1] = t /\ l[2] = i => l[3] <= next.attempt
      <4> SUFFICES ASSUME NEW l \in launched, l[1] = t, l[2] = i PROVE l[3] <= next.attempt
        OBVIOUS
      <4>1. l[3] <= states[Cursor].attempt
        BY <2>1, <2>3, <1>2
      <4>2. l[3] \in Nat /\ states[Cursor].attempt \in Nat /\ next.attempt \in Nat
        BY <1>2, BoundsAssumption DEF IInv, TypeOK, Outcome
      <4>3. QED
        BY <4>1, <4>2
    <3>2. QED
      BY <1>0, <1>1, <1>3, <2>1, <2>2, <2>3, <3>1
  <2>4. CASE ~(t = batch /\ i = Cursor)
    BY <1>3, <2>1, <2>2, <2>4
  <2>5. QED
    BY <2>3, <2>4
<1>8. ReceiptInv'
  <2> SUFFICES ASSUME NEW t \in Instance, NEW r \in receiptDisk[t] \ {NoReceipt}, NEW i \in Intents(t)
               PROVE  outcomeDisk'[t][i] = outcomeDisk[t][i]
    BY DEF IInv, ReceiptInv
  <2>1. plan[t] # NoPlan
    <3>1. NoPlan \in planDisk[t] => receiptDisk[t] = {NoReceipt}
      BY DEF IInv, PlanInv, Untouched
    <3>2. QED
      BY <3>1 DEF IInv, DiskInv
  <2>2. i \in Ordinal
    BY <2>1, Typed DEF IInv
  <2>3. t # batch \/ i # Cursor
    <3>1. Terminal(r[i]) /\ outcomeDisk[t][i] = {r[i]}
      BY DEF IInv, ReceiptInv
    <3>2. QED
      BY <1>1, <1>2, <3>1
  <2>4. QED
    BY <1>3, <2>2, <2>3
<1>9. OwedInv'
  <2> SUFFICES ASSUME NEW t \in (committed \cup selectedDisk) \ {0}, plan[t] # NoPlan
               PROVE  /\ \A i \in Intents(t) : \A o \in outcomeDisk'[t][i] : o.state # "Superseded"
                      /\ AllExecuted(t) => AllExecuted(t)'
    BY DEF IInv, OwedInv
  <2>1. t \in Instance /\ Intents(t) \subseteq Ordinal
    BY Typed, BoundsAssumption DEF IInv, TypeOK, Selection, Instance
  <2>2. CASE t # batch
    BY <1>3, <2>1, <2>2 DEF IInv, OwedInv, AllExecuted
  <2>3. CASE t = batch
    <3>1. ~AllExecuted(t)
      BY <1>1, <1>2, <2>3 DEF AllExecuted, Executed, Terminal
    <3>2. selected = plan[batch].selection
      BY <2>3, <3>1 DEF IInv, OwedInv
    <3>3. \A i \in Intents(t) : \A o \in outcomeDisk[t][i] : o.state # "Superseded"
      BY DEF IInv, OwedInv
    <3>4. \A i \in Intents(t) : \A o \in outcomeDisk'[t][i] : o \in outcomeDisk[t][i] \/ o = next
      BY <1>2, <1>3, <2>1, <2>3
    <3>5. QED
      BY <3>1, <3>2, <3>3, <3>4
  <2>4. QED
    BY <2>2, <2>3
<1>10. QED
  BY <1>0, <1>3, <1>5, <1>6, <1>7, <1>8, <1>9 DEF OnDisk

\* The state of a batch whose first unsettled intent has an outcome to be published.
LEMMA AtCursor ==
  ASSUME IInv, pc \in Settling, Unsettled # {}
  PROVE  /\ batch \in Instance /\ Intents(batch) \subseteq Ordinal
         /\ Cursor \in Intents(batch) /\ Cursor \in Ordinal /\ ~Terminal(states[Cursor])
         /\ states[Cursor] \in Outcome /\ states[Cursor].attempt \in Nat
         /\ ~archived
         /\ pc \notin {"archiving", "clear"} => receiptDisk[batch] = {NoReceipt}
<1>1. batch \in Instance /\ Intents(batch) \subseteq Ordinal
  BY PointedAt DEF IInv, CommandInv
<1>2. Cursor \in Intents(batch) /\ Cursor \in Ordinal /\ ~Terminal(states[Cursor])
  BY CursorIsUnsettled
<1>3. ~archived
  BY <1>2 DEF IInv, MemoryInv
<1>4. states[Cursor] \in Outcome /\ states[Cursor].attempt \in Nat
  BY <1>2, BoundsAssumption DEF IInv, TypeOK, States, Outcome
<1>5. QED
  BY <1>1, <1>2, <1>3, <1>4 DEF IInv, MemoryInv

LEMMA SupersedeNextStep == ASSUME IInv, SupersedeNext PROVE IInv'
<1> USE DEF SupersedeNext
<1> DEFINE next == Supersede(states[Cursor])
<1>0. pc \in Settling \ Publishing /\ pc \in Settling
  BY DEF Settling, Publishing
<1>1. /\ next \in Outcome /\ next.state = "Superseded" /\ next.attempt = states[Cursor].attempt
  BY <1>0, AtCursor DEF Supersede, Outcome
<1>2. selected # plan[batch].selection
  BY DEF IInv, MemoryInv, Settling
<1>3. Publish(next) /\ next.attempt >= states[Cursor].attempt /\ ~Executed(next)
  BY <1>0, <1>1, AtCursor DEF Executed
<1> HIDE DEF next
<1>4. /\ OnDisk' /\ outcome' \in [Instance -> States]
      /\ outcomeDisk' \in [Instance -> [Ordinal -> SUBSET Outcome]]
      /\ outcome'[batch][Cursor] = next /\ outcomeDisk'[batch][Cursor] = {states[Cursor], next}
      /\ \A i \in Ordinal \ {Cursor} : outcomeDisk'[batch][i] = outcomeDisk[batch][i]
  BY <1>0, <1>1, <1>2, <1>3, Published
<1>5. TypeOK'
  BY <1>4 DEF IInv, TypeOK, PC
<1>6. SelectionInv'
  BY DEF IInv, SelectionInv
<1>7. CommandInv'
  BY DEF IInv, CommandInv, Creating, Settling, Running
<1>8. MemoryInv'
  <2>1. Unsettled' = Unsettled /\ Cursor' = Cursor
    BY CursorKept
  <2>2. next = Supersede(states[Cursor])
    BY DEF next
  <2>3. \A i \in Intents(batch) : i # Cursor => outcomeDisk'[batch][i] = {states[i]}
    BY <1>0, <1>4, AtCursor DEF IInv, MemoryInv
  <2>4. QED
    BY <1>0, <1>2, <1>4, <2>1, <2>2, <2>3, AtCursor DEF MemoryInv, Publishing
<1>9. QED
  BY <1>4, <1>5, <1>6, <1>7, <1>8 DEF IInv, OnDisk

LEMMA StartAttemptStep == ASSUME IInv, StartAttempt PROVE IInv'
<1> USE DEF StartAttempt
<1> DEFINE next == NextAttempt(states[Cursor])
<1>0. pc \in Settling \ Publishing /\ pc \in Settling
  BY DEF Settling, Publishing
<1>1. /\ next \in Outcome /\ next.state = "Started" /\ next.attempt = states[Cursor].attempt + 1
  BY <1>0, AtCursor, BoundsAssumption DEF NextAttempt, Outcome, HasNextAttempt
<1>2. selected = plan[batch].selection
  BY DEF IInv, MemoryInv, Settling
<1>3. Publish(next) /\ next.attempt >= states[Cursor].attempt /\ ~Executed(next)
  BY <1>0, <1>1, AtCursor DEF Executed
<1> HIDE DEF next
<1>4. /\ OnDisk' /\ outcome' \in [Instance -> States]
      /\ outcomeDisk' \in [Instance -> [Ordinal -> SUBSET Outcome]]
      /\ outcome'[batch][Cursor] = next /\ outcomeDisk'[batch][Cursor] = {states[Cursor], next}
      /\ \A i \in Ordinal \ {Cursor} : outcomeDisk'[batch][i] = outcomeDisk[batch][i]
  BY <1>0, <1>1, <1>2, <1>3, Published
<1>5. TypeOK'
  BY <1>4 DEF IInv, TypeOK, PC
<1>6. SelectionInv'
  BY DEF IInv, SelectionInv
<1>7. CommandInv'
  BY DEF IInv, CommandInv, Creating, Settling, Running
<1>8. MemoryInv'
  <2>1. Unsettled' = Unsettled /\ Cursor' = Cursor
    BY CursorKept
  <2>2. next = NextAttempt(states[Cursor])
    BY DEF next
  <2>3. \A i \in Intents(batch) : i # Cursor => outcomeDisk'[batch][i] = {states[i]}
    BY <1>0, <1>4, AtCursor DEF IInv, MemoryInv
  <2>4. QED
    BY <1>0, <1>2, <1>4, <2>1, <2>2, <2>3, AtCursor DEF MemoryInv, Publishing
<1>9. QED
  BY <1>4, <1>5, <1>6, <1>7, <1>8 DEF IInv, OnDisk

LEMMA FinishAttemptStep ==
  ASSUME IInv, NEW r \in {"Succeeded", "Failed"}, FinishAttempt(r) PROVE IInv'
<1> USE DEF FinishAttempt
<1> DEFINE next == Finish(states[Cursor], r)
<1>0. pc \in Settling \ Publishing /\ pc \in Settling /\ Unsettled # {}
  BY DEF IInv, MemoryInv, Settling, Publishing
<1>1. /\ next \in Outcome /\ next.state = r /\ next.attempt = states[Cursor].attempt
  BY <1>0, AtCursor DEF Finish, Outcome
<1>2. selected = plan[batch].selection /\ <<batch, Cursor, states[Cursor].attempt>> \in launched
  BY DEF IInv, MemoryInv, Settling
<1>3. Publish(next) /\ next.attempt >= states[Cursor].attempt /\ next.state # "Superseded"
  BY <1>0, <1>1, AtCursor
<1> HIDE DEF next
<1>4. /\ OnDisk' /\ outcome' \in [Instance -> States]
      /\ outcomeDisk' \in [Instance -> [Ordinal -> SUBSET Outcome]]
      /\ outcome'[batch][Cursor] = next /\ outcomeDisk'[batch][Cursor] = {states[Cursor], next}
      /\ \A i \in Ordinal \ {Cursor} : outcomeDisk'[batch][i] = outcomeDisk[batch][i]
  BY <1>0, <1>1, <1>2, <1>3, Published
<1>5. TypeOK'
  BY <1>4 DEF IInv, TypeOK, PC
<1>6. SelectionInv'
  BY DEF IInv, SelectionInv
<1>7. CommandInv'
  BY DEF IInv, CommandInv, Creating, Settling, Running
<1>8. MemoryInv'
  <2>1. Unsettled' = Unsettled /\ Cursor' = Cursor
    BY CursorKept
  <2>2. next = Finish(states[Cursor], r)
    BY DEF next
  <2>3. \A i \in Intents(batch) : i # Cursor => outcomeDisk'[batch][i] = {states[i]}
    BY <1>0, <1>4, AtCursor DEF IInv, MemoryInv
  <2>4. QED
    BY <1>0, <1>2, <1>4, <2>1, <2>2, <2>3, AtCursor DEF MemoryInv, Publishing
<1>9. QED
  BY <1>4, <1>5, <1>6, <1>7, <1>8 DEF IInv, OnDisk

\* The barrier of the outcome in flight brings memory up to it.
LEMMA OutcomeLanded ==
  ASSUME IInv, pc \in Publishing, SyncOutcomes, UNCHANGED <<home, issued, plans, archive, history, batch>>
  PROVE  /\ OnDisk' /\ outcomeDisk' \in [Instance -> [Ordinal -> SUBSET Outcome]]
         /\ states' \in States /\ states'[Cursor] = outcome[batch][Cursor]
         /\ \A i \in Ordinal \ {Cursor} : states'[i] = states[i]
         /\ \A i \in Intents(batch) : outcomeDisk'[batch][i] = {states'[i]}
<1> USE DEF SyncOutcomes
<1>1. pc \in Settling /\ Unsettled # {}
  BY DEF IInv, MemoryInv, Publishing, Settling
<1>2. batch \in Instance /\ Cursor \in Ordinal /\ Intents(batch) \subseteq Ordinal
  BY <1>1, AtCursor
<1>3. OnDisk' /\ outcomeDisk' \in [Instance -> [Ordinal -> SUBSET Outcome]]
  BY <1>2, OutcomesSynced, RecordsSynced DEF IInv, DiskInv
<1>4. /\ states' \in States /\ states'[Cursor] = outcome[batch][Cursor]
      /\ \A i \in Ordinal \ {Cursor} : states'[i] = states[i]
  BY <1>2 DEF IInv, TypeOK, States
<1>5. ASSUME NEW i \in Intents(batch) PROVE outcomeDisk'[batch][i] = {states'[i]}
  <2>1. i \in Ordinal /\ outcomeDisk'[batch][i] = {outcome[batch][i]}
    BY <1>2, OutcomesSynced
  <2>2. CASE i = Cursor
    BY <2>1, <2>2, <1>4
  <2>3. CASE i # Cursor
    <3>1. outcomeDisk[batch][i] = {states[i]} /\ outcome[batch][i] \in outcomeDisk[batch][i]
      BY <1>1, <1>2, <2>1, <2>3 DEF IInv, MemoryInv, DiskInv
    <3>2. QED
      BY <2>1, <2>3, <3>1, <1>4
  <2>4. QED
    BY <2>2, <2>3
<1>6. QED
  BY <1>3, <1>4, <1>5

LEMMA SyncSupersededStep == ASSUME IInv, SyncSuperseded PROVE IInv'
<1> USE DEF SyncSuperseded
<1>1. /\ OnDisk' /\ outcomeDisk' \in [Instance -> [Ordinal -> SUBSET Outcome]]
      /\ states' \in States /\ \A i \in Intents(batch) : outcomeDisk'[batch][i] = {states'[i]}
  BY OutcomeLanded DEF Publishing
<1>2. ~archived /\ receiptDisk[batch] = {NoReceipt} /\ selected # plan[batch].selection
  BY AtCursor DEF IInv, MemoryInv, Settling, Publishing
<1>3. TypeOK'
  BY <1>1 DEF IInv, TypeOK, PC, SyncOutcomes
<1>4. SelectionInv'
  BY DEF IInv, SelectionInv
<1>5. CommandInv'
  BY DEF IInv, CommandInv, Creating, Settling, Running
<1>6. MemoryInv'
  BY <1>1, <1>2 DEF MemoryInv, Publishing
<1>7. QED
  BY <1>1, <1>3, <1>4, <1>5, <1>6 DEF IInv, OnDisk

LEMMA SyncFinishedStep == ASSUME IInv, SyncFinished PROVE IInv'
<1> USE DEF SyncFinished
<1>1. /\ OnDisk' /\ outcomeDisk' \in [Instance -> [Ordinal -> SUBSET Outcome]]
      /\ states' \in States /\ \A i \in Intents(batch) : outcomeDisk'[batch][i] = {states'[i]}
  BY OutcomeLanded DEF Publishing
<1>2. ~archived /\ receiptDisk[batch] = {NoReceipt} /\ selected = plan[batch].selection
  BY AtCursor DEF IInv, MemoryInv, Settling, Publishing
<1>3. TypeOK'
  BY <1>1 DEF IInv, TypeOK, PC, SyncOutcomes
<1>4. SelectionInv'
  BY DEF IInv, SelectionInv
<1>5. CommandInv'
  BY DEF IInv, CommandInv, Creating, Settling, Running
<1>6. MemoryInv'
  BY <1>1, <1>2 DEF MemoryInv, Publishing
<1>7. QED
  BY <1>1, <1>3, <1>4, <1>5, <1>6 DEF IInv, OnDisk

\* The permit's attempt is later than any that was launched, so it is launched once.
LEMMA SyncStartedStep == ASSUME IInv, SyncStarted PROVE IInv'
<1> USE DEF SyncStarted
<1>0. pc \in Settling /\ pc \in Publishing /\ Unsettled # {}
  BY DEF IInv, MemoryInv, Settling, Publishing
<1>1. /\ OnDisk' /\ outcomeDisk' \in [Instance -> [Ordinal -> SUBSET Outcome]]
      /\ states' \in States /\ \A i \in Intents(batch) : outcomeDisk'[batch][i] = {states'[i]}
      /\ states'[Cursor] = outcome[batch][Cursor]
      /\ \A i \in Ordinal \ {Cursor} : states'[i] = states[i]
  BY <1>0, OutcomeLanded
<1>2. ~archived /\ receiptDisk[batch] = {NoReceipt} /\ selected = plan[batch].selection
  BY <1>0, AtCursor DEF IInv, MemoryInv
<1>3. TypeOK'
  BY <1>1 DEF IInv, TypeOK, PC, SyncOutcomes
<1>4. SelectionInv'
  BY DEF IInv, SelectionInv
<1>5. CommandInv'
  BY DEF IInv, CommandInv, Creating, Settling, Running
<1>6. states'[Cursor] = NextAttempt(states[Cursor]) /\ ~Terminal(states'[Cursor])
      /\ states'[Cursor].attempt = states[Cursor].attempt + 1
  BY <1>0, <1>1 DEF IInv, MemoryInv, NextAttempt, Terminal
<1>7. Unsettled' = Unsettled /\ Cursor' = Cursor
  <2>1. \A i \in Intents(batch) : Terminal(states'[i]) <=> Terminal(states[i])
    BY <1>0, <1>1, <1>6, AtCursor
  <2>2. Unsettled' = Unsettled
    BY <2>1 DEF Unsettled
  <2>3. QED
    BY <2>2 DEF Cursor
<1>8. \A l \in launched : l[1] = batch /\ l[2] = Cursor => l[3] < states'[Cursor].attempt
  <2> SUFFICES ASSUME NEW l \in launched, l[1] = batch, l[2] = Cursor PROVE l[3] < states'[Cursor].attempt
    OBVIOUS
  <2>1. states[Cursor] \in outcomeDisk[batch][Cursor]
    BY <1>0 DEF IInv, MemoryInv
  <2>2. l[3] <= states[Cursor].attempt
    BY <1>0, <2>1, AtCursor DEF IInv, OutcomeInv
  <2>3. l[3] \in Nat
    BY DEF IInv, TypeOK
  <2>4. QED
    BY <1>0, <1>6, <2>2, <2>3, AtCursor
<1>9. MemoryInv'
  <2>1. states'[Cursor].attempt > 0
    BY <1>0, <1>6, AtCursor
  <2>2. QED
    BY <1>0, <1>1, <1>2, <1>7, <1>8, <2>1 DEF MemoryInv, Publishing
<1>10. QED
  BY <1>1, <1>3, <1>4, <1>5, <1>9 DEF IInv, OnDisk

LEMMA WriteReceiptStep == ASSUME IInv, WriteReceipt PROVE IInv'
<1> USE DEF WriteReceipt
<1>0. /\ batch \in Instance /\ Intents(batch) \subseteq Ordinal /\ NoPlan \notin planDisk[batch]
      /\ Unsettled = {i \in Intents(batch) : ~Terminal(states[i])} /\ Unsettled = {}
  BY PointedAt DEF IInv, CommandInv, MemoryInv, Settling
<1>1. \A i \in Intents(batch) : Terminal(states[i]) /\ outcomeDisk[batch][i] = {states[i]}
  BY <1>0 DEF IInv, MemoryInv, Settling, Publishing
<1>2. SelectionInv'
  BY DEF IInv, SelectionInv
<1>3. CommandInv'
  BY DEF IInv, CommandInv, Creating, Settling, Running
<1>4. Unsettled' = Unsettled /\ Cursor' = Cursor
  BY CursorKept
<1>5. CASE archived /\ pc' = "clear" /\ UNCHANGED archive
  <2>1. OnDisk'
    BY <1>5, DiskKept DEF IInv, OnDisk
  <2>2. TypeOK'
    BY <1>5 DEF IInv, TypeOK, PC
  <2>3. MemoryInv'
    BY <1>0, <1>1, <1>4, <1>5 DEF MemoryInv, Publishing
  <2>4. QED
    BY <1>2, <1>3, <2>1, <2>2, <2>3 DEF IInv, OnDisk
<1>6. CASE /\ ~archived /\ pc' = "archiving"
           /\ receipt' = [receipt EXCEPT ![batch] = states]
           /\ receiptDisk' = [receiptDisk EXCEPT ![batch] = @ \cup {states}]
  <2>1. /\ receipt' \in [Instance -> States \cup {NoReceipt}]
        /\ receiptDisk' \in [Instance -> SUBSET (States \cup {NoReceipt})]
        /\ receipt'[batch] = states /\ receiptDisk'[batch] = receiptDisk[batch] \cup {states}
        /\ \A t \in Instance : t # batch => receipt'[t] = receipt[t] /\ receiptDisk'[t] = receiptDisk[t]
    BY <1>0, <1>6 DEF IInv, TypeOK
  <2>2. DiskInv'
    BY <2>1 DEF IInv, DiskInv
  <2>3. PlanInv'
    <3> SUFFICES ASSUME NEW t \in Instance, NoPlan \in planDisk[t], Untouched(t) PROVE Untouched(t)'
      BY DEF IInv, PlanInv
    <3>1. QED
      BY <1>0, <2>1 DEF Untouched
  <2>4. ReceiptInv'
    <3> SUFFICES ASSUME NEW t \in Instance, NEW r \in receiptDisk'[t] \ {NoReceipt}, NEW i \in Intents(t)
                 PROVE  Terminal(r[i]) /\ outcomeDisk[t][i] = {r[i]}
      BY DEF ReceiptInv
    <3>1. CASE r \in receiptDisk[t]
      BY <3>1 DEF IInv, ReceiptInv
    <3>2. CASE r \notin receiptDisk[t]
      BY <1>1, <2>1, <3>2
    <3>3. QED
      BY <3>1, <3>2
  <2>5. OutcomeInv' /\ OwedInv'
    BY DEF IInv, OutcomeInv, OwedInv, AllExecuted
  <2>6. TypeOK'
    BY <1>6, <2>1 DEF IInv, TypeOK, PC
  <2>7. MemoryInv'
    BY <1>0, <1>1, <1>4, <1>6 DEF MemoryInv, Publishing
  <2>8. QED
    BY <1>2, <1>3, <2>2, <2>3, <2>4, <2>5, <2>6, <2>7 DEF IInv
<1>7. QED
  BY <1>5, <1>6

LEMMA SyncReceiptStep == ASSUME IInv, SyncReceipt PROVE IInv'
<1> USE DEF SyncReceipt
<1>0. batch \in Instance
  BY PointedAt DEF IInv, CommandInv, Settling
<1>1. /\ receiptDisk' \in [Instance -> SUBSET (States \cup {NoReceipt})]
      /\ \A t \in Instance : receipt[t] \in receiptDisk'[t] /\ receiptDisk'[t] \subseteq receiptDisk[t]
  BY <1>0 DEF IInv, TypeOK, DiskInv
<1>2. OnDisk'
  BY <1>1, RecordsSynced DEF IInv, DiskInv
<1>3. TypeOK'
  BY <1>1 DEF IInv, TypeOK, PC
<1>4. SelectionInv'
  BY DEF IInv, SelectionInv
<1>5. CommandInv'
  BY DEF IInv, CommandInv, Creating, Settling, Running
<1>6. MemoryInv'
  BY CursorKept DEF IInv, MemoryInv, Settling, Publishing
<1>7. QED
  BY <1>2, <1>3, <1>4, <1>5, <1>6 DEF IInv, OnDisk

LEMMA ClearPointerStep == ASSUME IInv, ClearPointer PROVE IInv'
<1> USE DEF ClearPointer
<1>0. /\ batch \in Instance /\ Intents(batch) \subseteq Ordinal /\ pointerDisk = {At(batch)}
      /\ plan[batch] # NoPlan
      /\ Unsettled = {i \in Intents(batch) : ~Terminal(states[i])} /\ Unsettled = {}
      /\ selectedDisk = {selected} /\ selected \in committed
      /\ pointerDisk' = {At(batch), NoPointer} /\ pointer' = NoPointer
      /\ UNCHANGED <<selectedDisk, committed>>
  BY PointedAt DEF IInv, CommandInv, MemoryInv, Settling, SelectionInv
<1>1. \A i \in Intents(batch) : Terminal(states[i]) /\ outcomeDisk[batch][i] = {states[i]}
  BY <1>0 DEF IInv, MemoryInv, Settling, Publishing
<1>2. SelectionInv'
  BY <1>0 DEF IInv, SelectionInv
<1>3. PlanInv'
  <2> SUFFICES ASSUME NEW t \in Instance, At(t) \notin pointerDisk PROVE At(t) \notin pointerDisk'
    BY <1>0 DEF IInv, PlanInv, Untouched
  <2>1. At(t) # NoPointer
    BY PointersDiffer
  <2>2. QED
    BY <1>0, <2>1
<1>4. OutcomeInv'
  <2> SUFFICES ASSUME NEW t \in Instance, NEW i \in Ordinal, outcomeDisk[t][i] # {outcome[t][i]}
               PROVE  FALSE
    BY DEF IInv, OutcomeInv
  <2>1. pointerDisk = {At(t)} /\ i \in Intents(t) /\ outcome[t][i] \in outcomeDisk[t][i]
    BY DEF IInv, OutcomeInv, DiskInv
  <2>2. t = batch
    BY <1>0, <2>1, PointersDiffer
  <2>3. QED
    BY <1>1, <2>1, <2>2
<1>5. OwedInv'
  <2> SUFFICES ASSUME NEW t \in (committed \cup selectedDisk) \ {0}, plan[t] # NoPlan PROVE AllExecuted(t)
    BY <1>0 DEF IInv, OwedInv, AllExecuted
  <2>1. t \in Instance
    BY BoundsAssumption DEF IInv, TypeOK, Selection, Instance
  <2>2. CASE t = batch
    <3>1. \A i \in Intents(t) : \A o \in outcomeDisk[t][i] : o.state # "Superseded"
      BY DEF IInv, OwedInv
    <3>2. QED
      BY <1>1, <2>2, <3>1 DEF AllExecuted, Executed, Terminal
  <2>3. CASE t # batch
    <3>1. pointerDisk # {At(t)}
      BY <1>0, <2>1, <2>3, PointersDiffer
    <3>2. QED
      BY <3>1 DEF IInv, OwedInv
  <2>4. QED
    BY <2>2, <2>3
<1>6. DiskInv' /\ ReceiptInv'
  BY <1>0 DEF IInv, DiskInv, ReceiptInv
<1>7. TypeOK'
  BY <1>0 DEF IInv, TypeOK, PC, Pointer
<1>8. CommandInv'
  BY <1>0 DEF IInv, CommandInv, Creating, Settling, Running
<1>9. MemoryInv'
  BY DEF MemoryInv, Settling
<1>10. QED
  BY <1>2, <1>3, <1>4, <1>5, <1>6, <1>7, <1>8, <1>9 DEF IInv

LEMMA SyncClearStep == ASSUME IInv, SyncClear PROVE IInv'
<1> USE DEF SyncClear
<1>1. OnDisk' /\ SelectionInv'
  BY HomeSynced DEF Forget
<1>2. TypeOK'
  BY HomeSynced, InitTyped DEF IInv, TypeOK, PC, Forget
<1>3. CommandInv'
  BY HomeSynced DEF IInv, CommandInv, Creating, Settling, Running, Forget, TypeOK
<1>4. MemoryInv'
  BY DEF MemoryInv, Settling
<1>5. QED
  BY <1>1, <1>2, <1>3, <1>4 DEF IInv, OnDisk

-----------------------------------------------------------------------------
(* A power loss.                                                           *)

\* Each name is left with one of the contents that were possible.
LEMMA Survivors ==
  ASSUME IInv, PowerLoss
  PROVE  /\ selected' \in selectedDisk /\ selectedDisk' = {selected'}
         /\ pointer' \in pointerDisk /\ pointerDisk' = {pointer'}
         /\ committed' = committed \cup {selected'}
         /\ plan' \in [Instance -> Plan \cup {NoPlan}]
         /\ \A t \in Instance : plan'[t] \in planDisk[t] /\ planDisk'[t] = {plan'[t]}
         /\ outcome' \in [Instance -> States]
         /\ \A t \in Instance, i \in Ordinal :
              outcome'[t][i] \in outcomeDisk[t][i] /\ outcomeDisk'[t][i] = {outcome'[t][i]}
         /\ receipt' \in [Instance -> States \cup {NoReceipt}]
         /\ \A t \in Instance : receipt'[t] \in receiptDisk[t] /\ receiptDisk'[t] = {receipt'[t]}
<1> USE DEF PowerLoss
<1>1. ASSUME NEW disk, NEW S, NEW f \in Left(disk, S)
      PROVE  DOMAIN f = S /\ f = [x \in S |-> f[x]] /\ \A x \in S : f[x] \in disk[x]
  BY DEF Left
<1>2. /\ plan' \in [Instance -> Plan \cup {NoPlan}]
      /\ \A t \in Instance : plan'[t] \in planDisk[t] /\ planDisk'[t] = {plan'[t]}
  <2>1. plan' = [x \in Instance |-> plan'[x]] /\ \A t \in Instance : plan'[t] \in planDisk[t]
    BY <1>1
  <2>2. QED
    BY <2>1 DEF IInv, TypeOK
<1>3. /\ receipt' \in [Instance -> States \cup {NoReceipt}]
      /\ \A t \in Instance : receipt'[t] \in receiptDisk[t] /\ receiptDisk'[t] = {receipt'[t]}
  <2>1. receipt' = [x \in Instance |-> receipt'[x]] /\ \A t \in Instance : receipt'[t] \in receiptDisk[t]
    BY <1>1
  <2>2. QED
    BY <2>1 DEF IInv, TypeOK
<1>4. /\ outcome' \in [Instance -> States]
      /\ \A t \in Instance, i \in Ordinal : outcome'[t][i] \in outcomeDisk[t][i]
  <2>1. PICK f \in [Instance -> UNION {Left(outcomeDisk[t], Ordinal) : t \in Instance}] :
          (\A t \in Instance : f[t] \in Left(outcomeDisk[t], Ordinal)) /\ outcome' = f
    OBVIOUS
  <2>2. ASSUME NEW t \in Instance
        PROVE  f[t] \in States /\ \A i \in Ordinal : f[t][i] \in outcomeDisk[t][i]
    <3>1. f[t] = [i \in Ordinal |-> f[t][i]] /\ \A i \in Ordinal : f[t][i] \in outcomeDisk[t][i]
      <4>1. f[t] \in Left(outcomeDisk[t], Ordinal)
        BY <2>1
      <4>2. QED
        BY <4>1 DEF Left
    <3>2. \A i \in Ordinal : f[t][i] \in Outcome
      BY <3>1 DEF IInv, TypeOK
    <3>3. QED
      BY <3>1, <3>2 DEF States
  <2>3. QED
    BY <2>1, <2>2
<1>5. \A t \in Instance, i \in Ordinal : outcomeDisk'[t][i] = {outcome'[t][i]}
  OBVIOUS
<1>6. QED
  BY <1>2, <1>3, <1>4, <1>5

LEMMA PowerLossStep == ASSUME IInv, PowerLoss PROVE IInv'
<1>0. /\ selected' \in selectedDisk /\ selectedDisk' = {selected'}
      /\ pointer' \in pointerDisk /\ pointerDisk' = {pointer'}
      /\ committed' = committed \cup {selected'}
      /\ plan' \in [Instance -> Plan \cup {NoPlan}]
      /\ \A t \in Instance : plan'[t] \in planDisk[t] /\ planDisk'[t] = {plan'[t]}
      /\ outcome' \in [Instance -> States]
      /\ \A t \in Instance, i \in Ordinal :
           outcome'[t][i] \in outcomeDisk[t][i] /\ outcomeDisk'[t][i] = {outcome'[t][i]}
      /\ receipt' \in [Instance -> States \cup {NoReceipt}]
      /\ \A t \in Instance : receipt'[t] \in receiptDisk[t] /\ receiptDisk'[t] = {receipt'[t]}
  BY Survivors
<1>1. /\ UNCHANGED <<journal, issued, launched, purpose>>
      /\ pc' = "idle" /\ batch' = 0 /\ states' = Pending /\ archived' = FALSE
  BY DEF PowerLoss, Forget
<1>2. \A t \in Instance : plan'[t] \in {NoPlan, plan[t]}
                           /\ (plan'[t] = NoPlan => NoPlan \in planDisk[t])
  <2> SUFFICES ASSUME NEW t \in Instance PROVE plan'[t] \in {NoPlan, plan[t]} /\ plan'[t] \in planDisk[t]
    OBVIOUS
  <2>1. planDisk[t] \subseteq {NoPlan, plan[t]} /\ plan'[t] \in planDisk[t]
    BY <1>0 DEF IInv, PlanInv
  <2>2. QED
    BY <2>1
<1>3. TypeOK'
  <2>1. planDisk' \in [Instance -> SUBSET (Plan \cup {NoPlan})]
    BY <1>0 DEF PowerLoss
  <2>2. receiptDisk' \in [Instance -> SUBSET (States \cup {NoReceipt})]
    BY <1>0 DEF PowerLoss
  <2>3. outcomeDisk' \in [Instance -> [Ordinal -> SUBSET Outcome]]
    BY <1>0 DEF PowerLoss, IInv, TypeOK
  <2>4. QED
    BY <1>0, <1>1, <2>1, <2>2, <2>3, InitTyped DEF IInv, TypeOK, PC
<1>4. DiskInv'
  BY <1>0 DEF DiskInv
<1>5. SelectionInv'
  BY <1>0, <1>1 DEF IInv, SelectionInv
<1>6. ASSUME NEW t \in Instance, Untouched(t) PROVE Untouched(t)'
  BY <1>0, <1>6 DEF Untouched
<1>7. PlanInv'
  <2> SUFFICES ASSUME NEW t \in Instance
               PROVE  /\ planDisk'[t] \subseteq {NoPlan, plan'[t]}
                      /\ plan'[t] # NoPlan => t <= issued
                      /\ NoPlan \in planDisk'[t] =>
                           Untouched(t)' /\ At(t) \notin pointerDisk' /\ \A l \in launched : l[1] # t
    BY <1>1 DEF PlanInv, Untouched
  <2>1. plan'[t] # NoPlan => t <= issued
    BY <1>2 DEF IInv, PlanInv
  <2>2. ASSUME NoPlan \in planDisk'[t]
        PROVE  Untouched(t)' /\ At(t) \notin pointerDisk' /\ \A l \in launched : l[1] # t
    <3>1. NoPlan \in planDisk[t]
      BY <1>0, <2>2
    <3>2. Untouched(t) /\ At(t) \notin pointerDisk /\ \A l \in launched : l[1] # t
      BY <3>1 DEF IInv, PlanInv
    <3>3. QED
      BY <1>0, <1>6, <3>2
  <2>3. QED
    BY <1>0, <2>1, <2>2
<1>8. OutcomeInv'
  <2> SUFFICES ASSUME NEW t \in Instance, NEW i \in Ordinal
               PROVE  \A o \in outcomeDisk'[t][i] :
                        /\ \A l \in launched : l[1] = t /\ l[2] = i => l[3] <= o.attempt
                        /\ Executed(o) => <<t, i, o.attempt>> \in launched
    BY <1>0, <1>1 DEF OutcomeInv
  <2>1. outcomeDisk'[t][i] \subseteq outcomeDisk[t][i]
    BY <1>0
  <2>2. QED
    BY <2>1 DEF IInv, OutcomeInv
<1>9. ReceiptInv'
  <2> SUFFICES ASSUME NEW t \in Instance, receipt'[t] # NoReceipt, NEW i \in 1..plan'[t].count
               PROVE  Terminal(receipt'[t][i]) /\ outcomeDisk'[t][i] = {receipt'[t][i]}
    BY <1>0 DEF ReceiptInv
  <2>1. receipt'[t] \in receiptDisk[t] \ {NoReceipt}
    BY <1>0
  <2>2. NoPlan \notin planDisk[t]
    BY <2>1 DEF IInv, PlanInv, Untouched
  <2>3. plan'[t] = plan[t] /\ plan[t] # NoPlan
    BY <1>2, <2>2 DEF IInv, DiskInv
  <2>4. i \in Intents(t) /\ i \in Ordinal
    BY <2>3, Typed DEF IInv
  <2>5. Terminal(receipt'[t][i]) /\ outcomeDisk[t][i] = {receipt'[t][i]}
    BY <2>1, <2>4 DEF IInv, ReceiptInv
  <2>6. outcome'[t][i] \in outcomeDisk[t][i] /\ outcomeDisk'[t][i] = {outcome'[t][i]}
    BY <1>0, <2>4
  <2>7. QED
    BY <2>5, <2>6
<1>10. OwedInv'
  <2> SUFFICES ASSUME NEW t \in (committed' \cup selectedDisk') \ {0}, plan'[t] # NoPlan
               PROVE  /\ plan'[t].selection = t /\ NoPlan \notin planDisk'[t]
                      /\ \A i \in 1..plan'[t].count : \A o \in outcomeDisk'[t][i] : o.state # "Superseded"
                      /\ \/ \A i \in 1..plan'[t].count : \A o \in outcomeDisk'[t][i] : Executed(o)
                         \/ pointerDisk' = {At(t)} /\ selected' = t /\ selectedDisk' = {t}
    BY DEF OwedInv, AllExecuted
  <2>1. t \in (committed \cup selectedDisk) \ {0}
    BY <1>0
  <2>2. t \in Instance
    BY <2>1, BoundsAssumption DEF IInv, TypeOK, Selection, Instance
  <2>3. plan'[t] = plan[t] /\ planDisk'[t] = {plan[t]} /\ plan[t] # NoPlan
    BY <1>0, <1>2, <2>2
  <2>4. \A i \in Intents(t) : outcomeDisk'[t][i] \subseteq outcomeDisk[t][i]
    BY <1>0, <2>2, <2>3, Typed DEF IInv
  <2>5. /\ plan[t].selection = t
        /\ \A i \in Intents(t) : \A o \in outcomeDisk[t][i] : o.state # "Superseded"
        /\ \/ AllExecuted(t)
           \/ pointerDisk = {At(t)} /\ selected = t /\ (t \in committed => selectedDisk = {t})
    BY <2>1, <2>3 DEF IInv, OwedInv
  <2>6. CASE AllExecuted(t)
    BY <2>3, <2>4, <2>5, <2>6 DEF AllExecuted
  <2>7. CASE pointerDisk = {At(t)} /\ selected = t /\ (t \in committed => selectedDisk = {t})
    <3>1. selected' = t
      BY <1>0, <2>7
    <3>2. QED
      BY <1>0, <2>3, <2>4, <2>5, <2>7, <3>1
  <2>8. QED
    BY <2>5, <2>6, <2>7
<1>11. CommandInv' /\ MemoryInv'
  BY <1>1 DEF CommandInv, MemoryInv, Creating, Settling, Running
<1>12. QED
  BY <1>3, <1>4, <1>5, <1>7, <1>8, <1>9, <1>10, <1>11 DEF IInv

LEMMA StutterStep == ASSUME IInv, UNCHANGED vars PROVE IInv'
<1> USE DEF vars
<1>1. OnDisk'
  BY DiskKept DEF IInv, OnDisk
<1>2. TypeOK' /\ SelectionInv' /\ CommandInv'
  BY DEF IInv, TypeOK, SelectionInv, CommandInv, Untouched
<1>3. MemoryInv'
  BY CursorKept DEF IInv, MemoryInv
<1>4. QED
  BY <1>1, <1>2, <1>3 DEF IInv, OnDisk

-----------------------------------------------------------------------------
(* The theorems.                                                           *)

\* Every step of every command, and every fault, keeps the invariant.
LEMMA NextInv == ASSUME IInv, [Next]_vars PROVE IInv'
<1>1. CASE Resume
  BY <1>1, LockStep, ReconcileStep, LoadPointerStep, OpenBatchStep, MigrateStep DEF Resume
<1>2. CASE Create
  BY <1>2, SyncPlanStep, PublishPointerStep, SyncPointerStep DEF Create
<1>3. CASE Settle
  BY <1>3, AuthorizeStep, SupersedeNextStep, SyncSupersededStep, StartAttemptStep, SyncStartedStep,
     LaunchStep, SyncFinishedStep, FinishAttemptStep, AllSettledStep, WriteReceiptStep,
     SyncReceiptStep, ClearPointerStep, SyncClearStep DEF Settle
<1>4. CASE Run
  BY <1>4, BeginStep, QuitStep, EndRunStep, FlipStep, SyncFlipStep, CommitRunStep, PrepareStep DEF Run
<1>5. CASE Faults
  BY <1>5, StopStep, PowerLossStep DEF Faults
<1>6. CASE UNCHANGED vars
  BY <1>6, StutterStep
<1>7. QED
  BY <1>1, <1>2, <1>3, <1>4, <1>5, <1>6 DEF Next

\* The inductive invariant holds in every state a command, a crash or a power loss reaches.
THEOREM Invariance == Spec => []IInv
BY InitInv, NextInv, PTL DEF Spec

\* The records of the ledger are well typed (activation/ledger.rs, the wire types).
THEOREM TypeCorrect == Spec => []TypeOK
<1>1. IInv => TypeOK
  BY DEF IInv
<1>2. QED
  BY <1>1, Invariance, PTL

\* No plan of a committed run is forgotten before its hooks are settled, and whatever a
\* power loss leaves, the next command can open what the pointer names (ledger.rs: create,
\* archive_and_clear, open).
THEOREM Survival == Spec => []IntentsSurvive
<1>1. ASSUME IInv PROVE IntentsSurvive
  <2>1. NoIntentLost
    BY <1>1 DEF IInv, NoIntentLost, OwedInv, AllExecuted
  <2>2. ASSUME NEW p \in pointerDisk \cap Current PROVE NoPlan \notin planDisk[p.instance]
    <3>1. PICK t \in Instance : p = At(t)
      BY DEF Current
    <3>2. p.instance = t
      BY <3>1
    <3>3. QED
      BY <1>1, <3>1, <3>2 DEF IInv, PlanInv
  <2>3. NeverStranded
    BY <1>1, <2>2 DEF IInv, NeverStranded, ReceiptInv
  <2>4. QED
    BY <1>1, <2>1, <2>3 DEF IntentsSurvive, IInv
<1>2. QED
  BY <1>1, Invariance, PTL

\* A launch never repeats the attempt number of an earlier one, however often the program
\* was killed in between (ledger.rs: next_attempt, exec/activate.rs).
THEOREM Uniqueness == Spec => AttemptsAreUnique
<1>1. ASSUME IInv, pc = "permit"
      PROVE  <<batch, Cursor, states[Cursor].attempt>> \notin launched
  <2> SUFFICES ASSUME <<batch, Cursor, states[Cursor].attempt>> \in launched PROVE FALSE
    OBVIOUS
  <2> DEFINE l == <<batch, Cursor, states[Cursor].attempt>>
  <2>1. l[1] = batch /\ l[2] = Cursor /\ l[3] = states[Cursor].attempt
    OBVIOUS
  <2>2. l[3] < states[Cursor].attempt /\ l[3] \in Nat
    BY <1>1, <2>1 DEF IInv, MemoryInv, Settling, TypeOK
  <2>3. QED
    BY <2>1, <2>2
<1>2. IInv /\ [Next]_vars =>
        [pc = "permit" /\ pc' = "running" =>
           <<batch, Cursor, states[Cursor].attempt>> \notin launched]_vars
  BY <1>1
<1>3. QED
  BY <1>2, Invariance, PTL DEF Spec, AttemptsAreUnique

-----------------------------------------------------------------------------
(* The refinement: under the mapping of LedgerRefinement the ledger's      *)
(* initial states are those of the contract, and each of its steps is a    *)
(* step of it or leaves it alone.                                          *)

\* What the contract sees, by the names of its variables.
Owed    == {h \in Due : ~Durably(h)}
Settled == {h \in Due : Durably(h)}
Tries   == {<<<<l[1], l[2]>>, l[3]>> : l \in Attempted}

\* Nothing is launched but for a committed run.
TriesAreDue == \A l \in Attempted : <<l[1], l[2]>> \in Due

Maps == Contract!Next \/ UNCHANGED <<Owed, Settled, Tries>>

-----------------------------------------------------------------------------
(* What is due.                                                            *)

\* A hook that is due is an intent of a committed run's plan, and it was not superseded.
LEMMA DueIs ==
  ASSUME TypeOK
  PROVE  \A h : h \in Due <=>
           \E t \in committed \ {0} : /\ t \in Instance /\ plan[t] # NoPlan /\ plan[t].selection = t
                                      /\ \E i \in Intents(t) : i \in Ordinal /\ h = <<t, i>>
<1>1. \A t \in committed \ {0} : t \in Instance
  BY BoundsAssumption DEF TypeOK, Selection, Instance
<1>2. \A t \in Instance : plan[t] # NoPlan => Intents(t) \subseteq Ordinal
  BY Typed
<1>3. \A h : h \in Due <=> \E t \in committed \ {0} : h \in Declared(t)
  BY DEF Due
<1>4. ASSUME NEW t \in committed \ {0}, NEW h
      PROVE  h \in Declared(t) <=>
               /\ t \in Instance /\ plan[t] # NoPlan /\ plan[t].selection = t
               /\ \E i \in Intents(t) : i \in Ordinal /\ h = <<t, i>>
  BY <1>1, <1>2 DEF Declared
<1>5. QED
  BY <1>3, <1>4

LEMMA DueIsHooks ==
  ASSUME TypeOK, NEW h \in Due
  PROVE  /\ h \in Instance \X Ordinal /\ h = <<h[1], h[2]>> /\ h[1] \in committed \ {0}
         /\ plan[h[1]] # NoPlan /\ plan[h[1]].selection = h[1] /\ h[2] \in Intents(h[1])
BY DueIs

\* Where neither what is due nor what was launched changes, and no hook becomes settled,
\* the contract stutters.
LEMMA Unmoved ==
  ASSUME Due' = Due, Attempted' = Attempted, \A h \in Due : Durably(h)' <=> Durably(h)
  PROVE  Maps
<1>1. Owed' = Owed /\ Settled' = Settled
  BY DEF Owed, Settled, Durably
<1>2. Tries' = Tries
  BY DEF Tries
<1>3. QED
  BY <1>1, <1>2 DEF Maps

\* A step that leaves plans, commits and launches alone changes neither.
LEMMA DueKept ==
  ASSUME UNCHANGED <<plan, committed, launched>>
  PROVE  Due' = Due /\ Attempted' = Attempted
BY DEF Due, Declared, Attempted

LEMMA Stutters ==
  ASSUME UNCHANGED <<plan, committed, launched, outcomeDisk>>
  PROVE  Maps
<1>1. Due' = Due /\ Attempted' = Attempted
  BY DueKept
<1>2. \A h \in Due : Durably(h)' <=> Durably(h)
  BY DEF Durably
<1>3. QED
  BY <1>1, <1>2, Unmoved

\* A plan that is written under an identity nothing was committed or launched under.
LEMMA PlanMaps ==
  ASSUME IInv, NEW t \in Instance, NEW p, CreatePlan(t, p), t \notin committed,
         UNCHANGED <<records, history>>
  PROVE  Maps
<1>1. \A u \in Instance : u # t => plan'[u] = plan[u]
  BY DEF IInv, TypeOK, CreatePlan
<1>2. \A l \in launched : l[1] # t /\ l[1] \in Instance
  BY DEF IInv, PlanInv, DiskInv, CreatePlan, TypeOK
<1>3. \A u \in committed \ {0} : u \in Instance /\ u # t
  BY BoundsAssumption DEF IInv, TypeOK, Selection, Instance
<1>4. \A u \in Instance : u # t => Declared(u)' = Declared(u)
  BY <1>1 DEF Declared
<1>5. Due' = Due
  <2>1. \A u \in committed \ {0} : Declared(u)' = Declared(u)
    BY <1>3, <1>4
  <2>2. {Declared(u)' : u \in committed \ {0}} = {Declared(u) : u \in committed \ {0}}
    BY <2>1
  <2>3. QED
    BY <2>2 DEF Due
<1>6. Attempted' = Attempted
  BY <1>2, <1>4 DEF Attempted
<1>7. \A h \in Due : Durably(h)' <=> Durably(h)
  BY DEF Durably
<1>8. QED
  BY <1>5, <1>6, <1>7, Unmoved

-----------------------------------------------------------------------------
(* A hook is settled.                                                      *)

\* The possibilities for a record become fewer: a barrier, or a power loss.
Narrowed == \A t \in Instance, i \in Ordinal :
              outcomeDisk'[t][i] \subseteq outcomeDisk[t][i] /\ outcomeDisk'[t][i] # {}

\* When that settles a hook, its run is committed on every disk and pointed at, it was
\* launched, and it is the only hook that is settled.
LEMMA OneSettles ==
  ASSUME IInv, Narrowed, NEW h \in Due, ~(Durably(h)' <=> Durably(h))
  PROVE  /\ ~Durably(h) /\ Durably(h)' /\ selectedDisk = {selected}
         /\ \E a \in 1..MaxAttempt : <<h, a>> \in Tries
         /\ \A g \in Due \ {h} : Durably(g)' <=> Durably(g)
<1>1. PICK t \in Instance, i \in Ordinal :
        /\ h = <<t, i>> /\ t \in committed \ {0} /\ plan[t] # NoPlan /\ plan[t].selection = t
        /\ i \in Intents(t)
  BY DueIsHooks DEF IInv
<1>2. ~Durably(h) /\ Durably(h)'
  BY <1>1 DEF Narrowed, Durably
<1>3. PICK x \in outcomeDisk[t][i] : ~Executed(x)
  BY <1>1, <1>2 DEF Durably
<1>4. PICK o \in outcomeDisk'[t][i] : Executed(o) /\ o \in outcomeDisk[t][i]
  BY <1>1, <1>2 DEF Durably, Narrowed
<1>5. outcomeDisk[t][i] # {outcome[t][i]}
  BY <1>3, <1>4
<1>6. /\ pointerDisk = {At(t)}
      /\ \A j \in Ordinal : outcomeDisk[t][j] # {outcome[t][j]} => j = i
  BY <1>5 DEF IInv, OutcomeInv
<1>7. selectedDisk = {selected}
  <2>1. ~AllExecuted(t)
    BY <1>1, <1>3 DEF AllExecuted
  <2>2. QED
    BY <1>1, <2>1 DEF IInv, OwedInv
<1>8. \E a \in 1..MaxAttempt : <<h, a>> \in Tries
  <2>1. <<t, i, o.attempt>> \in launched
    BY <1>4 DEF IInv, OutcomeInv
  <2>2. h \in Declared(t)
    BY <1>1 DEF Declared
  <2>3. <<t, i, o.attempt>> \in Attempted /\ o.attempt \in 1..MaxAttempt
    BY <1>1, <2>1, <2>2 DEF Attempted, IInv, TypeOK
  <2>4. <<h, o.attempt>> \in Tries
    BY <1>1, <2>3 DEF Tries
  <2>5. QED
    BY <2>3, <2>4
<1>9. ASSUME NEW g \in Due \ {h} PROVE Durably(g)' <=> Durably(g)
  <2>1. PICK u \in Instance, j \in Ordinal : g = <<u, j>>
    BY DueIsHooks DEF IInv
  <2>2. outcomeDisk[u][j] = {outcome[u][j]}
    <3>1. ASSUME outcomeDisk[u][j] # {outcome[u][j]} PROVE FALSE
      <4>1. pointerDisk = {At(u)}
        BY <3>1 DEF IInv, OutcomeInv
      <4>2. u = t
        BY <1>6, <4>1, PointersDiffer
      <4>3. j = i
        BY <1>6, <3>1, <4>2
      <4>4. QED
        BY <1>1, <1>9, <2>1, <4>2, <4>3
    <3>2. QED
      BY <3>1
  <2>3. outcomeDisk'[u][j] = outcomeDisk[u][j]
    <3>1. outcomeDisk'[u][j] \subseteq outcomeDisk[u][j] /\ outcomeDisk'[u][j] # {}
      BY DEF Narrowed
    <3>2. QED
      BY <2>2, <3>1
  <2>4. QED
    BY <2>1, <2>3 DEF Durably
<1>10. QED
  BY <1>2, <1>7, <1>8, <1>9

LEMMA RecordsMap ==
  ASSUME IInv, Narrowed, Due' = Due, Attempted' = Attempted
  PROVE  Maps
<1>1. CASE \A h \in Due : Durably(h)' <=> Durably(h)
  BY <1>1, Unmoved
<1>2. ASSUME NEW h \in Due, ~(Durably(h)' <=> Durably(h)) PROVE Maps
  <2>1. /\ ~Durably(h) /\ Durably(h)' /\ \E a \in 1..MaxAttempt : <<h, a>> \in Tries
        /\ \A g \in Due \ {h} : Durably(g)' <=> Durably(g)
    BY <1>2, OneSettles
  <2>2. Owed' = Owed \ {h} /\ Settled' = Settled \cup {h} /\ h \in Owed
    BY <2>1 DEF Owed, Settled, Durably
  <2>3. Tries' = Tries
    BY DEF Tries
  <2>4. Contract!Settle(h)
    BY <2>1, <2>2, <2>3 DEF Contract!Settle, Owed, Settled, Tries
  <2>5. h \in Instance \X Ordinal
    BY DueIsHooks DEF IInv
  <2>6. QED
    BY <2>4, <2>5 DEF Maps, Contract!Next
<1>3. QED
  BY <1>1, <1>2

LEMMA BarrierMaps ==
  ASSUME IInv, batch \in Instance, UNCHANGED <<plan, committed, launched>>,
         outcomeDisk' = [outcomeDisk EXCEPT ![batch] = [i \in Ordinal |-> {outcome[batch][i]}]]
  PROVE  Maps
<1>1. Due' = Due /\ Attempted' = Attempted
  BY DueKept
<1>2. Narrowed
  BY OutcomesSynced DEF Narrowed
<1>3. QED
  BY <1>1, <1>2, RecordsMap

-----------------------------------------------------------------------------
(* A run is committed.                                                     *)

\* The hooks of a run that is not committed were not launched.
LEMMA UncommittedIsUnlaunched ==
  ASSUME IInv, TriesAreDue, NEW t \in Instance, t \notin committed,
         plan[t] # NoPlan, plan[t].selection = t
  PROVE  \A i \in Intents(t) : \A l \in launched : ~(l[1] = t /\ l[2] = i)
<1> SUFFICES ASSUME NEW i \in Intents(t), NEW l \in launched, l[1] = t, l[2] = i PROVE FALSE
  OBVIOUS
<1>1. <<t, i>> \in Declared(t)
  BY DEF Declared
<1>2. l \in Attempted
  BY <1>1 DEF Attempted
<1>3. <<l[1], l[2]>> \in Due
  BY <1>2 DEF TriesAreDue
<1>4. QED
  BY <1>3, DueIsHooks DEF IInv

\* A selection that was possible becomes the one that is, and the hooks of its run come due.
LEMMA Commits ==
  ASSUME IInv, TriesAreDue, Narrowed, NEW s \in selectedDisk, committed' = committed \cup {s},
         \A t \in (committed \cup {s}) \ {0} : Declared(t)' = Declared(t),
         Attempted' = Attempted, \A h \in Due : Durably(h)' <=> Durably(h)
  PROVE  Maps
<1>1. {Declared(t)' : t \in committed' \ {0}} = {Declared(t) : t \in (committed \cup {s}) \ {0}}
  OBVIOUS
<1>2. Due' = UNION {Declared(t) : t \in (committed \cup {s}) \ {0}}
  BY <1>1 DEF Due
<1>3. CASE s \in committed \cup {0}
  <2>1. (committed \cup {s}) \ {0} = committed \ {0}
    BY <1>3
  <2>2. Due' = Due
    BY <1>2, <2>1 DEF Due
  <2>3. QED
    BY <2>2, Unmoved
<1>4. CASE s \notin committed \cup {0}
  <2>1. s \in Instance
    BY <1>4, BoundsAssumption DEF IInv, TypeOK, Selection, Instance
  <2>2. Due' = Due \cup Declared(s)
    <3>1. (committed \cup {s}) \ {0} = (committed \ {0}) \cup {s}
      BY <1>4
    <3>2. QED
      BY <1>2, <3>1 DEF Due
  <2>3. ASSUME NEW h \in Declared(s)
        PROVE  h \notin Due /\ h \in Instance \X Ordinal /\ ~(Durably(h)')
    <3>1. PICK i \in Intents(s) : /\ h = <<s, i>> /\ plan[s] # NoPlan /\ plan[s].selection = s
                                  /\ i \in Ordinal
      BY <2>1, Typed DEF Declared, IInv
    <3>2. h \notin Due
      BY <1>4, <3>1, DueIsHooks DEF IInv
    <3>3. PICK o \in outcomeDisk'[s][i] : o \in outcomeDisk[s][i]
      BY <2>1, <3>1 DEF Narrowed
    <3>4. ~Executed(o)
      <4>1. Executed(o) => <<s, i, o.attempt>> \in launched
        BY <2>1, <3>1, <3>3 DEF IInv, OutcomeInv
      <4>2. \A l \in launched : ~(l[1] = s /\ l[2] = i)
        BY <1>4, <2>1, <3>1, UncommittedIsUnlaunched
      <4>3. QED
        BY <4>1, <4>2
    <3>5. QED
      BY <2>1, <3>1, <3>2, <3>3, <3>4 DEF Durably
  <2>4. Owed' = Owed \cup Declared(s) /\ Settled' = Settled
    BY <2>2, <2>3 DEF Owed, Settled, Durably
  <2>5. Tries' = Tries
    BY DEF Tries
  <2>6. Declared(s) \cap (Owed \cup Settled) = {}
    BY <2>3 DEF Owed, Settled
  <2>7. Contract!Commit(Declared(s))
    BY <2>4, <2>5, <2>6 DEF Contract!Commit, Owed, Settled, Tries
  <2>8. Declared(s) \in SUBSET (Instance \X Ordinal)
    BY <2>3
  <2>9. QED
    BY <2>7, <2>8 DEF Maps, Contract!Next
<1>5. QED
  BY <1>3, <1>4

LEMMA HomeMaps ==
  ASSUME IInv, TriesAreDue, SyncHome, UNCHANGED <<plan, launched, outcomeDisk>>
  PROVE  Maps
<1>1. selected \in selectedDisk /\ committed' = committed \cup {selected}
  BY DEF SyncHome, IInv, DiskInv
<1>2. Narrowed
  BY DEF Narrowed, IInv, DiskInv
<1>3. \A t : Declared(t)' = Declared(t)
  BY DEF Declared
<1>4. Attempted' = Attempted
  BY DEF Attempted, Declared
<1>5. \A h \in Due : Durably(h)' <=> Durably(h)
  BY DEF Durably
<1>6. QED
  BY <1>1, <1>2, <1>3, <1>4, <1>5, Commits

-----------------------------------------------------------------------------
(* An outcome is published, and an attempt is launched.                    *)

LEMMA PublishMaps ==
  ASSUME IInv, pc \in Settling \ Publishing, Unsettled # {}, NEW next, Publish(next),
         UNCHANGED <<plan, committed, launched>>
  PROVE  Maps
<1>1. Due' = Due /\ Attempted' = Attempted
  BY DueKept
<1>2. /\ batch \in Instance /\ Cursor \in Intents(batch) /\ Cursor \in Ordinal
      /\ ~Terminal(states[Cursor])
  BY AtCursor
<1>3. outcomeDisk[batch][Cursor] = {states[Cursor]} /\ ~Executed(states[Cursor])
  BY <1>2 DEF IInv, MemoryInv, Executed, Terminal
<1>4. \A t \in Instance, i \in Ordinal :
        /\ outcomeDisk[t][i] \subseteq outcomeDisk'[t][i]
        /\ t # batch \/ i # Cursor => outcomeDisk'[t][i] = outcomeDisk[t][i]
  BY <1>2 DEF Publish, IInv, TypeOK
<1>5. ASSUME NEW h \in Due PROVE Durably(h)' <=> Durably(h)
  <2>1. PICK t \in Instance, i \in Ordinal : h = <<t, i>>
    BY DueIsHooks DEF IInv
  <2>2. CASE t = batch /\ i = Cursor
    <3>1. states[Cursor] \in outcomeDisk[t][i] /\ states[Cursor] \in outcomeDisk'[t][i]
      BY <1>3, <1>4, <2>2
    <3>2. ~Durably(h) /\ ~(Durably(h)')
      BY <1>3, <2>1, <3>1 DEF Durably
    <3>3. QED
      BY <3>2
  <2>3. CASE t # batch \/ i # Cursor
    BY <1>4, <2>1, <2>3 DEF Durably
  <2>4. QED
    BY <2>2, <2>3
<1>6. QED
  BY <1>1, <1>5, Unmoved

\* A launch is one of the contract's when the plan is of a transaction: then its
\* selection is committed and the attempt is later than any before it.
LEMMA LaunchMaps == ASSUME IInv, Launch PROVE Maps
<1> USE DEF Launch
<1> DEFINE hook == <<batch, Cursor>>
           attempt == states[Cursor].attempt
           launch == <<batch, Cursor, attempt>>
<1>0. pc = "permit" /\ pc \in Settling /\ Unsettled # {} /\ batch # 0 /\ pointerDisk = {At(batch)}
  BY DEF IInv, MemoryInv, CommandInv, Settling, Publishing
<1>1. /\ batch \in Instance /\ Cursor \in Intents(batch) /\ Cursor \in Ordinal
      /\ ~Terminal(states[Cursor]) /\ states[Cursor] \in Outcome /\ plan[batch] # NoPlan
  BY <1>0, AtCursor, PointedAt DEF IInv
<1>2. /\ outcomeDisk[batch][Cursor] = {states[Cursor]}
      /\ selected = plan[batch].selection /\ selected \in committed
      /\ \A k \in launched : k[1] = batch /\ k[2] = Cursor => k[3] < attempt
      /\ attempt > 0
  BY <1>0, <1>1 DEF IInv, MemoryInv, SelectionInv, Publishing
<1>3. attempt \in 1..MaxAttempt
  BY <1>1, <1>2, BoundsAssumption DEF Outcome
<1>4. Due' = Due /\ \A g \in Due : Durably(g)' <=> Durably(g)
  BY DEF Due, Declared, Durably
<1>5. CASE plan[batch].selection # batch
  <2>1. Declared(batch) = {}
    BY <1>5 DEF Declared
  <2>2. Attempted' = Attempted
    BY <2>1 DEF Attempted, Declared
  <2>3. QED
    BY <1>4, <2>2, Unmoved
<1>6. CASE plan[batch].selection = batch
  <2>1. hook \in Declared(batch) /\ batch \in committed \ {0}
    BY <1>0, <1>1, <1>2, <1>6 DEF Declared
  <2>2. hook \in Owed
    <3>1. hook \in Due
      BY <2>1 DEF Due
    <3>2. ~Durably(hook)
      BY <1>1, <1>2 DEF Durably, Executed, Terminal
    <3>3. QED
      BY <3>1, <3>2 DEF Owed
  <2>3. Attempted' = Attempted \cup {launch}
    <3>1. \A k \in launched' : k \in launched \/ k = launch
      OBVIOUS
    <3>2. launch[1] = batch /\ launch[2] = Cursor /\ launch \in launched'
      OBVIOUS
    <3>3. \A t : Declared(t)' = Declared(t)
      BY DEF Declared
    <3>4. QED
      BY <2>1, <3>1, <3>2, <3>3 DEF Attempted
  <2>4. Tries' = Tries \cup {<<hook, attempt>>}
    <3>1. <<<<launch[1], launch[2]>>, launch[3]>> = <<hook, attempt>>
      OBVIOUS
    <3>2. Tries' = {<<<<k[1], k[2]>>, k[3]>> : k \in Attempted \cup {launch}}
      BY <2>3 DEF Tries
    <3> HIDE DEF launch, hook, attempt
    <3>3. QED
      BY <3>1, <3>2 DEF Tries
  <2>5. \A b \in 1..MaxAttempt : <<hook, b>> \in Tries => b < attempt
    BY <1>2 DEF Tries, Attempted
  <2>6. Owed' = Owed /\ Settled' = Settled
    BY <1>4 DEF Owed, Settled, Durably
  <2>7. PICK h \in Instance \X Ordinal, a \in 1..MaxAttempt : h = hook /\ a = attempt
    BY <1>1, <1>3
  <2>8. h \in Owed /\ Tries' = Tries \cup {<<h, a>>} /\ \A b \in 1..MaxAttempt : <<h, b>> \in Tries => b < a
    BY <2>2, <2>4, <2>5, <2>7
  <2>9. Contract!Launch(h, a)
    BY <2>6, <2>8 DEF Contract!Launch, Owed, Settled, Tries
  <2>10. QED
    BY <2>9 DEF Maps, Contract!Next
<1>7. QED
  BY <1>5, <1>6

-----------------------------------------------------------------------------
(* A power loss.                                                           *)

LEMMA PowerLossMaps == ASSUME IInv, TriesAreDue, PowerLoss PROVE Maps
<1>1. /\ selected' \in selectedDisk /\ committed' = committed \cup {selected'}
      /\ \A t \in Instance : plan'[t] \in planDisk[t]
      /\ \A t \in Instance, i \in Ordinal :
           outcome'[t][i] \in outcomeDisk[t][i] /\ outcomeDisk'[t][i] = {outcome'[t][i]}
  BY Survivors
<1>2. launched' = launched
  BY DEF PowerLoss
<1>3. Narrowed
  BY <1>1 DEF Narrowed
<1>4. ASSUME NEW t \in Instance, NoPlan \notin planDisk[t] \/ plan[t] = NoPlan PROVE plan'[t] = plan[t]
  <2>1. planDisk[t] \subseteq {NoPlan, plan[t]} /\ plan'[t] \in planDisk[t]
    BY <1>1 DEF IInv, PlanInv
  <2>2. QED
    BY <1>4, <2>1
<1>5. ASSUME NEW t \in (committed \cup {selected'}) \ {0} PROVE Declared(t)' = Declared(t)
  <2>1. t \in Instance /\ t \in (committed \cup selectedDisk) \ {0}
    BY <1>1, BoundsAssumption DEF IInv, TypeOK, Selection, Instance
  <2>2. plan[t] # NoPlan => NoPlan \notin planDisk[t]
    BY <2>1 DEF IInv, OwedInv
  <2>3. plan'[t] = plan[t]
    BY <1>4, <2>1, <2>2
  <2>4. QED
    BY <2>3 DEF Declared
<1>6. Attempted' = Attempted
  <2>1. ASSUME NEW l \in launched PROVE Declared(l[1])' = Declared(l[1])
    <3>1. l[1] \in Instance
      BY DEF IInv, TypeOK
    <3>2. NoPlan \notin planDisk[l[1]]
      BY <3>1 DEF IInv, PlanInv
    <3>3. plan'[l[1]] = plan[l[1]]
      BY <1>4, <3>1, <3>2
    <3>4. QED
      BY <3>3 DEF Declared
  <2>2. QED
    BY <1>2, <2>1 DEF Attempted
<1>7. CASE selectedDisk = {selected}
  <2>1. committed' = committed
    BY <1>1, <1>7 DEF IInv, SelectionInv
  <2>2. {Declared(t)' : t \in committed' \ {0}} = {Declared(t) : t \in committed \ {0}}
    BY <1>5, <2>1
  <2>3. Due' = Due
    BY <2>2 DEF Due
  <2>4. QED
    BY <1>3, <1>6, <2>3, RecordsMap
<1>8. CASE selectedDisk # {selected}
  <2>1. \A h \in Due : Durably(h)' <=> Durably(h)
    BY <1>3, <1>8, OneSettles
  <2>2. QED
    BY <1>1, <1>3, <1>5, <1>6, <2>1, Commits
<1>9. QED
  BY <1>7, <1>8

-----------------------------------------------------------------------------
(* The theorem.                                                            *)

LEMMA InitMaps == Init => Contract!Init /\ TriesAreDue
<1> SUFFICES ASSUME Init PROVE Contract!Init /\ TriesAreDue
  OBVIOUS
<1>1. Attempted = {}
  BY DEF Init, Attempted
<1>2. committed \ {0} = {}
  BY DEF Init
<1>3. Due = {}
  BY <1>2 DEF Due
<1>4. QED
  BY <1>1, <1>3 DEF Contract!Init, TriesAreDue

LEMMA ResumeMaps == ASSUME IInv, TriesAreDue, Resume PROVE Maps
<1>1. CASE Lock
  BY <1>1, Stutters DEF Lock
<1>2. CASE Reconcile
  BY <1>2, HomeMaps, Stutters DEF Reconcile
<1>3. CASE LoadPointer
  BY <1>3, HomeMaps, Stutters DEF LoadPointer
<1>4. CASE OpenBatch
  <2>1. batch \in Instance
    BY <1>4, PointedAt DEF OpenBatch, IInv, CommandInv
  <2>2. QED
    BY <1>4, <2>1, BarrierMaps, Stutters DEF OpenBatch
<1>5. CASE Migrate
  <2>1. PICK t \in Instance : t = issued'
    BY <1>5, BoundsAssumption DEF Migrate, IInv, TypeOK, Selection, Instance
  <2>2. t \notin committed
    <3>1. issued \in Nat /\ t = issued + 1 /\ \A x \in committed : x \in Nat /\ x <= issued
      BY <1>5, <2>1 DEF Migrate, IInv, TypeOK, Selection, SelectionInv
    <3>2. QED
      BY <3>1
  <2>3. QED
    BY <1>5, <2>1, <2>2, PlanMaps DEF Migrate
<1>6. QED
  BY <1>1, <1>2, <1>3, <1>4, <1>5 DEF Resume

LEMMA CreateMaps == ASSUME IInv, TriesAreDue, Create PROVE Maps
<1>1. CASE SyncPlan \/ PublishPointer
  BY <1>1, Stutters DEF SyncPlan, PublishPointer
<1>2. CASE SyncPointer
  BY <1>2, HomeMaps DEF SyncPointer
<1>3. QED
  BY <1>1, <1>2 DEF Create

LEMMA SettleMaps == ASSUME IInv, TriesAreDue, Settle PROVE Maps
<1>1. CASE Authorize
  BY <1>1, HomeMaps, Stutters DEF Authorize
<1>2. CASE SupersedeNext
  BY <1>2, PublishMaps DEF SupersedeNext, Settling, Publishing
<1>3. CASE StartAttempt
  BY <1>3, PublishMaps DEF StartAttempt, Settling, Publishing
<1>4. ASSUME NEW r \in {"Succeeded", "Failed"}, FinishAttempt(r) PROVE Maps
  <2>1. pc \in Settling \ Publishing /\ Unsettled # {}
    BY <1>4 DEF FinishAttempt, IInv, MemoryInv, Settling, Publishing
  <2>2. QED
    BY <1>4, <2>1, PublishMaps DEF FinishAttempt
<1>5. CASE SyncSuperseded \/ SyncStarted \/ SyncFinished
  <2>1. batch \in Instance
    BY <1>5, PointedAt DEF SyncSuperseded, SyncStarted, SyncFinished, IInv, CommandInv, Settling
  <2>2. QED
    BY <1>5, <2>1, BarrierMaps DEF SyncSuperseded, SyncStarted, SyncFinished, SyncOutcomes
<1>6. CASE Launch
  BY <1>6, LaunchMaps
<1>7. CASE AllSettled \/ WriteReceipt \/ SyncReceipt
  BY <1>7, Stutters DEF AllSettled, WriteReceipt, SyncReceipt
<1>8. CASE ClearPointer
  <2>1. selectedDisk = {selected} /\ selected \in committed
    BY <1>8 DEF ClearPointer, IInv, SelectionInv
  <2>2. QED
    BY <1>8, <2>1, Stutters DEF ClearPointer
<1>9. CASE SyncClear
  BY <1>9, HomeMaps DEF SyncClear
<1>10. QED
  BY <1>1, <1>2, <1>3, <1>4, <1>5, <1>6, <1>7, <1>8, <1>9 DEF Settle

LEMMA RunMaps == ASSUME IInv, TriesAreDue, Run PROVE Maps
<1>1. CASE Begin \/ Quit \/ EndRun \/ Flip \/ CommitRun
  BY <1>1, Stutters DEF Begin, Quit, EndRun, Flip, CommitRun
<1>2. CASE SyncFlip
  BY <1>2, HomeMaps DEF SyncFlip
<1>3. ASSUME NEW n \in Ordinal, Prepare(n) PROVE Maps
  <2>1. issued \in Instance /\ issued \notin committed
    BY <1>3, BoundsAssumption DEF Prepare, IInv, CommandInv, TypeOK, Selection, Instance
  <2>2. QED
    BY <1>3, <2>1, PlanMaps DEF Prepare
<1>4. QED
  BY <1>1, <1>2, <1>3 DEF Run

LEMMA StepMaps == IInv /\ TriesAreDue /\ [Next]_vars => Maps
<1> SUFFICES ASSUME IInv, TriesAreDue, [Next]_vars PROVE Maps
  OBVIOUS
<1>1. CASE Resume \/ Create \/ Settle \/ Run
  BY <1>1, ResumeMaps, CreateMaps, SettleMaps, RunMaps
<1>2. CASE Fail \/ ProcessDeath
  BY <1>2, Stutters DEF Fail, ProcessDeath
<1>3. CASE PowerLoss
  BY <1>3, PowerLossMaps
<1>4. CASE UNCHANGED vars
  BY <1>4, Stutters DEF vars
<1>5. QED
  BY <1>1, <1>2, <1>3, <1>4 DEF Next, Faults

\* No step of the contract makes an attempt for a hook that is not due.
LEMMA TriesStayDue == TriesAreDue /\ Maps => TriesAreDue'
<1> SUFFICES ASSUME TriesAreDue, Maps, NEW l \in Attempted' PROVE <<l[1], l[2]>> \in Due'
  BY DEF TriesAreDue
<1> DEFINE hook == <<l[1], l[2]>>
<1>1. Due = Owed \cup Settled /\ Due' = Owed' \cup Settled'
  BY DEF Owed, Settled
<1>2. <<hook, l[3]>> \in Tries'
  BY DEF Tries
<1>3. ASSUME NEW h, NEW a, <<h, a>> \in Tries PROVE h \in Due
  <2>1. PICK k \in Attempted : <<h, a>> = <<<<k[1], k[2]>>, k[3]>>
    BY <1>3 DEF Tries
  <2>2. h = <<k[1], k[2]>>
    BY <2>1
  <2>3. QED
    BY <2>2 DEF TriesAreDue
<1>4. CASE Tries' = Tries
  <2>1. hook \in Due
    BY <1>2, <1>3, <1>4
  <2>2. CASE UNCHANGED <<Owed, Settled, Tries>>
    BY <1>1, <2>1, <2>2
  <2>3. CASE \E hooks \in SUBSET (Instance \X Ordinal) : Contract!Commit(hooks)
    <3>1. Owed \subseteq Owed' /\ Settled' = Settled
      BY <2>3 DEF Contract!Commit, Owed, Settled
    <3>2. QED
      BY <1>1, <2>1, <3>1
  <2>4. CASE \E h \in Instance \X Ordinal : Contract!Settle(h)
    <3>1. Owed \cup Settled \subseteq Owed' \cup Settled'
      BY <2>4 DEF Contract!Settle, Owed, Settled
    <3>2. QED
      BY <1>1, <2>1, <3>1
  <2>5. CASE \E h \in Instance \X Ordinal, a \in 1..MaxAttempt : Contract!Launch(h, a)
    <3>1. UNCHANGED <<Owed, Settled>>
      BY <2>5 DEF Contract!Launch, Owed, Settled
    <3>2. QED
      BY <1>1, <2>1, <3>1
  <2>6. QED
    BY <2>2, <2>3, <2>4, <2>5 DEF Maps, Contract!Next
<1>5. CASE Tries' # Tries
  <2>1. PICK h \in Instance \X Ordinal, a \in 1..MaxAttempt : Contract!Launch(h, a)
    BY <1>5 DEF Maps, Contract!Next, Contract!Commit, Contract!Settle, Tries
  <2>2. h \in Due /\ Tries' = Tries \cup {<<h, a>>} /\ UNCHANGED <<Owed, Settled>>
    BY <2>1 DEF Contract!Launch, Owed, Settled, Tries
  <2>3. hook \in Due
    <3>1. <<hook, l[3]>> \in Tries \/ hook = h
      BY <1>2, <2>2
    <3>2. QED
      BY <1>3, <2>2, <3>1
  <2>4. QED
    BY <1>1, <2>2, <2>3
<1>6. QED
  BY <1>4, <1>5

\* Every behaviour of the ledger, with its errors, crashes and power losses, is one of the
\* contract: hooks run for committed runs only, at least once, under attempts that grow.
THEOREM Implements == Spec => ImplementsHookContract
<1>1. IInv /\ TriesAreDue /\ [Next]_vars => TriesAreDue' /\ Maps
  BY StepMaps, TriesStayDue
<1>2. Maps <=> [Contract!Next]_(Contract!vars)
  BY DEF Maps, Contract!vars, Owed, Settled, Tries
<1>3. QED
  BY <1>1, <1>2, InitMaps, Invariance, PTL DEF Spec, ImplementsHookContract, Contract!Spec

=============================================================================
