--------------------------- MODULE LedgerInvariant ---------------------------
(***************************************************************************)
(* The inductive invariant of IntentLedger: what its records mean on every *)
(* disk a power loss can leave, and what each program counter may rely on. *)
(***************************************************************************)
EXTENDS IntentLedger

Intents(t) == 1..plan[t].count
At(t) == [instance |-> t]              \* the pointer to a batch

\* Stretches of the way: a run that has not flipped; a batch with its pointer
\* on every disk, being settled; an outcome on its way to the disk.
Running    == {"run", "planned", "sealed", "pointed", "prepared", "flipped", "commit"}
Creating   == {"planned", "sealed", "pointed"}
Settling   == {"authorize", "supersede", "superseding", "replay", "starting", "permit",
               "running", "finishing", "archive", "archiving", "clear"}
Publishing == {"superseding", "starting", "finishing"}

\* Nothing was ever recorded of an instance's intents.
Untouched(t) ==
  /\ \A i \in Ordinal : outcomeDisk[t][i] = {Fresh}
  /\ receiptDisk[t] = {NoReceipt}

AllExecuted(t) == \A i \in Intents(t) : \A o \in outcomeDisk[t][i] : Executed(o)

\* What is shown is one of the possibilities.
DiskInv ==
  /\ selected \in selectedDisk /\ pointer \in pointerDisk
  /\ \A t \in Instance :
       /\ plan[t] \in planDisk[t] /\ receipt[t] \in receiptDisk[t]
       /\ \A i \in Ordinal : outcome[t][i] \in outcomeDisk[t][i]

\* The selection is durable, but from a flip until its barrier or a reconciliation.
SelectionInv ==
  /\ \A s \in selectedDisk \cup committed : s <= issued
  /\ selectedDisk # {selected} =>
       journal /\ selected = issued /\ pc \in {"idle", "reconcile", "flipped"}
  /\ selectedDisk = {selected} => selected \in committed

\* A plan is written once, under an identity of its own, and nothing is pointed at,
\* recorded or launched before it is on every disk.
PlanInv == \A t \in Instance :
  /\ planDisk[t] \subseteq {NoPlan, plan[t]}
  /\ plan[t] # NoPlan => t <= issued
  /\ NoPlan \in planDisk[t] =>
       Untouched(t) /\ At(t) \notin pointerDisk /\ \A l \in launched : l[1] # t

\* Attempts only grow, and only a launched attempt has a result.
OutcomeInv == \A t \in Instance, i \in Ordinal :
  /\ \A o \in outcomeDisk[t][i] :
       /\ \A l \in launched : l[1] = t /\ l[2] = i => l[3] <= o.attempt
       /\ Executed(o) => <<t, i, o.attempt>> \in launched
  /\ outcomeDisk[t][i] # {outcome[t][i]} =>
       /\ pointerDisk = {At(t)} /\ i \in Intents(t)
       /\ \A j \in Ordinal : outcomeDisk[t][j] # {outcome[t][j]} => j = i

\* A receipt stands for terminal outcomes that are on every disk.
ReceiptInv == \A t \in Instance : \A r \in receiptDisk[t] \ {NoReceipt} :
  \A i \in Intents(t) : Terminal(r[i]) /\ outcomeDisk[t][i] = {r[i]}

\* The intents of a run that is, or may yet turn out to be, committed: all have run, or
\* the pointer and the selection are still those of the run.  None is superseded.
OwedInv == \A t \in (committed \cup selectedDisk) \ {0} : plan[t] # NoPlan =>
  /\ plan[t].selection = t /\ NoPlan \notin planDisk[t]
  /\ \A i \in Intents(t) : \A o \in outcomeDisk[t][i] : o.state # "Superseded"
  /\ \/ AllExecuted(t)
     \/ pointerDisk = {At(t)} /\ selected = t /\ (t \in committed => selectedDisk = {t})

\* What each stretch of a command relies on.
CommandInv ==
  /\ pc \in {"idle", "reconcile", "resume", "migrate", "ready", "run"} => batch = 0
  /\ pc \in {"resume", "open", "migrate", "ready"} => purpose = "resume" /\ ~journal
  /\ pc \in {"run", "prepared", "flipped", "commit"} => purpose = "run"
  /\ purpose = "resume" /\ pc \in Creating \cup Settling \cup {"clearing"} => ~journal
  /\ purpose = "run" /\ pc \in Running => journal
  /\ pc = "migrate" => pointer \in Legacy
  /\ pc \in {"ready", "run"} => pointer = NoPointer
  /\ pc = "run" => plan[issued] = NoPlan /\ issued # 0
  /\ pc \in {"run", "prepared"} \cup Creating => issued \notin committed \cup selectedDisk
  /\ pc \in {"flipped", "commit"} => selected = issued /\ batch \in {0, issued}
  /\ pc \in {"prepared"} \cup Creating => batch = issued /\ batch # 0
  /\ pc \in Creating \cup {"prepared", "flipped", "commit"} /\ batch # 0 =>
       /\ Untouched(batch) /\ plan[batch] # NoPlan
       /\ purpose = "run" => plan[batch].selection = batch
  /\ pc \in {"planned", "sealed"} => pointer \notin Current /\ At(batch) \notin pointerDisk
  /\ pc \in {"sealed", "pointed"} => NoPlan \notin planDisk[batch]
  /\ pc = "pointed" => pointer = At(batch)
  /\ pc \in {"prepared", "flipped", "commit"} /\ batch # 0 =>
       pointerDisk = {At(batch)} /\ states = Pending /\ ~archived
  /\ pc \in Settling \cup {"open"} => batch # 0 /\ pointerDisk = {At(batch)}
  /\ pc = "clearing" => pointer = NoPointer

\* What memory holds of the batch that is being settled.
MemoryInv == pc \in Settling =>
  /\ archived => \A i \in Intents(batch) : Terminal(states[i])
  /\ ~archived /\ pc \notin {"archiving", "clear"} => receiptDisk[batch] = {NoReceipt}
  /\ \A i \in Intents(batch) :
       pc \notin Publishing \/ i # Cursor => outcomeDisk[batch][i] = {states[i]}
  /\ pc \in Publishing \cup {"permit", "running"} => Unsettled # {}
  /\ pc \in Publishing => outcomeDisk[batch][Cursor] = {states[Cursor], outcome[batch][Cursor]}
  /\ pc = "superseding" => outcome[batch][Cursor] = Supersede(states[Cursor])
  /\ pc = "starting" => outcome[batch][Cursor] = NextAttempt(states[Cursor])
  /\ pc = "finishing" => \E r \in {"Succeeded", "Failed"} :
                           outcome[batch][Cursor] = Finish(states[Cursor], r)
  /\ pc = "permit" => \A l \in launched :
       l[1] = batch /\ l[2] = Cursor => l[3] < states[Cursor].attempt
  /\ pc \in {"permit", "running"} => states[Cursor].attempt > 0
  /\ pc \in {"running", "finishing"} =>
       <<batch, Cursor, states[Cursor].attempt>> \in launched
  /\ pc \in {"archive", "archiving", "clear"} => Unsettled = {}
  /\ pc \in {"replay", "starting", "permit", "running", "finishing"} =>
       selected = plan[batch].selection
  /\ pc \in {"supersede", "superseding"} => selected # plan[batch].selection

IInv ==
  /\ TypeOK /\ DiskInv /\ SelectionInv /\ PlanInv /\ OutcomeInv /\ ReceiptInv
  /\ OwedInv /\ CommandInv /\ MemoryInv
=============================================================================
