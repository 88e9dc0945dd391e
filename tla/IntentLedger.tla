----------------------------- MODULE IntentLedger -----------------------------
(***************************************************************************)
(* The activation ledger of gripsack-store (activation/ledger.rs): the     *)
(* hooks that a deploy run owes once its selection is committed, each with *)
(* a durable record of the attempts made to run it.                        *)
(*                                                                         *)
(* The journal appears here by its contract (AtomicRun): a transaction is  *)
(* open from begin_run until a cleanup is durable, and reconciliation      *)
(* makes the selection that it observed durable.  As in Journal, a name on *)
(* disk is what the kernel shows and the set of contents a power loss may  *)
(* leave it with.                                                          *)
(***************************************************************************)
EXTENDS Naturals, FiniteSets

CONSTANTS
  MaxIntents,   \* bound: intents in one plan
  MaxInstance,  \* bound: identities ever drawn
  MaxAttempt,   \* the last attempt number (u64::MAX in the code)
  NoPlan, NoReceipt, NoPointer,
  Nowhere       \* a selection that is not, and will not be, current

ASSUME BoundsAssumption ==
  MaxIntents \in Nat /\ MaxInstance \in Nat /\ MaxAttempt \in Nat

Ordinal  == 1..MaxIntents
Instance == 1..MaxInstance             \* transactions, and adopted legacy records
Selection == 0..MaxInstance            \* 0: selected before this history began
Plan     == [selection : Selection \cup {Nowhere}, count : 0..MaxIntents]
Outcome  == [state : {"Pending", "Started", "Succeeded", "Failed", "Superseded"},
             attempt : 0..MaxAttempt]  \* 0: never attempted
States   == [Ordinal -> Outcome]
Legacy   == [selection : {0, Nowhere}, count : 0..MaxIntents]
Current  == [instance : Instance]
Pointer  == Current \cup Legacy \cup {NoPointer}

ASSUME SentinelAssumption ==
  /\ NoPlan \notin Plan /\ NoReceipt \notin States
  /\ NoPointer \notin Current \cup Legacy
  /\ Nowhere \notin Selection

VARIABLES
  selected, selectedDisk,   \* the selection that `current' names
  journal,                  \* some disk still shows the transaction's marker
  issued,                   \* identities drawn so far
  pointer, pointerDisk,     \* activation.json: the batch to finish
  plan, planDisk,           \* activation/<instance>/ with its plan
  outcome, outcomeDisk,     \* one record for each intent of a plan
  receipt, receiptDisk,     \* the outcomes archived when all are terminal
  pc,                       \* where the process holding the session lock is
  purpose,                  \* "resume" the batch found on disk, or "run" a new one
  batch,                    \* the instance in hand, 0 for none
  states,                   \* its outcomes, in memory
  archived,                 \* they came from a receipt
  launched,                 \* history: <<instance, ordinal, attempt>> effects
  committed                 \* history: selections that were durably current

home    == <<selected, selectedDisk, pointer, pointerDisk>>
plans   == <<plan, planDisk>>
records == <<outcome, outcomeDisk>>
archive == <<receipt, receiptDisk>>
memory  == <<purpose, batch, states, archived>>
history == <<launched, committed>>
vars    == <<home, journal, issued, plans, records, archive, pc, memory, history>>

PC == {"idle", "reconcile", "resume", "open", "migrate", "planned", "sealed",
       "pointed", "authorize", "supersede", "superseding", "replay", "starting",
       "permit", "running", "finishing", "archive", "archiving", "clear",
       "clearing", "ready", "run", "prepared", "flipped", "commit"}

Fresh == [state |-> "Pending", attempt |-> 0]
Pending == [i \in Ordinal |-> Fresh]

TypeOK ==
  /\ selected \in Selection /\ selectedDisk \in SUBSET Selection
  /\ journal \in BOOLEAN /\ issued \in Selection
  /\ pointer \in Pointer /\ pointerDisk \in SUBSET Pointer
  /\ plan \in [Instance -> Plan \cup {NoPlan}]
  /\ planDisk \in [Instance -> SUBSET (Plan \cup {NoPlan})]
  /\ outcome \in [Instance -> States]
  /\ outcomeDisk \in [Instance -> [Ordinal -> SUBSET Outcome]]
  /\ receipt \in [Instance -> States \cup {NoReceipt}]
  /\ receiptDisk \in [Instance -> SUBSET (States \cup {NoReceipt})]
  /\ pc \in PC /\ purpose \in {"resume", "run"}
  /\ batch \in Selection /\ states \in States /\ archived \in BOOLEAN
  /\ launched \in SUBSET (Instance \X Ordinal \X (1..MaxAttempt))
  /\ committed \in SUBSET Selection

-----------------------------------------------------------------------------
(* Decisions: gripsack-policy/src/activation.rs.                           *)

Terminal(o) == o.state \in {"Succeeded", "Failed", "Superseded"}
Executed(o) == o.state \in {"Succeeded", "Failed"}
Supersede(o) == [o EXCEPT !.state = "Superseded"]
HasNextAttempt(o) == o.attempt < MaxAttempt
NextAttempt(o) == [state |-> "Started", attempt |-> o.attempt + 1]
Finish(o, result) == [o EXCEPT !.state = result]

\* The intents of the batch that memory holds unsettled, and the one the loops
\* of authorize and next_attempt reach first.
Unsettled == {i \in 1..plan[batch].count : ~Terminal(states[i])}
Cursor == CHOOSE i \in Unsettled : \A j \in Unsettled : i <= j

\* A barrier on the home directory covers both names in it.
SyncHome ==
  /\ selectedDisk' = {selected} /\ pointerDisk' = {pointer}
  /\ committed' = committed \cup {selected}
  /\ UNCHANGED <<selected, pointer>>

\* persist: an outcome record is replaced, and its directory's barrier.
Publish(next) ==
  /\ outcome' = [outcome EXCEPT ![batch][Cursor] = next]
  /\ outcomeDisk' = [outcomeDisk EXCEPT ![batch][Cursor] = @ \cup {next}]
SyncOutcomes ==
  /\ outcomeDisk' = [outcomeDisk EXCEPT ![batch] =
                       [i \in Ordinal |-> {outcome[batch][i]}]]
  /\ states' = [states EXCEPT ![Cursor] = outcome[batch][Cursor]]
  /\ UNCHANGED outcome

\* The batch is dropped; what is known of it is on disk.
Forget == batch' = 0 /\ states' = Pending /\ archived' = FALSE /\ UNCHANGED purpose

Goto(from, to) == pc = from /\ pc' = to

-----------------------------------------------------------------------------
Init ==
  /\ selected = 0 /\ selectedDisk = {0} /\ journal = FALSE /\ issued = 0
  /\ pointer \in Legacy \cup {NoPointer} /\ pointerDisk = {pointer}
  /\ plan = [t \in Instance |-> NoPlan] /\ planDisk = [t \in Instance |-> {NoPlan}]
  /\ outcome = [t \in Instance |-> Pending]
  /\ outcomeDisk = [t \in Instance |-> [i \in Ordinal |-> {Fresh}]]
  /\ receipt = [t \in Instance |-> NoReceipt]
  /\ receiptDisk = [t \in Instance |-> {NoReceipt}]
  /\ pc = "idle" /\ purpose = "run" /\ batch = 0 /\ states = Pending
  /\ archived = FALSE
  /\ launched = {} /\ committed = {0}

-----------------------------------------------------------------------------
(* A command takes the lock, reconciles and resumes what it finds.         *)

Lock ==
  /\ Goto("idle", "reconcile") /\ purpose' = "resume"
  /\ UNCHANGED <<home, journal, issued, plans, records, archive, batch, states,
                 archived, history>>

\* A pointer seen at the open transaction's target is made durable, and the
\* journal is empty afterwards; a compensation ends the command there.
Reconcile ==
  /\ pc = "reconcile"
  /\ IF journal /\ selected = issued THEN SyncHome ELSE UNCHANGED <<home, committed>>
  /\ journal' = FALSE
  /\ pc' = IF purpose = "resume" THEN "resume" ELSE "idle"
  /\ UNCHANGED <<issued, plans, records, archive, memory, launched>>

\* load_pending: a pointer that is read is sealed before it is believed.
LoadPointer ==
  /\ pc = "resume" /\ ~journal
  /\ \/ /\ pointer = NoPointer /\ pc' = "ready"
        /\ UNCHANGED <<home, batch, committed>>
     \/ /\ pointer \in Current /\ pc' = "open" /\ batch' = pointer.instance
        /\ SyncHome
     \/ /\ pointer \in Legacy /\ pc' = "migrate"
        /\ SyncHome /\ UNCHANGED batch
  /\ UNCHANGED <<journal, issued, plans, records, archive, purpose, states,
                 archived, launched>>

\* ActivationBatch::open: a receipt stands for the outcomes it archived.
OpenBatch ==
  /\ Goto("open", "authorize")
  /\ plan[batch] # NoPlan
  /\ receiptDisk' = [receiptDisk EXCEPT ![batch] = {receipt[batch]}]
  /\ IF receipt[batch] # NoReceipt
     THEN /\ \A i \in 1..plan[batch].count : Terminal(receipt[batch][i])
          /\ states' = receipt[batch] /\ archived' = TRUE
          /\ UNCHANGED outcomeDisk
     ELSE /\ states' = outcome[batch] /\ archived' = FALSE
          /\ outcomeDisk' = [outcomeDisk EXCEPT ![batch] =
                               [i \in Ordinal |-> {outcome[batch][i]}]]
  /\ UNCHANGED <<home, journal, issued, plans, outcome, receipt, purpose, batch, history>>

-----------------------------------------------------------------------------
(* create: the plan and its pending outcomes, their barrier, the pointer.  *)

CreatePlan(instance, p) ==
  /\ plan[instance] = NoPlan
  /\ plan' = [plan EXCEPT ![instance] = p]
  /\ planDisk' = [planDisk EXCEPT ![instance] = @ \cup {p}]
  /\ batch' = instance
  /\ pc' = "planned"

\* A legacy record names a generation: it is bound to the current selection
\* of that generation, or to none, under an identity of its own.
Migrate ==
  /\ pc = "migrate" /\ issued < MaxInstance
  /\ issued' = issued + 1
  /\ CreatePlan(issued', pointer)
  /\ UNCHANGED <<home, journal, records, archive, purpose, states, archived, history>>

\* prepare: a run with intents declares them, under its own transaction.
Prepare(n) ==
  /\ pc = "run" /\ pointer = NoPointer
  /\ CreatePlan(issued, [selection |-> issued, count |-> n])
  /\ UNCHANGED <<home, journal, issued, records, archive, purpose, states, archived, history>>

SyncPlan ==
  /\ Goto("planned", "sealed")
  /\ planDisk' = [t \in Instance |-> {plan[t]}]
  /\ UNCHANGED <<home, journal, issued, plan, records, archive, memory, history>>

PublishPointer ==
  /\ Goto("sealed", "pointed")
  /\ pointer' = [instance |-> batch] /\ pointerDisk' = pointerDisk \cup {pointer'}
  /\ UNCHANGED <<selected, selectedDisk, journal, issued, plans, records, archive, memory, history>>

SkipPointerBarrier ==   \* mutant: the flip is left to carry the pointer along
  /\ pc = "pointed"
  /\ states' = Pending /\ archived' = FALSE
  /\ pc' = IF purpose = "run" THEN "prepared" ELSE "authorize"
  /\ UNCHANGED <<home, journal, issued, plans, records, archive, purpose, batch, history>>

SyncPointer ==
  /\ pc = "pointed"
  /\ SyncHome
  /\ states' = Pending /\ archived' = FALSE
  /\ pc' = IF purpose = "run" THEN "prepared" ELSE "authorize"
  /\ UNCHANGED <<journal, issued, plans, records, archive, purpose, batch, launched>>

-----------------------------------------------------------------------------
(* authorize: hooks run for the selection that is current, and no other.   *)

AuthorizeAnyway ==   \* mutant: the pointer alone is authority
  /\ Goto("authorize", "replay")
  /\ SyncHome
  /\ UNCHANGED <<journal, issued, plans, records, archive, memory, launched>>

Authorize ==
  /\ pc = "authorize"
  /\ \/ /\ selected # plan[batch].selection
        /\ pc' = "supersede"
        /\ UNCHANGED <<home, committed>>
     \/ /\ selected = plan[batch].selection
        /\ pc' = "replay"
        /\ SyncHome
  /\ UNCHANGED <<journal, issued, plans, records, archive, memory, launched>>

SupersedeNext ==
  /\ Goto("supersede", "superseding") /\ Unsettled # {}
  /\ Publish(Supersede(states[Cursor]))
  /\ UNCHANGED <<home, journal, issued, plans, archive, memory, history>>

SyncSuperseded ==
  /\ Goto("superseding", "supersede")
  /\ SyncOutcomes
  /\ UNCHANGED <<home, journal, issued, plans, archive, purpose, batch, archived, history>>

\* next_attempt: the attempt is on record before the permit exists.
StartAttempt ==
  /\ Goto("replay", "starting") /\ Unsettled # {}
  /\ HasNextAttempt(states[Cursor])
  /\ Publish(NextAttempt(states[Cursor]))
  /\ UNCHANGED <<home, journal, issued, plans, archive, memory, history>>

SkipStartedBarrier ==   \* mutant
  /\ Goto("starting", "permit")
  /\ states' = [states EXCEPT ![Cursor] = outcome[batch][Cursor]]
  /\ UNCHANGED <<home, journal, issued, plans, records, archive, purpose, batch, archived, history>>

SyncStarted ==
  /\ Goto("starting", "permit")
  /\ SyncOutcomes
  /\ UNCHANGED <<home, journal, issued, plans, archive, purpose, batch, archived, history>>

\* The effect begins; a crash from here on leaves it ambiguous.
Launch ==
  /\ Goto("permit", "running")
  /\ launched' = launched \cup {<<batch, Cursor, states[Cursor].attempt>>}
  /\ UNCHANGED <<home, journal, issued, plans, records, archive, memory, committed>>

FinishAttempt(result) ==
  /\ Goto("running", "finishing")
  /\ Publish(Finish(states[Cursor], result))
  /\ UNCHANGED <<home, journal, issued, plans, archive, memory, history>>

SyncFinished ==
  /\ Goto("finishing", "replay")
  /\ SyncOutcomes
  /\ UNCHANGED <<home, journal, issued, plans, archive, purpose, batch, archived, history>>

-----------------------------------------------------------------------------
(* archive_and_clear: the receipt, then the pointer.                       *)

OnlyReplayed ==   \* mutant: a superseded batch is not cleared
  /\ pc = "replay" /\ Unsettled = {}
  /\ pc' = "archive"
  /\ UNCHANGED <<home, journal, issued, plans, records, archive, memory, history>>

AllSettled ==
  /\ pc \in {"replay", "supersede"} /\ Unsettled = {}
  /\ pc' = "archive"
  /\ UNCHANGED <<home, journal, issued, plans, records, archive, memory, history>>

WriteReceipt ==
  /\ pc = "archive"
  /\ \/ /\ archived /\ pc' = "clear"
        /\ UNCHANGED archive
     \/ /\ ~archived /\ pc' = "archiving"
        /\ receipt' = [receipt EXCEPT ![batch] = states]
        /\ receiptDisk' = [receiptDisk EXCEPT ![batch] = @ \cup {states}]
  /\ UNCHANGED <<home, journal, issued, plans, records, memory, history>>

SyncReceipt ==
  /\ Goto("archiving", "clear")
  /\ receiptDisk' = [receiptDisk EXCEPT ![batch] = {receipt[batch]}]
  /\ UNCHANGED <<home, journal, issued, plans, records, receipt, memory, history>>

\* The pointer is read again, and sealed, before it is removed.
ClearPointer ==
  /\ Goto("clear", "clearing") /\ pointer = [instance |-> batch]
  /\ selectedDisk' = {selected} /\ committed' = committed \cup {selected}
  /\ pointer' = NoPointer /\ pointerDisk' = {pointer, NoPointer}
  /\ UNCHANGED <<selected, journal, issued, plans, records, archive, memory, launched>>

SyncClear ==
  /\ pc = "clearing"
  /\ SyncHome
  /\ Forget
  /\ pc' = IF purpose = "run" THEN "idle" ELSE "ready"
  /\ UNCHANGED <<journal, issued, plans, records, archive, launched>>

-----------------------------------------------------------------------------
(* The run itself, by the journal's contract.                              *)

Begin ==
  /\ Goto("ready", "run") /\ issued < MaxInstance
  /\ issued' = issued + 1 /\ journal' = TRUE /\ purpose' = "run"
  /\ UNCHANGED <<home, plans, records, archive, batch, states, archived, history>>

Quit ==
  /\ Goto("ready", "idle")
  /\ UNCHANGED <<home, journal, issued, plans, records, archive, memory, history>>

\* A run that changed nothing takes its marker back.
EndRun ==
  /\ Goto("run", "idle") /\ journal' = FALSE
  /\ UNCHANGED <<home, issued, plans, records, archive, memory, history>>

\* A run without intents has prepared nothing.
Flip ==
  /\ pc \in {"run", "prepared"} /\ pc' = "flipped"
  /\ selected' = issued /\ selectedDisk' = selectedDisk \cup {issued}
  /\ UNCHANGED <<pointer, pointerDisk, journal, issued, plans, records, archive, memory, history>>

SyncFlip ==
  /\ Goto("flipped", "commit")
  /\ SyncHome
  /\ UNCHANGED <<journal, issued, plans, records, archive, memory, launched>>

\* A cleanup that fails is only a warning: the hooks run all the same.
CommitRun ==
  /\ pc = "commit"
  /\ journal' \in {FALSE, journal}
  /\ pc' = IF batch = 0 THEN "idle" ELSE "authorize"
  /\ UNCHANGED <<home, issued, plans, records, archive, memory, history>>

-----------------------------------------------------------------------------
(* Errors, crashes and power loss.                                         *)

\* An error between the marker and the commit is compensated in the same
\* process; any other ends the command, with its evidence retained.
Fail ==
  /\ pc \notin {"idle", "ready", "commit"}
  /\ pc' = IF purpose = "run" /\
              pc \in {"run", "planned", "sealed", "pointed", "prepared", "flipped"}
           THEN "reconcile" ELSE "idle"
  /\ Forget
  /\ UNCHANGED <<home, journal, issued, plans, records, archive, history>>

ProcessDeath ==
  /\ pc # "idle" /\ pc' = "idle"
  /\ Forget
  /\ UNCHANGED <<home, journal, issued, plans, records, archive, history>>

Left(disk, S) == {f \in [S -> UNION {disk[x] : x \in S}] : \A x \in S : f[x] \in disk[x]}

PowerLoss ==
  /\ selected' \in selectedDisk /\ selectedDisk' = {selected'}
  /\ pointer' \in pointerDisk /\ pointerDisk' = {pointer'}
  /\ plan' \in Left(planDisk, Instance)
  /\ planDisk' = [t \in Instance |-> {plan'[t]}]
  /\ \E f \in [Instance -> UNION {Left(outcomeDisk[t], Ordinal) : t \in Instance}] :
       /\ \A t \in Instance : f[t] \in Left(outcomeDisk[t], Ordinal)
       /\ outcome' = f
  /\ outcomeDisk' = [t \in Instance |-> [i \in Ordinal |-> {outcome'[t][i]}]]
  /\ receipt' \in Left(receiptDisk, Instance)
  /\ receiptDisk' = [t \in Instance |-> {receipt'[t]}]
  /\ committed' = committed \cup {selected'}
  /\ pc' = "idle" /\ Forget
  /\ UNCHANGED <<journal, issued, launched>>

-----------------------------------------------------------------------------
Resume ==
  \/ Lock \/ Reconcile \/ LoadPointer \/ OpenBatch \/ Migrate
Create ==
  \/ SyncPlan \/ PublishPointer \/ SyncPointer
Settle ==
  \/ Authorize \/ SupersedeNext \/ SyncSuperseded
  \/ StartAttempt \/ SyncStarted \/ Launch \/ SyncFinished
  \/ \E r \in {"Succeeded", "Failed"} : FinishAttempt(r)
  \/ AllSettled \/ WriteReceipt \/ SyncReceipt \/ ClearPointer \/ SyncClear
Run ==
  \/ Begin \/ Quit \/ EndRun \/ Flip \/ SyncFlip \/ CommitRun
  \/ \E n \in Ordinal : Prepare(n)
Faults == Fail \/ ProcessDeath \/ PowerLoss

Next == Resume \/ Create \/ Settle \/ Run \/ Faults

Spec == Init /\ [][Next]_vars

-----------------------------------------------------------------------------
(* Properties.                                                             *)

\* No two launches share an intent and an attempt number, however often the
\* program was killed in between.
AttemptsAreUnique ==
  [][pc = "permit" /\ pc' = "running" =>
       <<batch, Cursor, states[Cursor].attempt>> \notin launched]_vars

\* Once a transaction is committed, each intent it declared is either still
\* pointed at, on every disk, or has durably run: none is lost or superseded.
NoIntentLost ==
  \A t \in committed \ {0} : plan[t] # NoPlan =>
    \/ pointerDisk = {[instance |-> t]}
    \/ \A i \in 1..plan[t].count : \A o \in outcomeDisk[t][i] : Executed(o)

\* Whatever a power loss leaves, the next command can open what the pointer
\* names, and a receipt it finds agrees with the records it stands for.
NeverStranded ==
  /\ \A p \in pointerDisk \cap Current : NoPlan \notin planDisk[p.instance]
  /\ \A t \in Instance : \A r \in receiptDisk[t] \ {NoReceipt} :
       \A i \in 1..plan[t].count : Terminal(r[i]) /\ outcomeDisk[t][i] = {r[i]}

\* No plan of a committed run is forgotten before its hooks are settled, and none is
\* left behind that no command could open; its records are well typed throughout
\* (activation/ledger.rs).
IntentsSurvive == TypeOK /\ NoIntentLost /\ NeverStranded

-----------------------------------------------------------------------------
(* Progress: a process that holds the lock keeps taking steps, and after a *)
(* command that ended another one is run.                                  *)

FairSpec == Spec /\ WF_vars(Resume \/ Create \/ Settle \/ Run)

\* next_attempt refuses: the attempt counter is used up.
Exhausted == pc = "replay" /\ Unsettled # {} /\ ~HasNextAttempt(states[Cursor])
OutOfIdentities == pc = "migrate" /\ issued = MaxInstance   \* the bound, not the code

\* When faults cease, a batch that is pointed at is settled and cleared, unless
\* its attempt counter has run out: nothing that a crash leaves is stuck.
EveryBatchSettles ==
  <>[][~Faults]_vars =>
    (pointer # NoPointer ~> pointer = NoPointer \/ Exhausted \/ OutOfIdentities)
=============================================================================
