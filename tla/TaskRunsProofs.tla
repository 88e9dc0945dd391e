---------------------------- MODULE TaskRunsProofs ----------------------------
(***************************************************************************)
(* Proofs that TaskRuns keeps its inductive invariant and what follows.    *)
(* A step of one invocation is shown to keep what that one relies on, and  *)
(* to leave alone what the others do (Unaffected).                         *)
(***************************************************************************)
EXTENDS TaskRunsInvariant, TLAPS, WellFoundedInduction

\* What a step must leave alone for j to rely on the same as before, its
\* objects aside, and with them.
Undisturbed(j) ==
  /\ job' = job
  /\ pc'[j] = pc[j] /\ left'[j] = left[j] /\ status'[j] = status[j]
  /\ node'[j] = node[j] /\ actions'[j] = actions[j] /\ result'[j] = result[j]
  /\ launched'[j] = launched[j] /\ report'[j] = report[j]
  /\ root'[j] = root[j] /\ rootDisk'[j] = rootDisk[j]
  /\ j \in staging' <=> j \in staging
  /\ j \in unconfirmed' <=> j \in unconfirmed
  /\ j \in alive' => j \in alive
  /\ \A l \in Loc : lock'[l] = j <=> lock[l] = j
  /\ \A l \in Loc : lock[l] = j => claim'[l] = claim[l]
  /\ \A l \in Loc : j \in claimDisk'[l] => j \in claimDisk[l]
  /\ \A l \in Loc : claimDisk[l] = {j} => claimDisk'[l] = {j}
  /\ session[job[j].home] = j => session'[job[j].home] = j
Unaffected(j) ==
  /\ Undisturbed(j)
  /\ store[job[j].home] \ doomed[job[j].home] \subseteq store'[job[j].home] \ doomed'[job[j].home]

\* What a step of i must be like for those it turned away, or that turned it.
Advances(i) ==
  /\ refused' = refused
  /\ \A j \in Inv \ {i} : pc'[j] = pc[j] /\ \A l \in Loc : lock'[l] = j <=> lock[l] = j
  /\ pc[i] \in Turned => pc'[i] \in Turned /\ \A l \in Loc : lock'[l] = i => lock[l] = i
  /\ pc[i] \notin Before => pc'[i] \notin Before
  /\ pc'[i] \in Seeking => \/ pc[i] \in Before
                           \/ pc[i] \in Seeking /\ \A l \in Loc : lock[l] = i => lock'[l] = i

-----------------------------------------------------------------------------
(* Keys.                                                                   *)

\* Two keys of one invocation never have the same number.
LEMMA KeysAreLocations ==
  ASSUME TypeOK, NEW i \in Inv
  PROVE  /\ Keys(i) \subseteq Loc
         /\ \A l, m \in Keys(i) : l[2] = m[2] => l = m
<1>1. job[i].home \in Home /\ job[i].keys \subseteq Key
  BY DEF TypeOK, Job
<1>2. \A k \in job[i].keys : Location(i, k) \in Loc /\ Location(i, k)[2] = k
  BY <1>1 DEF Location, Loc
<1>3. QED
  BY <1>2 DEF Keys

\* Keys are numbers.
LEMMA KeyNumbers == \A l \in Loc : l[2] \in Nat
BY ScopeAssumption DEF Loc

\* Keys are those of the job, which nothing changes.
LEMMA KeysKept ==
  ASSUME job' = job
  PROVE  \A i \in Inv : Keys(i)' = Keys(i)
BY DEF Keys, Location

\* The first of some keys of one invocation is one.
LEMMA FirstIsUnique ==
  ASSUME TypeOK, NEW i \in Inv, NEW S, S \subseteq Keys(i), NEW l, NEW m, IsFirst(l, S), IsFirst(m, S)
  PROVE  l = m
BY KeysAreLocations, KeyNumbers DEF IsFirst

-----------------------------------------------------------------------------
(* Frames.                                                                 *)

\* An invocation that a step leaves alone relies on the same as before.
LEMMA UndisturbedKeep ==
  ASSUME IInv, NEW j \in Inv, Undisturbed(j)
  PROVE  LocksOf(j)' /\ ClaimsOf(j)' /\ RootOf(j)' /\ CommandOf(j)' /\ GraphOf(j)' /\ ReportOf(j)'
<1> USE DEF Undisturbed
<1>1. OwnInv(j) /\ TypeOK /\ Keys(j)' = Keys(j) /\ Keys(j) \subseteq Loc
  BY KeysKept, KeysAreLocations DEF IInv
<1>2. LocksOf(j)'
  BY <1>1 DEF OwnInv, LocksOf
<1>3. ClaimsOf(j)'
  <2>1. ClaimsOf(j) /\ LocksOf(j)
    BY <1>1 DEF OwnInv
  <2>2. \A S \in SUBSET Loc : NoClaimOf(j, S) => NoClaimOf(j, S)'
    BY DEF NoClaimOf
  <2>3. QED
    BY <1>1, <2>1, <2>2 DEF ClaimsOf, LocksOf, Holding, NoClaimOf, IsFirst
<1>4. RootOf(j)'
  BY <1>1 DEF OwnInv, RootOf
<1>5. CommandOf(j)'
  BY <1>1 DEF OwnInv, CommandOf
<1>6. GraphOf(j)' /\ ReportOf(j)'
  BY <1>1 DEF OwnInv, GraphOf, ReportOf, NoClaimOf
<1>7. QED
  BY <1>2, <1>3, <1>4, <1>5, <1>6

\* The same with its objects.
LEMMA OthersKeep ==
  ASSUME IInv, NEW j \in Inv, Unaffected(j)
  PROVE  OwnInv(j)'
<1>1. ObjectsOf(j)'
  BY DEF IInv, OwnInv, ObjectsOf, Unaffected, Undisturbed
<1>2. QED
  BY <1>1, UndisturbedKeep DEF OwnInv, Unaffected

\* A step that turns nobody away keeps what was said of those turned away.
LEMMA RefusalsKept ==
  ASSUME IInv, NEW i \in Inv, Advances(i)
  PROVE  RefusalInv'
<1> SUFFICES ASSUME NEW a \in Inv, NEW b \in Inv, <<a, b>> \in refused
             PROVE  /\ <<b, a>> \notin refused
                    /\ pc'[a] \in Turned /\ pc'[b] \notin Before
                    /\ pc'[b] \in Seeking =>
                         \E l \in Loc : lock'[l] = b /\ Above(l, a)'
  BY DEF Advances, RefusalInv
<1>1. /\ <<b, a>> \notin refused
      /\ pc[a] \in Turned /\ pc[b] \notin Before
      /\ pc[b] \in Seeking =>
           \E l \in Loc : lock[l] = b /\ Above(l, a)
  BY DEF IInv, RefusalInv
<1>2. a # b
  BY <1>1
<1>3. pc'[a] \in Turned /\ \A l \in Loc : lock'[l] = a => lock[l] = a
  BY <1>1 DEF Advances
<1>4. pc'[b] \notin Before
  BY <1>1 DEF Advances
<1>5. pc'[b] \in Seeking => pc[b] \in Seeking /\ \A l \in Loc : lock[l] = b => lock'[l] = b
  BY <1>1 DEF Advances
<1>6. QED
  BY <1>1, <1>3, <1>4, <1>5 DEF Above

\* What is left to show of a step of one invocation.
LEMMA StepKeeps ==
  ASSUME IInv, NEW i \in Inv, TypeOK', DiskInv', CollectorInv', Advances(i), OwnInv(i)',
         \A j \in Inv \ {i} : Unaffected(j)
  PROVE  IInv'
BY OthersKeep, RefusalsKept DEF IInv

-----------------------------------------------------------------------------
(* Types.                                                                  *)

\* Types of the initial values.
LEMMA TypeInit == Init => TypeOK
BY GraphAssumption, JobsAssumption, ActorAssumption
   DEF Init, TypeOK, Graph, PC, Status, Record, Report, Unreported, Node

\* The session lock goes to an invocation.
LEMMA TakenSession ==
  ASSUME TypeOK, NEW i \in Inv, TakeSession(i)
  PROVE  session' \in [Home -> Inv \cup {Nobody, Collector}]
BY DEF TypeOK, TakeSession

\* Locks that are given up are free.
LEMMA LeftSession ==
  ASSUME TypeOK, NEW i \in Inv
  PROVE  /\ LeaveSession(i) => session' \in [Home -> Inv \cup {Nobody, Collector}]
         /\ DropLocks(i) => lock' \in [Loc -> Inv \cup {Nobody}]
BY DEF TypeOK, LeaveSession, DropLocks

\* A root is rewritten as a record.
LEMMA WrittenRoot ==
  ASSUME TypeOK, NEW i \in Inv, NEW b \in Record,
         root' = [root EXCEPT ![i] = b], rootDisk' = [rootDisk EXCEPT ![i] = @ \cup {b}]
  PROVE  root' \in [Inv -> Record] /\ rootDisk' \in [Inv -> SUBSET Record]
BY DEF TypeOK

\* A power loss leaves each name with one of its possible contents.
LEMMA Surviving ==
  ASSUME NEW shown, NEW disk, NEW after \in Survivors(shown, disk),
         \A x \in DOMAIN shown : shown[x] \in disk[x]
  PROVE  /\ after = [x \in DOMAIN shown |-> after[x]]
         /\ \A x \in DOMAIN shown : after[x] \in disk[x]
<1> DEFINE open == {x \in DOMAIN shown : disk[x] # {shown[x]}}
<1>1. PICK f \in [open -> UNION {disk[x] : x \in open}] :
        /\ \A x \in open : f[x] \in disk[x]
        /\ after = [x \in DOMAIN shown |-> IF x \in open THEN f[x] ELSE shown[x]]
  BY DEF Survivors
<1> HIDE DEF open
<1>2. QED
  BY <1>1

\* Admission keeps the types.
LEMMA TypeAdmission ==
  ASSUME TypeOK, NEW i \in Inv, Keys(i) \subseteq Loc, Begin(i) \/ Admission(i)
  PROVE  TypeOK'
<1> USE DEF Goto, what, claims, roots, locks, objects, execution, memory, commands
<1>1. CASE Begin(i)
  BY <1>1 DEF TypeOK, Begin, PC
<1>2. CASE SyncRoot(i)
  BY <1>2 DEF TypeOK, SyncRoot, PC
<1>3. CASE Enter(i)
  BY <1>3, TakenSession DEF TypeOK, Enter, PC
<1>4. CASE Realize(i)
  BY <1>4 DEF TypeOK, Realize, PC, Job
<1>5. CASE Block(i)
  BY <1>5, LeftSession DEF TypeOK, Block, PC, Report, Status
<1>6. CASE WriteRoot(i)
  BY <1>6, WrittenRoot DEF TypeOK, WriteRoot, Record, PC
<1>7. CASE Stage(i)
  BY <1>7 DEF TypeOK, Stage, PC, Report, Status
<1>8. CASE Prepare(i)
  <2>1. CASE left' = [left EXCEPT ![i] = Keys(i)] /\ status' = status
    BY <1>8, <2>1 DEF TypeOK, Prepare, PC, Status
  <2>2. CASE left' = left
    BY <1>8, <2>2 DEF TypeOK, Prepare, PC, Status
  <2>3. QED
    BY <1>8, <2>1, <2>2 DEF Prepare
<1>9. QED
  BY <1>1, <1>2, <1>3, <1>4, <1>5, <1>6, <1>7, <1>8 DEF Admission

\* The handling of keys keeps the types: loops stay within the keys of the job.
LEMMA TypeExclusion ==
  ASSUME TypeOK, NEW i \in Inv, Keys(i) \subseteq Loc, Exclusion(i)
  PROVE  TypeOK'
<1> USE DEF Goto, what, claims, roots, locks, objects, execution, memory, commands
<1>1. ASSUME NEW l \in Loc, TakeLock(i, l)
      PROVE  TypeOK'
  BY <1>1 DEF TypeOK, TakeLock, PC
<1>2. ASSUME NEW l \in Loc, CheckClaim(i, l)
      PROVE  TypeOK'
  <2>1. pc' \in [Inv -> PC]
    BY <1>2 DEF TypeOK, CheckClaim, PC
  <2>2. left' \in [Inv -> SUBSET Loc]
    <3>1. left' = left \/ left' = [left EXCEPT ![i] = left[i] \ {l}]
      BY <1>2 DEF CheckClaim
    <3>2. CASE left' = left
      BY <3>2 DEF TypeOK
    <3>3. CASE left' = [left EXCEPT ![i] = left[i] \ {l}]
      BY <3>3 DEF TypeOK
    <3>4. QED
      BY <3>1, <3>2, <3>3
  <2>3. status' \in [Inv -> Status]
    BY <1>2 DEF TypeOK, CheckClaim, Status
  <2>4. QED
    BY <1>2, <2>1, <2>2, <2>3 DEF TypeOK, CheckClaim
<1>3. ASSUME NEW l \in Loc, WriteClaim(i, l)
      PROVE  TypeOK'
  BY <1>3 DEF TypeOK, WriteClaim, PC
<1>4. ASSUME NEW l \in Loc, SyncClaim(i, l)
      PROVE  TypeOK'
  BY <1>4 DEF TypeOK, SyncClaim, PC
<1>5. ASSUME NEW l \in Loc, NEW s \in {"Blocked", "SkippedBusy"}, FindHeld(i, l, s)
      PROVE  TypeOK'
  BY <1>5 DEF TypeOK, FindHeld, PC, Status
<1>6. ASSUME NEW l \in Loc, RemoveClaim(i, l, "rollback", "unpublishing")
      PROVE  TypeOK'
  BY <1>6 DEF TypeOK, RemoveClaim, PC
<1>7. ASSUME NEW l \in Loc, SyncRemoval(i, l, "unpublishing", "rollback")
      PROVE  TypeOK'
  BY <1>7 DEF TypeOK, SyncRemoval, PC
<1>8. CASE GiveUp(i) \/ RolledBack(i)
  BY <1>8, LeftSession DEF TypeOK, GiveUp, RolledBack, PC
<1>9. CASE AllLocked(i)
  BY <1>9 DEF TypeOK, AllLocked, PC
<1>10. CASE Depart(i)
  BY <1>10, LeftSession DEF TypeOK, Depart, PC
<1>11. QED
  BY <1>1, <1>2, <1>3, <1>4, <1>5, <1>6, <1>7, <1>8, <1>9, <1>10 DEF Exclusion

\* Execution keeps the types: it passes the last task once, and counts actions down to 0.
LEMMA TypeExecution ==
  ASSUME TypeOK, NEW i \in Inv, GraphOf(i), Execution(i) \/ ExecuteFails(i)
  PROVE  TypeOK'
<1> USE DEF Goto, what, claims, roots, locks, objects, execution, memory, commands
<1>1. CASE StartTask(i)
  <2>1. node[i] \in Node /\ node[i] + 1 \in 1..(Nodes + 1)
    BY <1>1, GraphAssumption DEF TypeOK, StartTask, Node
  <2>2. node' \in [Inv -> 1..(Nodes + 1)]
    BY <1>1, <2>1 DEF TypeOK, StartTask
  <2>3. pc' \in [Inv -> PC]
    BY <1>1 DEF TypeOK, StartTask, PC
  <2>4. graph[node[i]].actions \in 0..MaxActions
    BY <2>1, GraphAssumption DEF TypeOK, Task
  <2>5. actions' \in [Inv -> 0..MaxActions]
    BY <1>1, <2>4 DEF TypeOK, StartTask
  <2>6. PICK r \in Status : result' = [result EXCEPT ![i][node[i]] = r]
    BY <1>1 DEF StartTask, Status
  <2>7. result' \in [Inv -> [Node -> Status]]
    BY <2>6 DEF TypeOK
  <2>8. QED
    BY <1>1, <2>2, <2>3, <2>5, <2>7 DEF TypeOK, StartTask
<1>2. ASSUME NEW s \in Status, NEW from, EndTask(i, from, s), from \in {"acting", "waiting"},
             alive' \in SUBSET Inv, unconfirmed' \in SUBSET Inv
      PROVE  TypeOK'
  BY <1>2, GraphAssumption DEF TypeOK, GraphOf, EndTask, PC, Status, Node
<1>3. CASE TaskDone(i) \/ Deadline(i) \/ CleanupFails(i)
  BY <1>2, <1>3 DEF TypeOK, TaskDone, Deadline, CleanupFails, Status
<1>4. ASSUME NEW s \in Confirmed \ {"Succeeded"}, CommandEnds(i, s)
      PROVE  TypeOK'
  <2>1. /\ s \in Status /\ EndTask(i, "waiting", s)
        /\ alive' \in SUBSET Inv /\ unconfirmed' \in SUBSET Inv
    BY <1>4 DEF TypeOK, CommandEnds, Confirmed, Status
  <2>2. QED
    BY <1>2, <2>1
<1>5. CASE Ensure(i)
  BY <1>5, GraphAssumption DEF TypeOK, Ensure, PC
<1>6. CASE Launch(i)
  BY <1>6 DEF TypeOK, Launch, PC
<1>7. CASE Succeed(i)
  BY <1>7, GraphAssumption DEF TypeOK, GraphOf, Succeed, PC
<1>8. CASE AllTasksDone(i)
  BY <1>8, GraphAssumption DEF TypeOK, AllTasksDone, ExecutionEnds, Overall, PC, Status, Node
<1>9. CASE ExecuteFails(i)
  BY <1>9 DEF TypeOK, ExecuteFails, ExecutionEnds, PC, Status
<1>10. QED
  BY <1>1, <1>3, <1>4, <1>5, <1>6, <1>7, <1>8, <1>9 DEF Execution

\* Completion keeps the types.
LEMMA TypeCompletion ==
  ASSUME TypeOK, NEW i \in Inv, Keys(i) \subseteq Loc, Completion(i)
  PROVE  TypeOK'
<1> USE DEF Goto, what, claims, roots, locks, objects, execution, memory, commands
<1>1. CASE Retain(i)
  BY <1>1, LeftSession DEF TypeOK, Retain, PC, Report, Status
<1>2. CASE Reenter(i)
  BY <1>2, TakenSession DEF TypeOK, Reenter, PC
<1>3. CASE RemoveRoot(i, "unroot", "unrooting")
  BY <1>3, WrittenRoot DEF TypeOK, RemoveRoot, Record, PC
<1>4. CASE RemoveRoot(i, "withdraw", "withdrawing")
  BY <1>4, WrittenRoot DEF TypeOK, RemoveRoot, Record, PC
<1>5. CASE SyncUnrooted(i)
  BY <1>5 DEF TypeOK, SyncUnrooted, PC
<1>6. CASE SyncWithdrawn(i)
  BY <1>6 DEF TypeOK, SyncWithdrawn, PC
<1>7. ASSUME NEW l \in Loc, RemoveClaim(i, l, "releasing", "unclaiming")
      PROVE  TypeOK'
  BY <1>7 DEF TypeOK, RemoveClaim, PC
<1>8. ASSUME NEW l \in Loc, SyncRemoval(i, l, "unclaiming", "releasing")
      PROVE  TypeOK'
  BY <1>8 DEF TypeOK, SyncRemoval, PC
<1>9. CASE Released(i)
  BY <1>9, LeftSession DEF TypeOK, Released, PC
<1>10. CASE Settle(i)
  BY <1>10, LeftSession DEF TypeOK, Settle, PC, Report, Status
<1>11. QED
  BY <1>1, <1>2, <1>3, <1>4, <1>5, <1>6, <1>7, <1>8, <1>9, <1>10 DEF Completion

\* Faults keep the types: a power loss leaves what the disk may hold.
LEMMA TypeFaults ==
  ASSUME TypeOK, DiskInv
  PROVE  /\ \A i \in Inv : Stop(i) \/ Exit(i) => TypeOK'
         /\ PowerLoss => TypeOK'
<1> USE DEF Goto, what, claims, roots, locks, objects, execution, memory, commands
<1>1. ASSUME NEW i \in Inv, Stop(i)
      PROVE  TypeOK'
  BY <1>1, LeftSession DEF TypeOK, Stop, PC
<1>2. ASSUME NEW i \in Inv, Exit(i)
      PROVE  TypeOK'
  BY <1>2 DEF TypeOK, Exit
<1>3. ASSUME PowerLoss
      PROVE  TypeOK'
  <2>1. claim' = [k \in Loc |-> claim'[k]] /\ \A k \in Loc : claim'[k] \in claimDisk[k]
    BY <1>3, Surviving DEF PowerLoss, DiskInv, TypeOK
  <2>2. root' = [j \in Inv |-> root'[j]] /\ \A j \in Inv : root'[j] \in rootDisk[j]
    BY <1>3, Surviving DEF PowerLoss, DiskInv, TypeOK
  <2>3. claim' \in [Loc -> Inv \cup {Nobody}]
    BY <2>1 DEF TypeOK
  <2>4. root' \in [Inv -> Record]
    BY <2>2 DEF TypeOK
  <2>5. claimDisk' \in [Loc -> SUBSET (Inv \cup {Nobody})] /\ rootDisk' \in [Inv -> SUBSET Record]
    BY <1>3, <2>3, <2>4 DEF PowerLoss
  <2>6. pc' \in [Inv -> PC]
    BY <1>3 DEF PowerLoss, TypeOK, PC
  <2>7. QED
    BY <1>3, <2>3, <2>4, <2>5, <2>6 DEF PowerLoss, TypeOK
<1>4. QED
  BY <1>1, <1>2, <1>3

\* The collector keeps the types.
LEMMA TypeCollection ==
  ASSUME TypeOK, NEW h \in Home, Collection(h) \/ StopCollector(h)
  PROVE  TypeOK'
<1> USE DEF Goto, what, claims, roots, locks, objects, execution, memory, commands
<1>1. CASE Collect(h)
  BY <1>1 DEF TypeOK, Collect
<1>2. CASE Collected(h) \/ StopCollector(h)
  BY <1>2 DEF TypeOK, Collected, StopCollector
<1>3. ASSUME NEW p \in Path, Delete(h, p)
      PROVE  TypeOK'
  BY <1>3 DEF TypeOK, Delete
<1>4. QED
  BY <1>1, <1>2, <1>3 DEF Collection

-----------------------------------------------------------------------------
(* What most steps of an invocation have in common.                        *)

Executing == {"execute", "acting", "waiting"}

\* Outside execution no command of i is unconfirmed.
LEMMA CommandsAside ==
  ASSUME IInv, NEW i \in Inv, UNCHANGED commands,
         pc[i] \notin Executing \cup {"ended", "done"}, pc'[i] \notin {"acting", "waiting"}
  PROVE  CommandOf(i)' /\ GraphOf(i)' /\ i \notin unconfirmed
BY DEF IInv, OwnInv, CommandOf, GraphOf, Executing, commands

\* A receipt that is not rewritten before the end says nothing yet.
LEMMA ReportAside ==
  ASSUME IInv, NEW i \in Inv, report'[i] = report[i], pc[i] # "done"
  PROVE  ReportOf(i)'
BY DEF IInv, OwnInv, ReportOf

\* Others keep the session lock, and so does the collector.
LEMMA SessionAside ==
  ASSUME TypeOK, CollectorInv, NEW i \in Inv, UNCHANGED doomed,
         session' = session \/ TakeSession(i) \/ LeaveSession(i)
  PROVE  /\ CollectorInv'
         /\ \A h \in Home, j \in Inv \ {i} : session[h] = j => session'[h] = j
BY ActorAssumption DEF TypeOK, CollectorInv, TakeSession, LeaveSession

\* Who has no lock and takes none.
LEMMA LocksAside ==
  ASSUME IInv, NEW i \in Inv, job' = job, lock' = lock, left' = left,
         pc[i] \notin Seeking \cup Holding \cup {"dropping"},
         pc'[i] \notin Seeking \cup Holding \cup {"dropping"}
  PROVE  LocksOf(i)'
BY KeysKept DEF IInv, OwnInv, LocksOf

\* Who has no claim and makes none.
LEMMA ClaimsAside ==
  ASSUME IInv, NEW i \in Inv, job' = job, claimDisk' = claimDisk,
         pc[i] \in Unclaimed, pc'[i] \in Unclaimed \cup {"done"}
  PROVE  ClaimsOf(i)'
BY KeysKept DEF IInv, OwnInv, ClaimsOf, NoClaimOf, Unclaimed, Before, Early, Seeking, Running

-----------------------------------------------------------------------------
(* Admission.                                                              *)

\* Entering, realizing, rooting and preparing keep the invariant.
LEMMA AdmissionKeeps ==
  ASSUME IInv, NEW i \in Inv, Begin(i) \/ Admission(i)
  PROVE  IInv'
<1> USE DEF Goto, what, claims, roots, locks, objects, execution, memory
<1>1. TypeOK /\ OwnInv(i) /\ Keys(i) \subseteq Loc
  BY KeysAreLocations DEF IInv
<1>2. TypeOK'
  BY <1>1, TypeAdmission
<1>3. /\ UNCHANGED <<what, claims, lock, doomed, commands, refused>>
      /\ pc[i] \in Before
      /\ pc'[i] \in (Before \ {"idle"}) \cup {"done", "locking", "withdraw"}
      /\ \A j \in Inv \ {i} : pc'[j] = pc[j] /\ left'[j] = left[j]
  BY <1>1 DEF TypeOK, Admission, Begin, Enter, Realize, Block, WriteRoot, SyncRoot, Stage,
     Prepare, Before, Early
<1>4. Advances(i)
  BY <1>3 DEF Advances, Turned, Before, Early, Seeking
<1>5. /\ UNCHANGED roots \/ WriteRoot(i) \/ SyncRoot(i)
      /\ UNCHANGED session \/ TakeSession(i) \/ LeaveSession(i)
      /\ UNCHANGED store \/ Realize(i)
      /\ UNCHANGED <<staging, report>> \/ Stage(i) \/ Block(i)
      /\ UNCHANGED <<status, execution>> \/ Prepare(i)
  BY DEF Admission, Begin, Enter, Realize, Block, WriteRoot, SyncRoot, Stage, Prepare
<1>6. \A j \in Inv : /\ j # i => root'[j] = root[j] /\ rootDisk'[j] = rootDisk[j]
                     /\ root'[j] \in rootDisk'[j]
  BY <1>1, <1>5 DEF IInv, DiskInv, TypeOK, WriteRoot, SyncRoot
<1>7. DiskInv'
  BY <1>3, <1>6 DEF IInv, DiskInv
<1>8. CollectorInv' /\ \A h \in Home, j \in Inv \ {i} : session[h] = j => session'[h] = j
  BY <1>3, <1>5, SessionAside DEF IInv
<1>9. ASSUME NEW j \in Inv, j # i
      PROVE  /\ status'[j] = status[j] /\ UNCHANGED execution
             /\ report'[j] = report[j] /\ (j \in staging' <=> j \in staging)
             /\ store[job[j].home] \subseteq store'[job[j].home]
             /\ job[j].home \in Home
  <2>1. status'[j] = status[j] /\ UNCHANGED execution
    BY <1>1, <1>5, <1>9 DEF TypeOK, Prepare
  <2>2. report'[j] = report[j] /\ (j \in staging' <=> j \in staging)
    BY <1>1, <1>5, <1>9 DEF TypeOK, Stage, Block
  <2>3. job[i].home \in Home /\ job[j].home \in Home
    BY <1>1 DEF TypeOK, Job
  <2>4. store[job[j].home] \subseteq store'[job[j].home] /\ job[j].home \in Home
    <3>1. CASE UNCHANGED store
      BY <2>3, <3>1
    <3>2. CASE Realize(i)
      <4>1. store' = [store EXCEPT ![job[i].home] = store[job[i].home] \cup job[i].needs]
        BY <3>2 DEF Realize
      <4>2. QED
        BY <1>1, <2>3, <4>1 DEF TypeOK
    <3>3. QED
      BY <1>5, <3>1, <3>2
  <2>5. QED
    BY <2>1, <2>2, <2>4
<1>10. \A j \in Inv \ {i} : Unaffected(j)
  BY <1>3, <1>6, <1>8, <1>9 DEF Unaffected, Undisturbed, commands
<1>11. CommandOf(i)' /\ GraphOf(i)'
  BY <1>3, CommandsAside DEF Executing, Before, Early
<1>12. ReportOf(i)'
  <2>1. CASE UNCHANGED report
    BY <1>3, <2>1, ReportAside DEF Before, Early
  <2>2. CASE Stage(i)
    BY <1>1, <2>2 DEF TypeOK, Stage, ReportOf
  <2>3. CASE Block(i)
    BY <1>1, <2>3 DEF TypeOK, OwnInv, Block, ReportOf, RootOf, ClaimsOf, NoClaimOf,
       Early, Before, Unclaimed
  <2>4. QED
    BY <1>5, <2>1, <2>2, <2>3
<1>13. ClaimsOf(i)'
  BY <1>3, ClaimsAside DEF Unclaimed, Before, Early, Seeking
<1>14. LocksOf(i)'
  <2>1. CASE left' = left /\ pc'[i] # "locking"
    BY <1>3, <2>1, LocksAside DEF Before, Early, Seeking, Holding, Running
  <2>2. CASE Prepare(i)
    BY <1>1, <1>3, <2>2, KeysKept DEF TypeOK, Prepare, OwnInv, LocksOf, Before, Early, Seeking, Holding, Running
  <2>3. QED
    BY <1>1, <2>1, <2>2 DEF TypeOK, Admission, Begin, Enter, Realize, Block, WriteRoot, SyncRoot, Stage
<1>15. RootOf(i)'
  <2>1. CASE Begin(i) \/ Enter(i) \/ Realize(i) \/ Block(i)
    BY <1>1, <2>1 DEF TypeOK, OwnInv, RootOf, Begin, Enter, Realize, Block, Early, Staged
  <2>2. CASE WriteRoot(i) \/ SyncRoot(i)
    BY <1>1, <2>2 DEF TypeOK, OwnInv, RootOf, WriteRoot, SyncRoot, Early, Staged
  <2>3. CASE Stage(i) \/ Prepare(i)
    BY <1>1, <2>3 DEF TypeOK, OwnInv, RootOf, Stage, Prepare, Early, Staged
  <2>4. QED
    BY <2>1, <2>2, <2>3 DEF Admission
<1>16. ObjectsOf(i)'
  <2>1. i \notin unconfirmed'
    BY <1>3, CommandsAside DEF Executing, Before, Early, commands
  <2>2. CASE Begin(i) \/ Block(i)
    BY <1>1, <2>1, <2>2 DEF TypeOK, ObjectsOf, Begin, Block, Staged
  <2>3. CASE Enter(i)
    BY <1>1, <2>1, <2>3 DEF TypeOK, Job, ObjectsOf, Enter, TakeSession, Staged
  <2>4. CASE Realize(i)
    BY <1>1, <2>4, ActorAssumption DEF IInv, CollectorInv, TypeOK, Job, OwnInv, ObjectsOf, Realize, Staged
  <2>5. CASE WriteRoot(i) \/ SyncRoot(i) \/ Stage(i) \/ Prepare(i)
    BY <1>1, <2>5 DEF TypeOK, OwnInv, ObjectsOf, WriteRoot, SyncRoot, Stage, Prepare, Staged
  <2>6. QED
    BY <2>2, <2>3, <2>4, <2>5 DEF Admission
<1>17. QED
  BY <1>2, <1>4, <1>7, <1>8, <1>10, <1>11, <1>12, <1>13, <1>14, <1>15, <1>16, StepKeeps DEF OwnInv

-----------------------------------------------------------------------------
(* Execution changes nothing that others rely on, and no claim or root.    *)

\* What execution changes, and what it does not.
LEMMA ExecutionFrame ==
  ASSUME TypeOK, NEW i \in Inv, Execution(i) \/ ExecuteFails(i)
  PROVE  /\ UNCHANGED <<what, claims, roots, locks, objects, staging, report, left, refused>>
         /\ pc[i] \in Executing /\ pc'[i] \in Executing \cup {"ended"}
         /\ \A j \in Inv \ {i} :
              /\ pc'[j] = pc[j] /\ status'[j] = status[j] /\ node'[j] = node[j]
              /\ actions'[j] = actions[j] /\ result'[j] = result[j] /\ launched'[j] = launched[j]
              /\ (j \in alive' <=> j \in alive) /\ (j \in unconfirmed' <=> j \in unconfirmed)
<1> USE DEF Goto, what, claims, roots, locks, objects, execution, memory, commands, Executing
<1>1. CASE StartTask(i)
  BY <1>1 DEF TypeOK, StartTask
<1>2. CASE TaskDone(i) \/ Deadline(i) \/ CleanupFails(i)
  BY <1>2 DEF TypeOK, TaskDone, Deadline, CleanupFails, EndTask
<1>3. ASSUME NEW s, CommandEnds(i, s)
      PROVE  /\ EndTask(i, "waiting", s)
             /\ alive' = alive \ {i} /\ unconfirmed' = unconfirmed \ {i}
  BY <1>3 DEF CommandEnds
<1>4. CASE \E s \in Confirmed \ {"Succeeded"} : CommandEnds(i, s)
  BY <1>3, <1>4 DEF TypeOK, EndTask
<1>5. CASE Ensure(i) \/ Launch(i) \/ Succeed(i)
  BY <1>5 DEF TypeOK, Ensure, Launch, Succeed
<1>6. CASE AllTasksDone(i) \/ ExecuteFails(i)
  BY <1>6 DEF TypeOK, AllTasksDone, ExecuteFails, ExecutionEnds
<1>7. QED
  BY <1>1, <1>2, <1>4, <1>5, <1>6 DEF Execution

\* An unconfirmed command is waited for, or makes the graph indeterminate.
LEMMA CommandsExecute ==
  ASSUME IInv, NEW i \in Inv, Execution(i) \/ ExecuteFails(i)
  PROVE  CommandOf(i)' /\ GraphOf(i)'
<1> USE DEF Goto, what, claims, roots, locks, objects, execution, memory, commands, Executing
<1>1. /\ TypeOK /\ CommandOf(i) /\ GraphOf(i) /\ Keys(i)' = Keys(i)
      /\ pc[i] = "waiting" => i \in staging /\ rootDisk[i] = {"present"}
      /\ pc[i] = "acting" => i \notin unconfirmed /\ i \in staging /\ rootDisk[i] = {"present"}
                           /\ \A l \in Keys(i) : claimDisk[l] = {i}
  BY ExecutionFrame, KeysKept DEF IInv, OwnInv, CommandOf, GraphOf, ClaimsOf, RootOf, Running, Staged
<1>2. UNCHANGED <<job, claimDisk, rootDisk, staging>>
  BY <1>1, ExecutionFrame
<1>3. CASE StartTask(i)
  BY <1>1, <1>2, <1>3, GraphAssumption DEF TypeOK, StartTask, CommandOf, GraphOf, Ready, Stopped, Node
<1>4. ASSUME NEW s, EndTask(i, "acting", s), UNCHANGED commands
      PROVE  CommandOf(i)' /\ GraphOf(i)'
  BY <1>1, <1>2, <1>4 DEF TypeOK, EndTask, CommandOf, GraphOf
<1>5. ASSUME NEW s, EndTask(i, "waiting", s), alive' = alive \ {i}, unconfirmed' = unconfirmed \ {i}
      PROVE  CommandOf(i)' /\ GraphOf(i)'
  BY <1>1, <1>2, <1>5 DEF TypeOK, EndTask, CommandOf, GraphOf
<1>6. CASE CleanupFails(i)
  BY <1>1, <1>2, <1>6, GraphAssumption DEF TypeOK, CleanupFails, EndTask, CommandOf, GraphOf, Node
<1>7. CASE Ensure(i) \/ Succeed(i)
  BY <1>1, <1>2, <1>7 DEF TypeOK, Ensure, Succeed, CommandOf, GraphOf
<1>8. CASE Launch(i)
  BY <1>1, <1>2, <1>8 DEF TypeOK, Launch, CommandOf, GraphOf
<1>9. CASE AllTasksDone(i)
  BY <1>1, <1>2, <1>9, GraphAssumption DEF TypeOK, AllTasksDone, ExecutionEnds, Overall, CommandOf, GraphOf, Node
<1>10. CASE ExecuteFails(i)
  BY <1>1, <1>2, <1>10 DEF TypeOK, ExecuteFails, ExecutionEnds, CommandOf, GraphOf
<1>11. QED
  BY <1>3, <1>4, <1>5, <1>6, <1>7, <1>8, <1>9, <1>10 DEF Execution, TaskDone, Deadline, CommandEnds

\* Execution keeps the invariant.
LEMMA ExecutionKeeps ==
  ASSUME IInv, NEW i \in Inv, Execution(i) \/ ExecuteFails(i)
  PROVE  IInv'
<1> USE DEF what, claims, roots, locks, objects
<1>1. TypeOK /\ OwnInv(i) /\ Keys(i) \subseteq Loc
  BY KeysAreLocations DEF IInv
<1>2. TypeOK'
  BY <1>1, TypeExecution DEF OwnInv
<1>3. /\ UNCHANGED <<what, claims, roots, locks, objects, staging, report, left, refused>>
      /\ pc[i] \in Executing /\ pc'[i] \in Executing \cup {"ended"}
  BY <1>1, ExecutionFrame
<1>4. \A j \in Inv \ {i} : Unaffected(j)
  BY <1>1, ExecutionFrame DEF Unaffected, Undisturbed
<1>5. Advances(i)
  BY <1>1, ExecutionFrame DEF Advances, Executing, Turned, Before, Early, Seeking
<1>6. DiskInv' /\ CollectorInv'
  BY <1>3 DEF IInv, DiskInv, CollectorInv
<1>7. CommandOf(i)' /\ GraphOf(i)' /\ ReportOf(i)'
  BY <1>3, CommandsExecute, ReportAside DEF Executing
<1>8. LocksOf(i)'
  BY <1>1, <1>3, KeysKept DEF OwnInv, LocksOf, Executing, Seeking, Holding, Running
<1>9. ClaimsOf(i)'
  BY <1>1, <1>3, KeysKept DEF OwnInv, ClaimsOf, NoClaimOf, Executing, Unclaimed, Before, Early, Seeking, Running
<1>10. RootOf(i)' /\ ObjectsOf(i)'
  BY <1>1, <1>3 DEF OwnInv, RootOf, ObjectsOf, Executing, Early, Staged
<1>11. QED
  BY <1>2, <1>4, <1>5, <1>6, <1>7, <1>8, <1>9, <1>10, StepKeeps DEF OwnInv

-----------------------------------------------------------------------------
(* Mutation keys.                                                          *)

Excluding == Seeking \cup {"dropping", "publishing", "claiming", "rollback", "unpublishing"}

\* What trying, publishing and taking back leave alone.
LEMMA ExclusionAside ==
  ASSUME IInv, NEW i \in Inv, UNCHANGED <<job, roots, objects, staging, report, execution, commands>>,
         pc[i] \in Excluding, pc'[i] \in Excluding \cup {"execute", "withdraw", "done"}
  PROVE  RootOf(i)' /\ ObjectsOf(i)' /\ CommandOf(i)' /\ GraphOf(i)' /\ ReportOf(i)'
<1> USE DEF roots, objects, Excluding, Seeking
<1>1. RootOf(i) /\ ObjectsOf(i)
  BY DEF IInv, OwnInv
<1>2. CommandOf(i)' /\ GraphOf(i)' /\ i \notin unconfirmed
  BY CommandsAside DEF Executing
<1>3. ReportOf(i)'
  BY ReportAside
<1>4. RootOf(i)'
  BY <1>1 DEF RootOf, Early, Staged
<1>5. ObjectsOf(i)'
  BY <1>1, <1>2 DEF ObjectsOf, Staged, commands
<1>6. QED
  BY <1>2, <1>3, <1>4, <1>5

\* A step that changes no claim and no lock of another.
LEMMA OthersAside ==
  ASSUME IInv, NEW i \in Inv,
         UNCHANGED <<job, claims, roots, objects, staging, report, execution, commands>>,
         \A j \in Inv \ {i} : pc'[j] = pc[j] /\ left'[j] = left[j] /\ status'[j] = status[j],
         \A l \in Loc, j \in Inv \ {i} : lock'[l] = j <=> lock[l] = j,
         \A h \in Home, j \in Inv \ {i} : session[h] = j => session'[h] = j
  PROVE  \A j \in Inv \ {i} : Unaffected(j)
<1>1. \A j \in Inv : job[j].home \in Home
  BY DEF IInv, TypeOK, Job
<1>2. QED
  BY <1>1 DEF Unaffected, Undisturbed, claims, roots, objects, execution, commands

\* The locks that are tried, and those that a conflict lets go.
LEMMA TryingKeeps ==
  ASSUME IInv, NEW i \in Inv,
         \/ \E l \in Loc : TakeLock(i, l) \/ CheckClaim(i, l)
         \/ AllLocked(i) \/ GiveUp(i)
  PROVE  IInv'
<1> SUFFICES ASSUME NEW l, l \in Loc \/ AllLocked(i) \/ GiveUp(i),
                    TakeLock(i, l) \/ CheckClaim(i, l) \/ AllLocked(i) \/ GiveUp(i)
             PROVE  IInv'
  OBVIOUS
<1> USE DEF Goto, what, claims, roots, locks, objects, execution, memory
<1>1. TypeOK /\ OwnInv(i) /\ Keys(i) \subseteq Loc /\ Keys(i)' = Keys(i) /\ LocksOf(i) /\ ClaimsOf(i)
  BY KeysAreLocations, KeysKept DEF IInv, OwnInv, TakeLock, CheckClaim, AllLocked, GiveUp
<1>2. TypeOK'
  BY <1>1, TypeExclusion DEF Exclusion
<1>3. /\ UNCHANGED <<job, claims, roots, session, objects, staging, report, execution, commands, refused>>
      /\ pc[i] \in Seeking \cup {"dropping"}
      /\ pc'[i] \in Seeking \cup {"dropping", "publishing", "withdraw"}
      /\ \A j \in Inv \ {i} : pc'[j] = pc[j] /\ left'[j] = left[j] /\ status'[j] = status[j]
  BY <1>1 DEF TypeOK, TakeLock, CheckClaim, AllLocked, GiveUp, Seeking
<1>4. \A m \in Loc, j \in Inv \ {i} : lock'[m] = j <=> lock[m] = j
  BY <1>1, ActorAssumption DEF TypeOK, TakeLock, CheckClaim, AllLocked, GiveUp, DropLocks
<1>5. \A j \in Inv \ {i} : Unaffected(j)
  BY <1>3, <1>4, OthersAside
<1>6. DiskInv' /\ CollectorInv'
  BY <1>3 DEF IInv, DiskInv, CollectorInv
<1>7. /\ pc[i] = "dropping" => pc'[i] = "withdraw" /\ \A m \in Loc : lock'[m] = i => lock[m] = i
      /\ pc'[i] \in Seeking => pc[i] \in Seeking /\ \A m \in Loc : lock[m] = i => lock'[m] = i
  BY <1>1, ActorAssumption DEF TypeOK, TakeLock, CheckClaim, AllLocked, GiveUp, DropLocks, Seeking
<1>8. Advances(i)
  BY <1>3, <1>4, <1>7 DEF Advances, Turned, Before, Early, Seeking
<1>9. RootOf(i)' /\ ObjectsOf(i)' /\ CommandOf(i)' /\ GraphOf(i)' /\ ReportOf(i)'
  BY <1>3, ExclusionAside DEF Excluding
<1>10. LocksOf(i)'
  <2>1. CASE TakeLock(i, l)
    <3>1. /\ lock' = [lock EXCEPT ![l] = i] /\ left' = left /\ claim' = claim
          /\ l \in left[i] /\ IsFirst(l, left[i]) /\ lock[l] = Nobody
          /\ pc[i] = "locking" /\ pc'[i] = "checking"
      BY <1>1, <2>1 DEF TypeOK, TakeLock, IsFirst
    <3>2. \A m \in left[i] : IsFirst(m, left[i]) => m = l
      BY <1>1, <3>1, FirstIsUnique DEF LocksOf
    <3>3. \A m \in Loc : lock'[m] = IF m = l THEN i ELSE lock[m]
      BY <1>1, <3>1 DEF TypeOK
    <3>4. /\ left[i] \subseteq Keys(i)
          /\ \A m \in Loc : lock[m] = i => m \in Keys(i)
          /\ \A m \in Keys(i) \ left[i] :
               lock[m] = i /\ claim[m] = Nobody /\ \A n \in left[i] : m[2] < n[2]
          /\ \A m \in left[i] : lock[m] # i
      BY <1>1, <3>1 DEF LocksOf, Seeking
    <3>5. \A m \in left[i] : (lock'[m] = i) <=> IsFirst(m, left[i])
      BY <1>1, <3>1, <3>2, <3>3, <3>4
    <3>6. /\ \A m \in Loc : lock'[m] = i => m \in Keys(i)
          /\ \A m \in Keys(i) \ left[i] : lock'[m] = i
      BY <1>1, <3>1, <3>3, <3>4
    <3>7. QED
      BY <1>1, <3>1, <3>4, <3>5, <3>6 DEF LocksOf, IsFirst, Seeking, Holding, Running
  <2>2. CASE CheckClaim(i, l)
    <3>1. /\ lock' = lock /\ claim' = claim /\ pc[i] = "checking"
          /\ l \in left[i] /\ IsFirst(l, left[i])
          /\ \/ claim[l] = Nobody /\ pc'[i] = "locking" /\ left'[i] = left[i] \ {l}
             \/ pc'[i] = "dropping" /\ left'[i] = left[i]
      BY <1>1, <2>2 DEF TypeOK, CheckClaim, IsFirst
    <3>2. /\ left[i] \subseteq Keys(i)
          /\ \A m \in Loc : lock[m] = i => m \in Keys(i)
          /\ \A m \in Keys(i) \ left[i] :
               lock[m] = i /\ claim[m] = Nobody /\ \A n \in left[i] : m[2] < n[2]
          /\ \A m \in left[i] : lock[m] = i <=> IsFirst(m, left[i])
      BY <1>1, <3>1 DEF LocksOf, Seeking
    <3>3. CASE pc'[i] = "dropping"
      BY <1>1, <3>1, <3>2, <3>3 DEF LocksOf, Seeking, Holding, Running
    <3>4. CASE pc'[i] = "locking"
      <4>1. \A n \in left[i] \ {l} : l[2] < n[2]
        BY <1>1, <3>1, <3>2, KeyNumbers, KeysAreLocations DEF IsFirst
      <4>2. \A n \in left[i] \ {l} : lock[n] # i
        BY <1>1, <3>1, <3>2, FirstIsUnique
      <4>3. \A m \in Keys(i) \ left'[i] :
              lock[m] = i /\ claim[m] = Nobody /\ \A n \in left'[i] : m[2] < n[2]
        BY <3>1, <3>2, <3>4, <4>1
      <4>4. QED
        BY <1>1, <3>1, <3>2, <3>4, <4>2, <4>3 DEF LocksOf, Seeking, Holding, Running
    <3>5. QED
      BY <3>1, <3>3, <3>4
  <2>3. CASE AllLocked(i)
    BY <1>1, <2>3 DEF TypeOK, AllLocked, LocksOf, Seeking, Holding, Running
  <2>4. CASE GiveUp(i)
    BY <1>1, <2>4, ActorAssumption DEF TypeOK, GiveUp, DropLocks, LocksOf, Seeking, Holding, Running
  <2>5. QED
    BY <2>1, <2>2, <2>3, <2>4
<1>11. ClaimsOf(i)'
  <2>1. CASE pc'[i] # "publishing"
    BY <1>3, <2>1, ClaimsAside DEF Unclaimed, Seeking
  <2>2. CASE AllLocked(i)
    BY <1>1, <2>2 DEF TypeOK, AllLocked, ClaimsOf, NoClaimOf, Unclaimed, Before, Early, Seeking, Running
  <2>3. QED
    BY <1>1, <2>1, <2>2 DEF TypeOK, TakeLock, CheckClaim, GiveUp
<1>12. QED
  BY <1>2, <1>5, <1>6, <1>8, <1>9, <1>10, <1>11, StepKeeps DEF OwnInv

\* Of two that turn each other away the later would hold a key above all that
\* it holds.
LEMMA RefusedOnce ==
  ASSUME IInv, NEW i \in Inv, NEW l \in Loc, NEW s, FindHeld(i, l, s)
  PROVE  RefusalInv'
<1> USE DEF Goto
<1>1. TypeOK /\ RefusalInv /\ LocksOf(i) /\ Keys(i) \subseteq Loc
  BY KeysAreLocations DEF IInv, OwnInv
<1>2. /\ lock' = lock /\ lock[l] # Nobody /\ refused' = refused \cup {<<i, lock[l]>>}
      /\ pc[i] = "locking" /\ IsFirst(l, left[i]) /\ l \in left[i]
      /\ \A j \in Inv : pc'[j] = IF j = i THEN "dropping" ELSE pc[j]
  BY <1>1 DEF TypeOK, FindHeld, IsFirst, locks
<1>3. /\ lock[l] \in Inv \ {i}
      /\ \A m \in Loc : lock[m] = i => m[2] < l[2]
  BY <1>1, <1>2 DEF TypeOK, LocksOf, Seeking
<1>4. \A j \in Inv : lock[l] = j => pc[j] \in Seeking \cup Holding \cup {"dropping"}
  BY DEF IInv, OwnInv, LocksOf
<1>5. <<lock[l], i>> \notin refused
  <2>1. ASSUME NEW m \in Loc, lock[m] = i
        PROVE  ~(l[2] < m[2])
    BY <1>3, <2>1, KeyNumbers
  <2>2. SUFFICES ASSUME <<lock[l], i>> \in refused
                 PROVE  FALSE
    OBVIOUS
  <2>3. PICK j \in Inv : j = lock[l] /\ <<j, i>> \in refused
    BY <1>3, <2>2
  <2>4. \E k \in Loc : lock[k] = i /\ Above(k, j)
    BY <1>1, <1>2, <2>3 DEF RefusalInv, Seeking
  <2>5. QED
    BY <2>1, <2>3, <2>4 DEF Above
<1>6. SUFFICES ASSUME NEW a \in Inv, NEW b \in Inv, <<a, b>> \in refused'
               PROVE  /\ <<b, a>> \notin refused'
                      /\ pc'[a] \in Turned /\ pc'[b] \notin Before
                      /\ pc'[b] \in Seeking =>
                           \E k \in Loc : lock'[k] = b /\ Above(k, a)'
  BY DEF RefusalInv
<1>7. CASE a = i /\ b = lock[l]
  <2>1. Above(l, i)'
    BY <1>2, <1>3 DEF Above
  <2>2. <<b, a>> \notin refused'
    BY <1>2, <1>3, <1>5, <1>7
  <2>3. pc'[b] \notin Before /\ pc'[a] \in Turned
    BY <1>2, <1>3, <1>4, <1>7 DEF Turned, Before, Early, Seeking, Holding, Running
  <2>4. QED
    BY <1>2, <1>7, <2>1, <2>2, <2>3
<1>8. CASE <<a, b>> \in refused
  <2>1. /\ <<b, a>> \notin refused
        /\ pc[a] \in Turned /\ pc[b] \notin Before
        /\ pc[b] \in Seeking =>
             \E k \in Loc : lock[k] = b /\ Above(k, a)
    BY <1>1, <1>8 DEF RefusalInv
  <2>2. a # i
    BY <1>2, <2>1 DEF Turned
  <2>3. <<b, a>> \notin refused'
    BY <1>2, <1>5, <1>8, <2>1
  <2>4. \A k \in Loc : Above(k, a)' <=> Above(k, a)
    BY <1>2 DEF Above
  <2>5. QED
    BY <1>2, <2>1, <2>2, <2>3, <2>4 DEF Before, Early, Seeking
<1>9. QED
  BY <1>2, <1>6, <1>7, <1>8

\* A key that is held keeps the invariant.
LEMMA FindingKeeps ==
  ASSUME IInv, NEW i \in Inv, NEW l \in Loc, NEW s \in {"Blocked", "SkippedBusy"}, FindHeld(i, l, s)
  PROVE  IInv'
<1> USE DEF Goto, what, claims, roots, locks, objects, execution, memory
<1>1. TypeOK /\ LocksOf(i) /\ Keys(i) \subseteq Loc /\ Keys(i)' = Keys(i)
  BY KeysAreLocations, KeysKept DEF IInv, OwnInv, FindHeld
<1>2. TypeOK'
  BY <1>1, TypeExclusion DEF Exclusion
<1>3. /\ UNCHANGED <<job, claims, roots, locks, left, objects, staging, report, execution, commands>>
      /\ pc[i] = "locking" /\ pc'[i] = "dropping"
      /\ \A j \in Inv \ {i} : pc'[j] = pc[j] /\ status'[j] = status[j]
  BY <1>1 DEF TypeOK, FindHeld
<1>4. \A j \in Inv \ {i} : Unaffected(j)
  BY <1>3, OthersAside
<1>5. DiskInv' /\ CollectorInv' /\ RefusalInv'
  BY <1>3, RefusedOnce DEF IInv, DiskInv, CollectorInv
<1>6. RootOf(i)' /\ ObjectsOf(i)' /\ CommandOf(i)' /\ GraphOf(i)' /\ ReportOf(i)'
  BY <1>3, ExclusionAside DEF Excluding, Seeking
<1>7. LocksOf(i)'
  BY <1>1, <1>3 DEF LocksOf, Seeking, Holding, Running
<1>8. ClaimsOf(i)'
  BY <1>3, ClaimsAside DEF Unclaimed, Seeking
<1>9. OwnInv(i)'
  BY <1>6, <1>7, <1>8 DEF OwnInv
<1>10. QED
  BY <1>2, <1>4, <1>5, <1>9, OthersKeep DEF IInv

-----------------------------------------------------------------------------
(* Claims: published, taken back, released.                                *)

\* Only who has all its locks changes claims, and only its own or free ones.
LEMMA ClaimAside ==
  ASSUME IInv, NEW i \in Inv, NEW l \in Keys(i), pc[i] \in Holding,
         \/ UNCHANGED claims
         \/ /\ claim' = [claim EXCEPT ![l] = i]
            /\ claimDisk' = [claimDisk EXCEPT ![l] = @ \cup {i}]
         \/ /\ claim' = [claim EXCEPT ![l] = Nobody]
            /\ claimDisk' = [claimDisk EXCEPT ![l] = @ \cup {Nobody}]
         \/ /\ claim' = claim
            /\ claimDisk' = [claimDisk EXCEPT ![l] = {claim[l]}]
  PROVE  /\ \A m \in Loc : claim'[m] \in claimDisk'[m]
         /\ \A m \in Keys(i) : claim'[m] \in {Nobody, i}
         /\ \A m \in Loc \ {l} : claim'[m] = claim[m] /\ claimDisk'[m] = claimDisk[m]
         /\ \A j \in Inv \ {i}, m \in Loc :
              /\ lock[m] = j => claim'[m] = claim[m]
              /\ j \in claimDisk'[m] => j \in claimDisk[m]
              /\ claimDisk[m] = {j} => claimDisk'[m] = {j}
<1> USE DEF claims
<1>1. /\ TypeOK /\ l \in Loc
      /\ \A m \in Loc : claim[m] \in claimDisk[m]
      /\ \A m \in Keys(i) : lock[m] = i /\ claim[m] \in {Nobody, i}
  BY KeysAreLocations DEF IInv, DiskInv, OwnInv, LocksOf
<1>2. \A m \in Loc \ {l} : claim'[m] = claim[m] /\ claimDisk'[m] = claimDisk[m]
  BY <1>1 DEF TypeOK
<1>3. /\ claim'[l] \in claimDisk'[l] /\ claim'[l] \in {Nobody, i}
      /\ claimDisk'[l] \subseteq claimDisk[l] \cup {Nobody, i}
  BY <1>1 DEF TypeOK
<1>4. \A j \in Inv \ {i} : claimDisk[l] # {j}
  BY <1>1, ActorAssumption
<1>5. \A m \in Loc : claim'[m] \in claimDisk'[m]
  BY <1>1, <1>2, <1>3
<1>6. \A m \in Keys(i) : claim'[m] \in {Nobody, i}
  BY <1>1, <1>2, <1>3, KeysAreLocations
<1>7. ASSUME NEW j \in Inv \ {i}, NEW m \in Loc
      PROVE  /\ lock[m] = j => claim'[m] = claim[m]
             /\ j \in claimDisk'[m] => j \in claimDisk[m]
             /\ claimDisk[m] = {j} => claimDisk'[m] = {j}
  <2>1. CASE m = l
    BY <1>1, <1>3, <1>4, <2>1, ActorAssumption
  <2>2. CASE m # l
    BY <1>2, <2>2
  <2>3. QED
    BY <2>1, <2>2
<1>8. QED
  BY <1>2, <1>5, <1>6, <1>7

\* One step of the publication, or its failure.
LEMMA PublicationKeeps ==
  ASSUME IInv, NEW i \in Inv, NEW l \in Loc,
         WriteClaim(i, l) \/ SyncClaim(i, l) \/ PublishFails(i, l)
  PROVE  IInv'
<1> USE DEF Goto, what, roots, locks, objects, execution, memory
<1>1. /\ TypeOK /\ LocksOf(i) /\ ClaimsOf(i)
      /\ Keys(i) \subseteq Loc /\ Keys(i)' = Keys(i) /\ l \in Keys(i) /\ l \in left[i]
      /\ IsFirst(l, left[i]) /\ left[i] \subseteq Keys(i)
  BY KeysAreLocations, KeysKept DEF IInv, OwnInv, LocksOf, IsFirst, WriteClaim, SyncClaim, PublishFails
<1>2. TypeOK'
  <2>1. CASE PublishFails(i, l)
    BY <1>1, <2>1 DEF TypeOK, PublishFails, claims, commands, PC
  <2>2. QED
    BY <1>1, <2>1, TypeExclusion DEF Exclusion
<1>3. /\ UNCHANGED <<job, roots, locks, objects, staging, report, status, execution, commands, refused>>
      /\ pc[i] \in {"publishing", "claiming"} /\ pc'[i] \in {"publishing", "claiming", "rollback"}
      /\ \A j \in Inv \ {i} : pc'[j] = pc[j] /\ left'[j] = left[j]
  BY <1>1 DEF TypeOK, WriteClaim, SyncClaim, PublishFails
<1>4. /\ DiskInv'
      /\ \A m \in Keys(i) : claim'[m] \in {Nobody, i}
      /\ \A m \in Loc \ {l} : claim'[m] = claim[m] /\ claimDisk'[m] = claimDisk[m]
      /\ \A j \in Inv \ {i}, m \in Loc :
           /\ lock[m] = j => claim'[m] = claim[m]
           /\ j \in claimDisk'[m] => j \in claimDisk[m]
           /\ claimDisk[m] = {j} => claimDisk'[m] = {j}
  <2>1. \/ UNCHANGED claims
        \/ claim' = [claim EXCEPT ![l] = i] /\ claimDisk' = [claimDisk EXCEPT ![l] = @ \cup {i}]
        \/ claim' = claim /\ claimDisk' = [claimDisk EXCEPT ![l] = {claim[l]}]
    BY DEF WriteClaim, SyncClaim, PublishFails, claims
  <2>2. QED
    BY <1>1, <1>3, <2>1, ClaimAside DEF IInv, DiskInv, Holding
<1>5. \A j \in Inv \ {i} : Unaffected(j)
  BY <1>3, <1>4 DEF Unaffected, Undisturbed, commands
<1>6. Advances(i)
  BY <1>3 DEF Advances, Turned, Before, Early, Seeking
<1>7. CollectorInv' /\ RootOf(i)' /\ ObjectsOf(i)' /\ CommandOf(i)' /\ GraphOf(i)' /\ ReportOf(i)'
  BY <1>3, ExclusionAside DEF IInv, CollectorInv, Excluding
<1>8. left'[i] \subseteq Keys(i)
  BY <1>1 DEF TypeOK, WriteClaim, SyncClaim, PublishFails
<1>9. LocksOf(i)'
  BY <1>1, <1>3, <1>4, <1>8 DEF LocksOf, Seeking, Holding, Running
<1>10. ClaimsOf(i)'
  <2>1. NoClaimOf(i, Loc \ Keys(i))'
    BY <1>1, <1>4 DEF ClaimsOf, NoClaimOf
  <2>2. CASE WriteClaim(i, l)
    <3>1. /\ claim'[l] = i /\ left' = left /\ pc[i] = "publishing" /\ pc'[i] = "claiming"
          /\ \A m \in left[i] : IsFirst(m, left[i]) => m = l
      BY <1>1, <2>2, FirstIsUnique DEF TypeOK, WriteClaim
    <3>2. QED
      BY <1>1, <1>4, <2>1, <3>1 DEF ClaimsOf, NoClaimOf, Unclaimed, Before, Early, Seeking, Running
  <2>3. CASE SyncClaim(i, l)
    <3>1. /\ claimDisk'[l] = {claim[l]} /\ left'[i] = left[i] \ {l}
          /\ pc[i] = "claiming" /\ pc'[i] = "publishing"
          /\ \A m \in left[i] : IsFirst(m, left[i]) => m = l
      BY <1>1, <2>3, FirstIsUnique DEF TypeOK, SyncClaim
    <3>2. QED
      BY <1>1, <1>4, <2>1, <3>1 DEF ClaimsOf, NoClaimOf, Unclaimed, Before, Early, Seeking, Running
  <2>4. CASE PublishFails(i, l)
    <3>1. /\ claimDisk' = claimDisk /\ left'[i] = {l} \cup (Keys(i) \ left[i]) /\ pc'[i] = "rollback"
          /\ \A m \in left[i] : IsFirst(m, left[i]) => m = l
      BY <1>1, <2>4, FirstIsUnique DEF TypeOK, PublishFails, claims
    <3>2. \A m \in left[i] \ {l} : i \notin claimDisk[m]
      BY <1>1, <1>3, <3>1 DEF ClaimsOf, NoClaimOf
    <3>3. QED
      BY <1>1, <2>1, <3>1, <3>2 DEF ClaimsOf, NoClaimOf, Unclaimed, Before, Early, Seeking, Running
  <2>5. QED
    BY <2>2, <2>3, <2>4
<1>11. QED
  BY <1>2, <1>4, <1>5, <1>6, <1>7, <1>9, <1>10, StepKeeps DEF OwnInv

\* One step of a loop that removes claims: of a rollback or of a release.
LEMMA RemovalKeeps ==
  ASSUME IInv, NEW i \in Inv, NEW l \in Loc, NEW from, NEW to,
         RemoveClaim(i, l, from, to) \/ SyncRemoval(i, l, to, from),
         \/ from = "rollback" /\ to = "unpublishing"
         \/ from = "releasing" /\ to = "unclaiming"
  PROVE  IInv'
<1> USE DEF Goto, what, roots, locks, objects, execution, memory
<1>1. /\ TypeOK /\ LocksOf(i) /\ ClaimsOf(i) /\ RootOf(i) /\ ObjectsOf(i)
      /\ Keys(i) \subseteq Loc /\ Keys(i)' = Keys(i) /\ l \in Keys(i) /\ l \in left[i]
      /\ IsFirst(l, left[i]) /\ left[i] \subseteq Keys(i)
  BY KeysAreLocations, KeysKept DEF IInv, OwnInv, LocksOf, IsFirst, RemoveClaim, SyncRemoval
<1>2. TypeOK'
  <2>1. CASE RemoveClaim(i, l, from, to)
    BY <1>1, <2>1 DEF TypeOK, RemoveClaim, commands, PC
  <2>2. CASE SyncRemoval(i, l, to, from)
    BY <1>1, <2>2 DEF TypeOK, SyncRemoval, commands, PC
  <2>3. QED
    BY <2>1, <2>2
<1>3. /\ UNCHANGED <<job, roots, locks, objects, staging, report, status, execution, commands, refused>>
      /\ pc[i] \in {from, to} /\ pc'[i] \in {from, to}
      /\ \A j \in Inv \ {i} : pc'[j] = pc[j] /\ left'[j] = left[j]
  BY <1>1 DEF TypeOK, RemoveClaim, SyncRemoval
<1>4. /\ DiskInv'
      /\ \A m \in Keys(i) : claim'[m] \in {Nobody, i}
      /\ \A m \in Loc \ {l} : claim'[m] = claim[m] /\ claimDisk'[m] = claimDisk[m]
      /\ \A j \in Inv \ {i}, m \in Loc :
           /\ lock[m] = j => claim'[m] = claim[m]
           /\ j \in claimDisk'[m] => j \in claimDisk[m]
           /\ claimDisk[m] = {j} => claimDisk'[m] = {j}
  <2>1. \/ /\ claim' = [claim EXCEPT ![l] = Nobody]
           /\ claimDisk' = [claimDisk EXCEPT ![l] = @ \cup {Nobody}]
        \/ claim' = claim /\ claimDisk' = [claimDisk EXCEPT ![l] = {claim[l]}]
    BY DEF RemoveClaim, SyncRemoval
  <2>2. QED
    BY <1>1, <1>3, <2>1, ClaimAside DEF IInv, DiskInv, Holding
<1>5. \A j \in Inv \ {i} : Unaffected(j)
  BY <1>3, <1>4 DEF Unaffected, Undisturbed, commands
<1>6. Advances(i)
  BY <1>3 DEF Advances, Turned, Before, Early, Seeking
<1>7. CollectorInv' /\ CommandOf(i)' /\ GraphOf(i)' /\ ReportOf(i)' /\ i \notin unconfirmed
  BY <1>3, CommandsAside, ReportAside DEF IInv, CollectorInv, Executing
<1>8. RootOf(i)' /\ ObjectsOf(i)'
  BY <1>1, <1>3, <1>7 DEF RootOf, ObjectsOf, Early, Staged, commands
<1>9. LocksOf(i)'
  <2>1. left'[i] \subseteq Keys(i)
    BY <1>1 DEF TypeOK, RemoveClaim, SyncRemoval
  <2>2. QED
    BY <1>1, <1>3, <1>4, <2>1 DEF LocksOf, Seeking, Holding, Running
<1>10. ClaimsOf(i)'
  <2>1. /\ NoClaimOf(i, Loc \ Keys(i))'
        /\ \A m \in left[i] : IsFirst(m, left[i]) => m = l
    BY <1>1, <1>4, FirstIsUnique DEF ClaimsOf, NoClaimOf
  <2>2. CASE RemoveClaim(i, l, from, to)
    <3>1. claim'[l] = Nobody /\ left' = left /\ pc[i] = from /\ pc'[i] = to
      BY <1>1, <2>2 DEF TypeOK, RemoveClaim
    <3>2. QED
      BY <1>1, <1>4, <2>1, <3>1 DEF ClaimsOf, NoClaimOf, Unclaimed, Before, Early, Seeking, Running
  <2>3. CASE SyncRemoval(i, l, to, from)
    <3>1. claimDisk'[l] = {claim[l]} /\ left'[i] = left[i] \ {l} /\ pc[i] = to /\ pc'[i] = from
      BY <1>1, <2>3 DEF TypeOK, SyncRemoval
    <3>2. i \notin claimDisk'[l]
      BY <1>1, <3>1, ActorAssumption DEF ClaimsOf
    <3>3. QED
      BY <1>1, <1>4, <2>1, <3>1, <3>2 DEF ClaimsOf, NoClaimOf, Unclaimed, Before, Early, Seeking, Running
  <2>4. QED
    BY <2>2, <2>3
<1>11. QED
  BY <1>2, <1>4, <1>5, <1>6, <1>7, <1>8, <1>9, <1>10, StepKeeps DEF OwnInv

\* The rollback is over, or every claim is durable.
LEMMA LeavingKeeps ==
  ASSUME IInv, NEW i \in Inv, RolledBack(i) \/ Depart(i)
  PROVE  IInv'
<1> USE DEF Goto, what, roots, claims, objects, execution, memory
<1>1. /\ TypeOK /\ LocksOf(i) /\ ClaimsOf(i)
      /\ Keys(i) \subseteq Loc /\ Keys(i)' = Keys(i)
  BY KeysAreLocations, KeysKept DEF IInv, OwnInv, RolledBack, Depart
<1>2. TypeOK'
  BY <1>1, TypeExclusion DEF Exclusion
<1>3. /\ UNCHANGED <<job, claims, roots, left, objects, staging, report, status, execution, commands, refused>>
      /\ \/ pc[i] = "rollback" /\ pc'[i] = "done"
         \/ pc[i] = "publishing" /\ pc'[i] = "execute" /\ lock' = lock
      /\ left[i] = {}
      /\ \A j \in Inv \ {i} : pc'[j] = pc[j]
  BY <1>1 DEF TypeOK, RolledBack, Depart
<1>4. LeaveSession(i)
  BY DEF RolledBack, Depart
<1>5. CollectorInv' /\ \A h \in Home, j \in Inv \ {i} : session[h] = j => session'[h] = j
  BY <1>3, <1>4, SessionAside DEF IInv
<1>6. /\ \A m \in Loc, j \in Inv \ {i} : lock'[m] = j <=> lock[m] = j
      /\ pc'[i] = "done" => \A m \in Loc : lock'[m] # i
  BY <1>1, <1>3, ActorAssumption DEF TypeOK, RolledBack, Depart, DropLocks
<1>7. \A j \in Inv \ {i} : Unaffected(j)
  BY <1>3, <1>5, <1>6, OthersAside
<1>8. Advances(i)
  BY <1>3, <1>6 DEF Advances, Turned, Before, Early, Seeking
<1>9. DiskInv' /\ RootOf(i)' /\ ObjectsOf(i)' /\ CommandOf(i)' /\ GraphOf(i)' /\ ReportOf(i)'
  BY <1>3, ExclusionAside DEF IInv, DiskInv, Excluding
<1>10. LocksOf(i)'
  BY <1>1, <1>3, <1>6 DEF LocksOf, Seeking, Holding, Running
<1>11. ClaimsOf(i)'
  BY <1>1, <1>3 DEF ClaimsOf, NoClaimOf, Unclaimed, Before, Early, Seeking, Running
<1>12. QED
  BY <1>2, <1>5, <1>7, <1>8, <1>9, <1>10, <1>11, StepKeeps DEF OwnInv

\* The handling of keys keeps the invariant.
LEMMA ExclusionKeeps ==
  ASSUME IInv, NEW i \in Inv, Exclusion(i)
  PROVE  IInv'
<1>1. ASSUME NEW l \in Loc, WriteClaim(i, l) \/ SyncClaim(i, l)
      PROVE  IInv'
  BY <1>1, PublicationKeeps
<1>2. ASSUME NEW l \in Loc,
             \/ RemoveClaim(i, l, "rollback", "unpublishing")
             \/ SyncRemoval(i, l, "unpublishing", "rollback")
      PROVE  IInv'
  BY <1>2, RemovalKeeps
<1>3. CASE \/ \E l \in Loc : TakeLock(i, l) \/ CheckClaim(i, l)
           \/ AllLocked(i) \/ GiveUp(i)
  BY <1>3, TryingKeeps
<1>4. ASSUME NEW l \in Loc, NEW s \in {"Blocked", "SkippedBusy"}, FindHeld(i, l, s)
      PROVE  IInv'
  BY <1>4, FindingKeeps
<1>5. CASE RolledBack(i) \/ Depart(i)
  BY <1>5, LeavingKeeps
<1>6. QED
  BY <1>1, <1>2, <1>3, <1>4, <1>5 DEF Exclusion

-----------------------------------------------------------------------------
(* Completion.                                                             *)

\* What completion changes, and what it does not, claims aside.
LEMMA CompletionFrame ==
  ASSUME TypeOK, NEW i \in Inv,
         \/ Retain(i) \/ Reenter(i) \/ SyncUnrooted(i) \/ SyncWithdrawn(i)
         \/ RemoveRoot(i, "unroot", "unrooting") \/ RemoveRoot(i, "withdraw", "withdrawing")
         \/ Released(i) \/ Settle(i)
  PROVE  /\ UNCHANGED <<what, claims, objects, execution, status, commands, refused>>
         /\ pc[i] \in {"ended", "unroot", "unrooting", "withdraw", "withdrawing", "releasing", "settle"}
         /\ pc'[i] \in {"unroot", "unrooting", "withdrawing", "releasing", "settle", "done"}
         /\ pc[i] \in Turned => pc'[i] \in Turned /\ lock' = lock
         /\ \A j \in Inv \ {i} :
              /\ pc'[j] = pc[j] /\ left'[j] = left[j]
              /\ root'[j] = root[j] /\ rootDisk'[j] = rootDisk[j]
              /\ report'[j] = report[j] /\ (j \in staging' <=> j \in staging)
         /\ session' = session \/ TakeSession(i) \/ LeaveSession(i)
         /\ lock' = lock \/ DropLocks(i)
<1> USE DEF Goto, what, claims, roots, locks, objects, execution, memory, commands, Turned
<1>1. CASE Retain(i)
  BY <1>1 DEF TypeOK, Retain
<1>2. CASE Reenter(i)
  BY <1>2 DEF TypeOK, Reenter
<1>3. CASE SyncUnrooted(i) \/ SyncWithdrawn(i)
  BY <1>3 DEF TypeOK, SyncUnrooted, SyncWithdrawn
<1>4. CASE RemoveRoot(i, "unroot", "unrooting") \/ RemoveRoot(i, "withdraw", "withdrawing")
  BY <1>4 DEF TypeOK, RemoveRoot
<1>5. CASE Released(i)
  BY <1>5 DEF TypeOK, Released
<1>6. CASE Settle(i)
  BY <1>6 DEF TypeOK, Settle
<1>7. QED
  BY <1>1, <1>2, <1>3, <1>4, <1>5, <1>6

\* The end keeps the invariant, claims aside.
LEMMA SettlingKeeps ==
  ASSUME IInv, NEW i \in Inv,
         \/ Retain(i) \/ Reenter(i) \/ SyncUnrooted(i) \/ SyncWithdrawn(i)
         \/ RemoveRoot(i, "unroot", "unrooting") \/ RemoveRoot(i, "withdraw", "withdrawing")
         \/ Released(i) \/ Settle(i)
  PROVE  IInv'
<1> USE DEF Goto, what, claims, objects, execution
<1>1. /\ TypeOK /\ LocksOf(i) /\ ClaimsOf(i) /\ RootOf(i) /\ ObjectsOf(i) /\ CommandOf(i) /\ ReportOf(i)
      /\ Keys(i) \subseteq Loc
  BY KeysAreLocations DEF IInv, OwnInv
<1>2. TypeOK'
  BY <1>1, TypeCompletion DEF Completion
<1>3. /\ UNCHANGED <<what, claims, objects, execution, status, commands, refused>>
      /\ pc[i] \in {"ended", "unroot", "unrooting", "withdraw", "withdrawing", "releasing", "settle"}
      /\ pc'[i] \in {"unroot", "unrooting", "withdrawing", "releasing", "settle", "done"}
      /\ Keys(i)' = Keys(i)
  BY <1>1, CompletionFrame, KeysKept
<1>4. /\ CollectorInv'
      /\ \A h \in Home, j \in Inv \ {i} : session[h] = j => session'[h] = j
  BY <1>1, CompletionFrame, SessionAside DEF IInv
<1>5. \A m \in Loc : /\ \A j \in Inv \ {i} : lock'[m] = j <=> lock[m] = j
                     /\ lock'[m] = i => lock[m] = i
  BY <1>1, CompletionFrame, ActorAssumption DEF TypeOK, DropLocks
<1>6. \A j \in Inv \ {i} : Unaffected(j)
  <2>1. \A j \in Inv : job[j].home \in Home
    BY <1>1 DEF TypeOK, Job
  <2>2. QED
    BY <1>1, <1>3, <1>4, <1>5, <2>1, CompletionFrame DEF Unaffected, Undisturbed, commands
<1>7. Advances(i)
  BY <1>1, <1>3, <1>5, CompletionFrame DEF Advances, Before, Early, Seeking
<1>8. i \in unconfirmed => pc'[i] = "done" /\ UNCHANGED <<roots, staging>>
  BY <1>1 DEF TypeOK, CommandOf, Retain, Reenter, SyncUnrooted, SyncWithdrawn, RemoveRoot, Released, Settle
<1>9. root'[i] \in rootDisk'[i]
  BY <1>1 DEF TypeOK, IInv, DiskInv, Retain, Reenter, SyncUnrooted, SyncWithdrawn,
     RemoveRoot, Released, Settle, roots
<1>10. DiskInv'
  BY <1>1, <1>3, <1>9, CompletionFrame DEF IInv, DiskInv
<1>11. CommandOf(i)' /\ GraphOf(i)'
  BY <1>1, <1>3, <1>8 DEF CommandOf, GraphOf, commands, roots
<1>12. RootOf(i)'
  BY <1>1 DEF TypeOK, RootOf, Retain, Reenter, SyncUnrooted, SyncWithdrawn, RemoveRoot,
     Released, Settle, roots, Early, Staged
<1>13. /\ pc'[i] = "unroot" => pc[i] = "ended"
       /\ pc'[i] = "unrooting" => pc[i] = "unroot"
       /\ pc'[i] = "releasing" => pc[i] = "unrooting" /\ left'[i] = Keys(i)
       /\ pc'[i] # "releasing" => left'[i] = left[i]
       /\ pc'[i] = "withdrawing" => pc[i] = "withdraw"
       /\ pc'[i] = "settle" => pc[i] = "withdrawing" \/ (pc[i] = "releasing" /\ left[i] = {})
       /\ pc'[i] = "done" => pc[i] = "ended" \/ pc[i] = "settle"
  <2>1. CASE SyncUnrooted(i)
    BY <1>1, <2>1 DEF TypeOK, SyncUnrooted
  <2>2. CASE Released(i)
    BY <1>1, <2>2 DEF TypeOK, Released, memory
  <2>3. CASE Retain(i) \/ Settle(i)
    BY <1>1, <2>3 DEF TypeOK, Retain, Settle, memory
  <2>4. CASE Reenter(i)
    BY <1>1, <2>4 DEF TypeOK, Reenter, memory
  <2>5. CASE SyncWithdrawn(i)
    <3>1. pc[i] = "withdrawing" /\ pc' = [pc EXCEPT ![i] = "settle"] /\ left' = left
      BY <2>5 DEF SyncWithdrawn, memory
    <3>2. QED
      BY <1>1, <3>1 DEF TypeOK
  <2>6. CASE RemoveRoot(i, "unroot", "unrooting") \/ RemoveRoot(i, "withdraw", "withdrawing")
    BY <1>1, <2>6 DEF TypeOK, RemoveRoot, memory
  <2>7. QED
    BY <2>1, <2>2, <2>3, <2>4, <2>5, <2>6
<1>14. /\ pc'[i] \in {"unroot", "unrooting", "releasing"} => lock' = lock
       /\ pc'[i] \in {"withdrawing", "settle", "done"} => \A m \in Loc : lock'[m] # i
  <2>1. CASE Retain(i) \/ Released(i)
    BY <1>1, <2>1, ActorAssumption DEF TypeOK, Retain, Released, DropLocks
  <2>2. CASE /\ lock' = lock
             /\ pc'[i] \in {"withdrawing", "settle", "done"} =>
                  pc[i] \in {"withdraw", "withdrawing", "settle"}
    BY <1>1, <2>2 DEF LocksOf, Seeking, Holding, Running
  <2>3. QED
    BY <1>1, <2>1, <2>2 DEF TypeOK, Reenter, SyncUnrooted, SyncWithdrawn, RemoveRoot, Settle, locks
<1>15. ObjectsOf(i)'
  BY <1>1, <1>3, <1>13 DEF ObjectsOf, commands, Staged
<1>16. LocksOf(i)'
  BY <1>1, <1>3, <1>13, <1>14 DEF LocksOf, Seeking, Holding, Running
<1>17. ClaimsOf(i)'
  BY <1>1, <1>3, <1>13 DEF ClaimsOf, NoClaimOf, Unclaimed, Before, Early, Seeking, Running
<1>18. ReportOf(i)'
  <2>1. CASE Settle(i)
    BY <1>1, <2>1 DEF TypeOK, Settle, RootOf, ClaimsOf, NoClaimOf, ReportOf, Unclaimed, roots
  <2>2. CASE report'[i].status = "Indeterminate"
    BY <2>2 DEF ReportOf
  <2>3. CASE report' = report
    BY <1>3, <2>3, ReportAside
  <2>4. QED
    BY <1>1, <2>1, <2>2, <2>3 DEF TypeOK, Retain, Reenter, SyncUnrooted, SyncWithdrawn, RemoveRoot, Released
<1>19. QED
  BY <1>2, <1>4, <1>6, <1>7, <1>10, <1>11, <1>12, <1>15, <1>16, <1>17, <1>18, StepKeeps DEF OwnInv

\* Completion keeps the invariant.
LEMMA CompletionKeeps ==
  ASSUME IInv, NEW i \in Inv, Completion(i)
  PROVE  IInv'
<1>1. ASSUME NEW l \in Loc,
             \/ RemoveClaim(i, l, "releasing", "unclaiming")
             \/ SyncRemoval(i, l, "unclaiming", "releasing")
      PROVE  IInv'
  BY <1>1, RemovalKeeps
<1>2. QED
  BY <1>1, SettlingKeeps DEF Completion

-----------------------------------------------------------------------------
(* The collector, and faults.                                              *)

\* The collector respects roots, and the session lock of those without one.
LEMMA CollectionKeeps ==
  ASSUME IInv, NEW h \in Home, Collection(h) \/ StopCollector(h)
  PROVE  IInv'
<1> USE DEF what, claims, roots, locks, objects, execution, memory, commands
<1>1. TypeOK /\ CollectorInv /\ \A i \in Inv : job[i].home \in Home /\ OwnInv(i)
  BY DEF IInv, TypeOK, Job
<1>2. TypeOK'
  BY <1>1, TypeCollection
<1>3. /\ UNCHANGED <<what, claims, roots, lock, staging, report, pc, memory, commands, refused>>
      /\ \A i \in Inv, g \in Home : session[g] = i => session'[g] = i
  BY <1>1, ActorAssumption DEF TypeOK, Collection, Collect, Collected, Delete, StopCollector
<1>4. DiskInv' /\ RefusalInv'
  BY <1>3 DEF IInv, DiskInv, RefusalInv, Above
<1>5. CollectorInv'
  BY <1>1 DEF TypeOK, CollectorInv, Collection, Collect, Collected, Delete, StopCollector
<1>6. ASSUME NEW i \in Inv
      PROVE  OwnInv(i)'
  <2>1. Undisturbed(i)
    BY <1>1, <1>3, <1>6 DEF Undisturbed
  <2>2. CASE Collect(h)
    <3>1. /\ session[h] = Nobody /\ store' = store
          /\ doomed' = [doomed EXCEPT ![h] = store[h] \ ReadRoots(h)]
      BY <2>2 DEF Collect
    <3>2. root[i] = "present" /\ job[i].home = h => job[i].needs \subseteq ReadRoots(h)
      BY <1>6 DEF ReadRoots
    <3>3. ObjectsOf(i) /\ RootOf(i) /\ CommandOf(i) /\ root[i] \in rootDisk[i]
      BY <1>1, <1>6 DEF IInv, DiskInv, OwnInv
    <3>4. ASSUME job[i].home = h
          PROVE  ObjectsOf(i)'
      <4>1. pc[i] \notin {"realizing", "realized", "rooting"}
        BY <1>6, <3>1, <3>3, <3>4, ActorAssumption DEF ObjectsOf
      <4>2. pc[i] \in Staged \cup {"rooted"} \/ i \in unconfirmed => root[i] = "present"
        BY <3>3 DEF RootOf, CommandOf
      <4>3. store'[h] = store[h] /\ doomed'[h] = store[h] \ ReadRoots(h)
        BY <1>1, <3>1 DEF TypeOK
      <4>4. job' = job /\ pc' = pc /\ unconfirmed' = unconfirmed
        BY <1>3
      <4>5. pc[i] \in Staged \cup {"rooted"} \/ i \in unconfirmed =>
              job[i].needs \subseteq store'[h] \ doomed'[h]
        BY <3>2, <3>3, <3>4, <4>2, <4>3 DEF ObjectsOf
      <4>6. QED
        BY <3>4, <4>1, <4>4, <4>5 DEF ObjectsOf
    <3>5. ASSUME job[i].home # h
          PROVE  ObjectsOf(i)'
      <4>1. doomed'[job[i].home] = doomed[job[i].home]
        BY <1>1, <1>6, <3>1, <3>5 DEF TypeOK
      <4>2. session[job[i].home] = i => session'[job[i].home] = i
        BY <1>1, <1>3, <1>6
      <4>3. job' = job /\ pc' = pc /\ unconfirmed' = unconfirmed
        BY <1>3
      <4>4. QED
        BY <3>1, <3>3, <4>1, <4>2, <4>3 DEF ObjectsOf
    <3>6. QED
      BY <2>1, <3>4, <3>5, UndisturbedKeep DEF OwnInv
  <2>3. CASE Collected(h) \/ StopCollector(h)
    BY <1>1, <1>6, <2>1, <2>3, OthersKeep DEF TypeOK, Collected, StopCollector, Unaffected
  <2>4. ASSUME NEW p \in Path, Delete(h, p)
        PROVE  OwnInv(i)'
    BY <1>1, <1>6, <2>1, <2>4, OthersKeep DEF TypeOK, Delete, Unaffected
  <2>5. QED
    BY <2>2, <2>3, <2>4 DEF Collection
<1>7. QED
  BY <1>2, <1>4, <1>5, <1>6 DEF IInv

\* An error or a kill lets locks go, nothing else.
LEMMA StopKeeps ==
  ASSUME IInv, NEW i \in Inv, Stop(i)
  PROVE  IInv'
<1> USE DEF what, claims, roots, objects, execution, memory
<1>1. /\ TypeOK /\ LocksOf(i) /\ ClaimsOf(i) /\ ObjectsOf(i) /\ CommandOf(i) /\ Keys(i)' = Keys(i)
  BY KeysKept DEF IInv, OwnInv, Stop
<1>2. TypeOK'
  BY <1>1, TypeFaults DEF IInv
<1>3. /\ UNCHANGED <<job, claims, roots, objects, staging, report, memory, commands, refused>>
      /\ pc[i] \notin {"idle", "done"} /\ pc'[i] = "done"
      /\ \A j \in Inv \ {i} : pc'[j] = pc[j]
      /\ LeaveSession(i) /\ DropLocks(i)
  BY <1>1 DEF TypeOK, Stop
<1>4. /\ CollectorInv'
      /\ \A h \in Home, j \in Inv \ {i} : session[h] = j => session'[h] = j
  BY <1>3, SessionAside DEF IInv
<1>5. /\ \A m \in Loc, j \in Inv \ {i} : lock'[m] = j <=> lock[m] = j
      /\ \A m \in Loc : lock'[m] # i
  BY <1>1, <1>3, ActorAssumption DEF TypeOK, DropLocks
<1>6. \A j \in Inv \ {i} : Unaffected(j)
  BY <1>3, <1>4, <1>5, OthersAside
<1>7. Advances(i)
  BY <1>3, <1>5 DEF Advances, Turned, Before, Early, Seeking
<1>8. DiskInv' /\ ReportOf(i)'
  BY <1>3, ReportAside DEF IInv, DiskInv
<1>9. CommandOf(i)' /\ GraphOf(i)'
  BY <1>1, <1>3 DEF CommandOf, GraphOf, commands
<1>10. LocksOf(i)' /\ RootOf(i)'
  BY <1>1, <1>3, <1>5 DEF LocksOf, RootOf, Seeking, Holding, Running, Early, Staged
<1>11. ClaimsOf(i)' /\ ObjectsOf(i)'
  BY <1>1, <1>3 DEF ClaimsOf, ObjectsOf, NoClaimOf, Unclaimed, Before, Early, Seeking,
     Running, Staged, commands
<1>12. QED
  BY <1>2, <1>4, <1>6, <1>7, <1>8, <1>9, <1>10, <1>11, StepKeeps DEF OwnInv

\* A command that ends by itself, or nothing.
LEMMA ExitKeeps ==
  ASSUME IInv, (\E i \in Inv : Exit(i)) \/ UNCHANGED vars
  PROVE  IInv'
<1> USE DEF what, claims, roots, locks, objects, execution, memory, commands
<1>1. /\ UNCHANGED <<what, claims, roots, locks, objects, staging, report, pc, memory, unconfirmed, refused>>
      /\ alive' \subseteq alive
  BY DEF Exit, vars
<1>2. TypeOK'
  BY <1>1 DEF IInv, TypeOK
<1>3. DiskInv' /\ CollectorInv' /\ RefusalInv'
  BY <1>1 DEF IInv, DiskInv, CollectorInv, RefusalInv, Above
<1>4. \A j \in Inv : Unaffected(j)
  BY <1>1 DEF Unaffected, Undisturbed
<1>5. QED
  BY <1>2, <1>3, <1>4, OthersKeep DEF IInv

\* Nobody is left; what every disk showed is still shown.
LEMMA PowerLossKeeps ==
  ASSUME IInv, PowerLoss
  PROVE  IInv'
<1> USE DEF what, execution, memory
<1>1. /\ TypeOK /\ DiskInv /\ RefusalInv /\ \A i \in Inv : OwnInv(i)
      /\ \A i \in Inv : Keys(i) \subseteq Loc /\ Keys(i)' = Keys(i)
  BY KeysAreLocations, KeysKept DEF IInv, PowerLoss
<1>2. TypeOK'
  BY <1>1, TypeFaults
<1>3. /\ \A l \in Loc : claim'[l] \in claimDisk[l] /\ claimDisk'[l] = {claim'[l]}
      /\ \A i \in Inv : root'[i] \in rootDisk[i] /\ rootDisk'[i] = {root'[i]}
  <2>1. /\ claim' \in Survivors(claim, claimDisk) /\ claimDisk' = [l \in Loc |-> {claim'[l]}]
        /\ root' \in Survivors(root, rootDisk) /\ rootDisk' = [i \in Inv |-> {root'[i]}]
    BY DEF PowerLoss
  <2>2. /\ DOMAIN claim = Loc /\ \A l \in Loc : claim[l] \in claimDisk[l]
        /\ DOMAIN root = Inv /\ \A i \in Inv : root[i] \in rootDisk[i]
    BY <1>1 DEF DiskInv, TypeOK
  <2>3. \A l \in Loc : claim'[l] \in claimDisk[l]
    BY <2>1, <2>2, Surviving
  <2>4. \A i \in Inv : root'[i] \in rootDisk[i]
    BY <2>1, <2>2, Surviving
  <2> QED
    BY <2>1, <2>3, <2>4
<1>4. /\ UNCHANGED <<job, store, staging, report, memory, unconfirmed, refused>>
      /\ \A i \in Inv : pc'[i] = IF pc[i] = "idle" THEN "idle" ELSE "done"
      /\ \A h \in Home : session'[h] = Nobody /\ doomed'[h] = {}
      /\ \A l \in Loc : lock'[l] = Nobody
      /\ alive' = {}
  BY <1>1 DEF PowerLoss
<1>5. DiskInv' /\ CollectorInv'
  BY <1>3, <1>4 DEF DiskInv, CollectorInv
<1>6. RefusalInv'
  BY <1>1, <1>4 DEF RefusalInv, Turned, Before, Early, Seeking
<1>7. ASSUME NEW i \in Inv
      PROVE  OwnInv(i)'
  <2>1. /\ LocksOf(i) /\ ClaimsOf(i) /\ RootOf(i) /\ ObjectsOf(i) /\ CommandOf(i) /\ ReportOf(i)
        /\ job[i].home \in Home
    BY <1>1, <1>7 DEF OwnInv, TypeOK, Job
  <2>2. LocksOf(i)' /\ GraphOf(i)'
    BY <1>1, <1>4, <1>7, <2>1, ActorAssumption DEF LocksOf, GraphOf, Seeking, Holding, Running
  <2>3. ClaimsOf(i)'
    BY <1>1, <1>3, <1>4, <1>7, <2>1 DEF ClaimsOf, NoClaimOf, Unclaimed, Before, Early, Seeking, Running
  <2>4. RootOf(i)'
    BY <1>3, <1>4, <1>7, <2>1 DEF RootOf, Early, Staged
  <2>5. CommandOf(i)'
    BY <1>1, <1>3, <1>4, <1>7, <2>1 DEF CommandOf
  <2>6. ObjectsOf(i)'
    BY <1>4, <1>7, <2>1 DEF ObjectsOf, Staged
  <2>7. ReportOf(i)'
    BY <1>3, <1>4, <1>7, <2>1 DEF ReportOf, NoClaimOf
  <2>8. QED
    BY <2>2, <2>3, <2>4, <2>5, <2>6, <2>7 DEF OwnInv
<1>8. QED
  BY <1>2, <1>5, <1>6, <1>7 DEF IInv

-----------------------------------------------------------------------------
(* The invariant.                                                          *)

\* The invariant holds when nothing has begun.
LEMMA InitInv == Init => IInv
<1> SUFFICES ASSUME Init
             PROVE  IInv
  OBVIOUS
<1>1. TypeOK
  BY TypeInit
<1>2. DiskInv /\ CollectorInv /\ RefusalInv
  BY DEF Init, DiskInv, CollectorInv, RefusalInv
<1>3. ASSUME NEW i \in Inv
      PROVE  OwnInv(i)
  <2>1. LocksOf(i) /\ ClaimsOf(i)
    BY <1>3, ActorAssumption DEF Init, LocksOf, ClaimsOf, NoClaimOf, Seeking, Holding, Running
  <2>2. RootOf(i) /\ ObjectsOf(i) /\ CommandOf(i) /\ GraphOf(i) /\ ReportOf(i)
    BY <1>3 DEF Init, RootOf, ObjectsOf, CommandOf, GraphOf, ReportOf, Unreported, Staged
  <2>3. QED
    BY <2>1, <2>2 DEF OwnInv
<1>4. QED
  BY <1>1, <1>2, <1>3 DEF IInv

\* Every step keeps the invariant.
LEMMA NextInv == IInv /\ [Next]_vars => IInv'
<1> SUFFICES ASSUME IInv, [Next]_vars
             PROVE  IInv'
  OBVIOUS
<1>1. ASSUME NEW i \in Inv, Begin(i) \/ Step(i) \/ ExecuteFails(i)
      PROVE  IInv'
  BY <1>1, AdmissionKeeps, ExclusionKeeps, ExecutionKeeps, CompletionKeeps DEF Step
<1>2. ASSUME NEW i \in Inv, NEW l \in Loc, PublishFails(i, l)
      PROVE  IInv'
  BY <1>2, PublicationKeeps
<1>3. ASSUME NEW i \in Inv, Stop(i)
      PROVE  IInv'
  BY <1>3, StopKeeps
<1>4. ASSUME NEW h \in Home, Collection(h) \/ StopCollector(h)
      PROVE  IInv'
  BY <1>4, CollectionKeeps
<1>5. CASE (\E i \in Inv : Exit(i)) \/ UNCHANGED vars
  BY <1>5, ExitKeeps
<1>6. CASE PowerLoss
  BY <1>6, PowerLossKeeps
<1>7. QED
  BY <1>1, <1>2, <1>3, <1>4, <1>5, <1>6 DEF Next, Faults

\* No sequence of steps, errors, kills and power losses leads out of IInv.
THEOREM Inductive == Spec => []IInv
<1>1. Init => IInv
  BY InitInv
<1>2. IInv /\ [Next]_vars => IInv'
  BY NextInv
<1>3. QED
  BY <1>1, <1>2, PTL DEF Spec

\* Every variable keeps its type, the bounds of the loops included.
THEOREM TypeCorrect == Spec => []TypeOK
<1>1. IInv => TypeOK
  BY DEF IInv
<1>2. QED
  BY <1>1, Inductive, PTL

\* While the end of a command is not confirmed, the root and the claims of its
\* invocation are on every disk that a power loss can leave.
THEOREM Protected == Spec => []UnconfirmedIsProtected
<1>1. IInv => UnconfirmedIsProtected
  BY DEF IInv, TypeOK, OwnInv, CommandOf, UnconfirmedIsProtected
<1>2. QED
  BY <1>1, Inductive, PTL

\* Commands that run at the same time share no mutation key, in whatever homes
\* they run and whether or not anyone supervises them.
THEOREM Exclusive == Spec => []CommandsExclude
<1>1. ASSUME IInv, NEW i \in alive, NEW j \in alive, i # j
      PROVE  Keys(i) \cap Keys(j) = {}
  <2>1. i \in Inv /\ j \in Inv
    BY <1>1 DEF IInv, TypeOK
  <2>2. /\ \A l \in Keys(i) : claimDisk[l] = {i}
        /\ \A l \in Keys(j) : claimDisk[l] = {j}
    BY <1>1, <2>1 DEF IInv, OwnInv, CommandOf
  <2>3. QED
    BY <1>1, <2>2
<1>2. IInv => CommandsExclude
  BY <1>1 DEF CommandsExclude
<1>3. QED
  BY <1>2, Inductive, PTL

\* The collector takes nothing that a command uses or may still use.
THEOREM ObjectsStay == Spec => []CommandsKeepTheirObjects
<1>1. ASSUME IInv, NEW i \in unconfirmed
      PROVE  job[i].needs \subseteq store[job[i].home] /\ i \in staging
  BY <1>1 DEF IInv, TypeOK, OwnInv, CommandOf, ObjectsOf
<1>2. IInv => CommandsKeepTheirObjects
  BY <1>1 DEF CommandsKeepTheirObjects
<1>3. QED
  BY <1>2, Inductive, PTL

\* A receipt of an end is true of the root and of the claims, on every disk.
THEOREM EndsClean == Spec => []ReportedEndIsClean
<1>1. IInv => ReportedEndIsClean
  BY DEF IInv, OwnInv, ReportOf, NoClaimOf, ReportedEndIsClean
<1>2. QED
  BY <1>1, Inductive, PTL

\* No two invocations turn each other away.
THEOREM OneSided == Spec => []RefusalsAreOneSided
<1>1. IInv => RefusalsAreOneSided
  BY DEF IInv, RefusalInv, RefusalsAreOneSided
<1>2. QED
  BY <1>1, Inductive, PTL

\* A rollback that succeeds leaves no claim, on any disk.
THEOREM RolledBackClean == Spec => RollbackIsComplete
<1> DEFINE Clean == \A i \in Inv : pc[i] = "rollback" /\ left[i] = {} =>
                      \A l \in Loc : i \notin claimDisk[l]
<1>1. IInv => Clean
  BY DEF IInv, OwnInv, ClaimsOf, NoClaimOf
<1>2. IInv => [Clean]_vars
  BY <1>1
<1>3. QED
  BY <1>2, Inductive, PTL DEF RollbackIsComplete

-----------------------------------------------------------------------------
(* The graph.                                                              *)

\* Of some tasks there is a last one.
LEMMA LastTask ==
  ASSUME NEW S, S \subseteq Node, S # {}
  PROVE  \E n \in S : \A m \in S : m <= n
<1> DEFINE Less == {p \in Nat \X Nat : p[1] < p[2]}
           Distances == {Nodes - n : n \in S}
<1>1. IsWellFoundedOn(Less, Nat)
  <2>1. OpToRel(<, Nat) = Less
    BY DEF OpToRel
  <2>2. QED
    BY <2>1, NatLessThanWellFounded
<1>2. Distances \subseteq Nat /\ Distances # {}
  <2>1. \A n \in S : Nodes - n \in Nat
    BY GraphAssumption DEF Node
  <2>2. QED
    BY <2>1
<1>3. PICK x \in Distances : \A y \in Distances : ~ (<<y, x>> \in Less)
  <2> HIDE DEF Less, Distances
  <2> QED
    BY <1>1, <1>2, WFMin
<1>4. PICK n \in S : x = Nodes - n
  OBVIOUS
<1>5. ASSUME NEW m \in S PROVE m <= n
  <2>1. m \in Nat /\ n \in Nat /\ Nodes \in Nat /\ Nodes - m \in Nat /\ Nodes - n \in Nat
    BY GraphAssumption DEF Node
  <2>2. ~ (<<Nodes - m, Nodes - n>> \in Less)
    BY <1>3, <1>4
  <2>3. ~ (Nodes - m < Nodes - n)
    BY <2>1, <2>2
  <2>4. QED
    BY <2>1, <2>3
<1>6. QED
  BY <1>5

\* When the last task succeeded and each that did had all it needs, all did: the last of
\* those which did not is needed by a later one, which did.
LEMMA LastSpeaksForAll ==
  ASSUME TypeOK, graph \in Graph, NEW i \in Inv, result[i][Nodes] = "Succeeded",
         \A n \in Node : result[i][n] = "Succeeded" => NeedsMet(i, n)
  PROVE  AllSucceeded(i)
<1> DEFINE Rest == {n \in Node : result[i][n] # "Succeeded"}
<1>1. SUFFICES ASSUME Rest # {}
               PROVE  FALSE
  BY DEF AllSucceeded
<1>2. PICK n \in Rest : \A m \in Rest : m <= n
  BY <1>1, LastTask
<1>3. n \in 1..(Nodes - 1)
  BY GraphAssumption DEF Node
<1>4. PICK m \in Node : n \in graph[m].deps
  BY <1>3 DEF Graph
<1>5. m > n
  BY <1>4, GraphAssumption DEF Graph, Node
<1>6. result[i][m] = "Succeeded"
  BY <1>2, <1>4, <1>5, GraphAssumption DEF Node
<1>7. QED
  BY <1>4, <1>6 DEF NeedsMet

\* What a step must do for the successes of j to stand.
Stands(j) ==
  /\ node'[j] = node[j] /\ result'[j] = result[j]
  /\ pc'[j] \in {"acting", "waiting"} => pc[j] \in {"acting", "waiting"}
  /\ status'[j] = "Succeeded" => status[j] = "Succeeded" /\ (pc[j] \in Ended => pc'[j] \in Ended)
  /\ report'[j].status = "Succeeded" => "Succeeded" \in {report[j].status, status[j]}

LEMMA SuccessStands ==
  ASSUME graph' = graph, NEW i \in Inv, SuccessOf(i), Stands(i)
  PROVE  SuccessOf(i)'
BY DEF SuccessOf, Stands, NeedsMet, AllSucceeded

\* Execution is the only one that tasks succeed by.
LEMMA SuccessExecution ==
  ASSUME IInv, SuccessInv, NEW i \in Inv, Execution(i) \/ ExecuteFails(i)
  PROVE  SuccessOf(i)'
<1> USE DEF Goto, what, claims, roots, locks, objects, execution, memory, commands, Ended
<1>1. /\ TypeOK /\ SuccessOf(i) /\ graph' = graph /\ report' = report
      /\ pc[i] \in Executing /\ pc'[i] \in Executing \cup {"ended"}
      /\ status[i] # "Succeeded" /\ report[i].status # "Succeeded"
      /\ pc[i] \in {"acting", "waiting"} => node[i] \in Node
  <2>1. TypeOK /\ SuccessOf(i) /\ ReportOf(i) /\ GraphOf(i)
    BY DEF IInv, SuccessInv, OwnInv
  <2>2. /\ graph' = graph /\ report' = report
        /\ pc[i] \in Executing /\ pc'[i] \in Executing \cup {"ended"}
    BY <2>1, ExecutionFrame
  <2>3. status[i] # "Succeeded" /\ report[i].status # "Succeeded"
    BY <2>1, <2>2 DEF SuccessOf, ReportOf, Executing
  <2>4. pc[i] \in {"acting", "waiting"} => node[i] \in Node
    BY <2>1, GraphAssumption DEF TypeOK, GraphOf, Node
  <2>5. QED
    BY <2>1, <2>2, <2>3, <2>4
<1>2. \A n \in Node : n \in Nat /\ graph[n].deps \subseteq 1..(n - 1)
  BY GraphAssumption DEF SuccessInv, Graph, Node
<1>3. CASE StartTask(i)
  BY <1>1, <1>2, <1>3, GraphAssumption DEF TypeOK, StartTask, SuccessOf, NeedsMet, AllSucceeded, Ready, PrerequisiteSucceeded, Node
<1>4. ASSUME NEW s \in Status, EndTask(i, "acting", s) \/ EndTask(i, "waiting", s)
      PROVE  SuccessOf(i)'
  BY <1>1, <1>2, <1>4, GraphAssumption DEF TypeOK, EndTask, SuccessOf, NeedsMet, AllSucceeded, Node
<1>5. CASE Ensure(i) \/ Launch(i) \/ Succeed(i)
  BY <1>1, <1>5 DEF TypeOK, Ensure, Launch, Succeed, SuccessOf, NeedsMet, AllSucceeded
<1>6. CASE AllTasksDone(i)
  <2>1. /\ pc'[i] = "ended" /\ status'[i] = Overall(result[i]) /\ UNCHANGED <<node, result>>
    BY <1>1, <1>6 DEF TypeOK, AllTasksDone, ExecutionEnds
  <2>2. status'[i] = "Succeeded" => AllSucceeded(i)
    BY <1>1, <2>1, LastSpeaksForAll DEF SuccessInv, SuccessOf, Overall
  <2>3. QED
    BY <1>1, <2>1, <2>2 DEF SuccessOf, NeedsMet, AllSucceeded
<1>7. CASE ExecuteFails(i)
  BY <1>1, <1>7 DEF TypeOK, ExecuteFails, ExecutionEnds, SuccessOf, NeedsMet, AllSucceeded
<1>8. QED
  BY <1>3, <1>4, <1>5, <1>6, <1>7 DEF Execution, TaskDone, Deadline, CommandEnds, CleanupFails, Confirmed, Status

\* The other steps of an invocation leave its tasks alone.
LEMMA SuccessElsewhere ==
  ASSUME IInv, NEW i \in Inv,
         \/ Begin(i) \/ Admission(i) \/ Exclusion(i) \/ Completion(i) \/ Stop(i) \/ Exit(i)
         \/ \E l \in Loc : PublishFails(i, l)
  PROVE  graph' = graph /\ \A j \in Inv : Stands(j)
<1> USE DEF Goto, what, claims, roots, locks, objects, execution, memory, commands, Stands, Ended
<1>1. TypeOK
  BY DEF IInv
<1>2. CASE Begin(i) \/ Admission(i)
  BY <1>1, <1>2 DEF TypeOK, Admission, Begin, Enter, Realize, Block, WriteRoot, SyncRoot,
     Stage, Prepare
<1>3. CASE Exclusion(i) \/ \E l \in Loc : PublishFails(i, l)
  BY <1>1, <1>3 DEF TypeOK, Exclusion, TakeLock, CheckClaim, WriteClaim, SyncClaim,
     FindHeld, RemoveClaim, SyncRemoval, GiveUp, AllLocked, RolledBack, Depart,
     PublishFails
<1>4. CASE Completion(i)
  BY <1>1, <1>4 DEF TypeOK, Completion, Retain, Reenter, RemoveRoot, SyncUnrooted,
     SyncWithdrawn, RemoveClaim, SyncRemoval, Released, Settle
<1>5. CASE Stop(i) \/ Exit(i)
  BY <1>1, <1>5 DEF TypeOK, Stop, Exit
<1>6. QED
  BY <1>2, <1>3, <1>4, <1>5

\* Every step keeps the successes true.
LEMMA SuccessNext == IInv /\ SuccessInv /\ [Next]_vars => SuccessInv'
<1> SUFFICES ASSUME IInv, SuccessInv, [Next]_vars
             PROVE  SuccessInv'
  OBVIOUS
<1> USE DEF what, execution, memory
<1>1. ASSUME graph' = graph, \A j \in Inv : Stands(j)
      PROVE  SuccessInv'
  BY <1>1, SuccessStands DEF SuccessInv
<1>2. ASSUME NEW i \in Inv, Execution(i) \/ ExecuteFails(i)
      PROVE  SuccessInv'
  <2>1. graph' = graph /\ \A j \in Inv \ {i} : Stands(j)
    BY <1>2, ExecutionFrame DEF IInv, Stands
  <2>2. QED
    BY <1>2, <2>1, SuccessExecution, SuccessStands DEF SuccessInv
<1>3. ASSUME NEW i \in Inv,
             \/ Begin(i) \/ Admission(i) \/ Exclusion(i) \/ Completion(i) \/ Stop(i) \/ Exit(i)
             \/ \E l \in Loc : PublishFails(i, l)
      PROVE  SuccessInv'
  BY <1>1, <1>3, SuccessElsewhere
<1>4. CASE UNCHANGED vars \/ \E h \in Home : Collection(h) \/ StopCollector(h)
  <2>1. UNCHANGED <<graph, pc, status, node, result, report>>
    BY <1>4 DEF vars, Collection, Collect, Collected, Delete, StopCollector
  <2>2. QED
    BY <1>1, <2>1 DEF Stands
<1>5. CASE PowerLoss
  BY <1>1, <1>5 DEF PowerLoss, IInv, TypeOK, Stands, Ended
<1>6. QED
  BY <1>2, <1>3, <1>4, <1>5 DEF Next, Step, Faults

\* An invocation that reports success ran every task of its graph with success, after
\* everything the task depends on, and gave its root and claims back.
THEOREM SuccessIsWhole == Spec => []SuccessCoversTheGraph
<1>1. Init => SuccessInv
  BY DEF Init, SuccessInv, SuccessOf, Unreported
<1>2. IInv /\ SuccessInv /\ [Next]_vars => SuccessInv'
  BY SuccessNext
<1>3. IInv /\ SuccessInv => SuccessCoversTheGraph
  BY DEF IInv, OwnInv, ReportOf, SuccessInv, SuccessOf, AllSucceeded, SuccessCoversTheGraph
<1>4. QED
  BY <1>1, <1>2, <1>3, Inductive, PTL DEF Spec
=============================================================================
