------------------------------- MODULE TaskRuns -------------------------------
(***************************************************************************)
(* Task invocations of gripsack-exec (workspace/consumer/tasks.rs), any    *)
(* number of them at once, in several homes of one user.                   *)
(*                                                                         *)
(* An invocation realizes what it needs and registers a process root under *)
(* the session lock of its home, claims its mutation keys, and only then   *)
(* gives the session lock up and runs commands.  Roots keep the collector  *)
(* away from what the commands use; claims keep other invocations away     *)
(* from what they change.  Both outlive the invocation unless the end of   *)
(* every command was confirmed.  As in Journal, a name is what the kernel  *)
(* shows and the set of contents that a power loss may leave.              *)
(***************************************************************************)
EXTENDS Naturals, FiniteSets

CONSTANTS
  Inv,        \* invocations; each is run once
  Home,       \* homes: one store, one session lock and one set of roots each
  Key,        \* mutation keys, numbered in their canonical order
  UserKey,    \* those of scope `user', one namespace for all homes
  Path,       \* store objects
  Nodes,      \* tasks of the graph, in topological order; the last is its root
  MaxActions, \* bound: actions of one task
  Jobs,       \* what an invocation may be: its home, keys and objects
  User, Nobody, Collector

ASSUME ScopeAssumption ==
  /\ Key \subseteq Nat /\ UserKey \subseteq Key /\ User \notin Home
  /\ \A u \in UserKey : \A k \in Key \ UserKey : u < k
ASSUME ActorAssumption == Nobody \notin Inv /\ Collector \notin Inv /\ Nobody # Collector
ASSUME GraphAssumption == Nodes \in Nat \ {0} /\ MaxActions \in Nat \ {0}

Node   == 1..Nodes
Loc    == (Home \cup {User}) \X Key      \* a claim record and its flock
Job    == [home : Home, keys : SUBSET Key, needs : SUBSET Path]
ASSUME JobsAssumption == Jobs \subseteq Job
Task   == [deps : SUBSET Node, actions : 1..MaxActions]
Status == {"Succeeded", "Failed", "Blocked", "Cancelled", "SkippedBusy", "Indeterminate"}
Report == [status : Status, retained : BOOLEAN]
Record == {"absent", "present"}       \* of a process root
Unreported == [status |-> "Indeterminate", retained |-> FALSE]

VARIABLES
  job, graph,          \* what the invocations are: chosen once
  store,               \* the objects of each home
  session,             \* who holds the session lock of each home
  lock,                \* who holds the flock of each key
  claim, claimDisk,    \* the durable claim on each key
  root, rootDisk,      \* the process root of each invocation
  staging,             \* invocations whose staging directory exists
  report,              \* the receipt of each invocation
  pc, left,            \* where each invocation is, and the keys of its loop
  status,              \* the status that it will report
  node, actions,       \* the task it is at, and its actions still to do
  result,              \* the status of each task
  launched,            \* a command was launched
  doomed,              \* what the collector of each home will delete
  alive,               \* history: invocations whose command may be running
  unconfirmed,         \* history: ... or ended in a way nobody confirmed
  refused              \* history: <<i, j>>: i found a key held by j

what      == <<job, graph>>
claims    == <<claim, claimDisk>>
roots     == <<root, rootDisk>>
locks     == <<session, lock>>
objects   == <<store, doomed>>
execution == <<node, actions, result, launched>>
memory    == <<left, status, execution>>
commands  == <<alive, unconfirmed>>
vars      == <<what, claims, roots, locks, objects, staging, report, pc, memory,
               commands, refused>>

PC == {"idle", "entering", "realizing", "realized", "rooting", "rooted", "prepare",
       "locking", "checking", "dropping", "publishing", "claiming", "rollback",
       "unpublishing", "execute", "acting", "waiting", "ended", "unroot",
       "unrooting", "withdraw", "withdrawing", "releasing", "unclaiming",
       "settle", "done"}

TypeOK ==
  /\ job \in [Inv -> Job] /\ graph \in [Node -> Task]
  /\ store \in [Home -> SUBSET Path] /\ doomed \in [Home -> SUBSET Path]
  /\ session \in [Home -> Inv \cup {Nobody, Collector}]
  /\ lock \in [Loc -> Inv \cup {Nobody}]
  /\ claim \in [Loc -> Inv \cup {Nobody}]
  /\ claimDisk \in [Loc -> SUBSET (Inv \cup {Nobody})]
  /\ root \in [Inv -> Record] /\ rootDisk \in [Inv -> SUBSET Record]
  /\ staging \in SUBSET Inv /\ report \in [Inv -> Report]
  /\ pc \in [Inv -> PC] /\ left \in [Inv -> SUBSET Loc]
  /\ status \in [Inv -> Status]
  /\ node \in [Inv -> 1..(Nodes + 1)] /\ actions \in [Inv -> 0..MaxActions]
  /\ result \in [Inv -> [Node -> Status]] /\ launched \in [Inv -> BOOLEAN]
  /\ alive \in SUBSET Inv /\ unconfirmed \in SUBSET Inv
  /\ refused \in SUBSET (Inv \X Inv)

-----------------------------------------------------------------------------
(* Keys.  A `store' key is one of its home; a `user' key is the same in    *)
(* every home.                                                             *)

Location(i, k) == <<IF k \in UserKey THEN User ELSE job[i].home, k>>
Keys(i) == {Location(i, k) : k \in job[i].keys}
AnyOf(l, S) == l \in S   \* mutant: keys in the order they were declared
IsFirst(l, S) == l \in S /\ \A m \in S : l[2] <= m[2]

PrerequisiteEnded(s) == s # "Indeterminate"   \* mutant
PrerequisiteSucceeded(s) == s = "Succeeded"

\* The task at hand may run: nothing stopped the graph, and every
\* prerequisite is confirmed.
Stopped(i) == \E n \in 1..(node[i] - 1) : result[i][n] \in {"Indeterminate", "Cancelled"}
Ready(i) ==
  ~Stopped(i) /\ \A d \in graph[node[i]].deps : PrerequisiteSucceeded(result[i][d])

\* The status of the whole graph, once every task has one.
Overall(r) ==
  IF \E n \in Node : r[n] = "Indeterminate" THEN "Indeterminate"
  ELSE IF \E n \in Node : r[n] = "Cancelled" THEN "Cancelled"
  ELSE r[Nodes]

\* Task states from_receipt gives a command whose cleanup was confirmed.
Confirmed == {"Succeeded", "Failed", "Cancelled"}

Goto(i, from, to) == pc[i] = from /\ pc' = [pc EXCEPT ![i] = to]

TakeSession(i) ==
  /\ session[job[i].home] = Nobody
  /\ session' = [session EXCEPT ![job[i].home] = i]
LeaveSession(i) == session' = [h \in Home |-> IF session[h] = i THEN Nobody ELSE session[h]]
DropLocks(i) == lock' = [l \in Loc |-> IF lock[l] = i THEN Nobody ELSE lock[l]]

\* visit: prerequisites come before their dependents, and every task is a
\* prerequisite, however remote, of the one that was asked for.
Graph ==
  {g \in [Node -> Task] :
     /\ \A n \in Node : g[n].deps \subseteq 1..(n - 1)
     /\ \A n \in 1..(Nodes - 1) : \E m \in Node : n \in g[m].deps}

-----------------------------------------------------------------------------
Init ==
  /\ job \in [Inv -> Jobs] /\ graph \in Graph
  /\ store = [h \in Home |-> {}] /\ doomed = [h \in Home |-> {}]
  /\ session = [h \in Home |-> Nobody] /\ lock = [l \in Loc |-> Nobody]
  /\ claim = [l \in Loc |-> Nobody] /\ claimDisk = [l \in Loc |-> {Nobody}]
  /\ root = [i \in Inv |-> "absent"] /\ rootDisk = [i \in Inv |-> {"absent"}]
  /\ staging = {} /\ report = [i \in Inv |-> Unreported]
  /\ pc = [i \in Inv |-> "idle"] /\ left = [i \in Inv |-> {}]
  /\ status = [i \in Inv |-> "Indeterminate"]
  /\ node = [i \in Inv |-> 1] /\ actions = [i \in Inv |-> 0]
  /\ result = [i \in Inv |-> [n \in Node |-> "Blocked"]]
  /\ launched = [i \in Inv |-> FALSE]
  /\ alive = {} /\ unconfirmed = {} /\ refused = {}

-----------------------------------------------------------------------------
(* Under the session lock: realization and the process root.               *)

\* The first receipt, before anything is done.
Begin(i) ==
  /\ Goto(i, "idle", "entering")
  /\ UNCHANGED <<what, claims, roots, locks, objects, staging, report, memory, commands, refused>>

Enter(i) ==
  /\ Goto(i, "entering", "realizing")
  /\ TakeSession(i)
  /\ UNCHANGED <<what, claims, roots, lock, objects, staging, report, memory, commands, refused>>

Realize(i) ==
  /\ Goto(i, "realizing", "realized")
  /\ store' = [store EXCEPT ![job[i].home] = @ \cup job[i].needs]
  /\ UNCHANGED <<what, claims, roots, locks, doomed, staging, report, memory, commands, refused>>

\* Realization failed, or a service the tasks need is not ready.
Block(i) ==
  /\ pc[i] \in {"realizing", "realized"} /\ pc' = [pc EXCEPT ![i] = "done"]
  /\ report' = [report EXCEPT ![i] = [status |-> "Blocked", retained |-> FALSE]]
  /\ LeaveSession(i)
  /\ UNCHANGED <<what, claims, roots, lock, objects, staging, memory, commands, refused>>

WriteRoot(i) ==
  /\ Goto(i, "realized", "rooting")
  /\ root' = [root EXCEPT ![i] = "present"]
  /\ rootDisk' = [rootDisk EXCEPT ![i] = @ \cup {"present"}]
  /\ UNCHANGED <<what, claims, locks, objects, staging, report, memory, commands, refused>>

SyncRoot(i) ==
  /\ Goto(i, "rooting", "rooted")
  /\ rootDisk' = [rootDisk EXCEPT ![i] = {root[i]}]
  /\ UNCHANGED <<what, claims, root, locks, objects, staging, report, memory, commands, refused>>

\* The receipt says that the root is retained before there is anything else
\* to clean up.
Stage(i) ==
  /\ Goto(i, "rooted", "prepare")
  /\ report' = [report EXCEPT ![i] = [status |-> "Indeterminate", retained |-> TRUE]]
  /\ staging' = staging \cup {i}
  /\ UNCHANGED <<what, claims, roots, locks, objects, memory, commands, refused>>

Prepare(i) ==
  /\ pc[i] = "prepare"
  /\ \/ /\ pc' = [pc EXCEPT ![i] = "locking"]
        /\ left' = [left EXCEPT ![i] = Keys(i)]
        /\ UNCHANGED status
     \/ /\ pc' = [pc EXCEPT ![i] = "withdraw"]
        /\ status' = [status EXCEPT ![i] = "Blocked"]
        /\ UNCHANGED left
  /\ UNCHANGED <<what, claims, roots, locks, objects, staging, report, execution, commands, refused>>

-----------------------------------------------------------------------------
(* Mutation keys: all are locked and seen unclaimed, then all are claimed. *)

TakeLock(i, l) ==
  /\ Goto(i, "locking", "checking")
  /\ IsFirst(l, left[i]) /\ lock[l] = Nobody
  /\ lock' = [lock EXCEPT ![l] = i]
  /\ UNCHANGED <<what, claims, roots, session, objects, staging, report, memory, commands, refused>>

\* Mutant: a flock that is held is waited for.
WaitHeld(i, l, s) ==
  pc[i] = "locking" /\ IsFirst(l, left[i]) /\ lock[l] # Nobody /\ UNCHANGED vars

\* The flock is tried, never waited for; busy is blocked or skipped.
FindHeld(i, l, s) ==
  /\ Goto(i, "locking", "dropping")
  /\ IsFirst(l, left[i]) /\ lock[l] # Nobody
  /\ status' = [status EXCEPT ![i] = s]
  /\ refused' = refused \cup {<<i, lock[l]>>}
  /\ UNCHANGED <<what, claims, roots, locks, objects, staging, report, left, execution, commands>>

\* Mutant: a flock that was granted is taken for the absence of a claim.
TrustLock(i, l) ==
  /\ Goto(i, "checking", "locking")
  /\ IsFirst(l, left[i])
  /\ left' = [left EXCEPT ![i] = @ \ {l}]
  /\ UNCHANGED <<what, claims, roots, locks, objects, staging, report, status, execution, commands, refused>>

CheckClaim(i, l) ==
  /\ pc[i] = "checking" /\ IsFirst(l, left[i])
  /\ \/ /\ claim[l] = Nobody
        /\ pc' = [pc EXCEPT ![i] = "locking"]
        /\ left' = [left EXCEPT ![i] = @ \ {l}]
        /\ UNCHANGED status
     \/ /\ claim[l] # Nobody
        /\ pc' = [pc EXCEPT ![i] = "dropping"]
        /\ status' = [status EXCEPT ![i] = "Indeterminate"]
        /\ UNCHANGED left
  /\ UNCHANGED <<what, claims, roots, locks, objects, staging, report, execution, commands, refused>>

\* A conflict: the prefix that was locked is let go.
GiveUp(i) ==
  /\ Goto(i, "dropping", "withdraw")
  /\ DropLocks(i)
  /\ UNCHANGED <<what, claims, roots, session, objects, staging, report, memory, commands, refused>>

AllLocked(i) ==
  /\ Goto(i, "locking", "publishing") /\ left[i] = {}
  /\ left' = [left EXCEPT ![i] = Keys(i)]
  /\ UNCHANGED <<what, claims, roots, locks, objects, staging, report, status, execution, commands, refused>>

WriteClaim(i, l) ==
  /\ Goto(i, "publishing", "claiming")
  /\ IsFirst(l, left[i])
  /\ claim' = [claim EXCEPT ![l] = i]
  /\ claimDisk' = [claimDisk EXCEPT ![l] = @ \cup {i}]
  /\ UNCHANGED <<what, roots, locks, objects, staging, report, memory, commands, refused>>

SkipClaimBarrier(i, l) ==   \* mutant
  /\ Goto(i, "claiming", "publishing")
  /\ IsFirst(l, left[i])
  /\ left' = [left EXCEPT ![i] = @ \ {l}]
  /\ UNCHANGED <<what, claims, roots, locks, objects, staging, report, status, execution, commands, refused>>

SyncClaim(i, l) ==
  /\ Goto(i, "claiming", "publishing")
  /\ IsFirst(l, left[i])
  /\ claimDisk' = [claimDisk EXCEPT ![l] = {claim[l]}]
  /\ left' = [left EXCEPT ![i] = @ \ {l}]
  /\ UNCHANGED <<what, claim, roots, locks, objects, staging, report, status, execution, commands, refused>>

\* Mutant: the key whose publication failed is not among those rolled back.
RollbackPublished(i, l) ==
  /\ pc[i] \in {"publishing", "claiming"} /\ IsFirst(l, left[i])
  /\ pc' = [pc EXCEPT ![i] = "rollback"]
  /\ left' = [left EXCEPT ![i] = Keys(i) \ left[i]]
  /\ UNCHANGED <<what, claims, roots, locks, objects, staging, report, status, execution, commands, refused>>

\* Publication fails, before or after the record became visible: what was
\* published so far and this one are taken back.
PublishFails(i, l) ==
  /\ pc[i] \in {"publishing", "claiming"} /\ IsFirst(l, left[i])
  /\ pc' = [pc EXCEPT ![i] = "rollback"]
  /\ left' = [left EXCEPT ![i] = {l} \cup (Keys(i) \ left[i])]
  /\ UNCHANGED <<what, claims, roots, locks, objects, staging, report, status, execution, commands, refused>>

RemoveClaim(i, l, from, to) ==
  /\ Goto(i, from, to)
  /\ IsFirst(l, left[i])
  /\ claim' = [claim EXCEPT ![l] = Nobody]
  /\ claimDisk' = [claimDisk EXCEPT ![l] = @ \cup {Nobody}]
  /\ UNCHANGED <<what, roots, locks, objects, staging, report, memory, commands, refused>>

SyncRemoval(i, l, from, to) ==
  /\ Goto(i, from, to)
  /\ IsFirst(l, left[i])
  /\ claimDisk' = [claimDisk EXCEPT ![l] = {claim[l]}]
  /\ left' = [left EXCEPT ![i] = @ \ {l}]
  /\ UNCHANGED <<what, claim, roots, locks, objects, staging, report, status, execution, commands, refused>>

\* The error is returned; the root stays, as after any other error.
RolledBack(i) ==
  /\ Goto(i, "rollback", "done") /\ left[i] = {}
  /\ LeaveSession(i) /\ DropLocks(i)
  /\ UNCHANGED <<what, claims, roots, objects, staging, report, memory, commands, refused>>

\* Every claim is durable: the session lock is given up.
Depart(i) ==
  /\ Goto(i, "publishing", "execute") /\ left[i] = {}
  /\ LeaveSession(i)
  /\ UNCHANGED <<what, claims, roots, lock, objects, staging, report, memory, commands, refused>>

-----------------------------------------------------------------------------
(* The graph: one task after another, one command after another.           *)

StartTask(i) ==
  /\ pc[i] = "execute" /\ node[i] <= Nodes
  /\ \/ /\ Ready(i)
        /\ pc' = [pc EXCEPT ![i] = "acting"]
        /\ actions' = [actions EXCEPT ![i] = graph[node[i]].actions]
        /\ result' = [result EXCEPT ![i][node[i]] = "Indeterminate"]
        /\ UNCHANGED node
     \/ /\ ~Ready(i)
        /\ result' = [result EXCEPT ![i][node[i]] = "Blocked"]
        /\ node' = [node EXCEPT ![i] = @ + 1]
        /\ UNCHANGED <<pc, actions>>
  /\ UNCHANGED <<what, claims, roots, locks, objects, staging, report, left, status,
                 launched, commands, refused>>

EndTask(i, from, s) ==
  /\ Goto(i, from, "execute")
  /\ result' = [result EXCEPT ![i][node[i]] = s]
  /\ node' = [node EXCEPT ![i] = @ + 1]
  /\ UNCHANGED <<what, claims, roots, locks, objects, staging, report, left, status,
                 actions, launched, refused>>

TaskDone(i) == actions[i] = 0 /\ EndTask(i, "acting", "Succeeded") /\ UNCHANGED commands
Deadline(i) == actions[i] > 0 /\ EndTask(i, "acting", "Failed") /\ UNCHANGED commands

EnsureAgain(i) ==   \* mutant: the actions that were done are not counted
  /\ pc[i] = "acting"
  /\ actions' = [actions EXCEPT ![i] = @ - 1]
  /\ UNCHANGED <<what, claims, roots, locks, objects, staging, report, pc, left, status,
                 node, result, launched, commands, refused>>

\* An action without a process: an artifact that realization ensured.
Ensure(i) ==
  /\ pc[i] = "acting" /\ actions[i] > 0
  /\ actions' = [actions EXCEPT ![i] = @ - 1]
  /\ UNCHANGED <<what, claims, roots, locks, objects, staging, report, pc, left, status,
                 node, result, launched, commands, refused>>

Launch(i) ==
  /\ Goto(i, "acting", "waiting") /\ actions[i] > 0
  /\ launched' = [launched EXCEPT ![i] = TRUE]
  /\ alive' = alive \cup {i} /\ unconfirmed' = unconfirmed \cup {i}
  /\ UNCHANGED <<what, claims, roots, locks, objects, staging, report, left, status,
                 node, actions, result, refused>>

\* A receipt: supervision saw the whole process group end.
Succeed(i) ==
  /\ Goto(i, "waiting", "acting")
  /\ actions' = [actions EXCEPT ![i] = @ - 1]
  /\ alive' = alive \ {i} /\ unconfirmed' = unconfirmed \ {i}
  /\ UNCHANGED <<what, claims, roots, locks, objects, staging, report, left, status,
                 node, result, launched, refused>>

CommandEnds(i, s) ==
  /\ EndTask(i, "waiting", s)
  /\ alive' = alive \ {i} /\ unconfirmed' = unconfirmed \ {i}

\* A receipt of disposition CleanupFailure: something may still be running.
CleanupFails(i) == EndTask(i, "waiting", "Indeterminate") /\ UNCHANGED commands

ExecutionEnds(i, s) ==
  /\ pc' = [pc EXCEPT ![i] = "ended"]
  /\ status' = [status EXCEPT ![i] = s]
  /\ UNCHANGED <<what, claims, roots, locks, objects, staging, report, left, execution,
                 commands, refused>>

AllTasksDone(i) == pc[i] = "execute" /\ node[i] > Nodes /\ ExecutionEnds(i, Overall(result[i]))

\* An error on the way: of the launch, of the supervision or of a receipt.
ExecuteFails(i) ==
  /\ pc[i] \in {"execute", "acting", "waiting"}
  /\ ExecutionEnds(i, IF launched[i] THEN "Indeterminate" ELSE "Blocked")

-----------------------------------------------------------------------------
(* The end.                                                                *)

\* What is not known to have ended keeps its root and its claims.
Retain(i) ==
  /\ Goto(i, "ended", "done") /\ status[i] = "Indeterminate"
  /\ DropLocks(i)
  /\ report' = [report EXCEPT ![i] = [status |-> "Indeterminate", retained |-> TRUE]]
  /\ UNCHANGED <<what, claims, roots, session, objects, staging, memory, commands, refused>>

Reenter(i) ==
  /\ Goto(i, "ended", "unroot") /\ status[i] # "Indeterminate"
  /\ TakeSession(i)
  /\ UNCHANGED <<what, claims, roots, lock, objects, staging, report, memory, commands, refused>>

RemoveRoot(i, from, to) ==
  /\ Goto(i, from, to)
  /\ root' = [root EXCEPT ![i] = "absent"]
  /\ rootDisk' = [rootDisk EXCEPT ![i] = @ \cup {"absent"}]
  /\ UNCHANGED <<what, claims, locks, objects, staging, report, memory, commands, refused>>

\* release
SyncUnrooted(i) ==
  /\ Goto(i, "unrooting", "releasing")
  /\ rootDisk' = [rootDisk EXCEPT ![i] = {root[i]}]
  /\ left' = [left EXCEPT ![i] = Keys(i)]
  /\ UNCHANGED <<what, claims, root, locks, objects, staging, report, status, execution, commands, refused>>

ReleaseLocksOnly(i) ==   \* mutant: the records are left to a later invocation
  /\ Goto(i, "releasing", "settle")
  /\ DropLocks(i)
  /\ UNCHANGED <<what, claims, roots, session, objects, staging, report, memory, commands, refused>>

Released(i) ==
  /\ Goto(i, "releasing", "settle") /\ left[i] = {}
  /\ DropLocks(i)
  /\ UNCHANGED <<what, claims, roots, session, objects, staging, report, memory, commands, refused>>

\* release_unlaunched, of an invocation that has no claims
SyncWithdrawn(i) ==
  /\ Goto(i, "withdrawing", "settle")
  /\ rootDisk' = [rootDisk EXCEPT ![i] = {root[i]}]
  /\ UNCHANGED <<what, claims, root, locks, objects, staging, report, memory, commands, refused>>

Settle(i) ==
  /\ Goto(i, "settle", "done")
  /\ staging' = staging \ {i}
  /\ report' = [report EXCEPT ![i] = [status |-> status[i], retained |-> FALSE]]
  /\ LeaveSession(i)
  /\ UNCHANGED <<what, claims, roots, lock, objects, memory, commands, refused>>

-----------------------------------------------------------------------------
(* The collector, as far as consumer roots go.                             *)

\* Mutant: a vanished supervisor is proof that its commands ended.
SupervisedRoots(h) ==
  UNION {job[i].needs : i \in {j \in Inv : root[j] = "present" /\ pc[j] # "done" /\ job[j].home = h}}

ReadRoots(h) == UNION {job[i].needs : i \in {j \in Inv : root[j] = "present" /\ job[j].home = h}}

Collect(h) ==
  /\ session[h] = Nobody
  /\ session' = [session EXCEPT ![h] = Collector]
  /\ doomed' = [doomed EXCEPT ![h] = store[h] \ ReadRoots(h)]
  /\ UNCHANGED <<what, claims, roots, lock, store, staging, report, pc, memory, commands, refused>>

Delete(h, p) ==
  /\ p \in doomed[h]
  /\ store' = [store EXCEPT ![h] = @ \ {p}]
  /\ doomed' = [doomed EXCEPT ![h] = @ \ {p}]
  /\ UNCHANGED <<what, claims, roots, locks, staging, report, pc, memory, commands, refused>>

Collected(h) ==
  /\ session[h] = Collector /\ doomed[h] = {}
  /\ session' = [session EXCEPT ![h] = Nobody]
  /\ UNCHANGED <<what, claims, roots, lock, objects, staging, report, pc, memory, commands, refused>>

-----------------------------------------------------------------------------
(* Faults.                                                                 *)

\* An error that is returned, or a kill: only handles are given back, and a
\* command goes on without its supervisor.
Stop(i) ==
  /\ pc[i] \notin {"idle", "done"} /\ pc' = [pc EXCEPT ![i] = "done"]
  /\ LeaveSession(i) /\ DropLocks(i)
  /\ UNCHANGED <<what, claims, roots, objects, staging, report, memory, commands, refused>>

StopCollector(h) ==
  /\ session[h] = Collector
  /\ session' = [session EXCEPT ![h] = Nobody]
  /\ doomed' = [doomed EXCEPT ![h] = {}]
  /\ UNCHANGED <<what, claims, roots, lock, store, staging, report, pc, memory, commands, refused>>

\* A command that nobody supervises ends some time, or never.
Exit(i) ==
  /\ i \in alive /\ alive' = alive \ {i}
  /\ UNCHANGED <<what, claims, roots, locks, objects, staging, report, pc, memory, unconfirmed, refused>>

\* What a power loss may leave of names that are shown as `shown'.
Survivors(shown, disk) ==
  LET open == {x \in DOMAIN shown : disk[x] # {shown[x]}}
      lost == {f \in [open -> UNION {disk[x] : x \in open}] : \A x \in open : f[x] \in disk[x]}
  IN  {[x \in DOMAIN shown |-> IF x \in open THEN f[x] ELSE shown[x]] : f \in lost}

PowerLoss ==
  /\ claim' \in Survivors(claim, claimDisk) /\ claimDisk' = [l \in Loc |-> {claim'[l]}]
  /\ root' \in Survivors(root, rootDisk) /\ rootDisk' = [i \in Inv |-> {root'[i]}]
  /\ pc' = [i \in Inv |-> IF pc[i] = "idle" THEN "idle" ELSE "done"]
  /\ session' = [h \in Home |-> Nobody] /\ lock' = [l \in Loc |-> Nobody]
  /\ doomed' = [h \in Home |-> {}] /\ alive' = {}
  /\ UNCHANGED <<what, store, staging, report, memory, unconfirmed, refused>>

-----------------------------------------------------------------------------
Admission(i) ==
  \/ Enter(i) \/ Realize(i) \/ Block(i) \/ WriteRoot(i) \/ SyncRoot(i)
  \/ Stage(i) \/ Prepare(i)

Exclusion(i) ==
  \/ \E l \in Loc :
       \/ TakeLock(i, l) \/ CheckClaim(i, l) \/ WriteClaim(i, l) \/ SyncClaim(i, l)
       \/ \E s \in {"Blocked", "SkippedBusy"} : FindHeld(i, l, s)
       \/ RemoveClaim(i, l, "rollback", "unpublishing")
       \/ SyncRemoval(i, l, "unpublishing", "rollback")
  \/ GiveUp(i) \/ AllLocked(i) \/ RolledBack(i) \/ Depart(i)

Execution(i) ==
  \/ StartTask(i) \/ TaskDone(i) \/ Deadline(i) \/ Ensure(i) \/ Launch(i)
  \/ Succeed(i) \/ \E s \in Confirmed \ {"Succeeded"} : CommandEnds(i, s)
  \/ CleanupFails(i) \/ AllTasksDone(i)

Completion(i) ==
  \/ Retain(i) \/ Reenter(i)
  \/ RemoveRoot(i, "unroot", "unrooting") \/ RemoveRoot(i, "withdraw", "withdrawing")
  \/ SyncUnrooted(i) \/ SyncWithdrawn(i)
  \/ \E l \in Loc : \/ RemoveClaim(i, l, "releasing", "unclaiming")
                    \/ SyncRemoval(i, l, "unclaiming", "releasing")
  \/ Released(i) \/ Settle(i)

Collection(h) == Collect(h) \/ Collected(h) \/ \E p \in Path : Delete(h, p)

Step(i) == Admission(i) \/ Exclusion(i) \/ Execution(i) \/ Completion(i)

Faults ==
  \/ \E i \in Inv : Stop(i) \/ ExecuteFails(i) \/ \E l \in Loc : PublishFails(i, l)
  \/ \E h \in Home : StopCollector(h)
  \/ PowerLoss

Next ==
  \/ \E i \in Inv : Begin(i) \/ Step(i) \/ Exit(i)
  \/ \E h \in Home : Collection(h)
  \/ Faults

Spec == Init /\ [][Next]_vars

-----------------------------------------------------------------------------
(* Properties.                                                             *)

\* Commands of two invocations that share a key never run at the same time,
\* not even when a supervisor died and left its command behind, and not in
\* two homes that know nothing of each other (task_locks.rs: "a crash/unknown
\* cleanup must continue excluding conflicts").
CommandsExclude ==
  \A i, j \in alive : i # j => Keys(i) \cap Keys(j) = {}

\* While the end of a command is not confirmed, its invocation's root and all
\* its claims stand on every disk that a power loss can leave.
UnconfirmedIsProtected ==
  \A i \in unconfirmed :
    rootDisk[i] = {"present"} /\ \A l \in Keys(i) : claimDisk[l] = {i}

\* The collector never takes what a command uses, or may still use: the root
\* stands from before the session lock is given up until the end is confirmed.
CommandsKeepTheirObjects ==
  \A i \in unconfirmed : job[i].needs \subseteq store[job[i].home] /\ i \in staging

\* A receipt that says the root is gone says so of every disk, and of the
\* claims: no key stays claimed for an invocation that reports its end.
ReportedEndIsClean ==
  \A i \in Inv :
    report[i].status # "Indeterminate" =>
      /\ ~report[i].retained /\ rootDisk[i] = {"absent"}
      /\ \A l \in Loc : i \notin claimDisk[l]

\* A failed publication leaves no claim behind, on any disk, when its rollback
\* succeeded: nothing was launched, so nothing need stay excluded.
RollbackIsComplete ==
  [][\A i \in Inv : pc[i] = "rollback" /\ left[i] = {} =>
       \A l \in Loc : i \notin claimDisk[l]]_vars

\* Of two invocations that want keys of each other one is admitted: keys are
\* tried in one order, so no two turn each other away.
RefusalsAreOneSided ==
  \A i, j \in Inv : <<i, j>> \in refused => <<j, i>> \notin refused

\* A receipt of success is one that read_task_report admits: the overall
\* status looks at the last task, and the graph makes it speak for all.
SuccessCoversTheGraph ==
  \A i \in Inv : report[i].status = "Succeeded" =>
    ~report[i].retained /\ \A n \in Node : result[i][n] = "Succeeded"

-----------------------------------------------------------------------------
(* Progress: processes that are not stopped go on, and the session lock is *)
(* granted to everyone who waits for it often enough.                      *)

FairSpec ==
  /\ Spec
  /\ \A i \in Inv : WF_vars(Step(i)) /\ SF_vars(Enter(i)) /\ SF_vars(Reenter(i))
  /\ \A h \in Home : WF_vars(session[h] = Collector /\ Collection(h))

\* When faults cease, every invocation that began comes to its end: waiting
\* for the session lock with keys held meets no wait for keys with the session
\* lock held.
EveryInvocationEnds ==
  <>[][~Faults]_vars => \A i \in Inv : pc[i] # "idle" ~> pc[i] = "done"
=============================================================================
