-------------------------- MODULE TaskRunsInvariant --------------------------
(***************************************************************************)
(* The inductive invariant of TaskRuns: what an invocation may rely on at  *)
(* each point of its way, whatever the others and the collector do.        *)
(***************************************************************************)
EXTENDS TaskRuns

\* Stretches of the way: up to realization; before the first key; trying keys;
\* turned away; all claims durable; all keys locked; the root durable; no
\* claim yet, or none any more.
Early     == {"idle", "entering", "realizing", "realized"}
Before    == Early \cup {"rooting", "rooted", "prepare"}
Seeking   == {"locking", "checking"}
Turned    == {"dropping", "withdraw", "withdrawing", "settle", "done"}
Running   == {"execute", "acting", "waiting", "ended", "unroot", "unrooting"}
Holding   == {"publishing", "claiming", "rollback", "unpublishing", "releasing",
              "unclaiming"} \cup Running
Staged    == {"prepare", "locking", "checking", "dropping", "publishing", "claiming",
              "rollback", "unpublishing", "execute", "acting", "waiting", "ended",
              "unroot", "withdraw"}
Unclaimed == Before \cup Seeking \cup {"dropping", "withdraw", "withdrawing", "settle"}

NoClaimOf(i, S) == \A l \in S : i \notin claimDisk[l]

\* A flock is held for a key of one's own, and keys are locked from below.
LocksOf(i) ==
  /\ left[i] \subseteq Keys(i)
  /\ \A l \in Loc : lock[l] = i =>
       l \in Keys(i) /\ pc[i] \in Seeking \cup Holding \cup {"dropping"}
  /\ pc[i] \in Holding => \A l \in Keys(i) : lock[l] = i /\ claim[l] \in {Nobody, i}
  /\ pc[i] \in Seeking =>
       /\ \A l \in Keys(i) \ left[i] :
            lock[l] = i /\ claim[l] = Nobody /\ \A m \in left[i] : l[2] < m[2]
       /\ \A l \in left[i] : lock[l] = i <=> pc[i] = "checking" /\ IsFirst(l, left[i])

\* Which claims of an invocation there are, on any disk.
ClaimsOf(i) ==
  /\ NoClaimOf(i, Loc \ Keys(i))
  /\ pc[i] \in Unclaimed => NoClaimOf(i, Loc)
  /\ pc[i] \in Running => \A l \in Keys(i) : claimDisk[l] = {i}
  /\ pc[i] \in {"publishing", "claiming"} => \A l \in Keys(i) \ left[i] : claimDisk[l] = {i}
  /\ pc[i] = "publishing" => NoClaimOf(i, left[i])
  /\ pc[i] = "claiming" => \A l \in left[i] :
       IF IsFirst(l, left[i]) THEN claim[l] = i ELSE i \notin claimDisk[l]
  /\ pc[i] \in {"rollback", "unpublishing", "releasing", "unclaiming"} =>
       NoClaimOf(i, Keys(i) \ left[i])
  /\ pc[i] \in {"unpublishing", "unclaiming"} =>
       \A l \in left[i] : IsFirst(l, left[i]) => claim[l] = Nobody

RootOf(i) ==
  /\ pc[i] \in Early => rootDisk[i] = {"absent"}
  /\ pc[i] = "rooting" => root[i] = "present"
  /\ pc[i] \in Staged \cup {"rooted"} => rootDisk[i] = {"present"}
  /\ pc[i] \in Staged => i \in staging
  /\ pc[i] \in {"unrooting", "withdrawing"} => root[i] = "absent"
  /\ pc[i] \in {"releasing", "unclaiming", "settle"} => rootDisk[i] = {"absent"}

\* Between realization and the root the session lock keeps the collector away,
\* from then on the root does.
ObjectsOf(i) ==
  /\ pc[i] \in {"realizing", "realized", "rooting"} => session[job[i].home] = i
  /\ pc[i] \in Staged \cup {"realized", "rooting", "rooted"} \/ i \in unconfirmed =>
       job[i].needs \subseteq store[job[i].home] \ doomed[job[i].home]

\* Where an invocation can be while the end of its command is not confirmed.
CommandOf(i) ==
  /\ i \in alive => i \in unconfirmed
  /\ i \in unconfirmed =>
       /\ launched[i] /\ i \in staging /\ rootDisk[i] = {"present"}
       /\ \A l \in Keys(i) : claimDisk[l] = {i}
       /\ \/ pc[i] \in {"waiting", "done"}
          \/ pc[i] = "execute" /\ \E n \in 1..(node[i] - 1) : result[i][n] = "Indeterminate"
          \/ pc[i] = "ended" /\ status[i] = "Indeterminate"

GraphOf(i) ==
  /\ pc[i] \in {"acting", "waiting"} => node[i] <= Nodes
  /\ pc[i] = "waiting" => actions[i] > 0

ReportOf(i) ==
  report[i].status # "Indeterminate" =>
    /\ pc[i] = "done" /\ ~report[i].retained
    /\ rootDisk[i] = {"absent"} /\ NoClaimOf(i, Loc)

OwnInv(i) ==
  /\ LocksOf(i) /\ ClaimsOf(i) /\ RootOf(i) /\ ObjectsOf(i)
  /\ CommandOf(i) /\ GraphOf(i) /\ ReportOf(i)

\* What is shown is one of the possibilities.
DiskInv ==
  /\ \A l \in Loc : claim[l] \in claimDisk[l]
  /\ \A i \in Inv : root[i] \in rootDisk[i]

CollectorInv == \A h \in Home : session[h] = Collector \/ doomed[h] = {}

\* Whoever turned another away either has all its keys or has one above all
\* that the other still holds.
Above(l, i) == \A m \in Loc : lock[m] = i => m[2] < l[2]
RefusalInv == \A i, j \in Inv : <<i, j>> \in refused =>
  /\ <<j, i>> \notin refused
  /\ pc[i] \in Turned /\ pc[j] \notin Before
  /\ pc[j] \in Seeking =>
       \E l \in Loc : lock[l] = j /\ Above(l, i)

IInv ==
  /\ TypeOK /\ DiskInv /\ CollectorInv /\ RefusalInv
  /\ \A i \in Inv : OwnInv(i)

\* A task succeeded after everything it needs; the one at hand has all it needs; and
\* success of an invocation is success of every task.  Kept apart: nothing else needs it.
Ended == {"ended", "unroot", "unrooting", "releasing", "unclaiming", "settle", "done"}
NeedsMet(i, n) == \A d \in graph[n].deps : result[i][d] = "Succeeded"
AllSucceeded(i) == \A n \in Node : result[i][n] = "Succeeded"
SuccessOf(i) ==
  /\ \A n \in Node : result[i][n] = "Succeeded" => n < node[i] /\ NeedsMet(i, n)
  /\ pc[i] \in {"acting", "waiting"} => NeedsMet(i, node[i])
  /\ status[i] = "Succeeded" => pc[i] \in Ended /\ AllSucceeded(i)
  /\ report[i].status = "Succeeded" => AllSucceeded(i)
SuccessInv == graph \in Graph /\ \A i \in Inv : SuccessOf(i)
=============================================================================
