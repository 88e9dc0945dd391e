--------------------------- MODULE DirectoryProofs ---------------------------
(***************************************************************************)
(* What DirectoryJournal keeps for any directories, however commands,      *)
(* recoveries and collections are cut: what a retained generation shows    *)
(* still exists, and recovery has the record it looks leaves up in.        *)
(***************************************************************************)
EXTENDS DirectoryJournal, TLAPS

Run == [op : DOMAIN Stages, to : Shape]
Records == [kind : {"Bound", "Forward", "Reverse", "Evolve", "Exchange", "Reactivate"},
            node : Receipt]
Place == Leaf \cup {"root"}
Intent == [prior : BOOLEAN, after : BOOLEAN]

\* The sentinels stand for nothing else, and the bounds are numbers.
Distinct ==
  /\ Foreign \notin Root \cup {None, Link, Plain}
  /\ None \notin Node /\ Link \notin Node \cup Receipt /\ Plain \notin Receipt
  /\ NoRun \notin Run /\ NoRecord \notin Records /\ NoEntry \notin Intent
  /\ MaxRuns \in Nat /\ MaxFaults \in Nat

-----------------------------------------------------------------------------
\* The inductive invariant.

CommandStages == {"bind", "prepare", "publish", "plant", "prune", "reverse", "origin",
                  "finish", "seal", "flip"}
\* The goal's directories are still to be made, or are made.
Fore    == {"bind", "prepare"}
Staging == {"publish", "plant", "prune", "finish", "seal"}
Undoing == {"r_root", "r_before", "r_leaves", "r_after"}
Ending  == {"commit", "erase", "unmark"}

StagesOf(op) == {Stages[op][i] : i \in DOMAIN Stages[op]}
Doing(ops) == run.op \in ops

\* No receipt of a retained generation names it.
Fresh(n) == \A r \in history : n \notin NodesOf(r)
\* The journal holds nothing but the marker.
Bare == record = NoRecord /\ \A p \in Place : entry[p] = NoEntry

StageInv ==
  /\ pc \in CommandStages \cup Undoing \cup Ending \cup {"idle", "down", "refused"}
  /\ pc \in CommandStages => run # NoRun /\ pc \in StagesOf(run.op)
  /\ pc \in Undoing \cup Ending => run # NoRun
  /\ pc = "idle" => run = NoRun

\* What a run brings to its flip.
GoalInv == run # NoRun =>
  /\ Doing({"migrate", "evolve", "reshape", "exchange", "reactivate"}) => run.to \in Receipt
  /\ Doing({"evolve", "reshape", "exchange", "reverse", "retire"}) => shape \in Receipt
  /\ Doing({"migrate", "reactivate"}) => shape \notin Receipt
  /\ Doing({"reshape", "exchange", "reactivate", "reverse"}) => published
  /\ published => run.to \in history \cup {Link, Plain}
  /\ Doing({"retire"}) => run.to = Plain
  /\ ~published /\ Doing({"migrate"}) => \A n \in NodesOf(run.to) : Fresh(n)
  /\ ~published /\ Doing({"evolve"}) => run.to.sub \in {None, shape.sub} \/ Fresh(run.to.sub)
  /\ Doing({"migrate", "evolve"}) /\ pc \in Fore => NodesOf(run.to) \cap born \subseteq exist
  /\ Doing({"migrate", "evolve"}) /\ pc \in Staging => NodesOf(run.to) \subseteq exist

MarkerInv ==
  /\ run = NoRun => Bare /\ ~published /\ ~flipped
  /\ (diskFlipped => flipped) /\ (flipped => published)
  /\ pc = "flip" => published
  /\ published /\ pc \in CommandStages \ {"flip"} =>
       Doing({"reshape", "exchange", "reactivate", "reverse"})
  /\ pc \in Undoing \cup Ending => diskFlipped = flipped
  /\ pc \in Undoing => ~flipped
  /\ pc = "commit" => flipped

\* What a record says, and what recovery may remove over it.
RecordInv == record # NoRecord =>
  /\ record.kind = "Bound" => Doing({"evolve", "reshape", "exchange", "reverse", "retire"})
  /\ record.kind = "Forward" => Doing({"migrate"})
  /\ record.kind = "Reactivate" => Doing({"reactivate"})
  /\ record.kind = "Exchange" => Doing({"exchange"})
  /\ record.kind = "Evolve" => Doing({"evolve", "reshape"})
  /\ record.kind = "Reverse" => Doing({"exchange", "reverse", "retire"})
  /\ ~published /\ record.kind = "Forward" => \A n \in NodesOf(record.node) : Fresh(n)
  /\ ~published /\ record.kind = "Evolve" =>
       record.node.sub \in {None, shape.sub} \/ Fresh(record.node.sub)

PastInv ==
  /\ shape \in Receipt => shape \in history
  /\ \A r \in history : NodesOf(r) \subseteq exist

\* Where the record is unlinked before a commit, so are the entries, first.
ErasedInv ==
  /\ pc \in CommandStages \cup {"idle"} => erased = <<>>
  /\ run = NoRun => erased = <<>>
  /\ erased # <<>> => flipped = diskFlipped
  /\ pc = "unmark" \/ ~Present("marker") => Bare
  /\ ~diskFlipped => \A i \in DOMAIN erased : erased[i] = "record" =>
       \A p \in Place : entry[p] # NoEntry => \E j \in 1..(i - 1) : erased[j] = p

\* A leaf is journaled under a record of the directories it is in.
LeafInv ==
  /\ entry = [p \in Place |-> entry[p]]
  /\ OrderedUnlinks /\ ~diskFlipped =>
       \A p \in Leaf : entry[p] # NoEntry => record # NoRecord
  /\ pc \in {"plant", "prune"} => record # NoRecord

IInv ==
  /\ TypeOK /\ StageInv /\ GoalInv /\ MarkerInv /\ RecordInv /\ PastInv
  /\ ErasedInv /\ LeafInv

-----------------------------------------------------------------------------
\* Stages.

\* Receipts are of nodes, and the goals are shapes.
LEMMA ReceiptTypes ==
  ASSUME Distinct, NEW r \in Receipt
  PROVE  /\ r.root \in Root /\ r.sub \in Sub \cup {None} /\ r.deep \in BOOLEAN
         /\ NodesOf(r) \subseteq Node /\ NodesOf(r) = {r.root, r.sub} \ {None}
         /\ r \in Shape /\ r # Link /\ r # Plain
  BY DEF Distinct, Receipt, Shape, Node, NodesOf

LEMMA StagesAre ==
  /\ StagesOf("migrate") = {"prepare", "publish", "plant", "seal", "flip"}
  /\ StagesOf("evolve") = {"bind", "prepare", "publish", "plant", "prune", "finish", "seal", "flip"}
  /\ StagesOf("reshape") = {"bind", "prune", "publish", "plant", "flip"}
  /\ StagesOf("exchange") = {"bind", "prune", "reverse", "publish", "plant", "flip"}
  /\ StagesOf("reactivate") = {"publish", "plant", "flip"}
  /\ StagesOf("reverse") = {"bind", "prune", "reverse", "flip"}
  /\ StagesOf("retire") = {"bind", "prune", "reverse", "origin", "seal", "flip"}
  BY DEF StagesOf, Stages

\* The stage that comes next, by the one that is done.
LEMMA NextIs ==
  ASSUME NEW s, s = Stages[run.op], NEW k \in DOMAIN s, s[k] = pc,
         \A i \in DOMAIN s : s[i] = pc => i = k
  PROVE  NextStage = s[1 + k]
<1>1. (CHOOSE i \in DOMAIN s : s[i] = pc) = k
  OBVIOUS
<1> QED
  BY <1>1 DEF NextStage

\* What the proofs need of it: a run plants and prunes under a record, is published before
\* its flip, and has made its directories before it uses them.
LEMMA NextStages ==
  ASSUME run.op \in DOMAIN Stages, pc \in StagesOf(run.op), pc # "flip"
  PROVE  /\ NextStage \in StagesOf(run.op) \cap CommandStages
         /\ NextStage = "flip" => pc = "seal" \/ Doing({"reshape", "exchange", "reactivate", "reverse"})
         /\ NextStage \in {"plant", "prune"} => pc \in {"bind", "publish", "plant"}
         /\ Doing({"migrate", "evolve"}) /\ NextStage \in Staging => pc \in Staging \cup {"prepare"}
         /\ NextStage \in Fore => pc = "bind"
         /\ pc = "seal" => NextStage = "flip"
<1> DEFINE s == Stages[run.op]
<1>1. PICK k \in DOMAIN s : s[k] = pc
  BY DEF StagesOf
<1>2. CASE run.op = "migrate"
  <2>1. s = <<"prepare", "publish", "plant", "seal", "flip">>
    BY <1>2 DEF Stages
  <2>2. k \in 1..4 /\ \A i \in DOMAIN s : s[i] = pc => i = k
    BY <1>1, <2>1
  <2>3. NextStage = s[1 + k]
    BY <1>1, <2>2, NextIs
  <2> QED
    BY <1>1, <1>2, <2>1, <2>2, <2>3, StagesAre DEF Doing, CommandStages, Fore, Staging
<1>3. CASE run.op = "evolve"
  <2>1. s = <<"bind", "prepare", "publish", "plant", "prune", "finish", "seal", "flip">>
    BY <1>3 DEF Stages
  <2>2. k \in 1..7 /\ \A i \in DOMAIN s : s[i] = pc => i = k
    BY <1>1, <2>1
  <2>3. NextStage = s[1 + k]
    BY <1>1, <2>2, NextIs
  <2> QED
    BY <1>1, <1>3, <2>1, <2>2, <2>3, StagesAre DEF Doing, CommandStages, Fore, Staging
<1>4. CASE run.op = "reshape"
  <2>1. s = <<"bind", "prune", "publish", "plant", "flip">>
    BY <1>4 DEF Stages
  <2>2. k \in 1..4 /\ \A i \in DOMAIN s : s[i] = pc => i = k
    BY <1>1, <2>1
  <2>3. NextStage = s[1 + k]
    BY <1>1, <2>2, NextIs
  <2> QED
    BY <1>1, <1>4, <2>1, <2>2, <2>3, StagesAre DEF Doing, CommandStages, Fore, Staging
<1>5. CASE run.op = "exchange"
  <2>1. s = <<"bind", "prune", "reverse", "publish", "plant", "flip">>
    BY <1>5 DEF Stages
  <2>2. k \in 1..5 /\ \A i \in DOMAIN s : s[i] = pc => i = k
    BY <1>1, <2>1
  <2>3. NextStage = s[1 + k]
    BY <1>1, <2>2, NextIs
  <2> QED
    BY <1>1, <1>5, <2>1, <2>2, <2>3, StagesAre DEF Doing, CommandStages, Fore, Staging
<1>6. CASE run.op = "reactivate"
  <2>1. s = <<"publish", "plant", "flip">>
    BY <1>6 DEF Stages
  <2>2. k \in 1..2 /\ \A i \in DOMAIN s : s[i] = pc => i = k
    BY <1>1, <2>1
  <2>3. NextStage = s[1 + k]
    BY <1>1, <2>2, NextIs
  <2> QED
    BY <1>1, <1>6, <2>1, <2>2, <2>3, StagesAre DEF Doing, CommandStages, Fore, Staging
<1>7. CASE run.op = "reverse"
  <2>1. s = <<"bind", "prune", "reverse", "flip">>
    BY <1>7 DEF Stages
  <2>2. k \in 1..3 /\ \A i \in DOMAIN s : s[i] = pc => i = k
    BY <1>1, <2>1
  <2>3. NextStage = s[1 + k]
    BY <1>1, <2>2, NextIs
  <2> QED
    BY <1>1, <1>7, <2>1, <2>2, <2>3, StagesAre DEF Doing, CommandStages, Fore, Staging
<1>8. CASE run.op = "retire"
  <2>1. s = <<"bind", "prune", "reverse", "origin", "seal", "flip">>
    BY <1>8 DEF Stages
  <2>2. k \in 1..5 /\ \A i \in DOMAIN s : s[i] = pc => i = k
    BY <1>1, <2>1
  <2>3. NextStage = s[1 + k]
    BY <1>1, <2>2, NextIs
  <2> QED
    BY <1>1, <1>8, <2>1, <2>2, <2>3, StagesAre DEF Doing, CommandStages, Fore, Staging
<1> QED
  BY <1>2, <1>3, <1>4, <1>5, <1>6, <1>7, <1>8 DEF Stages

-----------------------------------------------------------------------------
\* What the steps are made of.

\* A step that leaves the past, the directories and the journal alone keeps the invariant
\* when its next stage is one the run may come to.
LEMMA Stepped ==
  ASSUME IInv, TypeOK', StageInv', UNCHANGED <<born, exist, past, journal>>,
         pc' = "flip" => published,
         pc' \in Undoing \cup Ending => diskFlipped = flipped,
         pc' \in Undoing => ~flipped,
         pc' = "commit" => flipped,
         pc' \in CommandStages \cup {"idle"} => erased = <<>>,
         pc' = "unmark" => Bare,
         pc' \in {"plant", "prune"} => record # NoRecord,
         published /\ pc' \in CommandStages \ {"flip"} =>
           Doing({"reshape", "exchange", "reactivate", "reverse"}),
         run # NoRun /\ Doing({"migrate", "evolve"}) /\ pc' \in Fore => NodesOf(run.to) \cap born \subseteq exist,
         run # NoRun /\ Doing({"migrate", "evolve"}) /\ pc' \in Staging => NodesOf(run.to) \subseteq exist
  PROVE  IInv'
<1>1. GoalInv'
  BY DEF IInv, GoalInv, Doing, Fresh, past, journal
<1>2. MarkerInv'
  BY DEF IInv, MarkerInv, Bare, Doing, journal
<1>3. RecordInv' /\ PastInv'
  BY DEF IInv, RecordInv, PastInv, Doing, Fresh, past, journal
<1>4. ErasedInv'
  BY DEF IInv, ErasedInv, Bare, Present, journal
<1>5. LeafInv'
  BY DEF IInv, LeafInv, journal
<1> QED
  BY <1>1, <1>2, <1>3, <1>4, <1>5 DEF IInv

\* The same, in the same stage.
LEMMA Stayed ==
  ASSUME IInv, TypeOK', UNCHANGED <<born, exist, past, journal, pc>>
  PROVE  IInv'
<1>1. StageInv'
  BY DEF IInv, StageInv, journal
<1>2. run # NoRun /\ Doing({"migrate", "evolve"}) =>
        /\ pc \in Fore => NodesOf(run.to) \cap born \subseteq exist
        /\ pc \in Staging => NodesOf(run.to) \subseteq exist
  BY DEF IInv, GoalInv
<1> QED
  BY <1>1, <1>2, Stepped DEF IInv, MarkerInv, ErasedInv, LeafInv

LEMMA TypeSynced ==
  ASSUME TypeOK, NEW what, Syncs(what), UNCHANGED <<nodes, past, journal, count>>,
         moved' \in {moved, None}
  PROVE  TypeOK'
  BY DEF TypeOK, Syncs, nodes, past, journal, count

LEMMA TypeKept ==
  ASSUME TypeOK, UNCHANGED <<tree, nodes, past, journal, moved, count>>
  PROVE  TypeOK'
  BY DEF TypeOK, tree, nodes, past, journal, count

LEMMA Refused ==
  ASSUME IInv, Refuse
  PROVE  IInv'
<1>1. pc' = "refused" /\ UNCHANGED <<tree, nodes, past, journal, moved, count>>
  BY DEF Refuse, Go
<1>2. TypeOK'
  BY <1>1, TypeKept DEF IInv
<1>3. StageInv'
  BY <1>1 DEF StageInv, CommandStages, Undoing, Ending
<1> QED
  BY <1>1, <1>2, <1>3, Stepped DEF nodes, CommandStages, Undoing, Ending, Fore, Staging

\* The command goes on to its next stage.
LEMMA WentOn ==
  ASSUME IInv, Go(NextStage), pc \in CommandStages \ {"flip"}, pc # "prepare",
         pc = "seal" => published,
         NextStage \in {"plant", "prune"} => record # NoRecord
  PROVE  IInv'
<1>1. pc' = NextStage /\ UNCHANGED <<tree, nodes, past, journal, moved, count>>
  BY DEF Go
<1>2. TypeOK'
  BY <1>1, TypeKept DEF IInv
<1>3. run # NoRun /\ run.op \in DOMAIN Stages /\ pc \in StagesOf(run.op) /\ erased = <<>>
  BY DEF IInv, TypeOK, StageInv, ErasedInv
<1>4. /\ NextStage \in StagesOf(run.op) \cap CommandStages
      /\ NextStage = "flip" => pc = "seal" \/ Doing({"reshape", "exchange", "reactivate", "reverse"})
      /\ Doing({"migrate", "evolve"}) /\ NextStage \in Staging => pc \in Staging
      /\ NextStage \in Fore => pc \in Fore
  BY <1>3, NextStages DEF Fore
<1>5. StageInv'
  BY <1>1, <1>3, <1>4 DEF StageInv, CommandStages, Undoing, Ending, journal
<1>6. pc' = "flip" => published
  BY <1>1, <1>3, <1>4 DEF IInv, GoalInv
<1>7. Doing({"migrate", "evolve"}) =>
        /\ pc' \in Fore => NodesOf(run.to) \cap born \subseteq exist
        /\ pc' \in Staging => NodesOf(run.to) \subseteq exist
  BY <1>1, <1>3, <1>4 DEF IInv, GoalInv
<1>8. pc' \in CommandStages /\ pc' \notin Undoing \cup Ending
  BY <1>1, <1>4 DEF CommandStages, Undoing, Ending
<1>9. published => Doing({"reshape", "exchange", "reactivate", "reverse"}) \/ pc' = "flip"
  BY DEF IInv, MarkerInv
<1> QED
  BY <1>1, <1>2, <1>3, <1>5, <1>6, <1>7, <1>8, <1>9, Stepped DEF nodes, Ending

LEMMA Moved ==
  ASSUME IInv, NEW n \in Node \cup {Link}, NEW to, NEW next \in BOOLEAN, Move(n, to, next),
         n \in Sub => to \in Root \cup {None},
         n \notin Sub => to \in {None, Link, Plain, Foreign} \cup Root
  PROVE  IInv'
<1>1. UNCHANGED <<nodes, past, journal, pc, count>> /\ moved' = n
  BY DEF Move
<1>2. /\ name' \in {None, Link, Plain, Foreign} \cup Root
      /\ inside' \in [Sub -> Root \cup {None}]
  BY DEF IInv, TypeOK, Move
<1>3. diskName' \in {name, diskName} /\ diskInside' \in {inside, diskInside}
  BY DEF Move
<1>4. TypeOK'
  BY <1>1, <1>2, <1>3 DEF IInv, TypeOK, nodes, past, journal, count
<1> QED
  BY <1>1, <1>4, Stayed DEF nodes

LEMMA NameSet ==
  ASSUME Distinct, IInv, NEW to \in {None, Link, Plain, Foreign} \cup Root, SetName(to)
  PROVE  IInv'
  BY Moved DEF SetName, Distinct, Node

LEMMA Installed ==
  ASSUME Distinct, IInv, NEW r \in Receipt, NEW n \in {r.root, r.sub}, NEW restoring,
         NEW next \in BOOLEAN, Install(r, n, restoring, next)
  PROVE  IInv'
<1>1. CASE Refuse
  BY <1>1, Refused
<1>2. CASE AtStage(n) /\ Move(n, r.root, next)
  <2>1. n \in Node /\ r.root \in Root
    BY <1>2 DEF AtStage, IInv, TypeOK, Receipt
  <2> QED
    BY <1>2, <2>1, Moved
<1> QED
  BY <1>1, <1>2 DEF Install

LEMMA Retired ==
  ASSUME Distinct, IInv, NEW r \in Receipt, NEW n \in NodesOf(r), Retire(r, n)
  PROVE  IInv'
<1>1. n \in Node
  BY ReceiptTypes
<1>2. CASE Move(n, None, n \in Root /\ r.sub # None)
  <2>1. (n \in Root /\ r.sub # None) \in BOOLEAN
    OBVIOUS
  <2> QED
    BY <1>1, <1>2, <2>1, Moved
<1> QED
  BY <1>2, Refused DEF Retire

\* Of a tree, the first directory to place, and the last to retire.
LEMMA NextNodes ==
  ASSUME Distinct, NEW r \in Receipt
  PROVE  ToInstall(r) \in {r.root, r.sub} /\ ToRetire(r) \in NodesOf(r)
  BY ReceiptTypes DEF ToInstall, ToRetire, Distinct, Node

\* A record is written by a command, for its own directories.
LEMMA Persisted ==
  ASSUME Distinct, IInv, pc \in CommandStages, NEW node \in Receipt,
         NEW kind \in {"Bound", "Forward", "Reverse", "Evolve", "Exchange", "Reactivate"},
         Persist(kind, node),
         kind = "Bound" => Doing({"evolve", "reshape", "exchange", "reverse", "retire"}),
         kind = "Forward" => Doing({"migrate"}) /\ node = run.to,
         kind = "Reactivate" => Doing({"reactivate"}),
         kind = "Exchange" => Doing({"exchange"}),
         kind = "Evolve" => \/ Doing({"evolve"}) /\ node = run.to
                            \/ Doing({"reshape"}),
         kind = "Reverse" => Doing({"exchange", "reverse", "retire"})
  PROVE  IInv'
<1>1. /\ record' = [kind |-> kind, node |-> node] /\ erased = <<>> /\ run # NoRun
      /\ UNCHANGED <<tree, nodes, past, run, published, flipped, diskFlipped, entry, erased,
                     pc, moved, count>>
  BY DEF Persist, IInv, ErasedInv, StageInv
<1>2. record' \in Records /\ record'.kind = kind /\ record'.node = node
  BY <1>1 DEF Records
<1>3. TypeOK'
  BY <1>1, <1>2 DEF IInv, TypeOK, Records, tree, nodes, past, count
<1>4. StageInv' /\ PastInv'
  BY <1>1 DEF IInv, StageInv, PastInv, nodes, past
<1>5. GoalInv'
  BY <1>1 DEF IInv, GoalInv, Doing, Fresh, nodes, past
<1>6. RecordInv'
  <2>1. Doing({"reshape"}) => published
    BY <1>1 DEF IInv, GoalInv, Doing
  <2>2. ~published /\ kind = "Forward" => \A n \in NodesOf(node) : Fresh(n)
    BY <1>1 DEF IInv, GoalInv
  <2>3. ~published /\ kind = "Evolve" => node.sub \in {None, shape.sub} \/ Fresh(node.sub)
    BY <1>1, <2>1 DEF IInv, GoalInv
  <2>4. \A n : Fresh(n)' = Fresh(n)
    BY <1>1 DEF Fresh, past
  <2> QED
    BY <1>1, <1>2, <2>2, <2>3, <2>4 DEF RecordInv, Doing, past
<1>7. MarkerInv' /\ ErasedInv'
  BY <1>1 DEF IInv, MarkerInv, ErasedInv, Bare, Doing, CommandStages, Undoing, Ending, Present
<1>8. LeafInv'
  BY <1>1, <1>2 DEF Distinct, IInv, LeafInv
<1> QED
  BY <1>3, <1>4, <1>5, <1>6, <1>7, <1>8 DEF IInv

\* A directory's leaf is written or removed.
LEMMA LeafWritten ==
  ASSUME IInv, planted' \subseteq Node,
         UNCHANGED <<tree, born, exist, visitors, past, journal, pc, moved, count>>
  PROVE  IInv'
<1>1. TypeOK'
  BY DEF IInv, TypeOK, tree, past, journal, count
<1> QED
  BY <1>1, Stayed

\* A command's intent for a leaf is journaled under its record.
LEMMA Journaled ==
  ASSUME IInv, pc \in CommandStages, NEW p \in Place, NEW i \in Intent,
         p \in Leaf => record # NoRecord, entry' = [entry EXCEPT ![p] = i],
         UNCHANGED <<tree, nodes, past, run, published, flipped, diskFlipped, record,
                     erased, pc, moved, count>>
  PROVE  IInv'
<1>1. /\ \A q \in Place : entry'[q] = IF q = p THEN i ELSE entry[q]
      /\ entry' = [q \in Place |-> entry'[q]]
  BY DEF IInv, LeafInv
<1>2. TypeOK'
  <2>1. \A q \in Place : entry'[q] = NoEntry \/ entry'[q] \in Intent
    BY <1>1 DEF IInv, TypeOK, Place, Intent
  <2> QED
    BY <2>1 DEF IInv, TypeOK, Place, Intent, tree, nodes, past, count
<1>3. run # NoRun /\ erased = <<>>
  BY DEF IInv, StageInv, ErasedInv
<1>4. StageInv' /\ GoalInv'
  BY DEF IInv, StageInv, GoalInv, Doing, Fresh, nodes, past
<1>5. MarkerInv' /\ ErasedInv'
  BY <1>3 DEF IInv, MarkerInv, ErasedInv, Doing, CommandStages, Undoing, Ending, Present
<1>6. RecordInv' /\ PastInv'
  BY DEF IInv, RecordInv, PastInv, Doing, Fresh, nodes, past
<1>7. LeafInv'
  BY <1>1 DEF IInv, LeafInv
<1> QED
  BY <1>2, <1>4, <1>5, <1>6, <1>7 DEF IInv

LEMMA LeafSet ==
  ASSUME Distinct, IInv, pc \in {"plant", "prune"}, NEW r \in Receipt, NEW p \in Leaf,
         NEW wanted \in BOOLEAN, SetLeaf(r, p, wanted)
  PROVE  IInv'
<1>1. CASE ~Reachable(r, p)
  BY <1>1, Refused DEF SetLeaf
<1>2. ASSUME entry' = [entry EXCEPT ![p] =
               [prior |-> IF @ = NoEntry THEN ~wanted ELSE @.prior, after |-> wanted]],
             UNCHANGED <<tree, nodes, past, run, published, flipped, diskFlipped, record,
                         erased, pc, moved, count>>
      PROVE  IInv'
  <2> DEFINE i == [prior |-> IF entry[p] = NoEntry THEN ~wanted ELSE entry[p].prior,
                   after |-> wanted]
  <2>1. entry[p] = NoEntry \/ entry[p].prior \in BOOLEAN
    BY DEF IInv, TypeOK
  <2>2. i \in Intent /\ p \in Place
    BY <2>1 DEF Intent, Place
  <2>3. entry' = [entry EXCEPT ![p] = i]
    BY <1>2
  <2>4. pc \in CommandStages /\ record # NoRecord
    BY DEF IInv, LeafInv, CommandStages
  <2> QED
    BY <1>2, <2>2, <2>3, <2>4, Journaled
<1>3. ASSUME Reachable(r, p),
             planted' = IF wanted THEN planted \cup {Holder(r, p)}
                                  ELSE planted \ {Holder(r, p)},
             UNCHANGED <<tree, born, exist, visitors, past, journal, pc, moved, count>>
      PROVE  IInv'
  <2>1. Holder(r, p) \in Node
    BY <1>3, ReceiptTypes DEF Reachable, Holder, Node
  <2>2. planted' \subseteq Node
    BY <1>3, <2>1 DEF IInv, TypeOK
  <2> QED
    BY <1>3, <2>2, LeafWritten
<1> QED
  BY <1>1, <1>2, <1>3 DEF SetLeaf

LEMMA Cleared ==
  ASSUME IInv, NEW r, NEW n, ClearLeaf(r, n)
  PROVE  IInv'
<1>1. planted' \subseteq Node
  BY DEF IInv, TypeOK, ClearLeaf
<1> QED
  BY <1>1, LeafWritten DEF ClearLeaf

\* A directory that no retained receipt names goes.
LEMMA Shrunk ==
  ASSUME IInv, TypeOK', NEW n, Fresh(n), exist' = exist \ {n}, pc \notin Fore \cup Staging,
         UNCHANGED <<born, shape, history, journal, pc>>
  PROVE  IInv'
<1>1. StageInv' /\ MarkerInv'
  BY DEF IInv, StageInv, MarkerInv, Bare, Doing, journal
<1>2. GoalInv'
  BY DEF IInv, GoalInv, Doing, Fresh, journal
<1>3. RecordInv'
  BY DEF IInv, RecordInv, Doing, Fresh, journal
<1>4. PastInv'
  BY DEF IInv, PastInv, Fresh
<1>5. ErasedInv' /\ LeafInv'
  BY DEF IInv, ErasedInv, LeafInv, Bare, Present, journal
<1> QED
  BY <1>1, <1>2, <1>3, <1>4, <1>5 DEF IInv

LEMMA Discarded ==
  ASSUME IInv, NEW n, Fresh(n), pc \notin Fore \cup Staging, Discard(n)
  PROVE  IInv'
<1>1. CASE Refuse
  BY <1>1, Refused
<1>2. CASE ~Refuse
  <2>1. /\ exist' = exist \ {n} /\ diskName' = name /\ diskInside' = inside
        /\ UNCHANGED <<name, inside, born, planted, visitors, past, journal, pc, moved, count>>
    BY <1>2 DEF Discard
  <2>2. TypeOK'
    BY <2>1 DEF IInv, TypeOK, past, journal, count
  <2>3. UNCHANGED <<born, shape, history, journal, pc>>
    BY <2>1 DEF past
  <2> QED
    BY <2>1, <2>2, <2>3, Shrunk
<1> QED
  BY <1>1, <1>2

-----------------------------------------------------------------------------
\* Commands.

\* What a command brings: a tree it makes is of new directories, a tree it shows again is
\* a retained one.
LEMMA CommandIs ==
  ASSUME Distinct, TypeOK, PastInv, NEW c \in Commands
  PROVE  /\ c \in Run
         /\ c.op = "migrate" => shape \notin Receipt /\ c.to \in Receipt /\ NodesOf(c.to) \cap born = {}
         /\ c.op = "evolve" => /\ shape \in Receipt /\ c.to \in Receipt /\ c.to.root = shape.root
                               /\ c.to.sub = shape.sub \/ c.to.sub \notin born
         /\ c.op \in {"reshape", "exchange"} => shape \in Receipt /\ c.to \in history
         /\ c.op = "reactivate" => shape \notin Receipt /\ c.to \in history
         /\ c.op = "reverse" => shape \in Receipt /\ c.to = Link
         /\ c.op = "retire" => shape \in Receipt /\ c.to = Plain
<1>1. history \subseteq Receipt /\ DOMAIN Stages = {"migrate", "evolve", "reshape", "exchange",
                                                   "reactivate", "reverse", "retire"}
  BY DEF TypeOK, Stages
<1>2. Receipt \subseteq Shape /\ {Link, Plain} \subseteq Shape
  BY DEF Shape
<1>3. ASSUME shape \in Receipt,
             NEW s \in IF shape.sub # None THEN {shape.sub} ELSE Sub \ born,
             c = [op |-> "evolve", to |-> [shape EXCEPT !.deep = ~@, !.sub = s]]
      PROVE  /\ c.op = "evolve" /\ c.to \in Receipt /\ c.to.root = shape.root
             /\ c.to.sub = shape.sub \/ c.to.sub \notin born
  <2>1. /\ shape = [root |-> shape.root, sub |-> shape.sub, deep |-> shape.deep]
        /\ shape.root \in Root /\ shape.sub \in Sub \cup {None} /\ shape.deep \in BOOLEAN
        /\ shape.deep => shape.sub # None
    BY <1>3 DEF Receipt
  <2>2. s \in Sub /\ s # None
    BY <1>3, <2>1 DEF Distinct, Node
  <2>3. c.to = [root |-> shape.root, sub |-> s, deep |-> ~shape.deep]
    BY <1>3, <2>1
  <2> QED
    BY <1>3, <2>1, <2>2, <2>3 DEF Receipt
<1>4. CASE shape \in Receipt
  <2>1. CASE \E s \in IF shape.sub # None THEN {shape.sub} ELSE Sub \ born :
               c = [op |-> "evolve", to |-> [shape EXCEPT !.deep = ~@, !.sub = s]]
    <3>1. /\ c.op = "evolve" /\ c.to \in Receipt /\ c.to.root = shape.root
          /\ c.to.sub = shape.sub \/ c.to.sub \notin born
      BY <1>3, <1>4, <2>1
    <3>2. c = [op |-> c.op, to |-> c.to]
      BY <2>1
    <3> QED
      BY <1>1, <1>2, <1>4, <3>1, <3>2 DEF Run
  <2>2. CASE \E r \in history \ {shape} :
               c = [op |-> IF r.root = shape.root THEN "reshape" ELSE "exchange", to |-> r]
    BY <1>1, <1>2, <1>4, <2>2 DEF Run
  <2>3. CASE c \in {[op |-> "reverse", to |-> Link], [op |-> "retire", to |-> Plain]}
    BY <1>1, <1>2, <1>4, <2>3 DEF Run
  <2> QED
    BY <1>4, <2>1, <2>2, <2>3 DEF Commands
<1>5. CASE shape \notin Receipt
  <2>1. CASE \E r \in history : c = [op |-> "reactivate", to |-> r]
    BY <1>1, <1>2, <1>5, <2>1 DEF Run
  <2>2. CASE \E r \in Receipt : NodesOf(r) \cap born = {} /\ c = [op |-> "migrate", to |-> r]
    BY <1>1, <1>2, <1>5, <2>2 DEF Run
  <2> QED
    BY <1>5, <2>1, <2>2 DEF Commands
<1> QED
  BY <1>4, <1>5

LEMMA BeginStep ==
  ASSUME Distinct, IInv, NEW c \in Commands, Begin(c)
  PROVE  IInv'
<1>1. /\ pc = "idle" /\ run' = c /\ runs' = runs + 1 /\ runs < MaxRuns
      /\ pc' = Head(Stages[c.op])
      /\ published' = (c.op \in {"reshape", "exchange", "reactivate", "reverse"})
      /\ UNCHANGED <<tree, nodes, past, flipped, diskFlipped, record, entry, erased, moved, faults>>
  BY DEF Begin
<1>2. /\ c \in Run
      /\ c.op = "migrate" => shape \notin Receipt /\ c.to \in Receipt /\ NodesOf(c.to) \cap born = {}
      /\ c.op = "evolve" => /\ shape \in Receipt /\ c.to \in Receipt /\ c.to.root = shape.root
                            /\ c.to.sub = shape.sub \/ c.to.sub \notin born
      /\ c.op \in {"reshape", "exchange"} => shape \in Receipt /\ c.to \in history
      /\ c.op = "reactivate" => shape \notin Receipt /\ c.to \in history
      /\ c.op = "reverse" => shape \in Receipt /\ c.to = Link
      /\ c.op = "retire" => shape \in Receipt /\ c.to = Plain
  BY CommandIs DEF IInv
<1>3. run = NoRun /\ Bare /\ ~published /\ ~flipped /\ ~diskFlipped /\ erased = <<>>
  BY <1>1 DEF IInv, StageInv, MarkerInv, ErasedInv, CommandStages
<1>4. /\ pc' = (CASE c.op = "migrate" -> "prepare" [] c.op = "reactivate" -> "publish" [] OTHER -> "bind")
      /\ pc' \in StagesOf(c.op)
  <2>1. c.op \in {"migrate", "evolve", "reshape", "exchange", "reactivate", "reverse", "retire"}
    BY <1>2 DEF Run, Stages
  <2> QED
    BY <1>1, <2>1, StagesAre DEF Stages
<1>5. TypeOK'
  <2>1. /\ runs' \in 0..MaxRuns /\ published' \in BOOLEAN
    BY <1>1 DEF Distinct, IInv, TypeOK
  <2>2. run' \in [op : DOMAIN Stages, to : Shape]
    BY <1>1, <1>2 DEF Run
  <2> QED
    BY <1>1, <2>1, <2>2 DEF IInv, TypeOK, tree, nodes, past
<1>6. StageInv'
  <2>1. c # NoRun
    BY <1>2 DEF Distinct
  <2> QED
    BY <1>1, <1>4, <2>1 DEF StageInv, CommandStages, Undoing, Ending
<1>7. GoalInv'
  <2>1. history \subseteq Receipt /\ exist \subseteq born
    BY DEF IInv, TypeOK
  <2>2. \A n : n \notin born => Fresh(n)' /\ Fresh(n)
    BY <1>1, <2>1 DEF IInv, PastInv, Fresh, past
  <2>3. c.op \in {"migrate", "evolve"} => pc' \in Fore /\ pc' \notin Staging
    BY <1>4 DEF Fore, Staging
  <2>4. c.op = "evolve" => NodesOf(c.to) \cap born \subseteq exist
    <3> SUFFICES ASSUME c.op = "evolve", NEW n \in NodesOf(c.to) \cap born  PROVE  n \in exist
      OBVIOUS
    <3>1. n \in {c.to.root, c.to.sub} \ {None} /\ NodesOf(shape) = {shape.root, shape.sub} \ {None}
      BY <1>2, ReceiptTypes
    <3>2. n \in NodesOf(shape)
      BY <1>2, <3>1
    <3> QED
      BY <1>2, <3>2 DEF IInv, PastInv
  <2>5. c.op \in {"migrate", "evolve", "reshape", "exchange", "reactivate"} => c.to \in Receipt
    BY <1>2, <2>1
  <2>6. published' => c.to \in history \cup {Link, Plain}
    BY <1>1, <1>2
  <2>7. UNCHANGED <<shape, history, born, exist>>
    BY <1>1 DEF past, nodes
  <2>8. c.op = "evolve" => c.to.sub \in {None, shape.sub} \/ Fresh(c.to.sub)'
    BY <1>2, <2>2
  <2>9. c.op = "migrate" => \A n \in NodesOf(c.to) : Fresh(n)'
    BY <1>2, <2>2
  <2>10. (\A n \in NodesOf(c.to) : Fresh(n))' <=> \A n \in NodesOf(c.to) : Fresh(n)'
    BY DEF Fresh
  <2> QED
    BY <1>1, <1>2, <2>3, <2>4, <2>5, <2>6, <2>7, <2>8, <2>9 DEF GoalInv, Doing, Fresh
<1>8. MarkerInv' /\ ErasedInv' /\ LeafInv' /\ PastInv' /\ RecordInv'
  <2>1. pc' \in {"bind", "prepare", "publish"}
    BY <1>4
  <2>2. MarkerInv'
    <3>1. run' # NoRun /\ run'.op = c.op
      BY <1>1, <1>2 DEF Distinct
    <3>2. published' => Doing({"reshape", "exchange", "reactivate", "reverse"})'
      BY <1>1, <3>1 DEF Doing
    <3> QED
      BY <1>1, <1>3, <2>1, <3>1, <3>2 DEF MarkerInv, Undoing, Ending
  <2>3. ErasedInv'
    BY <1>1, <1>3, <2>1 DEF ErasedInv, Present
  <2>4. LeafInv'
    BY <1>1, <1>3, <2>1 DEF IInv, LeafInv
  <2>5. PastInv' /\ RecordInv'
    BY <1>1, <1>3 DEF IInv, PastInv, RecordInv, Bare, past, nodes
  <2> QED
    BY <2>2, <2>3, <2>4, <2>5
<1> QED
  BY <1>5, <1>6, <1>7, <1>8 DEF IInv

\* By the stage, what is shown and what is to be.
LEMMA StageShapes ==
  ASSUME IInv, pc \in CommandStages
  PROVE  /\ run # NoRun /\ pc \in StagesOf(run.op) /\ run.op \in DOMAIN Stages /\ erased = <<>>
         /\ pc \in {"bind", "prune", "reverse", "origin", "finish"} => shape \in Receipt
         /\ pc = "reverse" => Doing({"exchange", "reverse", "retire"})
         /\ pc \in {"publish", "plant"} => run.to \in Receipt
         /\ pc \in {"publish", "plant"} =>
              Doing({"migrate", "evolve", "reshape", "exchange", "reactivate"})
         /\ pc \in {"prepare", "finish", "seal"} => Doing({"migrate", "evolve", "retire"})
         /\ pc = "prepare" => Doing({"migrate", "evolve"})
         /\ pc = "finish" => Doing({"evolve"}) /\ run.to \in Receipt
<1>1. run # NoRun /\ pc \in StagesOf(run.op) /\ run.op \in DOMAIN Stages /\ erased = <<>>
  BY DEF IInv, TypeOK, StageInv, ErasedInv
<1>2. /\ pc \in {"bind", "prune", "reverse", "origin", "finish"} =>
           Doing({"evolve", "reshape", "exchange", "reverse", "retire"})
      /\ pc = "reverse" => Doing({"exchange", "reverse", "retire"})
      /\ pc \in {"publish", "plant"} =>
           Doing({"migrate", "evolve", "reshape", "exchange", "reactivate"})
      /\ pc \in {"prepare", "finish", "seal"} => Doing({"migrate", "evolve", "retire"})
      /\ pc = "prepare" => Doing({"migrate", "evolve"})
      /\ pc = "finish" => Doing({"evolve"})
  BY <1>1, StagesAre DEF Doing, Stages
<1> QED
  BY <1>1, <1>2 DEF IInv, GoalInv, Doing

LEMMA BindStep ==
  ASSUME Distinct, IInv, Bind
  PROVE  IInv'
<1>1. pc = "bind" /\ pc \in CommandStages
  BY DEF Bind, CommandStages
<1>2. shape \in Receipt /\ Doing({"evolve", "reshape", "exchange", "reverse", "retire"})
  <2>1. shape \in Receipt /\ run.op \in DOMAIN Stages /\ pc \in StagesOf(run.op)
    BY <1>1, StageShapes
  <2> QED
    BY <1>1, <2>1, StagesAre DEF Doing, Stages
<1>3. CASE Refuse
  BY <1>3, Refused
<1>4. CASE Persist("Bound", shape)
  BY <1>1, <1>2, <1>4, Persisted
<1>5. CASE Kind # "none" /\ Go(NextStage)
  BY <1>1, <1>5, WentOn DEF Kind, Record
<1> QED
  BY <1>3, <1>4, <1>5 DEF Bind

LEMMA PrepareStep ==
  ASSUME Distinct, IInv, Prepare
  PROVE  IInv'
<1>1. /\ pc = "prepare" /\ pc \in CommandStages /\ pc' = NextStage
      /\ born' = born \cup NodesOf(run.to) /\ exist' = exist \cup (NodesOf(run.to) \ born)
      /\ UNCHANGED <<tree, planted, visitors, past, journal, moved, count>>
  BY DEF Prepare, CommandStages
<1>2. /\ run # NoRun /\ pc \in StagesOf(run.op) /\ run.op \in DOMAIN Stages /\ erased = <<>>
      /\ Doing({"migrate", "evolve"})
  BY <1>1, StageShapes
<1>3. /\ pc' \in StagesOf(run.op) \cap CommandStages /\ pc' \notin {"flip", "plant", "prune"} \cup Fore
  BY <1>1, <1>2, NextStages DEF Doing
<1>4. run.to \in Receipt /\ NodesOf(run.to) \cap born \subseteq exist
  BY <1>1, <1>2 DEF IInv, GoalInv, Doing, Fore
<1>5. NodesOf(run.to) \subseteq exist' /\ exist \subseteq exist'
  BY <1>1, <1>4
<1>6. TypeOK'
  <2>1. exist' \subseteq born' /\ born' \subseteq Node
    BY <1>1, <1>4, ReceiptTypes DEF IInv, TypeOK
  <2> QED
    BY <1>1, <2>1 DEF IInv, TypeOK, tree, past, journal, count
<1>7. StageInv'
  BY <1>1, <1>2, <1>3 DEF StageInv, CommandStages, Undoing, Ending, journal
<1>8. GoalInv'
  BY <1>1, <1>2, <1>3, <1>5 DEF IInv, GoalInv, Doing, Fresh, past, journal
<1>9. MarkerInv' /\ ErasedInv'
  BY <1>1, <1>2, <1>3 DEF IInv, MarkerInv, ErasedInv, Doing, CommandStages, Undoing, Ending,
                        Bare, Present, journal
<1>10. RecordInv' /\ LeafInv'
  BY <1>1, <1>3 DEF IInv, RecordInv, LeafInv, Doing, Fresh, past, journal
<1>11. PastInv'
  BY <1>1, <1>5 DEF IInv, PastInv, past
<1> QED
  BY <1>6, <1>7, <1>8, <1>9, <1>10, <1>11 DEF IInv

LEMMA PruneStep ==
  ASSUME Distinct, IInv, Prune
  PROVE  IInv'
<1>1. pc = "prune" /\ pc \in CommandStages /\ LeafOf(shape) \in Leaf
  BY DEF Prune, CommandStages, LeafOf, Leaf
<1>2. shape \in Receipt /\ record # NoRecord
  BY <1>1, StageShapes DEF IInv, LeafInv
<1>3. CASE SetLeaf(shape, LeafOf(shape), FALSE)
  BY <1>1, <1>2, <1>3, LeafSet
<1>4. CASE Go(NextStage)
  BY <1>1, <1>2, <1>4, WentOn
<1> QED
  BY <1>3, <1>4 DEF Prune

LEMMA ReverseStep ==
  ASSUME Distinct, IInv, Reverse
  PROVE  IInv'
<1>1. pc = "reverse" /\ pc \in CommandStages
  BY DEF Reverse, CommandStages
<1>2. /\ shape \in Receipt /\ Doing({"exchange", "reverse", "retire"})
      /\ run.op \in DOMAIN Stages /\ pc \in StagesOf(run.op)
  BY <1>1, StageShapes
<1>3. CASE Refuse
  BY <1>3, Refused
<1>4. CASE Persist("Reverse", shape)
  BY <1>1, <1>2, <1>4, Persisted
<1>5. CASE Go(NextStage)
  <2>1. NextStage \notin {"plant", "prune"}
    BY <1>1, <1>2, NextStages
  <2> QED
    BY <1>1, <1>5, <2>1, WentOn
<1>6. CASE Retire(shape, ToRetire(shape))
  BY <1>2, <1>6, NextNodes, Retired
<1>7. CASE SetName(Link)
  BY <1>7, NameSet
<1> QED
  BY <1>3, <1>4, <1>5, <1>6, <1>7 DEF Reverse

LEMMA OriginStep ==
  ASSUME Distinct, IInv, Origin
  PROVE  IInv'
<1>1. pc = "origin" /\ pc \in CommandStages
  BY DEF Origin, CommandStages
<1>2. CASE Refuse
  BY <1>2, Refused
<1>3. CASE Go(NextStage)
  <2>1. NextStage \notin {"plant", "prune"}
    BY <1>1, StageShapes, NextStages
  <2> QED
    BY <1>1, <1>3, <2>1, WentOn
<1>4. CASE SetName(Plain)
  BY <1>4, NameSet
<1>5. ASSUME entry' = [entry EXCEPT !["root"] = [prior |-> TRUE, after |-> TRUE]],
             UNCHANGED <<tree, nodes, past, run, published, flipped, diskFlipped, record,
                         erased, pc, moved, count>>
      PROVE  IInv'
  <2>1. "root" \in Place /\ "root" \notin Leaf /\ [prior |-> TRUE, after |-> TRUE] \in Intent
    BY DEF Place, Leaf, Intent
  <2> QED
    BY <1>1, <1>5, <2>1, Journaled
<1> QED
  BY <1>2, <1>3, <1>4, <1>5 DEF Origin

\* What is persisted to publish is of the right kind for the run.
LEMMA Directions ==
  ASSUME Doing({"migrate", "evolve", "reshape", "exchange", "reactivate"})
  PROVE  /\ Direction \in {"Forward", "Reverse", "Evolve", "Exchange", "Reactivate"} \ {"Reverse"}
         /\ Direction = "Forward" => Doing({"migrate"})
         /\ Direction = "Reactivate" => Doing({"reactivate"})
         /\ Direction = "Exchange" => Doing({"exchange"})
         /\ Direction = "Evolve" => Doing({"evolve", "reshape"})
  BY DEF Direction, Doing

LEMMA PublishStep ==
  ASSUME Distinct, IInv, Publish
  PROVE  IInv'
<1>1. pc = "publish" /\ pc \in CommandStages
  BY DEF Publish, CommandStages
<1>2. run.to \in Receipt /\ Doing({"migrate", "evolve", "reshape", "exchange", "reactivate"})
  BY <1>1, StageShapes
<1>3. CASE Direction # "Evolve"
  <2>1. Direction \in {"Forward", "Exchange", "Reactivate"}
    BY <1>2, <1>3, Directions
  <2>2. CASE Refuse
    BY <2>2, Refused
  <2>3. CASE Persist(Direction, run.to)
    BY <1>1, <1>2, <2>1, <2>3, Directions, Persisted
  <2>4. CASE Kind = Direction /\ Go(NextStage)
    BY <1>1, <2>1, <2>4, WentOn DEF Kind, Record
  <2>5. CASE SetName(None)
    BY <2>5, NameSet
  <2>6. CASE Install(run.to, ToInstall(run.to), FALSE, name = run.to.root)
    <3>1. (name = run.to.root) \in BOOLEAN
      OBVIOUS
    <3> QED
      BY <1>2, <2>6, <3>1, NextNodes, Installed
  <2> QED
    BY <1>3, <2>2, <2>3, <2>4, <2>5, <2>6 DEF Publish, PublishTree
<1>4. CASE Direction = "Evolve"
  <2>1. Doing({"evolve"}) \/ Doing({"reshape"})
    BY <1>2, <1>4, Directions DEF Doing
  <2>2. shape \in Receipt
    BY <1>1, <2>1, StageShapes DEF IInv, GoalInv, Doing
  <2>3. CASE Persist("Evolve", run.to)
    BY <1>1, <1>2, <2>1, <2>3, Persisted
  <2>4. CASE shape.sub \notin {None, run.to.sub} /\ Retire(shape, shape.sub)
    <3>1. shape.sub \in NodesOf(shape)
      BY <2>2, <2>4 DEF NodesOf
    <3> QED
      BY <2>2, <2>4, <3>1, Retired
  <2>5. CASE Install(run.to, run.to.sub, FALSE, FALSE)
    BY <1>2, <2>5, Installed
  <2>6. CASE Record = [kind |-> "Evolve", node |-> run.to] /\ Go(NextStage)
    <3>1. [kind |-> "Evolve", node |-> run.to] \in Records
      BY <1>2 DEF Records
    <3>2. record # NoRecord
      BY <2>6, <3>1 DEF Record, Distinct
    <3> QED
      BY <1>1, <2>6, <3>2, WentOn
  <2> QED
    BY <1>4, <2>3, <2>4, <2>5, <2>6 DEF Publish, PublishShape
<1> QED
  BY <1>3, <1>4

LEMMA PlantStep ==
  ASSUME Distinct, IInv, Plant
  PROVE  IInv'
<1>1. pc = "plant" /\ pc \in CommandStages /\ LeafOf(run.to) \in Leaf
  BY DEF Plant, CommandStages, LeafOf, Leaf
<1>2. run.to \in Receipt /\ record # NoRecord
  BY <1>1, StageShapes DEF IInv, LeafInv
<1>3. CASE SetLeaf(run.to, LeafOf(run.to), TRUE)
  BY <1>1, <1>2, <1>3, LeafSet
<1>4. CASE Go(NextStage)
  BY <1>1, <1>2, <1>4, WentOn
<1> QED
  BY <1>3, <1>4 DEF Plant

LEMMA FinishStep ==
  ASSUME Distinct, IInv, Finish
  PROVE  IInv'
<1>1. pc = "finish" /\ pc \in CommandStages
  BY DEF Finish, CommandStages
<1>2. /\ run # NoRun /\ pc \in StagesOf(run.op) /\ run.op \in DOMAIN Stages /\ erased = <<>>
      /\ shape \in Receipt /\ Doing({"evolve"}) /\ run.to \in Receipt
  BY <1>1, StageShapes
<1>3. CASE Refuse
  BY <1>3, Refused
<1>4. CASE Go(NextStage)
  <2>1. NextStage \notin {"plant", "prune"}
    BY <1>1, <1>2, NextStages
  <2> QED
    BY <1>1, <1>4, <2>1, WentOn
<1>5. CASE shape.sub # None /\ Retire(shape, shape.sub)
  <2>1. shape.sub \in NodesOf(shape)
    BY <1>2, <1>5 DEF NodesOf
  <2> QED
    BY <1>2, <1>5, <2>1, Retired
<1>6. ASSUME ~run.to.deep, run' = [run EXCEPT !.to.sub = None],
             record' = [kind |-> "Evolve", node |-> run'.to],
             UNCHANGED <<tree, nodes, past, published, flipped, diskFlipped, entry, erased,
                         pc, moved, count>>
      PROVE  IInv'
  <2> DEFINE to == [root |-> run.to.root, sub |-> None, deep |-> run.to.deep]
  <2>1. run = [op |-> run.op, to |-> run.to] /\ run \in Run
    BY <1>2 DEF IInv, TypeOK, Run
  <2>2. run.to = [root |-> run.to.root, sub |-> run.to.sub, deep |-> run.to.deep] /\ run.to.root \in Root
    BY <1>2, <1>6 DEF Receipt
  <2>3. to \in Receipt /\ NodesOf(to) \subseteq NodesOf(run.to)
    BY <1>2, <1>6, <2>2 DEF Receipt, NodesOf
  <2>4. run' = [op |-> run.op, to |-> to]
    <3>1. run' = [run EXCEPT !.to = [run.to EXCEPT !.sub = None]]
      BY <1>6
    <3>2. [run.to EXCEPT !.sub = None] = to
      BY <2>2
    <3> QED
      BY <2>1, <3>1, <3>2
  <2>5. run'.op = run.op /\ run'.to = to /\ to.sub = None
    BY <2>4
  <2> HIDE DEF to
  <2>6. run' \in Run /\ run' # NoRun
    BY <2>1, <2>3, <2>4 DEF Run, Distinct, Shape
  <2>7. record' \in Records /\ record'.kind = "Evolve" /\ record'.node = to
    BY <1>6, <2>3, <2>5 DEF Records
  <2>8. ~published
    BY <1>1, <1>2 DEF IInv, MarkerInv, Doing
  <2>9. TypeOK'
    BY <1>6, <2>6, <2>7 DEF IInv, TypeOK, Run, Records, tree, nodes, past, count
  <2>10. StageInv'
    BY <1>1, <1>2, <1>6, <2>5, <2>6 DEF StageInv, CommandStages, Undoing, Ending
  <2>11. GoalInv'
    <3>1. NodesOf(run.to) \subseteq exist
      BY <1>1, <1>2 DEF IInv, GoalInv, Doing, Staging
    <3>2. NodesOf(to) \subseteq exist' /\ published' = published /\ pc' \notin Fore /\ shape' = shape
      BY <1>1, <1>6, <2>3, <3>1 DEF nodes, past, Fore
    <3> QED
      BY <1>2, <2>3, <2>5, <2>8, <3>2 DEF GoalInv, Doing
  <2>12. MarkerInv' /\ ErasedInv'
    BY <1>1, <1>2, <1>6, <2>6, <2>8 DEF IInv, MarkerInv, ErasedInv, CommandStages, Undoing, Ending,
                                  Present
  <2>13. RecordInv'
    BY <1>2, <2>5, <2>7 DEF RecordInv, Doing
  <2>14. PastInv' /\ LeafInv'
    BY <1>6, <2>7 DEF IInv, PastInv, LeafInv, Distinct, nodes, past
  <2> QED
    BY <2>9, <2>10, <2>11, <2>12, <2>13, <2>14 DEF IInv
<1> QED
  BY <1>1, <1>3, <1>4, <1>5, <1>6 DEF Finish

LEMMA SealStep ==
  ASSUME Distinct, IInv, Seal
  PROVE  IInv'
<1>1. /\ pc = "seal" /\ pc \in CommandStages /\ published' = TRUE /\ pc' = NextStage
      /\ history' = history \cup ({run.to} \cap Receipt)
      /\ UNCHANGED <<tree, nodes, shape, retiring, run, flipped, diskFlipped, record, entry,
                     erased, moved, count>>
  BY DEF Seal, CommandStages
<1>2. /\ run # NoRun /\ pc \in StagesOf(run.op) /\ run.op \in DOMAIN Stages /\ erased = <<>>
      /\ Doing({"migrate", "evolve", "retire"})
  BY <1>1, StageShapes
<1>3. pc' = "flip" /\ pc' \in StagesOf(run.op) /\ pc' \in CommandStages
  BY <1>1, <1>2, NextStages DEF Doing, CommandStages
<1>4. run \in [op : DOMAIN Stages, to : Shape] /\ run.to \in Shape
  BY <1>2 DEF IInv, TypeOK
<1>5. run.to \in Receipt => NodesOf(run.to) \subseteq exist
  <2>1. CASE Doing({"retire"})
    <3>1. run.to = Plain
      BY <1>2, <2>1 DEF IInv, GoalInv
    <3> QED
      BY <3>1 DEF Distinct
  <2>2. CASE Doing({"migrate", "evolve"})
    BY <1>1, <1>2, <2>2 DEF IInv, GoalInv, Staging
  <2> QED
    BY <1>2, <2>1, <2>2 DEF Doing
<1>6. TypeOK' /\ StageInv'
  BY <1>1, <1>2, <1>3 DEF IInv, TypeOK, StageInv, tree, nodes, count, CommandStages, Undoing, Ending
<1>7. GoalInv'
  <2>1. run.to \in history' \cup {Link, Plain}
    BY <1>1, <1>4 DEF Shape
  <2>2. Doing({"migrate", "evolve"}) => run.to \in Receipt
    BY <1>2 DEF IInv, GoalInv, Doing
  <2> QED
    BY <1>1, <1>2, <1>3, <1>5, <2>1, <2>2 DEF IInv, GoalInv, Doing, Fore, nodes
<1>8. MarkerInv' /\ ErasedInv'
  BY <1>1, <1>2, <1>3 DEF IInv, MarkerInv, ErasedInv, CommandStages, Undoing, Ending, Present
<1>9. RecordInv'
  BY <1>1 DEF IInv, RecordInv, Doing
<1>10. PastInv'
  BY <1>1, <1>5 DEF IInv, PastInv, nodes
<1>11. LeafInv'
  BY <1>1, <1>3 DEF IInv, LeafInv
<1> QED
  BY <1>6, <1>7, <1>8, <1>9, <1>10, <1>11 DEF IInv

LEMMA FlipStep ==
  ASSUME Distinct, IInv, Flip
  PROVE  IInv'
<1>1. /\ pc = "flip" /\ flipped' = TRUE /\ diskFlipped' = flipped
      /\ pc' = IF flipped THEN "commit" ELSE "flip"
      /\ UNCHANGED <<tree, nodes, past, run, published, record, entry, erased, moved, count>>
  BY DEF Flip
<1>2. run # NoRun /\ pc \in StagesOf(run.op) /\ erased = <<>> /\ published
  BY <1>1 DEF IInv, StageInv, ErasedInv, MarkerInv, CommandStages
<1>3. flipped \in BOOLEAN /\ diskFlipped \in BOOLEAN /\ (diskFlipped => flipped)
  BY DEF IInv, TypeOK, MarkerInv
<1>4. TypeOK' /\ StageInv'
  BY <1>1, <1>2, <1>3 DEF IInv, TypeOK, StageInv, tree, nodes, past, count, CommandStages, Undoing, Ending
<1>5. GoalInv' /\ RecordInv' /\ PastInv'
  BY <1>1 DEF IInv, GoalInv, RecordInv, PastInv, Doing, Fresh, Fore, Staging, nodes, past
<1>6. MarkerInv'
  BY <1>1, <1>2, <1>3 DEF MarkerInv, CommandStages, Undoing, Ending
<1>7. ErasedInv' /\ LeafInv'
  BY <1>1, <1>2, <1>3 DEF IInv, ErasedInv, LeafInv, Present
<1> QED
  BY <1>4, <1>5, <1>6, <1>7 DEF IInv

LEMMA CommitStep ==
  ASSUME Distinct, IInv, Commit
  PROVE  IInv'
<1>1. CASE Refuse
  BY <1>1, Refused
<1>2. CASE pc' = "erase" /\ TypeOK' /\ UNCHANGED <<nodes, past, journal>>
  <2>1. pc = "commit" /\ diskFlipped = flipped
    BY DEF Commit, IInv, MarkerInv, Undoing, Ending
  <2>2. StageInv'
    BY <1>2, <2>1 DEF IInv, StageInv, CommandStages, Undoing, Ending, journal
  <2> QED
    BY <1>2, <2>1, <2>2, Stepped DEF nodes, CommandStages, Undoing, Fore, Staging
<1>3. CASE Syncs("all") /\ pc' = "erase" /\ UNCHANGED <<nodes, past, journal, moved, count>>
  BY <1>2, <1>3, TypeSynced DEF IInv
<1>4. CASE Go("erase")
  BY <1>2, <1>4, TypeKept DEF Go, IInv
<1> QED
  BY <1>1, <1>3, <1>4 DEF Commit

\* An unlink: entries before the record where the run did not commit.
LEMMA Unlinked ==
  ASSUME Distinct, IInv, pc = "erase", NEW i \in Left, i = "record" /\ ~flipped => Left = {"record"},
         erased' = Append(erased, i),
         UNCHANGED <<tree, nodes, past, run, published, flipped, diskFlipped, record, entry,
                     pc, moved, count>>
  PROVE  IInv'
<1> DEFINE n == Len(erased)
<1>1. erased \in Seq(Item) /\ n \in Nat /\ DOMAIN erased = 1..n
  BY DEF IInv, TypeOK
<1>2. i \in Item /\ i # "marker"
  BY DEF Left, Item, Leaf
<1>3. /\ erased' \in Seq(Item) /\ DOMAIN erased' = 1..(n + 1) /\ erased'[n + 1] = i
      /\ \A k \in 1..n : erased'[k] = erased[k]
  BY <1>1, <1>2
<1>4. run # NoRun /\ diskFlipped = flipped
  BY DEF IInv, StageInv, MarkerInv, Ending
<1>5. TypeOK'
  BY <1>3 DEF IInv, TypeOK, tree, nodes, past, count
<1>6. StageInv' /\ GoalInv' /\ MarkerInv'
  BY DEF IInv, StageInv, GoalInv, MarkerInv, Bare, Doing, Fresh, nodes, past
<1>7. RecordInv' /\ PastInv' /\ LeafInv'
  BY DEF IInv, RecordInv, PastInv, LeafInv, Doing, Fresh, nodes, past
<1>8. ErasedInv'
  <2>1. ~Present("marker")' => ~Present("marker")
    BY <1>1, <1>2, <1>3 DEF Present
  <2>2. Bare' <=> Bare
    BY DEF Bare
  <2>3. ASSUME ~diskFlipped, NEW k \in DOMAIN erased', erased'[k] = "record",
               NEW p \in Place, entry[p] # NoEntry
        PROVE  \E j \in 1..(k - 1) : erased'[j] = p
    <3>1. CASE k \in 1..n
      <4>1. \E j \in 1..(k - 1) : erased[j] = p
        BY <1>1, <1>3, <2>3, <3>1 DEF IInv, ErasedInv
      <4> QED
        BY <1>1, <1>3, <3>1, <4>1
    <3>2. CASE k = n + 1
      <4>1. Left = {"record"}
        BY <1>3, <1>4, <2>3, <3>2
      <4>2. p \in Leaf \cup {"root"} /\ p # "record"
        BY DEF Place, Leaf
      <4>3. Entry(p) = NoEntry
        BY <4>1, <4>2 DEF Left
      <4>4. PICK j \in DOMAIN erased : erased[j] = p
        BY <2>3, <4>3 DEF Entry, Present
      <4> QED
        BY <1>1, <1>3, <3>2, <4>4
    <3> QED
      BY <1>1, <1>3, <3>1, <3>2
  <2> QED
    BY <1>4, <2>1, <2>2, <2>3 DEF IInv, ErasedInv, CommandStages
<1> QED
  BY <1>5, <1>6, <1>7, <1>8 DEF IInv

LEMMA EraseStep ==
  ASSUME Distinct, IInv, Erase
  PROVE  IInv'
<1>1. pc = "erase"
  BY DEF Erase
<1>2. CASE \E i \in Left : /\ i = "record" /\ ~flipped => Left = {"record"}
                           /\ erased' = Append(erased, i)
                           /\ UNCHANGED <<record, entry, pc>>
  BY <1>1, <1>2, Unlinked DEF Erase
<1>3. ASSUME record' = NoRecord, entry' = [p \in DOMAIN entry |-> NoEntry], erased' = <<>>,
             pc' = "unmark",
             UNCHANGED <<tree, nodes, past, run, published, flipped, diskFlipped, moved, count>>
      PROVE  IInv'
  <2>1. entry' = [p \in Place |-> NoEntry]
    BY <1>3 DEF IInv, LeafInv
  <2>2. Bare'
    BY <1>3, <2>1 DEF Bare
  <2>3. run # NoRun /\ diskFlipped = flipped
    BY <1>1 DEF IInv, StageInv, MarkerInv, Ending
  <2>4. TypeOK'
    BY <1>3, <2>1 DEF IInv, TypeOK, Place, tree, nodes, past, count
  <2>5. StageInv' /\ GoalInv'
    BY <1>3, <2>3 DEF IInv, StageInv, GoalInv, Doing, Fresh, Fore, Staging, CommandStages, Undoing, Ending,
                nodes, past
  <2>6. MarkerInv' /\ ErasedInv'
    BY <1>3, <2>2, <2>3 DEF IInv, MarkerInv, ErasedInv, CommandStages, Undoing
  <2>7. RecordInv' /\ PastInv' /\ LeafInv'
    BY <1>3, <2>1 DEF IInv, RecordInv, PastInv, LeafInv, Place, Leaf, nodes, past
  <2> QED
    BY <2>4, <2>5, <2>6, <2>7 DEF IInv
<1> QED
  BY <1>2, <1>3 DEF Erase

LEMMA UnmarkStep ==
  ASSUME Distinct, IInv, Unmark
  PROVE  IInv'
<1>1. /\ pc = "unmark" /\ Bare /\ run # NoRun /\ diskFlipped = flipped
      /\ UNCHANGED <<tree, nodes, history, retiring, record, entry, moved, count>>
  BY DEF Unmark, IInv, ErasedInv, StageInv, MarkerInv, Ending
<1>2. CASE erased' = <<"marker">> /\ UNCHANGED <<shape, run, published, flipped, diskFlipped, pc>>
  <2>1. erased' \in Seq(Item) /\ \A i \in DOMAIN erased' : erased'[i] = "marker"
    BY <1>2 DEF Item
  <2>2. TypeOK'
    BY <1>1, <1>2, <2>1 DEF IInv, TypeOK, tree, nodes, count
  <2>3. StageInv' /\ GoalInv' /\ MarkerInv'
    BY <1>1, <1>2 DEF IInv, StageInv, GoalInv, MarkerInv, Bare, Doing, Fresh, nodes
  <2>4. RecordInv' /\ PastInv' /\ LeafInv'
    BY <1>1, <1>2 DEF IInv, RecordInv, PastInv, LeafInv, Bare, Doing, Fresh, nodes
  <2>5. ErasedInv'
    <3>1. Bare'
      BY <1>1 DEF Bare
    <3> QED
      BY <1>1, <1>2, <2>1, <3>1 DEF ErasedInv, CommandStages
  <2> QED
    BY <2>2, <2>3, <2>4, <2>5 DEF IInv
<1>3. CASE /\ erased' = <<>> /\ shape' = (IF flipped THEN run.to ELSE shape) /\ run' = NoRun
           /\ published' = FALSE /\ flipped' = FALSE /\ diskFlipped' = FALSE
           /\ pc' = "idle"
  <2>1. shape' \in Shape /\ (shape' \in Receipt => shape' \in history)
    BY <1>1, <1>3 DEF IInv, TypeOK, GoalInv, MarkerInv, PastInv, Distinct
  <2>2. TypeOK'
    <3>1. published' \in BOOLEAN /\ flipped' \in BOOLEAN /\ diskFlipped' \in BOOLEAN
      BY <1>3, Zenon
    <3>2. erased' \in Seq(Item)
      BY <1>3
    <3> QED
      BY <1>1, <1>3, <2>1, <3>1, <3>2 DEF IInv, TypeOK, tree, nodes, count
  <2>6. StageInv'
    BY <1>3 DEF StageInv, CommandStages, Undoing, Ending
  <2>3. Bare'
    BY <1>1 DEF Bare
  <2>4. MarkerInv' /\ ErasedInv' /\ GoalInv'
    BY <1>1, <1>3, <2>3 DEF MarkerInv, ErasedInv, GoalInv, CommandStages, Undoing, Ending, Present
  <2>5. RecordInv' /\ PastInv' /\ LeafInv'
    BY <1>1, <1>3, <2>1, <2>3 DEF IInv, RecordInv, PastInv, LeafInv, Bare, Place, nodes
  <2> QED
    BY <2>2, <2>4, <2>5, <2>6 DEF IInv
<1> QED
  BY <1>2, <1>3 DEF Unmark

-----------------------------------------------------------------------------
\* Recovery.

LEMMA RecoverStep ==
  ASSUME Distinct, IInv, Recover
  PROVE  IInv'
<1>1. /\ pc \in {"down", "refused"} /\ diskFlipped' = flipped
      /\ pc' = IF run = NoRun THEN "idle"
               ELSE IF ~Present("marker") THEN "unmark"
               ELSE IF flipped THEN "commit" ELSE "r_root"
      /\ UNCHANGED <<tree, nodes, past, run, published, flipped, record, entry, erased, moved, count>>
  BY DEF Recover
<1>2. flipped \in BOOLEAN /\ diskFlipped \in BOOLEAN /\ (diskFlipped => flipped)
  BY DEF IInv, TypeOK, MarkerInv
<1>3. TypeOK' /\ StageInv'
  BY <1>1, <1>2 DEF IInv, TypeOK, StageInv, tree, nodes, past, count, CommandStages, Undoing, Ending
<1>4. GoalInv' /\ RecordInv' /\ PastInv'
  BY <1>1 DEF IInv, GoalInv, RecordInv, PastInv, Doing, Fresh, Fore, Staging, nodes, past
<1>5. MarkerInv'
  BY <1>1, <1>2 DEF IInv, MarkerInv, Bare, CommandStages, Undoing, Ending
<1>6. ErasedInv'
  <2>1. Bare' <=> Bare
    BY <1>1 DEF Bare
  <2>2. Present("marker")' <=> Present("marker")
    BY <1>1 DEF Present
  <2>3. ~diskFlipped' => ~diskFlipped
    BY <1>1, <1>2
  <2>4. pc' \in CommandStages \cup {"idle"} => run = NoRun
    BY <1>1 DEF CommandStages
  <2>5. pc' = "unmark" => ~Present("marker")
    BY <1>1
  <2> QED
    BY <1>1, <2>1, <2>2, <2>3, <2>4, <2>5 DEF IInv, ErasedInv
<1>7. LeafInv'
  BY <1>1, <1>2 DEF IInv, LeafInv
<1> QED
  BY <1>3, <1>4, <1>5, <1>6, <1>7 DEF IInv

\* Recovery goes on.
LEMMA Undid ==
  ASSUME IInv, TypeOK', pc \in Undoing, pc' \in Undoing \cup {"erase"},
         UNCHANGED <<nodes, past, journal>>
  PROVE  IInv'
<1>1. run # NoRun /\ ~flipped /\ diskFlipped = flipped
  BY DEF IInv, StageInv, MarkerInv
<1>2. StageInv'
  BY <1>1 DEF StageInv, CommandStages, Undoing, Ending, journal
<1> QED
  BY <1>1, <1>2, Stepped DEF nodes, CommandStages, Undoing, Ending, Fore, Staging

LEMMA UndidSynced ==
  ASSUME IInv, pc \in Undoing, pc' \in Undoing \cup {"erase"}, NEW what, Syncs(what),
         UNCHANGED <<nodes, past, journal, moved, count>>
  PROVE  IInv'
<1>1. TypeOK'
  BY TypeSynced DEF IInv
<1> QED
  BY <1>1, Undid

LEMMA UndidOnly ==
  ASSUME IInv, pc \in Undoing, NEW stage \in Undoing \cup {"erase"}, Go(stage)
  PROVE  IInv'
<1>1. pc' = stage /\ UNCHANGED <<tree, nodes, past, journal, moved, count>>
  BY DEF Go
<1>2. TypeOK'
  BY <1>1, TypeKept DEF IInv
<1> QED
  BY <1>1, <1>2, Undid

LEMMA RecoverRootStep ==
  ASSUME Distinct, IInv, RecoverRoot
  PROVE  IInv'
<1>1. CASE SetName(Link)
  BY <1>1, NameSet
<1>2. CASE Refuse
  BY <1>2, Refused
<1>3. ASSUME NEW what, pc' = "r_before", Syncs(what), UNCHANGED <<nodes, past, journal, moved, count>>
      PROVE  IInv'
  BY <1>3, UndidSynced DEF RecoverRoot, Undoing
<1> QED
  BY <1>1, <1>2, <1>3 DEF RecoverRoot

\* What the record says of the run that recovery undoes.
LEMMA RecordIs ==
  ASSUME Distinct, IInv, Kind # "none"
  PROVE  /\ record # NoRecord /\ Record = record /\ Kind = record.kind /\ record.node \in Receipt
         /\ run # NoRun
         /\ Kind \in {"Bound", "Reverse", "Evolve", "Exchange"} => shape \in Receipt
         /\ Kind \in {"Forward", "Reactivate"} => shape \in {Link, Plain}
         /\ ~published /\ Kind = "Forward" => \A n \in NodesOf(record.node) : Fresh(n)
         /\ ~published /\ Kind = "Evolve" =>
              record.node.sub \in {None, shape.sub} \/ Fresh(record.node.sub)
<1>1. record # NoRecord /\ Record = record /\ Kind = record.kind
  BY DEF Kind, Record
<1>2. record.node \in Receipt /\ record.kind \in {"Bound", "Forward", "Reverse", "Evolve", "Exchange",
                                                  "Reactivate"}
  BY <1>1 DEF IInv, TypeOK
<1>3. run # NoRun
  BY <1>1 DEF IInv, MarkerInv, Bare
<1>4. /\ Kind \in {"Bound", "Reverse", "Evolve", "Exchange"} =>
           Doing({"evolve", "reshape", "exchange", "reverse", "retire"})
      /\ Kind \in {"Forward", "Reactivate"} => Doing({"migrate", "reactivate"})
  BY <1>1 DEF IInv, RecordInv, Doing
<1>5. /\ Kind \in {"Bound", "Reverse", "Evolve", "Exchange"} => shape \in Receipt
      /\ Kind \in {"Forward", "Reactivate"} => shape \notin Receipt
  BY <1>3, <1>4 DEF IInv, GoalInv
<1>6. shape \in Shape
  BY DEF IInv, TypeOK
<1> QED
  BY <1>1, <1>2, <1>3, <1>5, <1>6 DEF IInv, RecordInv, Shape

\* The tree that was there comes back.
LEMMA TreeRestored ==
  ASSUME Distinct, IInv, shape \in Receipt, pc \in Undoing, RestoreTree
  PROVE  IInv'
<1>1. CASE Syncs("all") /\ pc' = "r_leaves" /\ UNCHANGED <<nodes, past, journal, moved, count>>
  BY <1>1, UndidSynced DEF Undoing
<1>2. CASE Install(shape, ToInstall(shape), TRUE, name = shape.root)
  <2>1. (name = shape.root) \in BOOLEAN
    OBVIOUS
  <2> QED
    BY <1>2, <2>1, NextNodes, Installed
<1> QED
  BY <1>1, <1>2 DEF RestoreTree

LEMMA ReversedRestored ==
  ASSUME Distinct, IInv, shape \in Receipt, pc \in Undoing, RestoreReversed
  PROVE  IInv'
<1>1. CASE SetName(None)
  BY <1>1, NameSet
<1>2. CASE RestoreTree
  BY <1>2, TreeRestored
<1> QED
  BY <1>1, <1>2, Refused DEF RestoreReversed

LEMMA ExchangedRestored ==
  ASSUME Distinct, IInv, shape \in Receipt, pc \in Undoing, NEW target \in Receipt,
         RestoreExchanged(target)
  PROVE  IInv'
<1>1. CASE \E n : ClearLeaf(target, n)
  BY <1>1, Cleared
<1>2. CASE Refuse
  BY <1>2, Refused
<1>3. CASE Retire(target, ToRetire(target))
  BY <1>3, NextNodes, Retired
<1>4. CASE SetName(None)
  BY <1>4, NameSet
<1>5. CASE RestoreTree
  BY <1>5, TreeRestored
<1> QED
  BY <1>1, <1>2, <1>3, <1>4, <1>5 DEF RestoreExchanged

LEMMA EvolvedRestored ==
  ASSUME Distinct, IInv, shape \in Receipt, pc = "r_before", NEW target \in Receipt,
         ~published => target.sub \in {None, shape.sub} \/ Fresh(target.sub),
         RestoreEvolved(target)
  PROVE  IInv'
<1> DEFINE new == IF target.sub = shape.sub THEN None ELSE target.sub
           old == IF target.sub = shape.sub THEN None ELSE shape.sub
<1>1. CASE Refuse
  BY <1>1, Refused
<1>2. CASE ClearLeaf(target, new)
  BY <1>2, Cleared
<1>3. CASE new # None /\ Retire(target, new)
  <2>1. new \in NodesOf(target)
    BY <1>3 DEF NodesOf
  <2> QED
    BY <1>3, <2>1, Retired
<1>4. CASE old # None /\ Install(shape, old, TRUE, FALSE)
  <2>1. old \in {shape.root, shape.sub}
    BY <1>4
  <2> QED
    BY <1>4, <2>1, Installed
<1>5. CASE ~published /\ new # None /\ Discard(new)
  <2>1. Fresh(new)
    BY <1>5
  <2> QED
    BY <1>5, <2>1, Discarded DEF Fore, Staging
<1>6. ASSUME NEW what, pc' = "r_leaves", Syncs(what), UNCHANGED <<nodes, past, journal, moved, count>>
      PROVE  IInv'
  BY <1>6, UndidSynced DEF Undoing
<1>7. \/ Refuse \/ ClearLeaf(target, new)
      \/ new # None /\ Retire(target, new)
      \/ old # None /\ Install(shape, old, TRUE, FALSE)
      \/ ~published /\ new # None /\ Discard(new)
      \/ /\ pc' = "r_leaves" /\ Syncs(IF old # None THEN "inside" ELSE "none")
         /\ UNCHANGED <<nodes, past, journal, moved, count>>
  BY DEF RestoreEvolved
<1> QED
  BY <1>1, <1>2, <1>3, <1>4, <1>5, <1>6, <1>7

LEMMA RecoverBeforeStep ==
  ASSUME Distinct, IInv, RecoverBefore
  PROVE  IInv'
<1>1. pc = "r_before" /\ pc \in Undoing
  BY DEF RecoverBefore, Undoing
<1>2. CASE Kind = "Reverse"
  BY <1>1, <1>2, RecordIs, ReversedRestored DEF RecoverBefore
<1>3. CASE Kind = "Exchange"
  BY <1>1, <1>3, RecordIs, ExchangedRestored DEF RecoverBefore
<1>4. CASE Kind = "Evolve"
  <2>1. Record.node \in Receipt /\ shape \in Receipt /\ RestoreEvolved(Record.node)
    BY <1>4, RecordIs DEF RecoverBefore
  <2>2. ~published => Record.node.sub \in {None, shape.sub} \/ Fresh(Record.node.sub)
    BY <1>4, RecordIs
  <2> QED
    BY <1>1, <2>1, <2>2, EvolvedRestored
<1>5. CASE Kind \notin {"Reverse", "Exchange", "Evolve"}
  BY <1>1, <1>5, UndidOnly DEF RecoverBefore, Undoing
<1> QED
  BY <1>2, <1>3, <1>4, <1>5

LEMMA RecoverLeavesStep ==
  ASSUME Distinct, IInv, RecoverLeaves
  PROVE  IInv'
<1> DEFINE there == IF Kind \in {"Forward", "Reactivate"} THEN Record.node ELSE shape
           ps == {p \in Leaf : Entry(p) # NoEntry}
           undone == {p \in ps : LeafCase(p) = "restore"
                                 /\ (Holder(there, p) \in planted) # Entry(p).prior}
<1>1. pc = "r_leaves" /\ pc \in Undoing
  BY DEF RecoverLeaves, Undoing
<1>2. CASE Refuse
  BY <1>2, Refused
<1>3. ASSUME NEW p \in undone,
             planted' = IF entry[p].prior THEN planted \cup {Holder(there, p)}
                                          ELSE planted \ {Holder(there, p)},
             UNCHANGED <<tree, born, exist, visitors, past, journal, pc, moved, count>>
      PROVE  IInv'
  <2>1. Kind # "none" /\ Reachable(there, p)
    BY DEF LeafCase
  <2>2. there \in Receipt
    BY <2>1, RecordIs DEF IInv, TypeOK, Kind
  <2>3. Holder(there, p) \in Node
    BY <2>1, <2>2, ReceiptTypes DEF Reachable, Holder, Node
  <2> HIDE DEF there, undone
  <2>4. planted' \subseteq Node
    BY <1>3, <2>3 DEF IInv, TypeOK
  <2> QED
    BY <1>3, <2>4, LeafWritten
<1>4. ASSUME NEW what, pc' = "r_after", Syncs(what), UNCHANGED <<nodes, past, journal, moved, count>>
      PROVE  IInv'
  BY <1>1, <1>4, UndidSynced DEF Undoing
<1> QED
  BY <1>2, <1>3, <1>4 DEF RecoverLeaves

LEMMA RecoverAfterStep ==
  ASSUME Distinct, IInv, RecoverAfter
  PROVE  IInv'
<1>1. pc = "r_after" /\ pc \in Undoing
  BY DEF RecoverAfter, Undoing
<1>2. CASE Kind \notin {"Forward", "Reactivate"}
  BY <1>1, <1>2, UndidOnly DEF RecoverAfter
<1>3. CASE Kind \in {"Forward", "Reactivate"}
  <2> DEFINE new == Record.node
  <2>1. /\ new \in Receipt /\ shape \in {Link, Plain}
        /\ ~published /\ Kind = "Forward" => \A n \in NodesOf(new) : Fresh(n)
    BY <1>3, RecordIs
  <2>2. CASE Retire(new, ToRetire(new))
    BY <2>1, <2>2, NextNodes, Retired
  <2>3. CASE SetName(shape)
    BY <2>1, <2>3, NameSet
  <2>4. CASE Refuse
    BY <2>4, Refused
  <2>5. ASSUME ~(published \/ Kind = "Reactivate"), NEW n \in NodesOf(new), Discard(n)
        PROVE  IInv'
    <3>1. Fresh(n)
      BY <1>3, <2>1, <2>5
    <3> QED
      BY <1>1, <2>5, <3>1, Discarded DEF Fore, Staging
  <2>6. CASE Syncs("all") /\ pc' = "erase" /\ UNCHANGED <<nodes, past, journal, moved, count>>
    BY <1>1, <2>6, UndidSynced
  <2> QED
    BY <1>3, <2>2, <2>3, <2>4, <2>5, <2>6 DEF RecoverAfter
<1> QED
  BY <1>2, <1>3

LEMMA SyncStep ==
  ASSUME IInv, Sync
  PROVE  IInv'
<1>1. moved' = None /\ Syncs("all") /\ UNCHANGED <<nodes, past, journal, count>> /\ pc' \in {pc, "refused"}
  BY DEF Sync
<1>2. TypeOK'
  BY <1>1, TypeSynced DEF IInv
<1>3. CASE pc' = pc
  BY <1>1, <1>2, <1>3, Stayed DEF nodes
<1>4. CASE pc' = "refused"
  <2>1. StageInv'
    BY <1>4 DEF StageInv, CommandStages, Undoing, Ending
  <2> QED
    BY <1>1, <1>2, <1>4, <2>1, Stepped DEF nodes, CommandStages, Undoing, Ending, Fore, Staging
<1> QED
  BY <1>1, <1>3, <1>4

-----------------------------------------------------------------------------
\* Collection, the user and the machine.

LEMMA CollectPruneStep ==
  ASSUME IInv, CollectPrune
  PROVE  IInv'
<1>1. PICK r \in history \ {shape} : history' = history \ {r} /\ retiring' = retiring \cup {r}
  BY DEF CollectPrune
<1>2. pc = "idle" /\ UNCHANGED <<tree, nodes, shape, journal, pc, moved, count>>
  BY DEF CollectPrune
<1>3. run = NoRun /\ Bare
  BY <1>2 DEF IInv, StageInv, MarkerInv
<1>4. TypeOK'
  BY <1>1, <1>2 DEF IInv, TypeOK, tree, nodes, journal, count
<1>5. StageInv' /\ GoalInv' /\ MarkerInv'
  BY <1>2, <1>3 DEF IInv, StageInv, GoalInv, MarkerInv, Bare, Doing, journal
<1>6. RecordInv' /\ ErasedInv' /\ LeafInv'
  BY <1>2, <1>3 DEF IInv, RecordInv, ErasedInv, LeafInv, Bare, Present, journal
<1>7. PastInv'
  BY <1>1, <1>2 DEF IInv, PastInv, nodes
<1> QED
  BY <1>4, <1>5, <1>6, <1>7 DEF IInv

LEMMA CollectRetireStep ==
  ASSUME IInv, CollectRetire
  PROVE  IInv'
<1>1. pc = "idle" /\ UNCHANGED <<tree, born, planted, visitors, shape, history, journal, pc, moved, count>>
  BY DEF CollectRetire
<1>2. PICK r \in retiring :
        LET own == NodesOf(r) \ UNION {NodesOf(o) : o \in history \cup (retiring \ {r})}
            gone == {n \in own : n \in exist /\ AtStage(n)} IN
        \/ /\ \E n \in gone : Empty(n) /\ exist' = exist \ {n}
           /\ UNCHANGED retiring
        \/ /\ gone = {} /\ retiring' = retiring \ {r}
           /\ UNCHANGED exist
  BY DEF CollectRetire
<1> DEFINE own == NodesOf(r) \ UNION {NodesOf(o) : o \in history \cup (retiring \ {r})}
<1>3. ASSUME NEW n \in own, exist' = exist \ {n}, UNCHANGED retiring
      PROVE  IInv'
  <2>1. Fresh(n)
    BY DEF Fresh
  <2>2. TypeOK'
    BY <1>1, <1>3 DEF IInv, TypeOK, tree, journal, count
  <2> QED
    BY <1>1, <1>3, <2>1, <2>2, Shrunk DEF Fore, Staging
<1>4. ASSUME retiring' \subseteq retiring, UNCHANGED exist
      PROVE  IInv'
  <2>1. TypeOK'
    BY <1>1, <1>4 DEF IInv, TypeOK, tree, journal, count
  <2>2. StageInv' /\ GoalInv' /\ MarkerInv'
    BY <1>1, <1>4 DEF IInv, StageInv, GoalInv, MarkerInv, Bare, Doing, Fresh, journal
  <2>3. RecordInv' /\ PastInv' /\ ErasedInv' /\ LeafInv'
    BY <1>1, <1>4 DEF IInv, RecordInv, PastInv, ErasedInv, LeafInv, Bare, Doing, Fresh, Present, journal
  <2> QED
    BY <2>1, <2>2, <2>3 DEF IInv
<1> QED
  BY <1>2, <1>3, <1>4

LEMMA UserStep ==
  ASSUME Distinct, IInv, UserAdds \/ UserRemoves
  PROVE  IInv'
<1>1. UNCHANGED <<inside, diskInside, born, exist, planted, past, journal, pc, moved, runs>>
  BY DEF UserAdds, UserRemoves, count
<1>2. visitors' \subseteq Node /\ {name', diskName'} \subseteq {None, Link, Plain, Foreign} \cup Root
  BY DEF UserAdds, UserRemoves, IInv, TypeOK
<1>3. faults' \in 0..MaxFaults
  BY DEF UserAdds, UserRemoves, IInv, TypeOK, Distinct, count
<1>4. TypeOK'
  BY <1>1, <1>2, <1>3 DEF IInv, TypeOK, past, journal
<1> QED
  BY <1>1, <1>4, Stayed

LEMMA CrashStep ==
  ASSUME Distinct, IInv, Crash
  PROVE  IInv'
<1>1. pc' = "down" /\ moved' = None /\ faults' = faults + 1 /\ faults < MaxFaults
      /\ UNCHANGED <<tree, nodes, past, journal, runs>>
  BY DEF Crash
<1>2. TypeOK'
  BY <1>1 DEF Distinct, IInv, TypeOK, tree, nodes, past, journal
<1>3. StageInv'
  BY <1>1 DEF StageInv, CommandStages, Undoing, Ending
<1> QED
  BY <1>1, <1>2, <1>3, Stepped DEF nodes, CommandStages, Undoing, Ending, Fore, Staging

\* Of unlinks that persist in order, a lost record takes the entries with it.
LEMMA PowerLossStep ==
  ASSUME Distinct, IInv, PowerLoss
  PROVE  IInv'
<1>1. PICK now \in {flipped, diskFlipped}, kept \in SUBSET DOMAIN erased :
        /\ OrderedUnlinks => \A i \in kept : \A j \in 1..i : j \in kept
        /\ LET gone == {erased[i] : i \in kept} IN
           /\ record' = IF "record" \in gone THEN NoRecord ELSE record
           /\ entry' = [p \in DOMAIN entry |-> IF p \in gone THEN NoEntry ELSE entry[p]]
           /\ run' = IF "marker" \in gone THEN NoRun ELSE run
           /\ shape' = IF "marker" \in gone /\ now THEN run.to ELSE shape
           /\ flipped' = (now /\ "marker" \notin gone) /\ diskFlipped' = flipped'
           /\ published' = (published /\ "marker" \notin gone)
  BY DEF PowerLoss
<1> DEFINE gone == {erased[i] : i \in kept}
<1>2. /\ name' \in {name, diskName}
      /\ inside' \in [Sub -> Root \cup {None}]
      /\ diskName' = name' /\ diskInside' = inside' /\ erased' = <<>> /\ moved' = None
      /\ pc' = (IF pc = "idle" THEN "idle" ELSE "down")
      /\ faults < MaxFaults /\ faults' = faults + 1
      /\ UNCHANGED <<nodes, history, retiring, runs>>
  BY DEF PowerLoss
<1>3. /\ record' = IF "record" \in gone THEN NoRecord ELSE record
      /\ entry' = [p \in Place |-> IF p \in gone THEN NoEntry ELSE entry[p]]
      /\ run' = IF "marker" \in gone THEN NoRun ELSE run
      /\ shape' = IF "marker" \in gone /\ now THEN run.to ELSE shape
      /\ flipped' = (now /\ "marker" \notin gone) /\ diskFlipped' = flipped'
      /\ published' = (published /\ "marker" \notin gone)
  <2>1. DOMAIN entry = Place
    BY DEF IInv, LeafInv
  <2> QED
    BY <1>1, <2>1
<1>4. "marker" \in gone => Bare /\ run # NoRun
  <2>1. "marker" \in gone => ~Present("marker")
    BY DEF Present
  <2>2. gone # {} => erased # <<>>
    OBVIOUS
  <2> QED
    BY <2>1, <2>2 DEF IInv, ErasedInv
<1>5. /\ now \in BOOLEAN /\ published \in BOOLEAN
      /\ (now => flipped) /\ (flipped => published) /\ (diskFlipped => flipped)
      /\ run = NoRun => Bare /\ ~published /\ ~flipped
  BY <1>1 DEF IInv, TypeOK, MarkerInv
<1>6. Bare => Bare'
  BY <1>3 DEF Bare
<1> HIDE DEF gone
<1>7. shape' \in Shape /\ (shape' \in Receipt => shape' \in history)
  <2>1. CASE "marker" \in gone /\ now
    <3>1. run.to \in history \cup {Link, Plain} /\ run.to \in Shape
      BY <1>4, <1>5, <2>1 DEF IInv, TypeOK, GoalInv
    <3> QED
      BY <1>3, <2>1, <3>1 DEF Distinct
  <2>2. CASE ~("marker" \in gone /\ now)
    BY <1>3, <2>2 DEF IInv, TypeOK, PastInv
  <2> QED
    BY <2>1, <2>2
<1>8. TypeOK'
  <2>1. flipped' \in BOOLEAN /\ diskFlipped' \in BOOLEAN /\ published' \in BOOLEAN
    <3>1. CASE "marker" \in gone
      BY <1>3, <3>1, Zenon
    <3>2. CASE "marker" \notin gone
      BY <1>3, <1>5, <3>2, Zenon
    <3> QED
      BY <3>1, <3>2
  <2>2. erased' \in Seq(Item) /\ faults' \in 0..MaxFaults
    BY <1>2 DEF IInv, TypeOK, Distinct
  <2>3. run' = NoRun \/ run' \in [op : DOMAIN Stages, to : Shape]
    BY <1>3 DEF IInv, TypeOK
  <2>4. \A p \in Place : entry'[p] = NoEntry \/ entry'[p] \in Intent
    BY <1>3 DEF IInv, TypeOK, Place, Intent
  <2>5. record' = NoRecord \/ record' \in Records
    BY <1>3 DEF IInv, TypeOK, Records
  <2>6. /\ {name', diskName'} \subseteq {None, Link, Plain, Foreign} \cup Root
        /\ {inside', diskInside'} \subseteq [Sub -> Root \cup {None}]
        /\ moved' \in Node \cup {None, Link}
    BY <1>2 DEF IInv, TypeOK
  <2> QED
    BY <1>2, <1>7, <2>1, <2>2, <2>3, <2>4, <2>5, <2>6 DEF IInv, TypeOK, nodes, Place, Intent, Records
<1>9. StageInv'
  <2>1. pc = "idle" => run' = NoRun
    BY <1>3 DEF IInv, StageInv
  <2> QED
    BY <1>2, <2>1 DEF StageInv, CommandStages, Undoing, Ending
<1>10. "marker" \notin gone => run' = run /\ shape' = shape /\ published' = published /\ flipped' = now
  BY <1>3, <1>5
<1>11. GoalInv'
  <2>1. CASE "marker" \in gone
    BY <1>3, <2>1 DEF GoalInv
  <2>2. CASE "marker" \notin gone
    <3>1. pc' \notin Fore \cup Staging /\ history' = history
      BY <1>2 DEF Fore, Staging
    <3> QED
      BY <1>10, <2>2, <3>1 DEF IInv, GoalInv, Doing, Fresh
  <2> QED
    BY <2>1, <2>2
<1>12. MarkerInv'
  <2>1. run' = NoRun => Bare /\ ~published' /\ ~flipped'
    BY <1>3, <1>4, <1>5
  <2>2. (diskFlipped' => flipped') /\ (flipped' => published')
    BY <1>3, <1>5
  <2>3. pc' \in {"idle", "down"}
    BY <1>2
  <2> QED
    BY <1>6, <2>1, <2>2, <2>3 DEF MarkerInv, CommandStages, Undoing, Ending
<1>13. RecordInv'
  <2>1. record' # NoRecord => record' = record /\ "marker" \notin gone
    BY <1>3, <1>4 DEF Bare
  <2> QED
    BY <1>2, <1>10, <2>1 DEF IInv, RecordInv, Doing, Fresh
<1>14. PastInv'
  BY <1>2, <1>7 DEF IInv, PastInv, nodes
<1>15. ErasedInv'
  BY <1>2 DEF ErasedInv, Present
<1>16. LeafInv'
  <2>1. entry' = [p \in Place |-> entry'[p]]
    BY <1>3
  <2>2. ASSUME OrderedUnlinks, ~diskFlipped', NEW p \in Leaf, entry'[p] # NoEntry
        PROVE  record' # NoRecord
    <3>1. p \in Place /\ p \notin gone /\ entry[p] # NoEntry
      BY <1>3, <2>2 DEF Place
    <3>2. "marker" \notin gone
      BY <1>4, <3>1 DEF Bare
    <3>3. ~diskFlipped
      BY <1>1, <1>3, <1>5, <2>2, <3>2
    <3>4. record # NoRecord
      BY <2>2, <3>1, <3>3 DEF IInv, LeafInv
    <3>5. "record" \notin gone
      <4> SUFFICES ASSUME NEW i \in kept, erased[i] = "record"  PROVE FALSE
        BY DEF gone
      <4>1. i \in DOMAIN erased
        BY <1>1
      <4>2. PICK j \in 1..(i - 1) : erased[j] = p
        BY <3>1, <3>3, <4>1 DEF IInv, ErasedInv
      <4>3. i \in Nat /\ j \in 1..i
        BY <4>1, <4>2 DEF IInv, TypeOK
      <4>4. j \in kept
        BY <1>1, <2>2, <4>3
      <4> QED
        BY <3>1, <4>2, <4>4 DEF gone
    <3> QED
      BY <1>3, <3>4, <3>5
  <2>3. pc' \notin {"plant", "prune"}
    BY <1>2
  <2> QED
    BY <2>1, <2>2, <2>3 DEF LeafInv
<1> QED
  BY <1>8, <1>9, <1>11, <1>12, <1>13, <1>14, <1>15, <1>16 DEF IInv

-----------------------------------------------------------------------------
\* What is the user's.

\* The user's files are in directories that exist, and the user's object is on the disk.
Held == visitors \subseteq exist /\ (name = Foreign => diskName = Foreign)

Spares ==
  /\ visitors \cap exist' = visitors \cap exist
  /\ name = Foreign /\ ~UserRemoves => name' = Foreign

LEMMA Still ==
  ASSUME Held, UNCHANGED <<name, nodes>>, diskName' \in {name, diskName}
  PROVE  Held' /\ Spares
  BY DEF Held, Spares, nodes

LEMMA StillThere ==
  ASSUME Held, UNCHANGED <<tree, visitors, exist>>
  PROVE  Held' /\ Spares
  BY DEF Held, Spares, tree

LEMMA StillSynced ==
  ASSUME Held, NEW what, Syncs(what), UNCHANGED nodes
  PROVE  Held' /\ Spares
  BY Still DEF Syncs

LEMMA StillMoved ==
  ASSUME Held, NEW n, NEW to, NEW next, Move(n, to, next), n \in Sub \/ (name # Foreign /\ to # Foreign)
  PROVE  Held' /\ Spares
<1>1. CASE n \in Sub
  BY <1>1, Still DEF Move
<1>2. CASE n \notin Sub
  BY <1>2 DEF Move, Held, Spares, nodes
<1> QED
  BY <1>1, <1>2

LEMMA StillNamed ==
  ASSUME Held, NEW to, SetName(to), name # Foreign, to # Foreign
  PROVE  Held' /\ Spares
  BY StillMoved DEF SetName

LEMMA StillInstalled ==
  ASSUME Distinct, Held, NEW r \in Receipt, NEW n \in {r.root, r.sub}, NEW restoring, NEW next,
         Install(r, n, restoring, next)
  PROVE  Held' /\ Spares
<1>1. r.root \in Root /\ r.sub \in Sub \cup {None}
  BY ReceiptTypes
<1>2. CASE AtStage(n) /\ Move(n, r.root, next) /\ (n \in Root => name = None)
                      /\ (n \notin Root => name = r.root)
  BY <1>1, <1>2, StillMoved DEF Distinct
<1>3. CASE Refuse
  BY <1>3, StillThere DEF Refuse, Go, nodes
<1> QED
  BY <1>2, <1>3 DEF Install

LEMMA StillRetired ==
  ASSUME Distinct, Held, NEW r \in Receipt, NEW n \in NodesOf(r), Retire(r, n)
  PROVE  Held' /\ Spares
<1>1. r.root \in Root /\ (name = r.root \/ Refuse)
  BY ReceiptTypes DEF Retire, InPlace
<1>2. CASE Refuse
  BY <1>2, StillThere DEF Refuse, Go, nodes
<1>3. CASE ~Refuse
  <2>1. Move(n, None, n \in Root /\ r.sub # None) /\ name # Foreign /\ None # Foreign
    BY <1>1, <1>3 DEF Retire, Distinct
  <2> QED
    BY <2>1, StillMoved
<1> QED
  BY <1>2, <1>3

\* A directory that is removed holds nothing of the user's.
LEMMA StillShrunk ==
  ASSUME Held, NEW n, Empty(n), exist' = exist \ {n}, UNCHANGED <<name, visitors>>,
         diskName' \in {name, diskName}
  PROVE  Held' /\ Spares
  BY DEF Held, Spares, Empty

LEMMA StillDiscarded ==
  ASSUME Held, NEW n, Discard(n)
  PROVE  Held' /\ Spares
<1>1. CASE Refuse
  BY <1>1, StillThere DEF Refuse, Go, nodes
<1>2. CASE ~Refuse
  BY <1>2, StillShrunk DEF Discard
<1> QED
  BY <1>1, <1>2

LEMMA StillGoes ==
  ASSUME Held, NEW stage, Go(stage)
  PROVE  Held' /\ Spares
  BY StillThere DEF Go, nodes

LEMMA StillRefused ==
  ASSUME Held, Refuse
  PROVE  Held' /\ Spares
  BY StillGoes DEF Refuse

LEMMA CommandSpares ==
  ASSUME Distinct, IInv, Held, Command
  PROVE  Held' /\ Spares
<1>1. CASE Bind \/ Prune \/ Plant \/ Seal \/ Flip \/ Erase \/ Unmark
  <2>1. UNCHANGED <<tree, visitors, exist>>
    BY <1>1 DEF Bind, Prune, Plant, Seal, Flip, Erase, Unmark, Refuse, Go, Persist, SetLeaf, nodes
  <2> QED
    BY <2>1, StillThere
<1>2. CASE Prepare
  <2>1. pc = "prepare" /\ pc \in CommandStages
    BY <1>2 DEF Prepare, CommandStages
  <2>2. exist' = exist \cup (NodesOf(run.to) \ born) /\ UNCHANGED <<tree, visitors>> /\ exist \subseteq born
    BY <1>2 DEF Prepare, IInv, TypeOK
  <2> QED
    BY <2>2 DEF Held, Spares, tree
<1>3. CASE Reverse
  <2>1. shape \in Receipt
    BY <1>3, StageShapes DEF Reverse, CommandStages
  <2>2. CASE UNCHANGED <<tree, visitors, exist>>
    BY <2>2, StillThere
  <2>3. CASE Retire(shape, ToRetire(shape))
    BY <2>1, <2>3, NextNodes, StillRetired
  <2>4. CASE name = None /\ SetName(Link)
    BY <2>4, StillNamed DEF Distinct
  <2> QED
    BY <1>3, <2>2, <2>3, <2>4 DEF Reverse, Persist, Refuse, Go, nodes
<1>4. CASE Origin
  <2>1. CASE name = Link /\ SetName(Plain)
    BY <2>1, StillNamed DEF Distinct
  <2>2. CASE UNCHANGED <<tree, visitors, exist>>
    BY <2>2, StillThere
  <2> QED
    BY <1>4, <2>1, <2>2 DEF Origin, Refuse, Go, nodes
<1>5. CASE Publish
  <2>1. run.to \in Receipt /\ Doing({"migrate", "evolve", "reshape", "exchange", "reactivate"})
    BY <1>5, StageShapes DEF Publish, CommandStages
  <2>2. CASE UNCHANGED <<tree, visitors, exist>>
    BY <2>2, StillThere
  <2>3. CASE name \in {Link, Plain} /\ SetName(None)
    BY <2>3, StillNamed DEF Distinct
  <2>4. CASE Install(run.to, ToInstall(run.to), FALSE, name = run.to.root)
    BY <2>1, <2>4, NextNodes, StillInstalled
  <2>5. CASE Direction = "Evolve" /\ shape.sub \notin {None, run.to.sub} /\ Retire(shape, shape.sub)
    <3>1. shape \in Receipt
      <4>1. Doing({"evolve", "reshape"})
        BY <2>1, <2>5, Directions
      <4>2. run # NoRun
        BY <1>5, StageShapes DEF Publish, CommandStages
      <4> QED
        BY <4>1, <4>2 DEF IInv, GoalInv, Doing
    <3>2. shape.sub \in NodesOf(shape)
      BY <2>5, <3>1 DEF NodesOf
    <3> QED
      BY <2>5, <3>1, <3>2, StillRetired
  <2>6. CASE Install(run.to, run.to.sub, FALSE, FALSE)
    BY <2>1, <2>6, StillInstalled
  <2>7. CASE Direction = "Evolve"
    BY <1>5, <2>2, <2>5, <2>6, <2>7 DEF Publish, PublishShape, Persist, Refuse, Go, nodes
  <2>8. CASE Direction # "Evolve"
    BY <1>5, <2>2, <2>3, <2>4, <2>8 DEF Publish, PublishTree, Persist, Refuse, Go, nodes
  <2> QED
    BY <2>7, <2>8
<1>6. CASE Finish
  <2>1. shape \in Receipt
    BY <1>6, StageShapes DEF Finish, CommandStages
  <2>2. CASE UNCHANGED <<tree, visitors, exist>>
    BY <2>2, StillThere
  <2>3. CASE shape.sub # None /\ Retire(shape, shape.sub)
    <3>1. shape.sub \in NodesOf(shape)
      BY <2>1, <2>3 DEF NodesOf
    <3> QED
      BY <2>1, <2>3, <3>1, StillRetired
  <2> QED
    BY <1>6, <2>2, <2>3 DEF Finish, Go, nodes
<1>7. CASE Commit
  BY <1>7, StillSynced, StillGoes, StillRefused DEF Commit
<1> QED
  BY <1>1, <1>2, <1>3, <1>4, <1>5, <1>6, <1>7 DEF Command

LEMMA TreeSpares ==
  ASSUME Distinct, Held, shape \in Receipt, RestoreTree
  PROVE  Held' /\ Spares
  BY NextNodes, StillInstalled, StillSynced DEF RestoreTree

LEMMA EvolvedSpares ==
  ASSUME Distinct, Held, shape \in Receipt, NEW target \in Receipt, RestoreEvolved(target)
  PROVE  Held' /\ Spares
<1> DEFINE new == IF target.sub = shape.sub THEN None ELSE target.sub
           old == IF target.sub = shape.sub THEN None ELSE shape.sub
<1>1. CASE new # None /\ Retire(target, new)
  <2>1. new \in NodesOf(target)
    BY <1>1 DEF NodesOf
  <2> QED
    BY <1>1, <2>1, StillRetired
<1>2. CASE old # None /\ Install(shape, old, TRUE, FALSE)
  <2>1. old \in {shape.root, shape.sub}
    BY <1>2
  <2> QED
    BY <1>2, <2>1, StillInstalled
<1>3. CASE ClearLeaf(target, new)
  BY <1>3, StillThere DEF ClearLeaf
<1>4. \/ Refuse \/ ClearLeaf(target, new)
      \/ new # None /\ Retire(target, new)
      \/ old # None /\ Install(shape, old, TRUE, FALSE)
      \/ Discard(new)
      \/ Syncs(IF old # None THEN "inside" ELSE "none") /\ UNCHANGED nodes
  BY DEF RestoreEvolved
<1> QED
  BY <1>1, <1>2, <1>3, <1>4, StillRefused, StillDiscarded, StillSynced

LEMMA RecoverySpares ==
  ASSUME Distinct, IInv, Held, Recovery
  PROVE  Held' /\ Spares
<1>1. CASE Recover
  BY <1>1, StillThere DEF Recover, nodes
<1>2. CASE RecoverRoot
  <2>1. CASE name \in {Plain, None} /\ SetName(Link)
    BY <2>1, StillNamed DEF Distinct
  <2>2. ASSUME NEW what, Syncs(what), UNCHANGED nodes  PROVE Held' /\ Spares
    BY <2>2, StillSynced
  <2> QED
    BY <1>2, <2>1, <2>2, StillRefused DEF RecoverRoot
<1>3. CASE RecoverBefore
  <2>1. CASE Kind = "Reverse"
    <3>1. shape \in Receipt /\ RestoreReversed
      BY <1>3, <2>1, RecordIs DEF RecoverBefore
    <3>2. CASE name = Link /\ SetName(None)
      BY <3>2, StillNamed DEF Distinct
    <3> QED
      BY <3>1, <3>2, TreeSpares, StillRefused DEF RestoreReversed
  <2>2. CASE Kind = "Exchange"
    <3>1. shape \in Receipt /\ Record.node \in Receipt /\ RestoreExchanged(Record.node)
      BY <1>3, <2>2, RecordIs DEF RecoverBefore
    <3>2. CASE name = Link /\ SetName(None)
      BY <3>2, StillNamed DEF Distinct
    <3>3. CASE Retire(Record.node, ToRetire(Record.node))
      BY <3>1, <3>3, NextNodes, StillRetired
    <3>4. CASE \E n : ClearLeaf(Record.node, n)
      BY <3>4, StillThere DEF ClearLeaf
    <3> QED
      BY <3>1, <3>2, <3>3, <3>4, TreeSpares, StillRefused DEF RestoreExchanged
  <2>3. CASE Kind = "Evolve"
    BY <1>3, <2>3, RecordIs, EvolvedSpares DEF RecoverBefore
  <2>4. CASE Kind \notin {"Reverse", "Exchange", "Evolve"}
    BY <1>3, <2>4, StillGoes DEF RecoverBefore
  <2> QED
    BY <2>1, <2>2, <2>3, <2>4
<1>4. CASE RecoverLeaves
  <2>1. CASE UNCHANGED <<tree, visitors, exist>>
    BY <2>1, StillThere
  <2>2. ASSUME NEW what, Syncs(what), UNCHANGED nodes  PROVE Held' /\ Spares
    BY <2>2, StillSynced
  <2> QED
    BY <1>4, <2>1, <2>2, StillRefused DEF RecoverLeaves
<1>5. CASE RecoverAfter
  <2>1. CASE Kind \in {"Forward", "Reactivate"}
    <3>1. Record.node \in Receipt /\ shape \in {Link, Plain}
      BY <2>1, RecordIs
    <3>2. CASE Retire(Record.node, ToRetire(Record.node))
      BY <3>1, <3>2, NextNodes, StillRetired
    <3>3. CASE name = None /\ SetName(shape)
      BY <3>1, <3>3, StillNamed DEF Distinct
    <3>4. CASE \E n : Discard(n)
      BY <3>4, StillDiscarded
    <3>5. CASE Syncs("all") /\ UNCHANGED nodes
      BY <3>5, StillSynced
    <3> QED
      BY <1>5, <2>1, <3>2, <3>3, <3>4, <3>5, StillRefused DEF RecoverAfter
  <2>2. CASE Kind \notin {"Forward", "Reactivate"}
    BY <1>5, <2>2, StillGoes DEF RecoverAfter
  <2> QED
    BY <2>1, <2>2
<1> QED
  BY <1>1, <1>2, <1>3, <1>4, <1>5 DEF Recovery

LEMMA NextSpares ==
  ASSUME Distinct, IInv, Held, [Next]_vars
  PROVE  Held' /\ Spares
<1>1. CASE UNCHANGED vars
  BY <1>1, StillThere DEF vars, nodes
<1>2. CASE (\E c \in Commands : Begin(c)) \/ CollectPrune \/ Crash
  BY <1>2, StillThere DEF Begin, CollectPrune, Crash, nodes
<1>3. CASE Sync
  BY <1>3, StillSynced DEF Sync
<1>4. CASE CollectRetire
  <2>1. UNCHANGED <<tree, visitors>> /\ (UNCHANGED exist \/ \E n : Empty(n) /\ exist' = exist \ {n})
    BY <1>4 DEF CollectRetire
  <2> QED
    BY <2>1, StillThere, StillShrunk DEF tree
<1>5. CASE UserAdds \/ UserRemoves
  BY <1>5 DEF UserAdds, UserRemoves, Held, Spares, count
<1>6. CASE PowerLoss
  BY <1>6 DEF PowerLoss, Held, Spares, nodes
<1> QED
  BY <1>1, <1>2, <1>3, <1>4, <1>5, <1>6, CommandSpares, RecoverySpares DEF Next, Program

-----------------------------------------------------------------------------
\* The invariant holds, and what it says.

LEMMA InitInv ==
  ASSUME Distinct, Init
  PROVE  IInv
<1>1. TypeOK
  <2>1. inside \in [Sub -> Root \cup {None}] /\ <<>> \in Seq(Item) /\ 0 \in 0..MaxRuns /\ 0 \in 0..MaxFaults
    BY DEF Init, Distinct
  <2>2. published \in BOOLEAN /\ flipped \in BOOLEAN /\ diskFlipped \in BOOLEAN
    BY Zenon DEF Init
  <2> QED
    BY <2>1, <2>2 DEF Init, TypeOK, Shape
<1>2. StageInv /\ GoalInv /\ RecordInv /\ PastInv
  BY DEF Init, Distinct, StageInv, GoalInv, RecordInv, PastInv, CommandStages, Undoing, Ending
<1>3. MarkerInv /\ ErasedInv /\ LeafInv
  BY DEF Init, MarkerInv, ErasedInv, LeafInv, Bare, Present, Place, CommandStages, Undoing, Ending
<1> QED
  BY <1>1, <1>2, <1>3 DEF IInv

LEMMA NextInv ==
  ASSUME Distinct, IInv, [Next]_vars
  PROVE  IInv'
<1>1. CASE UNCHANGED vars
  <2>1. TypeOK'
    BY <1>1 DEF IInv, TypeOK, vars, tree, nodes, past, journal, count
  <2> QED
    BY <1>1, <2>1, Stayed DEF vars, nodes
<1>2. CASE \E c \in Commands : Begin(c)
  BY <1>2, BeginStep
<1>3. CASE Command
  BY <1>3, BindStep, PrepareStep, PruneStep, ReverseStep, OriginStep, PublishStep, PlantStep,
     FinishStep, SealStep, FlipStep, CommitStep, EraseStep, UnmarkStep DEF Command
<1>4. CASE Sync \/ Recovery
  BY <1>4, SyncStep, RecoverStep, RecoverRootStep, RecoverBeforeStep, RecoverLeavesStep,
     RecoverAfterStep DEF Recovery
<1>5. CASE CollectPrune \/ CollectRetire
  BY <1>5, CollectPruneStep, CollectRetireStep
<1>6. CASE UserAdds \/ UserRemoves \/ Crash \/ PowerLoss
  BY <1>6, UserStep, CrashStep, PowerLossStep
<1> QED
  BY <1>1, <1>2, <1>3, <1>4, <1>5, <1>6 DEF Next, Program

\* The invariant is one of the specification.
THEOREM Invariance ==
  ASSUME Distinct
  PROVE  Spec => []IInv
<1>1. Init => IInv
  BY InitInv
<1>2. IInv /\ [Next]_vars => IInv'
  BY NextInv
<1> QED
  BY <1>1, <1>2, PTL DEF Spec

\* The journal's records, the directories and the generations keep their types through
\* every command, recovery, collection, crash and power loss.
THEOREM TypeCorrect ==
  ASSUME Distinct
  PROVE  Spec => []TypeOK
<1>1. IInv => TypeOK
  BY DEF IInv
<1> QED
  BY <1>1, Invariance, PTL

\* Every directory that a retained or the selected generation names exists, however runs,
\* recoveries and collections are cut, and in whatever order unlinks reach the disk.
THEOREM RetainedAlwaysSurvive ==
  ASSUME Distinct
  PROVE  Spec => []RetainedSurvive
<1>1. IInv => RetainedSurvive
  BY DEF IInv, PastInv, RetainedSurvive
<1> QED
  BY <1>1, Invariance, PTL

\* While recovery looks for a journaled leaf, it still has the record of the directories
\* the leaf is in, provided unlinks persist in order.
LEMMA RecordIsThere ==
  ASSUME Distinct, OrderedUnlinks, IInv, pc = "r_leaves", NEW p \in Leaf, Entry(p) # NoEntry
  PROVE  Kind # "none"
<1>1. entry[p] # NoEntry /\ Present(p) /\ p \in Place
  BY DEF Entry, Place
<1>2. ~diskFlipped
  BY DEF IInv, MarkerInv, Undoing
<1>3. record # NoRecord /\ record \in Records
  BY <1>1, <1>2 DEF IInv, TypeOK, LeafInv, Records
<1>4. Present("record")
  <2> SUFFICES ASSUME NEW i \in DOMAIN erased, erased[i] = "record"  PROVE FALSE
    BY DEF Present
  <2>1. PICK j \in 1..(i - 1) : erased[j] = p
    BY <1>1, <1>2 DEF IInv, ErasedInv
  <2>2. j \in DOMAIN erased
    BY <2>1 DEF IInv, TypeOK
  <2> QED
    BY <1>1, <2>1, <2>2 DEF Present
<1> QED
  BY <1>3, <1>4 DEF Kind, Record, Records

\* Recovery looks leaves up in the hierarchy their record names, never through the link
\* that stands at the destination, provided unlinks persist in order.
THEOREM PinsHierarchy ==
  ASSUME Distinct, OrderedUnlinks
  PROVE  Spec => []PinsTheHierarchy
<1>1. IInv => PinsTheHierarchy
  <2> SUFFICES ASSUME IInv, pc = "r_leaves", NEW p \in Leaf, Entry(p) # NoEntry
               PROVE  LeafCase(p) # "ambient"
    BY DEF PinsTheHierarchy
  <2>1. Kind # "none"
    BY RecordIsThere
  <2> QED
    BY <2>1 DEF LeafCase
<1> QED
  BY <1>1, Invariance, PTL

\* What the user puts into an owned directory, or at the destination, outlasts every step
\* that is not the user's: no such directory is removed and no such object replaced.
THEOREM ForeignAlwaysSurvives ==
  ASSUME Distinct
  PROVE  Spec => ForeignSurvives
<1>1. Init => Held
  BY DEF Init, Held
<1>2. IInv /\ Held /\ [Next]_vars => Held'
  BY NextSpares
<1>3. IInv /\ Held /\ [Next]_vars =>
        [/\ visitors \cap exist' = visitors \cap exist
         /\ name = Foreign /\ ~UserRemoves => name' = Foreign]_vars
  BY NextSpares DEF Spares
<1> QED
  BY <1>1, <1>2, <1>3, Invariance, PTL DEF Spec, ForeignSurvives
==============================
