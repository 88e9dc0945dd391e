--------------------------- MODULE DirectoryJournal ---------------------------
(***************************************************************************)
(* Journal records of version 3: how one destination stops being an owned  *)
(* link and becomes a tree of directories that gripsack owns by identity,  *)
(* how that tree grows, shrinks, is exchanged for another or becomes the   *)
(* link again, and what recovery does when a run stops on the way          *)
(* (crates/gripsack-store/src/journal/directory*.rs).                      *)
(*                                                                         *)
(* A receipt names the exact directories of a tree: a root and at most one *)
(* directory below it, at one fixed path.  Every owned directory has its   *)
(* own staging name beside the destination, where it waits, empty, while   *)
(* no selected generation shows it.  `deep' says where the one leaf of the *)
(* tree is: in the directory below the root, or in the root.               *)
(*                                                                         *)
(* Left out: the leaf journal's own steps (module Journal: here a leaf is  *)
(* written durably in one step), directories borrowed from the user, a     *)
(* leaf declared at the path of a directory, several destinations.         *)
(***************************************************************************)
EXTENDS Naturals, FiniteSets, Sequences

CONSTANTS
  Root,           \* birth identities for roots ...
  Sub,            \* ... and for the directory below a root
  None,           \* no directory, no object
  Link,           \* the owned link into the store, and the shape that shows it
  Plain,          \* what the user had there before gripsack, and that shape
  Foreign,        \* an object gripsack did not make
  NoRecord, NoEntry, NoRun,
  OrderedUnlinks, \* whether the file system persists a directory's unlinks in order
  MaxRuns,        \* bound: commands
  MaxFaults       \* bound: crashes, power losses and user interferences

VARIABLES
  name, diskName,       \* the object at the destination
  inside, diskInside,   \* the root a sub directory is in, None when staged
  born, exist,          \* directories made so far, and those still there
  planted, visitors,    \* directories with a gripsack leaf, with a user's file
  shape,                \* what the selected generation shows
  history, retiring,    \* receipts of retained and of pruned manifests
  run,                  \* the run the marker declares
  published,            \* the manifest of its goal is in place
  flipped, diskFlipped, \* current selects its goal
  record, entry,        \* the directory record and the leaf entries
  erased,               \* journal files unlinked, not yet durably
  pc, moved,            \* the stage of the command; it must sync a move
  runs, faults

tree    == <<name, diskName, inside, diskInside>>
nodes   == <<born, exist, planted, visitors>>
past    == <<shape, history, retiring>>
journal == <<run, published, flipped, diskFlipped, record, entry, erased>>
count   == <<runs, faults>>
vars    == <<tree, nodes, past, journal, pc, moved, count>>

Node    == Root \cup Sub
Receipt == {r \in [root : Root, sub : Sub \cup {None}, deep : BOOLEAN] :
              r.deep => r.sub # None}
Shape   == {Link, Plain} \cup Receipt
Leaf    == {"x", "y"}         \* the leaf below the sub directory, and in the root
Item    == Leaf \cup {"root", "record", "marker"}

\* The stages each kind of command goes through before its flip.
Stages ==
  [migrate    |-> <<"prepare", "publish", "plant", "seal", "flip">>,
   evolve     |-> <<"bind", "prepare", "publish", "plant", "prune", "finish", "seal", "flip">>,
   reshape    |-> <<"bind", "prune", "publish", "plant", "flip">>,
   exchange   |-> <<"bind", "prune", "reverse", "publish", "plant", "flip">>,
   reactivate |-> <<"publish", "plant", "flip">>,
   reverse    |-> <<"bind", "prune", "reverse", "flip">>,
   retire     |-> <<"bind", "prune", "reverse", "origin", "seal", "flip">>]

NextStage == LET s == Stages[run.op] IN s[1 + CHOOSE i \in DOMAIN s : s[i] = pc]

NodesOf(r) == IF r \in Receipt THEN {r.root, r.sub} \ {None} ELSE {}
LeafOf(r) == IF r.deep THEN "x" ELSE "y"
Holder(r, p) == IF p = "x" THEN r.sub ELSE r.root

Empty(n) == n \notin planted \cup visitors /\ \A s \in Sub : inside[s] # n
AtStage(n) == n \in exist /\ IF n \in Root THEN name # n ELSE inside[n] = None
InPlace(r, n) == name = r.root /\ (n \in Sub => inside[n] = r.root)
Reachable(r, p) == Holder(r, p) # None /\ InPlace(r, Holder(r, p))
Staged(r) == \A n \in NodesOf(r) : AtStage(n) /\ Empty(n)

Present(item) == \A i \in DOMAIN erased : erased[i] # item
Record == IF Present("record") THEN record ELSE NoRecord
Entry(p) == IF Present(p) THEN entry[p] ELSE NoEntry
Kind == IF Record = NoRecord THEN "none" ELSE Record.kind

TypeOK ==
  /\ {name, diskName} \subseteq {None, Link, Plain, Foreign} \cup Root
  /\ {inside, diskInside} \subseteq [Sub -> Root \cup {None}]
  /\ exist \subseteq born /\ born \subseteq Node
  /\ planted \subseteq Node /\ visitors \subseteq Node
  /\ shape \in Shape /\ history \subseteq Receipt /\ retiring \subseteq Receipt
  /\ run = NoRun \/ run \in [op : DOMAIN Stages, to : Shape]
  /\ {published, flipped, diskFlipped} \subseteq BOOLEAN
  /\ \/ record = NoRecord
     \/ record \in [kind : {"Bound", "Forward", "Reverse", "Evolve", "Exchange",
                            "Reactivate"}, node : Receipt]
  /\ \A p \in Leaf \cup {"root"} :
       entry[p] = NoEntry \/ entry[p] \in [prior : BOOLEAN, after : BOOLEAN]
  /\ erased \in Seq(Item)
  /\ moved \in Node \cup {None, Link}
  /\ runs \in 0..MaxRuns /\ faults \in 0..MaxFaults

Init ==
  /\ name = Link /\ diskName = Link
  /\ inside = [s \in Sub |-> None] /\ diskInside = inside
  /\ born = {} /\ exist = {} /\ planted = {} /\ visitors = {}
  /\ shape = Link /\ history = {} /\ retiring = {}
  /\ run = NoRun /\ published = FALSE /\ flipped = FALSE /\ diskFlipped = FALSE
  /\ record = NoRecord /\ entry = [p \in Leaf \cup {"root"} |-> NoEntry]
  /\ erased = <<>>
  /\ pc = "idle" /\ moved = None /\ runs = 0 /\ faults = 0

-----------------------------------------------------------------------------
(* Steps.  A move shows at once and lasts from its sync; nothing else of   *)
(* the command runs in between.                                            *)

Syncs(what) ==
  /\ diskName' = IF what = "all" THEN name ELSE diskName
  /\ diskInside' = IF what \in {"all", "inside"} THEN inside ELSE diskInside
  /\ UNCHANGED <<name, inside>>

Go(stage) == pc' = stage /\ UNCHANGED <<tree, nodes, past, journal, moved, count>>

\* An error ends the command; its run-level rollback is the recovery below.
Refuse == Go("refused")

\* Directories are moved in order; the one before, even found where it
\* belongs, has been synced.
Move(n, to, next) ==
  /\ IF n \in Sub THEN inside' = [inside EXCEPT ![n] = to] /\ UNCHANGED name
                  ELSE name' = to /\ UNCHANGED inside
  /\ moved' = n
  /\ diskName' = (IF next THEN name ELSE diskName)
  /\ diskInside' = (IF next THEN inside ELSE diskInside)
  /\ UNCHANGED <<nodes, past, journal, pc, count>>

SetName(to) == Move(Link, to, FALSE)

\* nodes::install, nodes::restore: from its staging name to its place.
Install(r, n, restoring, next) ==
  IF /\ AtStage(n) /\ (restoring \/ Empty(n))
     /\ IF n \in Root THEN name = None
                      ELSE name = r.root /\ \A s \in Sub : inside[s] # r.root
  THEN Move(n, r.root, next) ELSE Refuse

\* nodes::retire: the empty directory goes back to its staging name.
Retire(r, n) == IF InPlace(r, n) /\ Empty(n) THEN Move(n, None, n \in Root /\ r.sub # None)
                                                ELSE Refuse

\* The first directory of r still to place, the last still to retire.
ToInstall(r) == IF name # r.root THEN r.root ELSE r.sub
ToRetire(r) == IF r.sub # None /\ r.sub \in exist /\ ~AtStage(r.sub) THEN r.sub ELSE r.root
AllInPlace(r) == \A n \in NodesOf(r) : InPlace(r, n)

\* The directory a restored tree gets back is not looked into; every other
\* must be empty where it now is.
Sync ==
  /\ moved # None
  /\ moved' = None
  /\ Syncs("all")
  /\ pc' = IF moved = Link \/ (pc = "r_before" /\ moved \in NodesOf(shape)) \/ Empty(moved)
           THEN pc ELSE "refused"
  /\ UNCHANGED <<nodes, past, journal, count>>

Persist(kind, node) ==
  /\ record' = [kind |-> kind, node |-> node]
  /\ UNCHANGED <<tree, nodes, past, run, published, flipped, diskFlipped, entry, erased,
                 pc, moved, count>>

Intends(p, wanted) == entry[p] # NoEntry /\ entry[p].after = wanted

\* A leaf is journaled with its first prior and its latest intent, then
\* written or removed.
SetLeaf(r, p, wanted) ==
  IF ~Reachable(r, p) THEN Refuse
  ELSE \/ /\ ~Intends(p, wanted)
          /\ entry' = [entry EXCEPT ![p] =
               [prior |-> IF @ = NoEntry THEN ~wanted ELSE @.prior, after |-> wanted]]
          /\ UNCHANGED <<tree, nodes, past, run, published, flipped, diskFlipped, record,
                         erased, pc, moved, count>>
       \/ /\ Intends(p, wanted)
          /\ planted' = IF wanted THEN planted \cup {Holder(r, p)}
                                  ELSE planted \ {Holder(r, p)}
          /\ UNCHANGED <<tree, born, exist, visitors, past, journal, pc, moved, count>>

-----------------------------------------------------------------------------
(* Commands.                                                               *)

\* The commands that may start from the selected shape.
Commands ==
  IF shape \in Receipt
  THEN {[op |-> "evolve", to |-> [shape EXCEPT !.deep = ~@, !.sub = s]] :
          s \in IF shape.sub # None THEN {shape.sub} ELSE Sub \ born}
       \cup {[op |-> IF r.root = shape.root THEN "reshape" ELSE "exchange", to |-> r] :
               r \in history \ {shape}}
       \cup {[op |-> "reverse", to |-> Link], [op |-> "retire", to |-> Plain]}
  ELSE {[op |-> "reactivate", to |-> r] : r \in history}
       \cup IF shape = Plain THEN {}
            ELSE {[op |-> "migrate", to |-> r] :
                    r \in {r \in Receipt : NodesOf(r) \cap born = {} /\ (r.deep <=> r.sub # None)}}

\* The marker is durable before anything moves; a rollback's goal is a
\* published generation already.
Begin(c) ==
  /\ pc = "idle" /\ runs < MaxRuns
  /\ run' = c /\ pc' = Head(Stages[c.op])
  /\ published' = (c.op \in {"reshape", "exchange", "reactivate", "reverse"})
  /\ runs' = runs + 1
  /\ UNCHANGED <<tree, nodes, past, flipped, diskFlipped, record, entry, erased, moved, faults>>

\* bind_existing
Bind ==
  /\ pc = "bind"
  /\ IF ~AllInPlace(shape) THEN Refuse
     ELSE IF Kind = "none" THEN Persist("Bound", shape) ELSE Go(NextStage)

\* New directories are born, durably, at their staging names.
Prepare ==
  /\ pc = "prepare"
  /\ born' = born \cup NodesOf(run.to)
  /\ exist' = exist \cup (NodesOf(run.to) \ born)
  /\ pc' = NextStage
  /\ UNCHANGED <<tree, planted, visitors, past, journal, moved, count>>

\* The leaf the goal does not keep where it is goes first in a rollback, last
\* in an apply.
Prune ==
  /\ pc = "prune"
  /\ LET p == LeafOf(shape)
         goes == run.op # "reshape" \/ run.to.deep # shape.deep
                 \/ (shape.deep /\ run.to.sub # shape.sub) IN
     IF goes /\ Holder(shape, p) \in planted THEN SetLeaf(shape, p, FALSE) ELSE Go(NextStage)

\* directory_lifecycle::reverse: the tree retires, the link comes back.
Reverse ==
  /\ pc = "reverse"
  /\ IF Kind # "Reverse"
     THEN IF AllInPlace(shape) /\ NodesOf(shape) \cap (planted \cup visitors) = {}
          THEN Persist("Reverse", shape) ELSE Refuse
     ELSE IF name = Link THEN Go(NextStage)
     ELSE IF ~Staged(shape) THEN Retire(shape, ToRetire(shape))
     ELSE IF name = None THEN SetName(Link) ELSE Refuse

\* directory_retirement::retire: what the user had comes back over the link.
Origin ==
  /\ pc = "origin"
  /\ IF name = Plain THEN Go(NextStage)
     ELSE IF name # Link THEN Refuse
     ELSE IF entry["root"] # NoEntry THEN SetName(Plain)
     ELSE /\ entry' = [entry EXCEPT !["root"] = [prior |-> TRUE, after |-> TRUE]]
          /\ UNCHANGED <<tree, nodes, past, run, published, flipped, diskFlipped, record,
                         erased, pc, moved, count>>

Direction == [migrate |-> "Forward", reactivate |-> "Reactivate", exchange |-> "Exchange",
              evolve |-> "Evolve", reshape |-> "Evolve"][run.op]

\* publish, reactivate: the link gives way to the staged tree.
PublishTree(to) ==
  IF Kind # Direction
  THEN IF Staged(to) /\ name = (IF shape = Plain THEN Plain ELSE Link)
       THEN Persist(Direction, to) ELSE Refuse
  ELSE IF AllInPlace(to) THEN Go(NextStage)
  ELSE IF name \in {Link, Plain} THEN SetName(None)
  ELSE Install(to, ToInstall(to), FALSE, name = to.root)

\* directory_shape::apply: the root stays, what is below it changes.
PublishShape(to) ==
  IF Record # [kind |-> "Evolve", node |-> to] THEN Persist("Evolve", to)
  ELSE IF shape.sub \notin {None, to.sub} /\ ~AtStage(shape.sub) THEN Retire(shape, shape.sub)
  ELSE IF to.sub \notin {None, shape.sub} /\ ~InPlace(to, to.sub) THEN Install(to, to.sub, FALSE, FALSE)
  ELSE Go(NextStage)

Publish ==
  /\ pc = "publish"
  /\ IF Direction = "Evolve" THEN PublishShape(run.to) ELSE PublishTree(run.to)

Plant ==
  /\ pc = "plant"
  /\ LET p == LeafOf(run.to) IN
     IF Holder(run.to, p) \in planted THEN Go(NextStage) ELSE SetLeaf(run.to, p, TRUE)

\* directory_evolution::finish: a directory no leaf needs retires if nothing
\* of the user's is in it.
Finish ==
  /\ pc = "finish"
  /\ IF ~run.to.deep /\ run.to.sub # None /\ Empty(run.to.sub)
     THEN /\ run' = [run EXCEPT !.to.sub = None]
          /\ record' = [kind |-> "Evolve", node |-> run'.to]
          /\ UNCHANGED <<tree, nodes, past, published, flipped, diskFlipped, entry, erased,
                         pc, moved, count>>
     ELSE IF run.to.sub = None /\ shape.sub # None /\ ~AtStage(shape.sub)
          THEN Retire(shape, shape.sub) ELSE Go(NextStage)

Seal ==
  /\ pc = "seal"
  /\ published' = TRUE
  /\ history' = history \cup ({run.to} \cap Receipt)
  /\ pc' = NextStage
  /\ UNCHANGED <<tree, nodes, shape, retiring, run, flipped, diskFlipped, record, entry,
                 erased, moved, count>>

Flip ==
  /\ pc = "flip"
  /\ flipped' = TRUE /\ diskFlipped' = flipped
  /\ pc' = IF flipped THEN "commit" ELSE "flip"
  /\ UNCHANGED <<tree, nodes, past, run, published, record, entry, erased, moved, count>>

\* directory_lifecycle::committed: what was left must be back at its stages.
Commit ==
  /\ pc = "commit"
  /\ IF Kind \in {"Reverse", "Exchange"}
     THEN IF Staged(shape)
          THEN /\ Syncs("all") /\ pc' = "erase"
               /\ UNCHANGED <<nodes, past, journal, moved, count>>
          ELSE Refuse
     ELSE Go("erase")

\* The entries and the record go in one batch (recovery: entries first), the
\* marker after their sync.
Left == {i \in Leaf \cup {"root"} : Entry(i) # NoEntry}
        \cup IF Record = NoRecord THEN {} ELSE {"record"}

Erase ==
  /\ pc = "erase"
  /\ \/ \E i \in Left :
          /\ i = "record" /\ ~flipped => Left = {"record"}
          /\ erased' = Append(erased, i)
          /\ UNCHANGED <<record, entry, pc>>
     \/ /\ Left = {}
        /\ record' = NoRecord /\ entry' = [p \in DOMAIN entry |-> NoEntry]
        /\ erased' = <<>> /\ pc' = "unmark"
  /\ UNCHANGED <<tree, nodes, past, run, published, flipped, diskFlipped, moved, count>>

Unmark ==
  /\ pc = "unmark"
  /\ \/ /\ erased = <<>> /\ erased' = <<"marker">>
        /\ UNCHANGED <<shape, run, published, flipped, diskFlipped, pc>>
     \/ /\ erased # <<>> /\ erased' = <<>>
        /\ shape' = (IF flipped THEN run.to ELSE shape) /\ run' = NoRun
        /\ published' = FALSE /\ flipped' = FALSE /\ diskFlipped' = FALSE
        /\ pc' = "idle"
  /\ UNCHANGED <<tree, nodes, history, retiring, record, entry, moved, count>>

-----------------------------------------------------------------------------
(* Recovery.                                                               *)

\* Classified by what current selects; that observation is sealed first.
Recover ==
  /\ pc \in {"down", "refused"}
  /\ diskFlipped' = flipped
  /\ pc' = IF run = NoRun THEN "idle"
           ELSE IF ~Present("marker") THEN "unmark"
           ELSE IF flipped THEN "commit" ELSE "r_root"
  /\ UNCHANGED <<tree, nodes, past, run, published, flipped, record, entry, erased, moved, count>>

\* The link a retirement replaced returns before the directory does.
RecoverRoot ==
  /\ pc = "r_root"
  /\ IF Kind = "Reverse" /\ Entry("root") # NoEntry /\ name \in {Plain, None}
     THEN SetName(Link)
     ELSE IF Kind = "Reverse" /\ Entry("root") # NoEntry /\ name \in Root \ {shape.root}
     THEN Refuse
     ELSE /\ pc' = "r_before"
          /\ Syncs(IF Kind = "Reverse" /\ Entry("root") # NoEntry THEN "all" ELSE "none")
          /\ UNCHANGED <<nodes, past, journal, moved, count>>

RestoreTree ==
  IF AllInPlace(shape)
  THEN /\ Syncs("all") /\ pc' = "r_leaves"
       /\ UNCHANGED <<nodes, past, journal, moved, count>>
  ELSE Install(shape, ToInstall(shape), TRUE, name = shape.root)

\* recover_before_leaves, Reverse: the retired tree replaces the link.
RestoreReversed ==
  IF name = Link THEN SetName(None)
  ELSE IF name \in {None, shape.root} THEN RestoreTree ELSE Refuse

\* What a run wrote into the tree or branch that leaves again.
ClearLeaf(r, n) ==
  /\ planted' = planted \ {n}
  /\ UNCHANGED <<tree, born, exist, visitors, past, journal, pc, moved, count>>

Below(r) == {p \in Leaf : /\ Entry(p) # NoEntry /\ Reachable(r, p)
                          /\ Holder(r, p) \in planted}

\* directory_exchange::recover
RestoreExchanged(target) ==
  CASE name = target.root /\ Below(target) # {} ->
         LET p == CHOOSE p \in Below(target) : TRUE IN
         IF entry[p].after THEN ClearLeaf(target, Holder(target, p)) ELSE Refuse
    [] name = target.root /\ Below(target) = {} -> Retire(target, ToRetire(target))
    [] name = Link -> SetName(None)
    [] name \in {None, shape.root} -> IF Staged(target) THEN RestoreTree ELSE Refuse
    [] OTHER -> Refuse

DiscardFull(n) ==   \* mutant: what is in the directory goes with it
  IF AtStage(n)
  THEN /\ exist' = exist \ {n}
       /\ diskName' = name /\ diskInside' = inside /\ UNCHANGED <<name, inside>>
       /\ UNCHANGED <<born, planted, visitors, past, journal, pc, moved, count>>
  ELSE Refuse

Discard(n) ==
  IF AtStage(n) /\ Empty(n)
  THEN /\ exist' = exist \ {n}
       /\ diskName' = name /\ diskInside' = inside /\ UNCHANGED <<name, inside>>
       /\ UNCHANGED <<born, planted, visitors, past, journal, pc, moved, count>>
  ELSE Refuse

\* directory_shape::recover: the branch the run put in goes, the branch it
\* took out returns.
RestoreEvolved(target) ==
  LET new == IF target.sub = shape.sub THEN None ELSE target.sub
      old == IF target.sub = shape.sub THEN None ELSE shape.sub
      live == new # None /\ InPlace(target, new) IN
  IF name # shape.root THEN Refuse
  ELSE IF new # None /\ AtStage(new) /\ ~Empty(new) THEN Refuse
  ELSE IF new # None /\ new \notin exist /\ published THEN Refuse
  ELSE IF live /\ new \in planted /\ Entry("x") # NoEntry THEN
         IF entry["x"].after THEN ClearLeaf(target, new) ELSE Refuse
  ELSE IF live THEN Retire(target, new)
  ELSE IF old # None /\ ~InPlace(shape, old) THEN Install(shape, old, TRUE, FALSE)
  ELSE IF ~published /\ new # None /\ new \in exist THEN Discard(new)
  ELSE /\ pc' = "r_leaves"
       /\ Syncs(IF old # None THEN "inside" ELSE "none")
       /\ UNCHANGED <<nodes, past, journal, moved, count>>

RecoverBefore ==
  /\ pc = "r_before"
  /\ CASE Kind = "Reverse" -> RestoreReversed
       [] Kind = "Exchange" -> RestoreExchanged(Record.node)
       [] Kind = "Evolve" -> RestoreEvolved(Record.node)
       [] OTHER -> Go("r_leaves")

\* What recovery does about a journaled leaf: below a tree that is not there
\* it is skipped, if it was not there before either.
LeafCase(p) ==
  LET prior == Entry(p).prior
      behind == Kind \in {"Forward", "Reactivate"}
      there == IF behind THEN Record.node ELSE shape IN
  CASE Kind = "none" -> "ambient"
    [] behind /\ name \in {None, shape} -> IF prior THEN "refuse" ELSE "skip"
    [] Kind \in {"Evolve", "Exchange"} /\ Holder(shape, p) = None ->
         IF prior \/ \E s \in Sub : inside[s] = shape.root THEN "refuse" ELSE "skip"
    [] OTHER -> IF Reachable(there, p) THEN "restore"
                ELSE IF behind /\ name = there.root /\ ~prior THEN "skip" ELSE "refuse"

\* With its record gone, a leaf is looked up by its ambient path; behind the
\* link that is a path in the store.
RecoverLeaves ==
  /\ pc = "r_leaves"
  /\ LET ps == {p \in Leaf : Entry(p) # NoEntry}
         there == IF Kind \in {"Forward", "Reactivate"} THEN Record.node ELSE shape
         undone == {p \in ps : LeafCase(p) = "restore"
                               /\ (Holder(there, p) \in planted) # Entry(p).prior} IN
     IF \E p \in ps : LeafCase(p) = "refuse" THEN Refuse
     ELSE IF undone # {}
     THEN \E p \in undone :
            /\ planted' = IF entry[p].prior THEN planted \cup {Holder(there, p)}
                                            ELSE planted \ {Holder(there, p)}
            /\ UNCHANGED <<tree, born, exist, visitors, past, journal, pc, moved, count>>
     ELSE /\ pc' = "r_after"
          /\ Syncs(IF Kind \in {"Forward", "Reactivate"} /\ name \in {None, shape} /\ ps # {}
                   THEN "all"
                   ELSE IF "y" \in ps /\ LeafCase("y") = "restore" THEN "inside" ELSE "none")
          /\ UNCHANGED <<nodes, past, journal, moved, count>>

RecoverAfterDiscarding ==   \* mutant: published directories are not spared
  /\ pc = "r_after"
  /\ IF Kind \notin {"Forward", "Reactivate"} THEN Go("erase")
     ELSE LET new == Record.node
              retain == Kind = "Reactivate" IN
          IF name = new.root THEN Retire(new, ToRetire(new))
          ELSE IF name = None THEN SetName(shape)
          ELSE IF name # shape THEN Refuse
          ELSE IF retain /\ ~Staged(new) THEN Refuse
          ELSE IF ~retain /\ NodesOf(new) \cap exist # {}
               THEN \E n \in NodesOf(new) \cap exist : Discard(n)
          ELSE /\ Syncs("all") /\ pc' = "erase"
               /\ UNCHANGED <<nodes, past, journal, moved, count>>

RecoverAfterUnsealed ==   \* mutant: the restored link is not sealed
  /\ pc = "r_after"
  /\ IF Kind \notin {"Forward", "Reactivate"} THEN Go("erase")
     ELSE LET new == Record.node
              retain == published \/ Kind = "Reactivate" IN
          IF name = new.root THEN Retire(new, ToRetire(new))
          ELSE IF name = None THEN SetName(shape)
          ELSE IF name # shape THEN Refuse
          ELSE IF retain /\ ~Staged(new) THEN Refuse
          ELSE IF ~retain /\ NodesOf(new) \cap exist # {}
               THEN \E n \in NodesOf(new) \cap exist : Discard(n)
          ELSE /\ Syncs("none") /\ pc' = "erase"
               /\ UNCHANGED <<nodes, past, journal, moved, count>>

\* recover_after_leaves: a tree this run put in retires, what it replaced
\* returns; directories no manifest names are removed.
RecoverAfter ==
  /\ pc = "r_after"
  /\ IF Kind \notin {"Forward", "Reactivate"} THEN Go("erase")
     ELSE LET new == Record.node
              retain == published \/ Kind = "Reactivate" IN
          IF name = new.root THEN Retire(new, ToRetire(new))
          ELSE IF name = None THEN SetName(shape)
          ELSE IF name # shape THEN Refuse
          ELSE IF retain /\ ~Staged(new) THEN Refuse
          ELSE IF ~retain /\ NodesOf(new) \cap exist # {}
               THEN \E n \in NodesOf(new) \cap exist : Discard(n)
          ELSE /\ Syncs("all") /\ pc' = "erase"
               /\ UNCHANGED <<nodes, past, journal, moved, count>>

-----------------------------------------------------------------------------
(* Collection, between commands: a pruned receipt keeps its directories    *)
(* until none that another receipt names is left to remove.                *)

CollectPrune ==
  /\ pc = "idle"
  /\ \E r \in history \ {shape} :
       history' = history \ {r} /\ retiring' = retiring \cup {r}
  /\ UNCHANGED <<tree, nodes, shape, journal, pc, moved, count>>

CollectRetire ==
  /\ pc = "idle"
  /\ \E r \in retiring :
       LET own == NodesOf(r) \ UNION {NodesOf(o) : o \in history \cup (retiring \ {r})}
           gone == {n \in own : n \in exist /\ AtStage(n)} IN
       \/ /\ \E n \in gone : Empty(n) /\ exist' = exist \ {n}
          /\ UNCHANGED retiring
       \/ /\ gone = {} /\ retiring' = retiring \ {r}
          /\ UNCHANGED exist
  /\ UNCHANGED <<tree, born, planted, visitors, shape, history, journal, pc, moved, count>>

-----------------------------------------------------------------------------
(* The user, the process and the machine.                                  *)

UserAdds ==
  /\ faults < MaxFaults /\ faults' = faults + 1
  /\ \/ \E n \in exist : visitors' = visitors \cup {n} /\ UNCHANGED <<name, diskName>>
     \/ /\ name = None /\ name' = Foreign /\ diskName' = Foreign
        /\ UNCHANGED visitors
  /\ UNCHANGED <<inside, diskInside, born, exist, planted, past, journal, pc, moved, runs>>

UserRemoves ==
  /\ \/ visitors # {} /\ visitors' = {} /\ UNCHANGED <<name, diskName>>
     \/ /\ name = Foreign /\ name' = None /\ diskName' = None
        /\ UNCHANGED visitors
  /\ UNCHANGED <<inside, diskInside, born, exist, planted, past, journal, pc, moved, count>>

Crash ==
  /\ pc \notin {"idle", "down"} /\ faults < MaxFaults
  /\ pc' = "down" /\ moved' = None /\ faults' = faults + 1
  /\ UNCHANGED <<tree, nodes, past, journal, runs>>

\* Of what was not synced, any part is lost.
PowerLoss ==
  /\ faults < MaxFaults /\ faults' = faults + 1
  /\ name' \in {name, diskName}
  /\ inside' \in {f \in [Sub -> Root \cup {None}] : \A s \in Sub : f[s] \in {inside[s], diskInside[s]}}
  /\ diskName' = name' /\ diskInside' = inside'
  /\ \E now \in {flipped, diskFlipped}, kept \in SUBSET DOMAIN erased :
       /\ OrderedUnlinks => \A i \in kept : \A j \in 1..i : j \in kept
       /\ LET gone == {erased[i] : i \in kept} IN
          /\ record' = IF "record" \in gone THEN NoRecord ELSE record
          /\ entry' = [p \in DOMAIN entry |-> IF p \in gone THEN NoEntry ELSE entry[p]]
          /\ run' = IF "marker" \in gone THEN NoRun ELSE run
          /\ shape' = IF "marker" \in gone /\ now THEN run.to ELSE shape
          /\ flipped' = (now /\ "marker" \notin gone) /\ diskFlipped' = flipped'
          /\ published' = (published /\ "marker" \notin gone)
  /\ erased' = <<>>
  /\ pc' = IF pc = "idle" THEN "idle" ELSE "down"
  /\ moved' = None
  /\ UNCHANGED <<nodes, history, retiring, runs>>

Command == /\ moved = None
           /\ \/ Bind \/ Prepare \/ Prune \/ Reverse \/ Origin \/ Publish \/ Plant
              \/ Finish \/ Seal \/ Flip \/ Commit \/ Erase \/ Unmark
Recovery == /\ moved = None
            /\ Recover \/ RecoverRoot \/ RecoverBefore \/ RecoverLeaves \/ RecoverAfter
Program == Sync \/ Command \/ Recovery

Next ==
  \/ \E c \in Commands : Begin(c)
  \/ Program
  \/ CollectPrune \/ CollectRetire
  \/ UserAdds \/ UserRemoves
  \/ Crash \/ PowerLoss

Spec == Init /\ [][Next]_vars

-----------------------------------------------------------------------------
(* Properties.                                                             *)

\* Every directory a retained generation's receipt names still exists,
\* however commands, recoveries and collections were cut: rollback to it
\* needs these exact directories (directory_exchange.rs: only generation
\* retirement may discard them).
RetainedSurvive ==
  \A r \in history \cup ({shape} \cap Receipt) : NodesOf(r) \subseteq exist

Shows(at, in) ==
  /\ at = IF shape \in Receipt THEN shape.root ELSE shape
  /\ \A s \in Sub : in[s] = IF shape \in Receipt /\ shape.sub = s THEN shape.root ELSE None
  /\ planted = IF shape \in Receipt THEN {Holder(shape, LeafOf(shape))} ELSE {}

\* Between commands the destination shows exactly what the selected
\* generation owns, and every other directory is at its staging name
\* (directory_recovery.rs).
SettledIsWhole == pc = "idle" => Shows(name, inside)

\* ... and a power loss would not change that: what recovery saw restored it
\* has sealed before it drops the journal (recover.rs: "Observation alone is
\* not authority to discard the still-needed journal entry").
SettledIsDurable == pc = "idle" => diskName = name /\ diskInside = inside

\* A command or a recovery is refused only because of something that is not
\* gripsack's: never over what an earlier crash left, so recovery cannot get
\* stuck on its own work (directory_nodes.rs).
RefusesOnlyForeign ==
  [][pc' = "refused" /\ pc # "refused" => visitors # {} \/ name = Foreign]_vars

\* What the user puts into an owned directory, or at the destination, stays:
\* the directory is not removed and the object is not replaced
\* (directory_recovery.rs: "All unknown objects survive").
ForeignSurvives ==
  [][/\ visitors \cap exist' = visitors \cap exist
     /\ name = Foreign /\ ~UserRemoves => name' = Foreign]_vars

\* Recovery looks leaves up in the recorded hierarchy, never through the link
\* (directory_binding.rs: "pin the persisted logical hierarchy, not ambient
\* links").
PinsTheHierarchy ==
  pc = "r_leaves" /\ name = Link => \A p \in Leaf : Entry(p) # NoEntry => LeafCase(p) # "ambient"
=============================================================================
