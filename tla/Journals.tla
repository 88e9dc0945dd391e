------------------------------- MODULE Journals -------------------------------
(***************************************************************************)
(* The two journals side by side: a behaviour is one of the journal in     *)
(* `focus', and the other stays as it began.  They share no state.         *)
(***************************************************************************)
EXTENDS JournalInvariant

CONSTANTS Root, Sub, None, Link, Plain, Stranger, NoRecord, NoRun, OrderedUnlinks,
  MaxRuns, MaxFaults

VARIABLES
  focus,
  name, diskName, inside, diskInside, born, exist, planted, visitors, shape, history,
  retiring, run, published, flipped, diskFlipped, record, leaf, erased, stage, moved,
  runs, faults                                                     \* DirectoryJournal

trees == <<name, diskName, inside, diskInside, born, exist, planted, visitors, shape,
           history, retiring, run, published, flipped, diskFlipped, record, leaf, erased,
           stage, moved, runs, faults>>
all == <<focus, vars, trees>>

\* With its theorems.
Trees == INSTANCE DirectoryProofs WITH Foreign <- Stranger, entry <- leaf, pc <- stage

AllInit ==
  /\ focus \in {"leaves", "trees"}
  /\ Init /\ (focus = "leaves" \/ \A d \in Dest : live[d] = Absent)
  /\ Trees!Init

AllNext ==
  \/ focus = "leaves" /\ Next /\ UNCHANGED <<focus, trees>>
  \/ focus = "trees" /\ Trees!Next /\ UNCHANGED <<focus, vars>>

AllSpec == AllInit /\ [][AllNext]_all

-----------------------------------------------------------------------------
\* The properties of DirectoryJournal, each stated and explained there.

\* Every variable of either journal has its type.
TypesOK == TypeOK /\ (focus = "trees" => Trees!TypeOK)

\* A directory that a retained generation shows, or that the undo of a run needs, still
\* exists, and a leaf is never recorded away from the directory it was written in
\* (directory*.rs).
TreesSurvive == focus = "trees" => Trees!RetainedSurvive /\ Trees!PinsTheHierarchy

\* With no journal left, what stands is whole, and is on every disk (directory*.rs,
\* recover.rs).
TreesSettle == focus = "trees" => Trees!SettledIsWhole /\ Trees!SettledIsDurable

\* Nobody else's object is taken away, and a command refuses only because of one
\* (directory*.rs).
ForeignIsSpared == Trees!ForeignSurvives /\ Trees!RefusesOnlyForeign
=============================================================================
