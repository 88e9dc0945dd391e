------------------------------ MODULE SavedPlans ------------------------------
(***************************************************************************)
(* A plan saved for review and applied later (gripsack-exec/src/           *)
(* saved_plan), over the deployments of one destination.  Saving records   *)
(* what the plan was made from: the base generation, its record and the    *)
(* object observed.  Applying takes the lock, compares all three with the  *)
(* machine, prepares, and then runs the ordinary apply, which first        *)
(* recovers whatever an earlier run left and plans again.                  *)
(***************************************************************************)
EXTENDS Deployments

CONSTANTS
  NoPlan,    \* no plan has been saved
  Reviewed   \* bound: the payloads declared, and put there by hand, around a plan

VARIABLES
  saved,    \* the saved plan: its declaration, what it was made from, what it shows
  phase,    \* how far its application is
  stopped,  \* the run was killed, and its recovery is left to the next command
  raced     \* history: the user acted while the plan was being applied

planVars == <<saved, phase, stopped, raced>>
allVars == <<vars, planVars>>

-----------------------------------------------------------------------------
\* The object a plan shows it will leave: the one that stands if it is refused.
Shows(o, want, prev) ==
  IF Refused(o, want, prev, FALSE) THEN o ELSE Planned(o, want, prev, FALSE).after

\* What is declared, and what the user does, around a plan.
Around == {want \in Want : want.rev \in Reviewed}
HandsOn == {o \in ByHand : IsFile(o) => o.text \in Reviewed}

SavedInit ==
  Init /\ live \in HandsOn /\ saved = NoPlan /\ phase = "idle" /\ stopped = FALSE /\ raced = FALSE

\* The lock is free: no run is under way, or the one that was has been killed.
LockIsFree == phase = "idle" /\ (run # NoRun => stopped)

\* Saving observes the machine as it stands.  Bound: one plan.
Capture(want) ==
  /\ saved = NoPlan /\ LockIsFree
  /\ saved' = [want |-> want, base |-> current, record |-> EntryOf(current), seen |-> live,
               shows |-> Shows(live, want, EntryOf(current))]
  /\ UNCHANGED <<vars, phase, stopped, raced>>

\* The bindings of the plan still hold.
StillHolds ==
  live = saved.seen /\ current = saved.base /\ EntryOf(current) = saved.record

\* Under the lock, before anything else; a stale plan is refused.
Revalidate ==
  /\ saved # NoPlan /\ LockIsFree /\ StillHolds
  /\ phase' = "checked" /\ raced' = FALSE
  /\ UNCHANGED <<vars, saved, stopped>>

ReconcileInPlace ==                                                      \* mutant
  /\ phase = "checked" /\ phase' = "planned"
  /\ IF stopped THEN Compensate ELSE UNCHANGED vars
  /\ UNCHANGED <<saved, stopped, raced>>
\* The ordinary apply begins by recovering an interrupted run.
Reconcile ==
  /\ phase = "checked"
  /\ IF stopped
       THEN Compensate /\ stopped' = FALSE /\ phase' = "recovered"
       ELSE phase' = "planned" /\ UNCHANGED <<vars, stopped>>
  /\ UNCHANGED <<saved, raced>>

\* It plans again and executes, never with consent; or is refused.
Execute ==
  /\ phase \in {"planned", "recovered"} /\ phase' = "idle"
  /\ IF Refused(live, saved.want, EntryOf(current), FALSE)
       THEN UNCHANGED vars
       ELSE Declare(saved.want, FALSE)
  /\ UNCHANGED <<saved, stopped, raced>>

Kill ==
  /\ run # NoRun /\ ~stopped /\ stopped' = TRUE
  /\ UNCHANGED <<vars, saved, phase, raced>>

\* The steps of other commands, which find the lock free, and of the run under way.
Others ==
  /\ \/ LockIsFree /\ ~stopped
          /\ \/ \E want \in Around, consent \in BOOLEAN : Declare(want, consent)
             \/ Undeclare
             \/ \E g \in Number : Rollback(g)
             \/ \E keep \in Number : Collect(keep)
     \/ ~stopped /\ Commit
     \/ phase = "idle" /\ Compensate
  /\ stopped' = FALSE
  /\ UNCHANGED <<saved, phase, raced>>

\* The user respects no lock.
Race ==
  /\ \E o \in HandsOn : UserActs(o)
  /\ raced' = (raced \/ phase # "idle")
  /\ UNCHANGED <<saved, phase, stopped>>

SavedNext ==
  \/ \E want \in Around : Capture(want)
  \/ Revalidate \/ Reconcile \/ Execute \/ Kill \/ Others \/ Race

SavedSpec == SavedInit /\ [][SavedNext]_allVars

-----------------------------------------------------------------------------
Plan == [want : Want, base : Number \cup {0}, record : Entry \cup {NoEntry},
         seen : Object, shows : Object]

\* Every variable has its type, and a plan is applied only once it is saved.
SavedTypeOK ==
  /\ saved \in Plan \cup {NoPlan}
  /\ phase \in {"idle", "checked", "planned", "recovered"}
  /\ stopped \in BOOLEAN /\ raced \in BOOLEAN
  /\ phase # "idle" => saved # NoPlan
  /\ stopped => run # NoRun

\* A saved plan begins on the generation it was made from, with the record of the
\* destination it was made from, whatever was applied, rolled back or recovered since.
BaseIsKept ==
  [][phase # "idle" /\ Begins =>
       current = saved.base /\ EntryOf(current) = saved.record]_allVars

\* A saved plan does what it showed, if nothing had to be recovered first and the user
\* kept away while it was applied.
ShownIsDone ==
  [][phase = "planned" /\ ~raced /\ Begins => live' = saved.shows]_allVars

\* A saved plan is executed on the generation, and over the object, it was made for
\* (saved_plan/*.rs).
PlansAreOfToday == BaseIsKept /\ ShownIsDone
=============================================================================
