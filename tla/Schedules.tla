------------------------------ MODULE Schedules ------------------------------
(***************************************************************************)
(* One scheduled job: its unit files (gripsack-exec/src/workspace/         *)
(* schedules), the user's systemd manager that reads them, the generation  *)
(* that owns them and the activation outcome that says whether the manager *)
(* was told.  An apply, a rollback or a disable writes the files under its *)
(* journal, flips the selection and only then call systemctl; it may be   *)
(* killed anywhere.  The timer call back a revision by its payload, which *)
(* collection may delete.                                                  *)
(*                                                                         *)
(* The two unit files of a job are written as one.  The journal, the       *)
(* selection and the outcome ledger are modules of their own; here each    *)
(* operation of theirs is a step.                                          *)
(***************************************************************************)
EXTENDS Naturals, FiniteSets

CONSTANTS Revision,     \* what the workspace may declare for the job
          None,         \* no unit file, no job
          Foreign,      \* unit files somebody else wrote
          MaxCommands   \* commands that change the selection

VARIABLES
  units,     \* what the unit files hold
  timer,     \* the manager: the revision it has loaded, and whether it is on
  selected,  \* the job in the current generation: its revision and whether
             \* its files are the user's, kept
  journal,   \* the open transaction, or None
  intent,    \* the schedule intent of the current selection
  next,      \* the intent prepared for the selection about to be made, or None
  retained,  \* the jobs of the generations kept on disk
  store,     \* payloads that are present
  held,      \* revisions whose outcome never succeeded
  runs,      \* revisions of callbacks that are running
  call,      \* the revision the timer has called back, waiting for the lock
  pc,        \* the command that holds the lock
  target,    \* what it is about to select, or None
  commands,  \* commands so far
  meddled,   \* history: somebody else changed the files or the timer
  strayed    \* history: revisions left loaded by a failed registration

vars == <<units, timer, selected, journal, intent, next, retained, store, held,
          runs, call, pc, target, commands, meddled, strayed>>

-----------------------------------------------------------------------------
Job == [rev : Revision \cup {None}, kept : BOOLEAN]
NoJob == [rev |-> None, kept |-> FALSE]
Intent == [act : {"register", "remove", "none"}, rev : Revision \cup {None},
           state : {"pending", "started", "ok", "failed"}]
Open(i) == i.state \in {"pending", "started"}

\* Every variable has its type, and only a command under way has a target.
TypeOK ==
  /\ units \in Revision \cup {None, Foreign}
  /\ timer \in [loaded : Revision \cup {None, Foreign}, on : BOOLEAN]
  /\ selected \in Job /\ selected \in retained /\ retained \subseteq Job
  /\ journal \in {None} \cup [prior : Revision \cup {None, Foreign},
                              wrote : Revision \cup {None, Foreign}, flipped : BOOLEAN]
  /\ intent \in Intent /\ next \in {None} \cup Intent
  /\ store \subseteq Revision /\ held \subseteq Revision
  /\ runs \subseteq Revision /\ call \in Revision \cup {None}
  /\ pc \in {"idle", "reconcile", "resume", "plan", "prepare", "flip", "clean",
             "check", "first", "second", "ok", "failed"}
  /\ pc = "idle" => target = None
  /\ target \in {None} \cup [op : {"apply", "rollback"}, job : Job]
  /\ commands \in 0..MaxCommands /\ meddled \in BOOLEAN /\ strayed \subseteq Revision

Init ==
  /\ units \in {None, Foreign}
  /\ timer = [loaded |-> units, on |-> FALSE]
  /\ selected = NoJob /\ retained = {NoJob}
  /\ journal = None /\ next = None
  /\ intent = [act |-> "none", rev |-> None, state |-> "ok"]
  /\ store = {} /\ held = {} /\ runs = {} /\ call = None
  /\ pc = "idle" /\ target = None /\ commands = 0 /\ meddled = FALSE /\ strayed = {}

-----------------------------------------------------------------------------
\* The command takes the lock; an apply publishes the payload it declares, a
\* rollback selects a generation that is kept, a disable one without the job.
Start ==
  /\ pc = "idle" /\ pc' = "reconcile"
  /\ commands < MaxCommands /\ commands' = commands + 1
  /\ \/ \E r \in Revision \cup {None} :
          /\ target' = [op |-> "apply", job |-> [rev |-> r, kept |-> FALSE]]
          /\ store' = store \cup ({r} \ {None})
     \/ \E job \in retained \cup {NoJob} :
          /\ target' = [op |-> "rollback", job |-> job]
          /\ store' = store
  /\ UNCHANGED <<units, timer, selected, journal, intent, next, retained, held,
                 runs, call, meddled, strayed>>

\* Recovery of the journal: what was flipped stands, what was not is undone
\* where the file still holds what the run wrote.
Unflipped == IF journal = None THEN FALSE ELSE ~journal.flipped

UndoNothing ==                    \* mutant: what was written stays
  /\ Unflipped
  /\ units' = units
  /\ journal' = None

Undo ==
  /\ Unflipped
  /\ units' = IF units = journal.wrote THEN journal.prior ELSE units
  /\ journal' = None

Reconcile ==
  /\ pc = "reconcile" /\ pc' = "resume"
  /\ \/ Undo
     \/ /\ ~Unflipped
        /\ journal' = None /\ UNCHANGED units
  /\ UNCHANGED <<timer, selected, intent, next, retained, store, held, runs, call, target, meddled, strayed, commands>>

\* A command that resumed goes on to its plan.
Then == IF target = None THEN "idle" ELSE "plan"

\* An intent prepared for a selection that never came is superseded, which holds
\* its revision.  An open one is started, and recorded so, before its effect; with
\* none open the command goes on to its plan, or is done.
Ready == pc \in {"resume", "clean"} /\ (pc = "clean" => journal = None)

Launch ==
  /\ Ready
  /\ next' = None
  /\ held' = IF next = None THEN held ELSE held \cup ({next.rev} \ {None})
  /\ IF Open(intent)
     THEN /\ pc' = "check" /\ intent' = [intent EXCEPT !.state = "started"]
     ELSE /\ pc' = Then
          /\ UNCHANGED intent
  /\ UNCHANGED <<units, timer, selected, journal, retained, store, runs, call, target, meddled, strayed, commands>>

\* The plan for the two files and its execution: files nobody else changed are
\* written or deleted, the others kept.  An apply records that it kept them, a
\* rollback selects what the generation recorded.
Mine == units = selected.rev /\ ~selected.kept
Keeps(to) ==
  \/ target.op = "rollback" /\ (selected.kept \/ to.kept)
  \/ ~Mine /\ units # None /\ units # to.rev
Planned(to) ==
  [to EXCEPT !.kept = IF target.op = "apply" /\ to.rev # None THEN Keeps(to) ELSE to.kept]
Written(to) ==
  IF Keeps(to) \/ (to.rev = None /\ ~Mine) THEN units ELSE to.rev

Mutate ==
  /\ pc = "plan"
  /\ LET to == target.job IN
     IF target.op = "apply" /\ Planned(to) = selected /\ Written(to) = units
     THEN /\ pc' = "idle" /\ target' = None
          /\ UNCHANGED <<units, journal>>
     ELSE /\ pc' = "prepare" /\ target' = [target EXCEPT !.job = Planned(to)]
          /\ units' = Written(to)
          /\ journal' = [prior |-> units, wrote |-> Written(to), flipped |-> FALSE]
  /\ UNCHANGED <<timer, selected, intent, next, retained, store, held, runs, call,
                 meddled, strayed, commands>>

\* The generation is published and its intent prepared: the job it selects is
\* registered, the job it drops is removed.
Prepare ==
  /\ pc = "prepare" /\ pc' = "flip"
  /\ retained' = retained \cup {target.job}
  /\ next' = [act |-> CASE target.job.rev # None -> "register"
                        [] target.job.rev = None /\ selected.rev # None -> "remove"
                        [] OTHER -> "none",
              rev |-> IF target.job.rev # None THEN target.job.rev ELSE selected.rev,
              state |-> IF target.job.rev = None /\ selected.rev = None THEN "ok" ELSE "pending"]
  /\ UNCHANGED <<units, timer, selected, journal, intent, store, held, runs, call,
                 target, meddled, strayed, commands>>

Flip ==
  /\ pc = "flip" /\ pc' = "clean"
  /\ selected' = target.job /\ intent' = next /\ next' = None
  /\ journal' = [journal EXCEPT !.flipped = TRUE]
  /\ target' = None
  /\ UNCHANGED <<units, timer, retained, store, held, runs, call, meddled, strayed, commands>>

\* An error before the flip is compensated at once.
Compensate ==
  /\ pc \in {"prepare", "flip"} /\ pc' = "idle" /\ target' = None
  /\ Undo
  /\ UNCHANGED <<timer, selected, intent, next, retained, store, held, runs, call,
                 meddled, strayed, commands>>

Clean ==
  /\ pc = "clean" /\ journal # None /\ journal' = None
  /\ UNCHANGED <<units, timer, selected, intent, next, retained, store, held, runs,
                 call, pc, target, meddled, strayed, commands>>

-----------------------------------------------------------------------------
\* The effect.  The files must be the ones the payload holds; a registration
\* must own them, a removal may find them gone.
UnitsFit ==
  IF intent.act = "register"
  THEN units = intent.rev /\ ~selected.kept /\ intent.rev \in store
  ELSE units \in {None, intent.rev}

Check ==
  /\ pc = "check"
  /\ \/ UnitsFit /\ pc' = "first"
     \/ pc' = "failed"         \* drifted, foreign, or no qualified manager
  /\ UNCHANGED <<units, timer, selected, journal, intent, next, retained, store,
                 held, runs, call, target, meddled, strayed, commands>>

Reloaded == [timer EXCEPT !.loaded = units]
Switched == [timer EXCEPT !.on = intent.act = "register"]

\* A systemctl call takes effect or not; a failure may be reported of either.
Call(after, ok) ==
  \/ timer' = after /\ pc' = ok
  \/ timer' \in {after, timer} /\ pc' = "failed"

\* A registration reloads and switches on, a removal switches off and reloads.
Systemctl ==
  /\ \/ pc = "first" /\ intent.act = "register" /\ Call(Reloaded, "second")
     \/ pc = "first" /\ intent.act = "remove" /\ Call(Switched, "second")
     \/ pc = "second" /\ intent.act = "register" /\ Call(Switched, "ok")
     \/ pc = "second" /\ intent.act = "remove" /\ Call(Reloaded, "ok")
  /\ UNCHANGED <<units, selected, journal, intent, next, retained, store, held,
                 runs, call, target, meddled, strayed, commands>>

HeldNothing == held               \* mutant: a failure holds nothing

\* A failure is final and holds the revision's roots.
HeldThen == IF pc = "failed" THEN held \cup {intent.rev} ELSE held

\* The outcome is recorded.
Finish ==
  /\ pc \in {"ok", "failed"}
  /\ intent' = [intent EXCEPT !.state = pc]
  /\ held' = HeldThen
  /\ strayed' = IF pc = "failed" /\ intent.act = "register" /\ timer.loaded # intent.rev
                THEN strayed \cup ({timer.loaded} \cap Revision) ELSE strayed
  /\ pc' = Then
  /\ UNCHANGED <<units, timer, selected, journal, next, retained, store, runs, call,
                 target, meddled, commands>>

Kill ==
  /\ pc # "idle" /\ pc' = "idle" /\ target' = None
  /\ UNCHANGED <<units, timer, selected, journal, intent, next, retained, store,
                 held, runs, call, meddled, strayed, commands>>

-----------------------------------------------------------------------------
\* Collection, refused while anything is to be recovered: old generations are
\* pruned, then every payload that nothing roots is deleted.

Roots(kept) ==
  ({g.rev : g \in kept} \ {None}) \cup held \cup runs

Collect ==
  /\ pc = "idle" /\ journal = None /\ next = None /\ ~Open(intent)
  /\ \E kept \in SUBSET retained :
       /\ selected \in kept
       /\ retained' = kept /\ store' = store \cap Roots(kept)
  /\ UNCHANGED <<units, timer, selected, journal, intent, next, held, runs, call,
                 pc, target, meddled, strayed, commands>>

\* The timer elapses: the runner it names must be there to be executed.
Fire ==
  /\ timer.on /\ timer.loaded \in store /\ call = None
  /\ call' = timer.loaded
  /\ UNCHANGED <<units, timer, selected, journal, intent, next, retained, store,
                 held, runs, pc, target, meddled, strayed, commands>>

\* A callback is admitted under the lock when its revision is the selected one,
\* registered, and its files are owned and unchanged; otherwise it is refused.
Admits(r) ==
  /\ journal = None /\ selected.rev = r /\ ~selected.kept
  /\ intent = [act |-> "register", rev |-> r, state |-> "ok"]
  /\ units = r /\ r \in store

Dispatch ==
  /\ pc = "idle" /\ call # None
  /\ call' = None
  /\ runs' = IF Admits(call) THEN runs \cup {call} ELSE runs
  /\ UNCHANGED <<units, timer, selected, journal, intent, next, retained, store,
                 held, pc, target, meddled, strayed, commands>>

RunEnds ==
  /\ \E r \in runs : runs' = runs \ {r}
  /\ UNCHANGED <<units, timer, selected, journal, intent, next, retained, store,
                 held, call, pc, target, meddled, strayed, commands>>

\* Somebody else writes or deletes the files, switches the timer, or has the
\* manager read them again, which a reboot does too.
Meddle ==
  /\ \/ \E u \in {None, Foreign} \ {units} : units' = u /\ UNCHANGED timer
     \/ timer' = [timer EXCEPT !.on = ~timer.on] /\ UNCHANGED units
     \/ units # timer.loaded /\ timer' = Reloaded /\ UNCHANGED units
  /\ meddled' = TRUE
  /\ UNCHANGED <<selected, journal, intent, next, retained, store, held, runs, call,
                 pc, target, strayed, commands>>

Next ==
  \/ Start \/ Reconcile \/ Launch \/ Mutate \/ Prepare \/ Flip \/ Compensate \/ Clean
  \/ Check \/ Systemctl \/ Finish \/ Kill
  \/ Collect \/ Fire \/ Dispatch \/ RunEnds \/ Meddle

Spec == Init /\ [][Next]_vars

-----------------------------------------------------------------------------
\* A job reported as active runs: the manager has its revision loaded and on, and
\* a callback of it would be admitted.  A job reported as removed is off.  Between
\* the recorded outcome and the manager lie kills, failed runs and undone ones
\* (schedules/lifecycle.rs, inspect; systemd/manager.rs, change_registration).
OutcomeIsTrue ==
  ~meddled /\ intent.state = "ok" =>
    /\ intent.act = "register" =>
         /\ timer = [loaded |-> intent.rev, on |-> TRUE]
         /\ journal = None => Admits(intent.rev)
    /\ intent.act = "remove" => ~timer.on

\* What the timer call back is never collected, whatever became of the run that
\* registered it, except the revision a failed registration of another one left
\* loaded (activation/inspect.rs, retained_schedule_roots).
CallbackIsRetained ==
  ~meddled /\ timer.on /\ timer.loaded \in Revision =>
    timer.loaded \in store \cup strayed

\* A running callback keeps its payload, an open intent the one it compares the
\* files with, and the selection the one it would roll back to.
RunsAreWhole ==
  /\ runs \subseteq store
  /\ Open(intent) => {intent.rev} \ {None} \subseteq store
  /\ {g.rev : g \in retained} \ {None} \subseteq store
=============================================================================
