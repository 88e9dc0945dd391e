--------------------------- MODULE SchedulesProofs ---------------------------
(***************************************************************************)
(* What Schedules keeps for any revisions, any number of commands and      *)
(* whatever is killed, called back or collected in between.                *)
(***************************************************************************)
EXTENDS Schedules, TLAPS

Journals == [prior : Revision \cup {None, Foreign}, wrote : Revision \cup {None, Foreign},
             flipped : BOOLEAN]

\* The values that stand for nothing, and for somebody else's files, stand for nothing else.
Distinct ==
  /\ None \notin Revision /\ Foreign \notin Revision \cup {None}
  /\ None \notin Intent /\ None \notin Journals
  /\ None \notin [op : {"apply", "rollback"}, job : Job]
  /\ MaxCommands \in Nat

-----------------------------------------------------------------------------
\* The inductive invariant.

Effect == {"check", "first", "second", "ok", "failed"}

\* An intent names a revision unless there is nothing to do, and then there is nothing
\* open about it.
Sound(i) ==
  /\ i.act = "none" <=> i.rev = None
  /\ i.act = "none" => i.state = "ok"

\* The intent of the selection registers what it selects, or removes what it dropped.
IntentInv ==
  /\ Sound(intent)
  /\ selected.rev = IF intent.act = "register" THEN intent.rev ELSE None
  /\ next # None => Sound(next)

\* Whatever may still be needed is in the store.
StoreInv ==
  /\ held \cup runs \subseteq store
  /\ \A g \in retained : g.rev # None => g.rev \in store
  /\ target # None /\ target.job.rev # None => target.job.rev \in store
  /\ Open(intent) => intent.rev \in store
  /\ next # None /\ next.rev # None => next.rev \in store

\* What a command has done by the time it is at a step.
CommandInv ==
  /\ pc \in {"plan", "prepare", "flip"} => target # None /\ ~Open(intent)
  /\ pc \in {"resume", "plan"} \cup Effect => journal = None
  /\ pc \in {"prepare", "flip"} => journal # None /\ ~journal.flipped
  /\ pc = "clean" => target = None /\ (journal # None => journal.flipped)
  /\ pc = "flip" =>
       /\ next # None /\ target.job \in retained
       /\ next.act = "register" => next.rev = target.job.rev
       /\ next.act # "register" => target.job.rev = None /\ next.rev = selected.rev
       /\ next.act # "none" => next.state = "pending"
  /\ pc \in Effect => intent.state = "started"

\* How far the manager has been told.
EffectInv == ~meddled =>
  /\ pc \in {"first", "second", "ok"} => UnitsFit
  /\ pc = "second" => IF intent.act = "register" THEN timer.loaded = intent.rev ELSE ~timer.on
  /\ pc = "ok" => IF intent.act = "register" THEN timer = [loaded |-> intent.rev, on |-> TRUE] ELSE ~timer.on

\* What was registered, or removed, stays so until another selection is made: the files may
\* differ in an open transaction that has not flipped, which has what they were.
OutcomeInv == ~meddled /\ intent.state = "ok" =>
  /\ intent.act = "remove" => ~timer.on
  /\ intent.act = "register" =>
       /\ timer = [loaded |-> intent.rev, on |-> TRUE] /\ ~selected.kept
       /\ IF journal = None THEN units = intent.rev
          ELSE ~journal.flipped /\ journal.prior = intent.rev /\ units = journal.wrote

\* Why the store has what the timer calls back.
Anchored ==
  {selected.rev} \cup held \cup strayed
    \cup (IF Open(intent) THEN {intent.rev} ELSE {})
    \cup (IF Open(intent) /\ intent.act = "register" THEN store ELSE {})

LoadedInv == ~meddled /\ timer.on /\ timer.loaded \in Revision => timer.loaded \in Anchored

IInv ==
  /\ TypeOK /\ IntentInv /\ StoreInv /\ CommandInv /\ EffectInv /\ OutcomeInv /\ LoadedInv

-----------------------------------------------------------------------------
\* The operators.

\* Whether files are kept is a truth value.
LEMMA KeepsIsBoolean == ASSUME NEW to PROVE Keeps(to) \in BOOLEAN
<1>1. CASE Keeps(to)
  <2>1. Keeps(to) = TRUE
    BY <1>1 DEF Keeps
  <2> QED
    BY <2>1
<1>2. CASE ~Keeps(to)
  <2>1. Keeps(to) = FALSE
    BY <1>2 DEF Keeps
  <2> QED
    BY <2>1
<1> QED
  BY <1>1, <1>2

LEMMA NoJobIsJob == NoJob \in Job
  BY DEF NoJob, Job

\* The journal of a run that wrote the files has a journal's type.
LEMMA JournalOfWrites ==
  ASSUME NEW p \in Revision \cup {None, Foreign}, NEW w \in Revision \cup {None, Foreign}
  PROVE  [prior |-> p, wrote |-> w, flipped |-> FALSE] \in Journals
  BY DEF Journals

\* A plan decides whether the files are kept, never which revision is selected.
LEMMA PlannedJob == ASSUME NEW to \in Job PROVE Planned(to) \in Job /\ Planned(to).rev = to.rev
<1>1. Keeps(to) \in BOOLEAN /\ to.kept \in BOOLEAN
  BY KeepsIsBoolean DEF Job
<1>2. (IF target.op = "apply" /\ to.rev # None THEN Keeps(to) ELSE to.kept) \in BOOLEAN
  BY <1>1
<1> QED
  BY <1>2 DEF Job, Planned

\* Switching leaves a timer on or off.
LEMMA SwitchedTimer ==
  ASSUME TypeOK PROVE Switched \in [loaded : Revision \cup {None, Foreign}, on : BOOLEAN]
<1>1. CASE intent.act = "register"
  <2>1. Switched = [timer EXCEPT !.on = TRUE]
    BY <1>1 DEF Switched
  <2> QED
    BY <2>1 DEF TypeOK
<1>2. CASE intent.act # "register"
  <2>1. Switched = [timer EXCEPT !.on = FALSE]
    BY <1>2 DEF Switched
  <2> QED
    BY <2>1 DEF TypeOK
<1> QED
  BY <1>1, <1>2

-----------------------------------------------------------------------------
\* The steps.

\* What an apply declares is published before the command goes on, and what a rollback
\* selects is a job of a generation that is kept.
LEMMA StartStep == ASSUME Distinct, IInv, Start PROVE IInv'
<1>1. TypeOK'
  <2>1. target' \in [op : {"apply", "rollback"}, job : Job] /\ store' \subseteq Revision
    <3>1. ASSUME NEW r \in Revision \cup {None},
                 target' = [op |-> "apply", job |-> [rev |-> r, kept |-> FALSE]],
                 store' = store \cup ({r} \ {None})
          PROVE  target' \in [op : {"apply", "rollback"}, job : Job] /\ store' \subseteq Revision
      BY <3>1 DEF IInv, TypeOK, Job
    <3>2. ASSUME NEW job \in retained \cup {NoJob}, target' = [op |-> "rollback", job |-> job],
                 store' = store
          PROVE  target' \in [op : {"apply", "rollback"}, job : Job] /\ store' \subseteq Revision
      <4>1. job \in Job
        BY NoJobIsJob DEF IInv, TypeOK
      <4> QED
        BY <3>2, <4>1 DEF IInv, TypeOK
    <3> QED
      BY <3>1, <3>2 DEF Start
  <2> QED
    BY <2>1 DEF Distinct, IInv, TypeOK, Start
<1>2. IntentInv'
  BY DEF IInv, IntentInv, Sound, Start
<1>3. StoreInv'
  <2>1. store \subseteq store'
    BY DEF Start
  <2>2. target'.job.rev # None => target'.job.rev \in store'
    <3>1. ASSUME NEW r \in Revision \cup {None},
                 target' = [op |-> "apply", job |-> [rev |-> r, kept |-> FALSE]],
                 store' = store \cup ({r} \ {None})
          PROVE  target'.job.rev # None => target'.job.rev \in store'
      BY <3>1
    <3>2. ASSUME NEW job \in retained \cup {NoJob}, target' = [op |-> "rollback", job |-> job],
                 store' = store
          PROVE  target'.job.rev # None => target'.job.rev \in store'
      BY <3>2 DEF IInv, StoreInv, NoJob
    <3> QED
      BY <3>1, <3>2 DEF Start
  <2> QED
    BY <2>1, <2>2 DEF IInv, StoreInv, Open, Start
<1>4. CommandInv'
  BY DEF IInv, CommandInv, Open, Effect, Start
<1>5. EffectInv'
  BY DEF IInv, EffectInv, UnitsFit, Start
<1>6. OutcomeInv'
  BY DEF IInv, OutcomeInv, Start
<1>7. LoadedInv'
  BY DEF IInv, LoadedInv, Anchored, Open, Start
<1> QED
  BY <1>1, <1>2, <1>3, <1>4, <1>5, <1>6, <1>7 DEF IInv

\* Undoing puts back what the files held, which is what was registered.
LEMMA ReconcileStep == ASSUME Distinct, IInv, Reconcile PROVE IInv'
<1>1. TypeOK'
  BY DEF IInv, TypeOK, Intent, Job, Reconcile, Undo, Unflipped
<1>2. IntentInv'
  BY DEF IInv, IntentInv, Sound, Reconcile, Undo, Unflipped
<1>3. StoreInv'
  BY DEF IInv, StoreInv, Open, Reconcile, Undo, Unflipped
<1>4. CommandInv'
  BY DEF IInv, CommandInv, Open, Effect, Reconcile, Undo, Unflipped
<1>5. EffectInv'
  BY DEF IInv, EffectInv, UnitsFit, Reconcile, Undo, Unflipped
<1>6. OutcomeInv'
  BY DEF IInv, OutcomeInv, Reconcile, Undo, Unflipped
<1>7. LoadedInv'
  BY DEF IInv, LoadedInv, Anchored, Open, Reconcile, Undo, Unflipped
<1> QED
  BY <1>1, <1>2, <1>3, <1>4, <1>5, <1>6, <1>7 DEF IInv

\* The intent of the selection is started, if it is open; one that was prepared for a
\* selection that never came holds its revision.
LEMMA LaunchStep == ASSUME Distinct, IInv, Launch PROVE IInv'
<1>1. TypeOK'
  BY DEF IInv, TypeOK, Intent, Job, Launch, Ready, Then
<1>2. IntentInv'
  BY DEF IInv, TypeOK, IntentInv, Open, Sound, Intent, Launch
<1>3. StoreInv'
  BY DEF IInv, TypeOK, StoreInv, Intent, Launch
<1>4. CommandInv'
  BY DEF IInv, TypeOK, CommandInv, Effect, Intent, Launch, Ready, Then
<1>5. EffectInv'
  BY DEF IInv, EffectInv, UnitsFit, Launch, Ready, Then
<1>6. OutcomeInv'
  BY DEF IInv, TypeOK, OutcomeInv, Intent, Launch
<1>7. LoadedInv'
  BY DEF IInv, TypeOK, LoadedInv, Anchored, Open, Intent, Launch
<1> QED
  BY <1>1, <1>2, <1>3, <1>4, <1>5, <1>6, <1>7 DEF IInv

\* The journal has what the files held before they are written.
LEMMA MutateStep == ASSUME Distinct, IInv, Mutate PROVE IInv'
<1>1. TypeOK'
  <2>1. target \in [op : {"apply", "rollback"}, job : Job]
    BY DEF IInv, TypeOK, CommandInv, Mutate
  <2>2. Planned(target.job) \in Job /\ Written(target.job) \in Revision \cup {None, Foreign}
    BY <2>1, PlannedJob DEF Job, Written, IInv, TypeOK
  <2>3. target' \in {None} \cup [op : {"apply", "rollback"}, job : Job]
    BY <2>1, <2>2 DEF Mutate
  <2>4. journal' \in {None} \cup Journals
    <3>1. journal \in {None} \cup Journals /\ units \in Revision \cup {None, Foreign}
      BY DEF IInv, TypeOK, Journals
    <3>2. [prior |-> units, wrote |-> Written(target.job), flipped |-> FALSE] \in Journals
      BY <2>2, <3>1, JournalOfWrites
    <3> QED
      BY <3>1, <3>2 DEF Mutate
  <2>5. units' \in Revision \cup {None, Foreign}
    BY <2>2 DEF IInv, TypeOK, Mutate
  <2>6. pc' \in {"idle", "prepare"} /\ (pc' = "idle" => target' = None)
    BY DEF Mutate
  <2> QED
    BY <2>3, <2>4, <2>5, <2>6 DEF IInv, TypeOK, Mutate, Journals
<1>2. IntentInv'
  BY DEF IInv, IntentInv, Sound, Mutate, Planned, Written
<1>3. StoreInv'
  BY DEF IInv, TypeOK, StoreInv, CommandInv, Job, Mutate, Planned
<1>4. CommandInv'
  <2>1. CASE pc' = "idle"
    BY <2>1 DEF CommandInv, Effect
  <2>2. CASE pc' = "prepare"
    <3>1. target' # None
      <4>1. target \in [op : {"apply", "rollback"}, job : Job]
        BY DEF IInv, TypeOK, CommandInv, Mutate
      <4>2. target' \in [op : {"apply", "rollback"}, job : Job]
        BY <2>2, <4>1, PlannedJob DEF Mutate
      <4> QED
        BY <4>2 DEF Distinct
    <3>2. journal' # None /\ ~journal'.flipped
      <4>1. Written(target.job) \in Revision \cup {None, Foreign}
        BY DEF IInv, TypeOK, CommandInv, Job, Mutate, Written
      <4>2. journal' = [prior |-> units, wrote |-> Written(target.job), flipped |-> FALSE]
        BY <2>2 DEF Mutate
      <4>3. journal' \in Journals
        BY <4>1, <4>2, JournalOfWrites DEF IInv, TypeOK
      <4>4. journal'.flipped = FALSE
        BY <4>2
      <4> QED
        BY <4>3, <4>4 DEF Distinct, Journals
    <3>3. ~Open(intent)'
      BY DEF IInv, CommandInv, Open, Mutate
    <3> QED
      BY <2>2, <3>1, <3>2, <3>3 DEF CommandInv, Effect
  <2> QED
    BY <2>1, <2>2 DEF Mutate
<1>5. EffectInv'
  BY DEF IInv, EffectInv, UnitsFit, Mutate, Planned, Written
<1>6. OutcomeInv'
  <2>1. journal = None
    BY DEF IInv, CommandInv, Mutate
  <2>2. CASE UNCHANGED <<units, journal>>
    BY <2>1, <2>2 DEF IInv, OutcomeInv, Mutate
  <2>3. CASE /\ units' = Written(target.job)
             /\ journal' = [prior |-> units, wrote |-> Written(target.job), flipped |-> FALSE]
    <3>1. journal' # None
      <4>1. Written(target.job) \in Revision \cup {None, Foreign}
        BY DEF IInv, TypeOK, CommandInv, Job, Mutate, Written
      <4>2. journal' \in Journals
        BY <2>3, <4>1, JournalOfWrites DEF IInv, TypeOK
      <4> QED
        BY <4>2 DEF Distinct
    <3> QED
      BY <2>1, <2>3, <3>1 DEF IInv, OutcomeInv, Mutate
  <2> QED
    BY <2>2, <2>3 DEF Mutate
<1>7. LoadedInv'
  BY DEF IInv, LoadedInv, Anchored, Open, Mutate, Planned, Written
<1> QED
  BY <1>1, <1>2, <1>3, <1>4, <1>5, <1>6, <1>7 DEF IInv

\* The job is retained and the intent written before the selection moves.
LEMMA PrepareStep == ASSUME Distinct, IInv, Prepare PROVE IInv'
<1>1. TypeOK'
  BY DEF IInv, TypeOK, CommandInv, Intent, Job, Prepare
<1>2. IntentInv'
  BY DEF IInv, IntentInv, Sound, Prepare
<1>3. StoreInv'
  BY DEF IInv, TypeOK, StoreInv, CommandInv, Prepare
<1>4. CommandInv'
  BY DEF Distinct, IInv, TypeOK, CommandInv, Effect, Intent, Job, Prepare
<1>5. EffectInv'
  BY DEF IInv, EffectInv, UnitsFit, Prepare
<1>6. OutcomeInv'
  BY DEF IInv, OutcomeInv, Prepare
<1>7. LoadedInv'
  BY DEF IInv, LoadedInv, Anchored, Open, Prepare
<1> QED
  BY <1>1, <1>2, <1>3, <1>4, <1>5, <1>6, <1>7 DEF IInv

\* The revision dropped is the one its removal names, and the one selected is the one its
\* registration names: whichever the timer has loaded is still rooted.
LEMMA FlipStep == ASSUME Distinct, IInv, Flip PROVE IInv'
<1>1. TypeOK'
  BY DEF Distinct, IInv, TypeOK, IntentInv, CommandInv, Open, Effect, Sound, Flip
<1>2. IntentInv'
  BY DEF IInv, IntentInv, CommandInv, Flip
<1>3. StoreInv'
  BY DEF IInv, IntentInv, StoreInv, CommandInv, Open, Sound, Flip
<1>4. CommandInv'
  BY DEF IInv, CommandInv, Open, Effect, Flip
<1>5. EffectInv'
  BY DEF IInv, EffectInv, UnitsFit, Flip
<1>6. OutcomeInv'
  BY DEF IInv, CommandInv, OutcomeInv, Flip
<1>7. LoadedInv'
  BY DEF Distinct, IInv, TypeOK, IntentInv, StoreInv, CommandInv, LoadedInv, Anchored,
     Open, Sound, Flip
<1> QED
  BY <1>1, <1>2, <1>3, <1>4, <1>5, <1>6, <1>7 DEF IInv

\* Undoing after an error puts back what was registered, as recovery does.
LEMMA CompensateStep == ASSUME Distinct, IInv, Compensate PROVE IInv'
<1>1. TypeOK'
  BY DEF IInv, TypeOK, Intent, Job, Compensate, Undo, Unflipped
<1>2. IntentInv'
  BY DEF IInv, IntentInv, Sound, Compensate, Undo, Unflipped
<1>3. StoreInv'
  BY DEF IInv, StoreInv, Open, Compensate, Undo, Unflipped
<1>4. CommandInv'
  BY DEF IInv, CommandInv, Open, Effect, Compensate, Undo, Unflipped
<1>5. EffectInv'
  BY DEF IInv, EffectInv, UnitsFit, Compensate, Undo, Unflipped
<1>6. OutcomeInv'
  BY DEF IInv, OutcomeInv, Compensate, Undo, Unflipped
<1>7. LoadedInv'
  BY DEF IInv, LoadedInv, Anchored, Open, Compensate, Undo, Unflipped
<1> QED
  BY <1>1, <1>2, <1>3, <1>4, <1>5, <1>6, <1>7 DEF IInv

\* The journal goes once it has flipped.
LEMMA CleanStep == ASSUME Distinct, IInv, Clean PROVE IInv'
<1>1. TypeOK'
  BY DEF IInv, TypeOK, Intent, Job, Clean
<1>2. IntentInv'
  BY DEF IInv, IntentInv, Sound, Clean
<1>3. StoreInv'
  BY DEF IInv, StoreInv, Open, Clean
<1>4. CommandInv'
  BY DEF IInv, CommandInv, Open, Effect, Clean
<1>5. EffectInv'
  BY DEF IInv, EffectInv, UnitsFit, Clean
<1>6. OutcomeInv'
  BY DEF IInv, CommandInv, OutcomeInv, Clean
<1>7. LoadedInv'
  BY DEF IInv, LoadedInv, Anchored, Open, Clean
<1> QED
  BY <1>1, <1>2, <1>3, <1>4, <1>5, <1>6, <1>7 DEF IInv

\* Nothing is told to the manager unless the files fit the intent.
LEMMA CheckStep == ASSUME Distinct, IInv, Check PROVE IInv'
<1>1. TypeOK'
  BY DEF IInv, TypeOK, Intent, Job, Check
<1>2. IntentInv'
  BY DEF IInv, IntentInv, Sound, Check
<1>3. StoreInv'
  BY DEF IInv, StoreInv, Open, Check
<1>4. CommandInv'
  BY DEF IInv, CommandInv, Open, Effect, Check
<1>5. EffectInv'
  BY DEF IInv, EffectInv, UnitsFit, Check
<1>6. OutcomeInv'
  BY DEF IInv, OutcomeInv, Check
<1>7. LoadedInv'
  BY DEF IInv, LoadedInv, Anchored, Open, Check
<1> QED
  BY <1>1, <1>2, <1>3, <1>4, <1>5, <1>6, <1>7 DEF IInv

\* A call that took effect leaves the manager with the revision of an intent still open;
\* one that did not leaves it what it had.
LEMMA SystemctlStep == ASSUME Distinct, IInv, Systemctl PROVE IInv'
<1>1. TypeOK'
  <2>1. Reloaded \in [loaded : Revision \cup {None, Foreign}, on : BOOLEAN]
    BY DEF IInv, TypeOK, Reloaded
  <2>2. Switched \in [loaded : Revision \cup {None, Foreign}, on : BOOLEAN]
    BY SwitchedTimer DEF IInv
  <2>3. /\ timer' \in {Reloaded, Switched, timer}
        /\ pc' \in {"second", "ok", "failed"} /\ pc # "idle"
    BY DEF Systemctl, Call
  <2>4. timer' \in [loaded : Revision \cup {None, Foreign}, on : BOOLEAN]
    BY <2>1, <2>2, <2>3 DEF IInv, TypeOK
  <2> QED
    BY <2>3, <2>4 DEF IInv, TypeOK, Systemctl
<1>2. IntentInv'
  BY DEF IInv, IntentInv, Sound, Systemctl, Call, Reloaded, Switched
<1>3. StoreInv'
  BY DEF IInv, StoreInv, Open, Systemctl, Call, Reloaded, Switched
<1>4. CommandInv'
  BY DEF IInv, CommandInv, Open, Effect, Systemctl, Call, Reloaded, Switched
<1>5. EffectInv'
  BY DEF IInv, TypeOK, EffectInv, UnitsFit, Systemctl, Call, Reloaded, Switched
<1>6. OutcomeInv'
  BY DEF IInv, CommandInv, OutcomeInv, Effect, Systemctl
<1>7. LoadedInv'
  BY DEF IInv, TypeOK, CommandInv, EffectInv, LoadedInv, Anchored, Open, Effect, UnitsFit,
     Systemctl, Call, Reloaded, Switched
<1> QED
  BY <1>1, <1>2, <1>3, <1>4, <1>5, <1>6, <1>7 DEF IInv

\* Success is recorded only after both calls were made; a failure holds the revision it
\* tried, and what a registration left loaded instead has strayed.
LEMMA FinishStep == ASSUME Distinct, IInv, Finish PROVE IInv'
<1>1. TypeOK'
  BY DEF IInv, TypeOK, IntentInv, CommandInv, Effect, Sound, Intent, Finish, HeldThen,
     Then
<1>2. IntentInv'
  BY DEF IInv, IntentInv, CommandInv, Effect, Sound, Finish
<1>3. StoreInv'
  BY DEF IInv, StoreInv, CommandInv, Open, Effect, Finish, HeldThen
<1>4. CommandInv'
  BY DEF IInv, CommandInv, Open, Effect, Finish, HeldThen, Then
<1>5. EffectInv'
  BY DEF IInv, EffectInv, UnitsFit, Finish, HeldThen, Then
<1>6. OutcomeInv'
  BY DEF IInv, CommandInv, EffectInv, OutcomeInv, Effect, UnitsFit, Finish
<1>7. LoadedInv'
  BY DEF IInv, IntentInv, EffectInv, LoadedInv, Anchored, Finish, HeldThen
<1> QED
  BY <1>1, <1>2, <1>3, <1>4, <1>5, <1>6, <1>7 DEF IInv

\* Whatever a command had done is in what it left behind.
LEMMA KillStep == ASSUME Distinct, IInv, Kill PROVE IInv'
<1>1. TypeOK'
  BY DEF IInv, TypeOK, Intent, Job, Kill
<1>2. IntentInv'
  BY DEF IInv, IntentInv, Sound, Kill
<1>3. StoreInv'
  BY DEF IInv, StoreInv, Open, Kill
<1>4. CommandInv'
  BY DEF IInv, CommandInv, Open, Effect, Kill
<1>5. EffectInv'
  BY DEF IInv, EffectInv, UnitsFit, Kill
<1>6. OutcomeInv'
  BY DEF IInv, OutcomeInv, Kill
<1>7. LoadedInv'
  BY DEF IInv, LoadedInv, Anchored, Open, Kill
<1> QED
  BY <1>1, <1>2, <1>3, <1>4, <1>5, <1>6, <1>7 DEF IInv

\* Collection runs with nothing open, so what is not a root is not loaded either.
LEMMA CollectStep == ASSUME Distinct, IInv, Collect PROVE IInv'
<1>1. TypeOK'
  BY DEF IInv, TypeOK, Intent, Job, Collect, Roots
<1>2. IntentInv'
  BY DEF IInv, IntentInv, Sound, Collect, Roots
<1>3. StoreInv'
  BY DEF IInv, TypeOK, StoreInv, Collect, Roots
<1>4. CommandInv'
  BY DEF IInv, CommandInv, Open, Effect, Collect, Roots
<1>5. EffectInv'
  BY DEF IInv, EffectInv, UnitsFit, Collect, Roots
<1>6. OutcomeInv'
  BY DEF IInv, OutcomeInv, Collect, Roots
<1>7. LoadedInv'
  BY DEF IInv, LoadedInv, Anchored, Open, Collect, Roots
<1> QED
  BY <1>1, <1>2, <1>3, <1>4, <1>5, <1>6, <1>7 DEF IInv

\* The timer calls back what it has loaded.
LEMMA FireStep == ASSUME Distinct, IInv, Fire PROVE IInv'
<1>1. TypeOK'
  BY DEF IInv, TypeOK, Intent, Job, Fire
<1>2. IntentInv'
  BY DEF IInv, IntentInv, Sound, Fire
<1>3. StoreInv'
  BY DEF IInv, StoreInv, Open, Fire
<1>4. CommandInv'
  BY DEF IInv, CommandInv, Open, Effect, Fire
<1>5. EffectInv'
  BY DEF IInv, EffectInv, UnitsFit, Fire
<1>6. OutcomeInv'
  BY DEF IInv, OutcomeInv, Fire
<1>7. LoadedInv'
  BY DEF IInv, LoadedInv, Anchored, Open, Fire
<1> QED
  BY <1>1, <1>2, <1>3, <1>4, <1>5, <1>6, <1>7 DEF IInv

\* A callback is admitted for a payload that is there.
LEMMA DispatchStep == ASSUME Distinct, IInv, Dispatch PROVE IInv'
<1>1. TypeOK'
  BY DEF IInv, TypeOK, Intent, Job, Dispatch, Admits
<1>2. IntentInv'
  BY DEF IInv, IntentInv, Sound, Dispatch, Admits
<1>3. StoreInv'
  BY DEF IInv, StoreInv, Open, Dispatch, Admits
<1>4. CommandInv'
  BY DEF IInv, CommandInv, Open, Effect, Dispatch, Admits
<1>5. EffectInv'
  BY DEF IInv, EffectInv, UnitsFit, Dispatch, Admits
<1>6. OutcomeInv'
  BY DEF IInv, OutcomeInv, Dispatch, Admits
<1>7. LoadedInv'
  BY DEF IInv, LoadedInv, Anchored, Open, Dispatch, Admits
<1> QED
  BY <1>1, <1>2, <1>3, <1>4, <1>5, <1>6, <1>7 DEF IInv

\* A callback that ends only releases its payload.
LEMMA RunEndsStep == ASSUME Distinct, IInv, RunEnds PROVE IInv'
<1>1. TypeOK'
  BY DEF IInv, TypeOK, Intent, Job, RunEnds
<1>2. IntentInv'
  BY DEF IInv, IntentInv, Sound, RunEnds
<1>3. StoreInv'
  BY DEF IInv, StoreInv, Open, RunEnds
<1>4. CommandInv'
  BY DEF IInv, CommandInv, Open, Effect, RunEnds
<1>5. EffectInv'
  BY DEF IInv, EffectInv, UnitsFit, RunEnds
<1>6. OutcomeInv'
  BY DEF IInv, OutcomeInv, RunEnds
<1>7. LoadedInv'
  BY DEF IInv, LoadedInv, Anchored, Open, RunEnds
<1> QED
  BY <1>1, <1>2, <1>3, <1>4, <1>5, <1>6, <1>7 DEF IInv

\* What is claimed of the manager is claimed for those nobody meddles with.
LEMMA MeddleStep == ASSUME Distinct, IInv, Meddle PROVE IInv'
<1>1. TypeOK'
  <2>1. units' \in Revision \cup {None, Foreign}
    BY DEF IInv, TypeOK, Meddle
  <2>2. timer' \in [loaded : Revision \cup {None, Foreign}, on : BOOLEAN]
    <3>1. (~timer.on) \in BOOLEAN /\ timer \in [loaded : Revision \cup {None, Foreign}, on : BOOLEAN]
      BY DEF IInv, TypeOK
    <3>2. [timer EXCEPT !.on = ~timer.on] \in [loaded : Revision \cup {None, Foreign}, on : BOOLEAN]
      BY <3>1
    <3>3. Reloaded \in [loaded : Revision \cup {None, Foreign}, on : BOOLEAN]
      BY DEF IInv, TypeOK, Reloaded
    <3> QED
      BY <3>1, <3>2, <3>3 DEF Meddle
  <2> QED
    BY <2>1, <2>2 DEF IInv, TypeOK, Meddle
<1>2. IntentInv'
  BY DEF IInv, IntentInv, Sound, Meddle, Reloaded
<1>3. StoreInv'
  BY DEF IInv, StoreInv, Open, Meddle, Reloaded
<1>4. CommandInv'
  BY DEF IInv, CommandInv, Open, Effect, Meddle, Reloaded
<1>5. EffectInv'
  BY DEF IInv, EffectInv, UnitsFit, Meddle, Reloaded
<1>6. OutcomeInv'
  BY DEF IInv, OutcomeInv, Meddle, Reloaded
<1>7. LoadedInv'
  BY DEF IInv, LoadedInv, Anchored, Open, Meddle, Reloaded
<1> QED
  BY <1>1, <1>2, <1>3, <1>4, <1>5, <1>6, <1>7 DEF IInv

-----------------------------------------------------------------------------
\* The invariant.

LEMMA InitInv == ASSUME Distinct, Init PROVE IInv
<1>1. TypeOK
  <2>1. /\ units \in Revision \cup {None, Foreign}
        /\ timer \in [loaded : Revision \cup {None, Foreign}, on : BOOLEAN]
    BY DEF Init
  <2>2. selected \in Job /\ selected \in retained /\ retained \subseteq Job
    BY NoJobIsJob DEF Init
  <2>3. intent \in Intent
    BY DEF Init, Intent
  <2>4. commands \in 0..MaxCommands
    BY DEF Distinct, Init
  <2>5. meddled \in BOOLEAN
    BY DEF Init
  <2> QED
    BY <2>1, <2>2, <2>3, <2>4, <2>5 DEF Init, TypeOK
<1>2. IntentInv
  BY DEF Init, IntentInv, Sound, NoJob
<1>3. StoreInv
  BY DEF Init, StoreInv, Open, NoJob
<1>4. CommandInv
  BY DEF Init, CommandInv, Effect, Open
<1>5. EffectInv /\ OutcomeInv /\ LoadedInv
  BY DEF Init, EffectInv, OutcomeInv, LoadedInv, Anchored
<1> QED
  BY <1>1, <1>2, <1>3, <1>4, <1>5 DEF IInv

\* A step of nobody changes nothing the invariant is about.
LEMMA StutterStep == ASSUME IInv, UNCHANGED vars PROVE IInv'
  BY DEF vars, IInv, TypeOK, IntentInv, StoreInv, CommandInv, EffectInv, UnitsFit,
     OutcomeInv, LoadedInv, Anchored

LEMMA NextInv == ASSUME Distinct, IInv, [Next]_vars PROVE IInv'
  BY StartStep, ReconcileStep, LaunchStep, MutateStep, PrepareStep, FlipStep, CompensateStep,
     CleanStep, CheckStep, SystemctlStep, FinishStep, KillStep, CollectStep, FireStep,
     DispatchStep, RunEndsStep, MeddleStep, StutterStep DEF Next

LEMMA Invariance == ASSUME Distinct PROVE Spec => []IInv
<1>1. Init => IInv
  BY InitInv
<1>2. IInv /\ [Next]_vars => IInv'
  BY NextInv
<1> QED
  BY <1>1, <1>2, PTL DEF Spec

-----------------------------------------------------------------------------
\* The theorems.

\* Every variable keeps its type, and only a command under way has a target.
THEOREM TypeCorrect == ASSUME Distinct PROVE Spec => []TypeOK
  BY Invariance, PTL DEF IInv

\* A job reported as active is loaded and on, and a callback of it would be admitted; one
\* reported as removed is off (schedules/lifecycle.rs, inspect).
THEOREM ReportsAreTrue == ASSUME Distinct PROVE Spec => []OutcomeIsTrue
<1>1. IInv => OutcomeIsTrue
  <2> SUFFICES ASSUME IInv, ~meddled, intent.state = "ok" PROVE OutcomeIsTrue
    BY DEF OutcomeIsTrue
  <2>1. intent.act = "remove" => ~timer.on
    BY DEF IInv, OutcomeInv
  <2>2. ASSUME intent.act = "register"
        PROVE  timer = [loaded |-> intent.rev, on |-> TRUE] /\ (journal = None => Admits(intent.rev))
    <3>1. /\ timer = [loaded |-> intent.rev, on |-> TRUE] /\ ~selected.kept
          /\ journal = None => units = intent.rev
      BY <2>2 DEF IInv, OutcomeInv
    <3>2. selected.rev = intent.rev /\ intent.rev # None
      BY <2>2 DEF IInv, IntentInv, Sound
    <3>3. intent.rev \in store
      BY <3>2 DEF IInv, TypeOK, StoreInv
    <3>4. intent = [act |-> "register", rev |-> intent.rev, state |-> "ok"]
      BY <2>2 DEF IInv, TypeOK, Intent
    <3> QED
      BY <3>1, <3>2, <3>3, <3>4 DEF Admits
  <2> QED
    BY <2>1, <2>2 DEF OutcomeIsTrue
<1> QED
  BY <1>1, Invariance, PTL

\* What the timer calls back is in the store, whatever became of the run that registered it
\* (activation/inspect.rs, retained_schedule_roots).
THEOREM TimersFindTheirs == ASSUME Distinct PROVE Spec => []CallbackIsRetained
<1>1. IInv => CallbackIsRetained
  <2> SUFFICES ASSUME IInv, ~meddled, timer.on, timer.loaded \in Revision, Distinct
               PROVE  timer.loaded \in store \cup strayed
    BY DEF CallbackIsRetained
  <2>1. timer.loaded \in Anchored
    BY DEF IInv, LoadedInv
  <2>2. selected.rev # None => selected.rev \in store
    BY DEF IInv, TypeOK, StoreInv
  <2>3. held \subseteq store /\ (Open(intent) => intent.rev \in store)
    BY DEF IInv, StoreInv
  <2>4. timer.loaded # None
    BY DEF Distinct
  <2> QED
    BY <2>1, <2>2, <2>3, <2>4 DEF Anchored
<1> QED
  BY <1>1, Invariance, PTL

\* A callback that runs, an open intent and every retained generation have their payloads.
THEOREM PayloadsAreKept == ASSUME Distinct PROVE Spec => []RunsAreWhole
<1>1. IInv => RunsAreWhole
  BY DEF IInv, StoreInv, RunsAreWhole
<1> QED
  BY <1>1, Invariance, PTL
=============================================================================
