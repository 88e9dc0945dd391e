------------------------------ MODULE Deployments ------------------------------
(***************************************************************************)
(* What a run does to one destination, and what the generations remember   *)
(* of it: planning from the object that stands there and the record of the *)
(* previous generation, absorbing a user's object with consent, carrying   *)
(* its origin through the epoch, undeclaring, rolling back, and collecting *)
(* what no retained generation names.                                      *)
(*                                                                         *)
(* A run changes the destination first and flips the generation after; it  *)
(* may stop between the two, and then the journal puts the object back     *)
(* before any other command acts (Journal models how).  The user acts      *)
(* between runs.                                                           *)
(***************************************************************************)
EXTENDS Naturals, FiniteSets

CONSTANTS
  Revision,      \* payloads the workspace may declare
  Executable,    \* those whose source is executable
  UserText,      \* contents only the user has
  MaxNumber,     \* bound: generations published, the last an undeclaration
  Nothing,       \* no object, no prior
  NoEntry,       \* no record of the destination
  NoRun,         \* no run between its first change and its flip
  Undeclared,    \* the workspace does not declare the destination
  Elsewhere      \* the target of a user's own link

ASSUME RevisionAssumption == Executable \subseteq Revision
ASSUME UsersAssumption == Revision \cap UserText = {} /\ Elsewhere \notin Revision
ASSUME NumberAssumption == MaxNumber \in Nat \ {0}

VARIABLES
  live,       \* the object at the destination
  entries,    \* generation -> its record of the destination
  retained,   \* the generations on disk
  current,    \* the selected generation, 0 before the first
  next,       \* the number the next generation takes
  store,      \* the payloads in the store
  blobs,      \* the contents in the prior store
  run,        \* a run between its first change and its flip
  origins,    \* history: generation -> the first object its lineage absorbed
  settled     \* history: what was applied last, if nothing moved since

vars == <<live, entries, retained, current, next, store, blobs, run, origins, settled>>

-----------------------------------------------------------------------------
\* A file is its text and, of its permissions, whether it is executable.
FileOf(text, exec) == [kind |-> "file", text |-> text, exec |-> exec]
LinkTo(to) == [kind |-> "link", to |-> to]

Object ==
  {Nothing} \cup [kind : {"file"}, text : Revision \cup UserText, exec : BOOLEAN]
    \cup [kind : {"link"}, to : Revision \cup {Elsewhere}]

IsFile(o) == o # Nothing /\ o.kind = "file"
IntoStore(o) == o # Nothing /\ o.kind = "link" /\ o.to \in Revision

\* An object the store could not give back.
Users(o) ==
  \/ IsFile(o) /\ o.text \in UserText
  \/ o = LinkTo(Elsewhere)

Want == [mode : {"owned", "copy"}, rev : Revision]
Entry == [mode : {"owned", "copy"}, rev : Revision, hash : Object, prior : Object,
          preserved : BOOLEAN]
Number == 1..MaxNumber
Run == [target : Number, before : Object, entry : Entry \cup {NoEntry}, origin : Object,
        want : Want \cup {Undeclared}, consent : BOOLEAN]

ASSUME SentinelAssumption ==
  /\ Nothing \notin [kind : {"file"}, text : Revision \cup UserText, exec : BOOLEAN]
  /\ Nothing \notin [kind : {"link"}, to : Revision \cup {Elsewhere}]
  /\ NoEntry \notin Entry /\ NoRun \notin Run /\ Undeclared \notin Want

EntryOf(g) == IF g = 0 THEN NoEntry ELSE entries[g]
OriginOf(g) == IF g = 0 THEN Nothing ELSE origins[g]

\* A record of something gripsack put there; preserved drift authorizes nothing.
Recorded(e) == e # NoEntry /\ ~e.preserved

-----------------------------------------------------------------------------
ResolveAfresh(prev, rev) == rev \in Executable                           \* mutant
\* The permissions a copy of `rev' takes: those the last write landed with, until the
\* source's executability changes.
Resolve(prev, rev) ==
  IF Recorded(prev) /\ prev.mode = "copy"
       /\ (prev.rev \in Executable) = (rev \in Executable)
    THEN prev.hash.exec
    ELSE rev \in Executable

\* The destination holds the last managed copy.
LastWrite(o, prev) == Recorded(prev) /\ prev.mode = "copy" /\ o = prev.hash

PlanCopy(o, desired, prev, consent) ==
  IF o = Nothing THEN "fresh"
  ELSE IF consent /\ ~LastWrite(o, prev) THEN "take_over"
  ELSE IF o = desired THEN "satisfied"
  ELSE IF LastWrite(o, prev) THEN "update"
  ELSE "preserve"

PlanLink(o, prev, consent) ==
  LET stranger == ~IntoStore(o) /\ ~Recorded(prev)
  IN IF o # Nothing /\ stranger /\ ~consent THEN "refuse"
     ELSE IF consent /\ stranger THEN "take_over"
     ELSE "link"

\* What a plan does: the object after it, and the record it makes before the epoch's
\* origin is inherited.
Result(after, want, hash, prior, preserved) ==
  [after |-> after,
   entry |-> [mode |-> want.mode, rev |-> want.rev, hash |-> hash, prior |-> prior,
              preserved |-> preserved]]

\* Drift is recorded as it stands, and marked.
Preserved(o, want) == Result(o, want, o, Nothing, TRUE)

Linked(o, want, prev, consent) ==
  LET link == LinkTo(want.rev)
  IN Result(link, want, link,
            IF PlanLink(o, prev, consent) = "take_over" THEN o ELSE Nothing, FALSE)

Copied(o, want, exec, prev, consent) ==
  LET desired == FileOf(want.rev, exec)
      adopted == FileOf(want.rev, IF IsFile(o) THEN o.exec ELSE exec)
      plan    == PlanCopy(o, desired, prev, consent)
  IN IF plan = "take_over" THEN Result(adopted, want, adopted, o, FALSE)
     ELSE IF plan = "preserve" THEN Preserved(o, want)
     ELSE Result(desired, want, desired, Nothing, FALSE)

Planned(o, want, prev, consent) ==
  IF want.mode = "owned"
    THEN Linked(o, want, prev, consent)
    ELSE Copied(o, want, Resolve(prev, want.rev), prev, consent)

Refused(o, want, prev, consent) ==
  want.mode = "owned" /\ PlanLink(o, prev, consent) = "refuse"

InheritUncaptured(prev, entry) ==                                        \* mutant
  IF prev = NoEntry \/ entry.prior # Nothing
    THEN entry
    ELSE [entry EXCEPT !.prior = prev.prior]
\* The epoch's first origin outlives a later capture.
Inherit(prev, entry) ==
  IF prev = NoEntry \/ prev.prior = Nothing
    THEN entry
    ELSE [entry EXCEPT !.prior = prev.prior]

Intact(o, e) == ~e.preserved /\ o = e.hash

\* Undeclaring an intact destination puts its origin back; a drifted one is kept.
Removed(o, e) == IF e # NoEntry /\ Intact(o, e) THEN e.prior ELSE o

\* What a rollback leaves: it never absorbs, and never touches drift.
Restored(o, e, prev) ==
  LET want == [mode |-> e.mode, rev |-> e.rev]
  IN IF e.preserved \/ (prev # NoEntry /\ prev.preserved) \/ Refused(o, want, prev, FALSE)
       THEN o
       ELSE IF e.mode = "owned"
              THEN Linked(o, want, prev, FALSE).after
              ELSE Copied(o, want, e.hash.exec, prev, FALSE).after

-----------------------------------------------------------------------------
\* What a user may put there: an executable file or a link of their own, or a copy of
\* a payload, as it is or made executable.
ByHand ==
  {Nothing, LinkTo(Elsewhere)} \cup {FileOf(t, TRUE) : t \in UserText}
    \cup {FileOf(r, r \in Executable) : r \in Revision} \cup {FileOf(r, TRUE) : r \in Revision}

Init ==
  /\ live \in {o \in ByHand : o = Nothing \/ Users(o)}
  /\ entries = [g \in Number |-> NoEntry] /\ retained = {} /\ current = 0 /\ next = 1
  /\ store = {} /\ blobs = {} /\ run = NoRun
  /\ origins = [g \in Number |-> Nothing] /\ settled = Undeclared

\* The contents an object needs in the prior store to be put back.
Texts(o) == IF IsFile(o) THEN {o.text} ELSE {}

\* The first changes of a run: the journal keeps what it replaces, a take-over what
\* it absorbs, under the name of their contents.
Begin(target, after, entry, origin, want, consent) ==
  /\ run' = [target |-> target, before |-> live, entry |-> entry, origin |-> origin,
             want |-> want, consent |-> consent]
  /\ live' = after
  /\ blobs' = IF after # live \/ (entry # NoEntry /\ entry.prior = live)
                THEN blobs \cup Texts(live)
                ELSE blobs
  /\ settled' = Undeclared

\* A run with nothing to write and nothing to record cuts no generation.
Vacuous(want, consent) ==
  /\ current # 0
  /\ LET prev == entries[current]
     IN IF want = Undeclared
          THEN prev = NoEntry
          ELSE LET plan == Planned(live, want, prev, consent)
               IN plan.after = live /\ Inherit(prev, plan.entry) = prev

Declare(want, consent) ==
  LET prev   == EntryOf(current)
      plan   == Planned(live, want, prev, consent)
      origin == IF OriginOf(current) # Nothing THEN OriginOf(current) ELSE plan.entry.prior
  IN /\ run = NoRun
     /\ ~Refused(live, want, prev, consent)
     /\ store' = store \cup {want.rev}
     /\ IF Vacuous(want, consent)
          THEN settled' = want /\ UNCHANGED <<live, run, blobs, next>>
          ELSE /\ next < MaxNumber /\ next' = next + 1
               /\ Begin(next, plan.after, Inherit(prev, plan.entry), origin, want, consent)
     /\ UNCHANGED <<entries, retained, current, origins>>

Undeclare ==
  /\ run = NoRun /\ next <= MaxNumber /\ ~Vacuous(Undeclared, FALSE)
  /\ Begin(next, Removed(live, EntryOf(current)), NoEntry, Nothing, Undeclared, FALSE)
  /\ next' = next + 1
  /\ UNCHANGED <<entries, retained, current, store, origins>>

\* A retained generation with all it deploys.
Whole(g) == entries[g] # NoEntry => entries[g].rev \in store

Rollback(g) ==
  LET e == entries[g]
  IN /\ run = NoRun /\ g \in retained \ {current} /\ Whole(g)
     /\ Begin(g, IF e = NoEntry THEN Removed(live, entries[current])
                                ELSE Restored(live, e, entries[current]),
              e, origins[g], Undeclared, FALSE)
     /\ UNCHANGED <<entries, retained, current, next, store, origins>>

\* The flip: the run's generation is selected.
Commit ==
  /\ run # NoRun
  /\ entries' = [entries EXCEPT ![run.target] = run.entry]
  /\ origins' = [origins EXCEPT ![run.target] = run.origin]
  /\ retained' = retained \cup {run.target} /\ current' = run.target
  /\ settled' = run.want
  /\ run' = NoRun
  /\ UNCHANGED <<live, next, store, blobs>>

\* A step fails or the run is killed: what it replaced comes back from the journal.
Compensate ==
  /\ run # NoRun /\ (live # run.before => Texts(run.before) \subseteq blobs)
  /\ live' = run.before /\ run' = NoRun
  /\ UNCHANGED <<entries, retained, current, next, store, blobs, origins, settled>>

PriorsOfCurrent(kept) ==                                                 \* mutant
  IF EntryOf(current) = NoEntry THEN {} ELSE Texts(EntryOf(current).prior)
\* The payloads and the priors the generations in `kept' name.
Payloads(kept) == {entries[g].rev : g \in {n \in kept : entries[n] # NoEntry}}
Priors(kept) == UNION {Texts(entries[g].prior) : g \in {n \in kept : entries[n] # NoEntry}}

\* Collection is refused while a run may still need what no manifest names.
Admitted == run = NoRun

\* The oldest beyond `keep' are pruned, never the current one; what they alone named
\* goes after them, unless the collector stops first.
Collect(keep) ==
  LET younger(g) == Cardinality({n \in retained : n > g})
      kept == {g \in retained : younger(g) < keep \/ g = current}
  IN /\ Admitted
     /\ retained' = kept
     /\ entries' = [g \in Number |-> IF g \in kept THEN entries[g] ELSE NoEntry]
     /\ origins' = [g \in Number |-> IF g \in kept THEN origins[g] ELSE Nothing]
     /\ \/ store' = store \cap Payloads(kept) /\ blobs' = blobs \cap Priors(kept)
        \/ UNCHANGED <<store, blobs>>
     /\ UNCHANGED <<live, current, next, run, settled>>

\* The user replaces, edits or removes the object.
UserActs(o) ==
  /\ run = NoRun /\ o # live
  /\ live' = o /\ settled' = Undeclared
  /\ UNCHANGED <<entries, retained, current, next, store, blobs, run, origins>>

Next ==
  \/ \E want \in Want, consent \in BOOLEAN : Declare(want, consent)
  \/ Undeclare
  \/ \E g \in Number : Rollback(g)
  \/ Commit
  \/ Compensate
  \/ \E keep \in Number : Collect(keep)
  \/ \E o \in ByHand : UserActs(o)

Spec == Init /\ [][Next]_vars

-----------------------------------------------------------------------------
\* Every variable has its type; a copy's record is of a file unless it is drift.
TypeOK ==
  /\ live \in Object
  /\ entries \in [Number -> Entry \cup {NoEntry}]
  /\ origins \in [Number -> Object]
  /\ retained \subseteq Number
  /\ current \in retained \cup {0} /\ next \in 1..(MaxNumber + 1)
  /\ store \subseteq Revision /\ blobs \subseteq Revision \cup UserText
  /\ run \in Run \cup {NoRun} /\ settled \in Want \cup {Undeclared}
  /\ \A g \in retained :
       LET e == entries[g]
       IN Recorded(e) => e.hash \in IF e.mode = "owned"
                                     THEN {LinkTo(e.rev)}
                                     ELSE {FileOf(e.rev, exec) : exec \in BOOLEAN}

\* A run changes a destination with its generation not yet selected.
Begins == run = NoRun /\ run' # NoRun

\* What only the user has stands until they consent: no run replaces or removes it,
\* whatever earlier runs preserved, converged on or rolled back over.  A link
\* declared where the previous generation has a record is the exception (plan_link).
UsersObjectsStand ==
  [][Begins /\ Users(live) /\ live' # live =>
       \/ run'.consent
       \/ Recorded(EntryOf(current)) /\ run'.entry # NoEntry /\ run'.entry.mode = "owned"]_vars

\* Undeclaring, or rolling back to before the declaration, puts back what the lineage
\* first absorbed, through updates, second take-overs, drift, collection and stops.
OriginReturns ==
  [][Begins /\ run'.entry = NoEntry /\ current # 0 /\ Recorded(entries[current])
       /\ live = entries[current].hash
       => live' = origins[current]]_vars

\* No run, rollback or undeclaration overwrites a user's object without its consent, and
\* what was absorbed with it comes back (deploy/*.rs, ops/plan/*.rs, rollback.rs).
UsersObjectsReturn == UsersObjectsStand /\ OriginReturns

\* Whatever may be rolled back to, put back or recovered is there: a retained
\* generation has its payload and the contents of its prior, and a run that has not
\* flipped has both, and the contents it replaced.
RetainedIsWhole ==
  LET whole(e) == e = NoEntry \/ (e.rev \in store /\ Texts(e.prior) \subseteq blobs)
  IN /\ \A g \in retained : whole(entries[g])
     /\ run # NoRun => /\ whole(run.entry)
                       /\ live # run.before => Texts(run.before) \subseteq blobs

\* Applying again what was just applied writes nothing, and has nothing to record
\* unless what stands is drift.
AppliedIsSatisfied ==
  run = NoRun /\ settled # Undeclared =>
    /\ Recorded(entries[current]) => Vacuous(settled, FALSE)
    /\ Planned(live, settled, entries[current], FALSE).after = live
=============================================================================
