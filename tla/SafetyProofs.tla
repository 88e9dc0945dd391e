----------------------------- MODULE SafetyProofs -----------------------------
(***************************************************************************)
(* What Deployments keeps for every set of payloads, every set of user     *)
(* contents and any number of generations; what SavedPlans, which extends  *)
(* it, keeps of a plan between its review and its application; what an     *)
(* interactive session keeps of signals and terminal, and an exchange of a *)
(* child's streams; and what of those, of the task runs and of the         *)
(* schedules holds side by side.                                           *)
(***************************************************************************)
EXTENDS Safety, SequenceTheorems, TLAPS

-----------------------------------------------------------------------------
\* The inductive invariant.

\* The record of a destination says what gripsack last put there, unless it is drift.
HashIsDeployed(e) ==
  Recorded(e) => e.hash \in IF e.mode = "owned"
                              THEN {LinkTo(e.rev)}
                              ELSE {FileOf(e.rev, exec) : exec \in BOOLEAN}

\* What a record names is there.
Backed(e) == e = NoEntry \/ (e.rev \in store /\ Texts(e.prior) \subseteq blobs)

\* A record carries the origin of its lineage, and no lineage begins without one.
Carries(e, origin) == origin = IF e = NoEntry THEN Nothing ELSE e.prior

\* Planning `want' again over `o' and its record changes nothing, and has nothing to
\* record unless `o' is drift.
SatisfiedBy(o, want, e) ==
  LET again == Planned(o, want, e, FALSE)
  IN /\ again.after = o
     /\ Recorded(e) => Inherit(e, again.entry) = e

\* What every retained generation says of the destination.
RecordInv ==
  \A g \in retained :
    HashIsDeployed(entries[g]) /\ Backed(entries[g]) /\ Carries(entries[g], origins[g])

\* What a run brings to its flip, and what it needs if it never gets there.
RunInv ==
  run # NoRun =>
    /\ HashIsDeployed(run.entry) /\ Backed(run.entry) /\ Carries(run.entry, run.origin)
    /\ live # run.before => Texts(run.before) \subseteq blobs
    /\ settled = Undeclared
    /\ run.want # Undeclared => SatisfiedBy(live, run.want, run.entry)

SelectionInv ==
  /\ current = 0 => retained = {}
  /\ run = NoRun /\ settled # Undeclared =>
       current # 0 /\ SatisfiedBy(live, settled, entries[current])

IInv == TypeOK /\ RecordInv /\ RunInv /\ SelectionInv

-----------------------------------------------------------------------------
\* What an object and a plan are.

LEMMA FileIs ==
  ASSUME NEW t \in Revision \cup UserText, NEW x \in BOOLEAN
  PROVE  /\ FileOf(t, x) \in Object /\ IsFile(FileOf(t, x)) /\ ~IntoStore(FileOf(t, x))
         /\ FileOf(t, x).exec = x /\ FileOf(t, x).text = t
         /\ FileOf(t, x) # Nothing /\ FileOf(t, x) # LinkTo(Elsewhere)
  BY SentinelAssumption DEF FileOf, LinkTo, Object, IsFile, IntoStore

LEMMA LinkIs ==
  ASSUME NEW t \in Revision \cup {Elsewhere}
  PROVE  /\ LinkTo(t) \in Object /\ LinkTo(t) # Nothing /\ ~IsFile(LinkTo(t))
         /\ LinkTo(t).to = t /\ (IntoStore(LinkTo(t)) <=> t \in Revision)
  BY SentinelAssumption DEF LinkTo, Object, IsFile, IntoStore

\* A file has a text and a permission.
LEMMA FileHas ==
  ASSUME NEW o \in Object, IsFile(o)
  PROVE  o.exec \in BOOLEAN /\ o.text \in Revision \cup UserText
  BY DEF Object, IsFile

\* What a user alone has is nothing that gripsack put there.
LEMMA UsersAreNotDeployed ==
  ASSUME NEW e \in Entry, Recorded(e), HashIsDeployed(e), Users(e.hash)
  PROVE  FALSE
<1>1. e.rev \in Revision
  BY DEF Entry
<1>2. CASE e.mode = "owned"
  <2>1. e.hash = LinkTo(e.rev)
    BY <1>2 DEF HashIsDeployed
  <2> QED
    BY <1>1, <2>1, LinkIs, UsersAssumption DEF Users, LinkTo
<1>3. CASE e.mode # "owned"
  <2>1. PICK x \in BOOLEAN : e.hash = FileOf(e.rev, x)
    BY <1>3 DEF HashIsDeployed
  <2> QED
    BY <1>1, <2>1, FileIs, UsersAssumption DEF Users
<1> QED
  BY <1>2, <1>3

\* Without a permission to keep, a copy takes its source's.
LEMMA Afresh == ASSUME NEW rev PROVE (rev \in Executable) \in BOOLEAN
<1>1. CASE rev \in Executable
  <2>1. (rev \in Executable) = TRUE
    BY <1>1
  <2> QED
    BY <2>1
<1>2. CASE rev \notin Executable
  <2>1. (rev \in Executable) = FALSE
    BY <1>2
  <2> QED
    BY <2>1
<1> QED
  BY <1>1, <1>2

\* Whatever is planned is an object with its record, of the payload declared.
LEMMA PlannedIs ==
  ASSUME NEW o \in Object, NEW want \in Want, NEW prev \in Entry \cup {NoEntry},
         HashIsDeployed(prev), NEW consent \in BOOLEAN
  PROVE  LET plan == Planned(o, want, prev, consent)
         IN /\ plan.after \in Object /\ plan.entry \in Entry
            /\ HashIsDeployed(plan.entry)
            /\ plan.entry.mode = want.mode /\ plan.entry.rev = want.rev
            /\ plan.entry.prior \in {Nothing, o}
<1> DEFINE plan == Planned(o, want, prev, consent)
<1>1. want.rev \in Revision /\ want.mode \in {"owned", "copy"} /\ Nothing \in Object
  BY DEF Want, Object
<1>2. CASE want.mode = "owned"
  <2>1. PICK p \in {Nothing, o} :
          plan = Result(LinkTo(want.rev), want, LinkTo(want.rev), p, FALSE)
    BY <1>2 DEF Planned, Linked
  <2>2. LinkTo(want.rev) \in Object
    BY <1>1, LinkIs
  <2> QED
    BY <1>1, <1>2, <2>1, <2>2, SentinelAssumption DEF Result, Entry, HashIsDeployed, Recorded
<1>3. CASE want.mode = "copy"
  <2> DEFINE exec == Resolve(prev, want.rev)
             adopted == FileOf(want.rev, IF IsFile(o) THEN o.exec ELSE exec)
             desired == FileOf(want.rev, exec)
  <2>1. exec \in BOOLEAN
    <3>1. CASE Recorded(prev) /\ prev.mode = "copy"
      <4>1. prev \in Entry
        BY <3>1 DEF Recorded
      <4>2. PICK x \in BOOLEAN : prev.hash = FileOf(prev.rev, x)
        BY <3>1 DEF HashIsDeployed
      <4>3. prev.hash.exec \in BOOLEAN
        BY <4>1, <4>2, FileIs DEF Entry
      <4> QED
        BY <4>3, <3>1, Afresh DEF Resolve
    <3>2. CASE ~(Recorded(prev) /\ prev.mode = "copy")
      BY <3>2, Afresh DEF Resolve
    <3> QED
      BY <3>1, <3>2
  <2>2. PICK x \in BOOLEAN : adopted = FileOf(want.rev, x)
    BY <2>1, FileHas
  <2>3. adopted \in Object /\ desired \in Object
    BY <1>1, <2>1, <2>2, FileIs
  <2>4. \/ plan = Result(adopted, want, adopted, o, FALSE)
        \/ plan = Result(o, want, o, Nothing, TRUE)
        \/ plan = Result(desired, want, desired, Nothing, FALSE)
    BY <1>3 DEF Planned, Copied, Preserved
  <2>5. CASE plan = Result(adopted, want, adopted, o, FALSE)
    BY <1>1, <1>3, <2>2, <2>3, <2>5 DEF Result, Entry, HashIsDeployed, Recorded
  <2>6. CASE plan = Result(o, want, o, Nothing, TRUE)
    BY <1>1, <1>3, <2>6 DEF Result, Entry, HashIsDeployed, Recorded
  <2>7. CASE plan = Result(desired, want, desired, Nothing, FALSE)
    BY <1>1, <1>3, <2>1, <2>3, <2>7 DEF Result, Entry, HashIsDeployed, Recorded
  <2> QED
    BY <2>4, <2>5, <2>6, <2>7
<1> QED
  BY <1>1, <1>2, <1>3

\* Inheriting changes the origin and nothing else.
LEMMA InheritIs ==
  ASSUME NEW prev \in Entry \cup {NoEntry}, NEW e \in Entry, HashIsDeployed(e)
  PROVE  LET i == Inherit(prev, e)
         IN /\ i \in Entry /\ HashIsDeployed(i)
            /\ i.mode = e.mode /\ i.rev = e.rev /\ i.hash = e.hash
            /\ i.preserved = e.preserved
            /\ i.prior = IF prev = NoEntry \/ prev.prior = Nothing THEN e.prior ELSE prev.prior
<1> DEFINE i == Inherit(prev, e)
<1>1. CASE prev = NoEntry \/ prev.prior = Nothing
  BY <1>1 DEF Inherit
<1>2. CASE ~(prev = NoEntry \/ prev.prior = Nothing)
  <2>1. prev \in Entry /\ i = [e EXCEPT !.prior = prev.prior]
    BY <1>2 DEF Inherit
  <2>2. i \in Entry /\ i.mode = e.mode /\ i.rev = e.rev /\ i.hash = e.hash
          /\ i.preserved = e.preserved /\ i.prior = prev.prior
    BY <2>1 DEF Entry
  <2>3. HashIsDeployed(i)
    BY <2>2, SentinelAssumption DEF HashIsDeployed, Recorded
  <2> QED
    BY <1>2, <2>2, <2>3
<1> QED
  BY <1>1, <1>2

\* A plan that records what is recorded already adds nothing to it.
LEMMA NothingNew ==
  ASSUME NEW e \in Entry, HashIsDeployed(e), ~e.preserved, NEW want, NEW after,
         want.mode = e.mode, want.rev = e.rev
  PROVE  Inherit(e, Result(after, want, e.hash, Nothing, FALSE).entry) = e
<1> DEFINE f == [mode |-> e.mode, rev |-> e.rev, hash |-> e.hash, prior |-> Nothing,
                 preserved |-> FALSE]
<1>1. f = Result(after, want, e.hash, Nothing, FALSE).entry
  BY DEF Result
<1>2. e.preserved = FALSE
  BY DEF Entry
<1>3. e = [mode |-> e.mode, rev |-> e.rev, hash |-> e.hash, prior |-> e.prior,
           preserved |-> e.preserved]
  BY DEF Entry
<1>4. [f EXCEPT !.prior = e.prior] = e
  <2>1. ASSUME NEW d PROVE
          [[mode |-> e.mode, rev |-> e.rev, hash |-> e.hash, prior |-> Nothing,
            preserved |-> d] EXCEPT !.prior = e.prior] =
          [mode |-> e.mode, rev |-> e.rev, hash |-> e.hash, prior |-> e.prior,
           preserved |-> d]
    OBVIOUS
  <2> QED
    BY <1>2, <1>3, <2>1
<1>5. e.prior = Nothing => f = e
  BY <1>2, <1>3
<1>6. Inherit(e, f) = e
  BY <1>4, <1>5, SentinelAssumption DEF Inherit
<1> QED
  BY <1>1, <1>6

\* A copy is satisfied with the file it would write.
LEMMA CopySatisfied ==
  ASSUME NEW want \in Want, want.mode = "copy", NEW e \in Entry, NEW x \in BOOLEAN,
         e.mode = "copy", e.rev = want.rev, ~e.preserved, e.hash = FileOf(want.rev, x)
  PROVE  SatisfiedBy(FileOf(want.rev, x), want, e)
<1> DEFINE o == FileOf(want.rev, x)
           again == Planned(o, want, e, FALSE)
<1>1. want.rev \in Revision /\ e # NoEntry
  BY SentinelAssumption DEF Want
<1>2. Recorded(e) /\ e.hash.exec = x /\ o # Nothing
  BY <1>1, FileIs DEF Recorded
<1>3. Resolve(e, want.rev) = x
  BY <1>2 DEF Resolve
<1>4. again = Result(o, want, o, Nothing, FALSE)
  BY <1>2, <1>3 DEF Planned, Copied, PlanCopy
<1> HIDE DEF again
<1>5. again.after = o
  BY <1>4 DEF Result
<1>6. Inherit(e, again.entry) = e
  <2>1. HashIsDeployed(e) /\ e.hash = o
    BY <1>1 DEF HashIsDeployed
  <2>2. Inherit(e, Result(o, want, e.hash, Nothing, FALSE).entry) = e
    BY <2>1, NothingNew
  <2> QED
    BY <1>4, <2>1, <2>2
<1> QED
  BY <1>5, <1>6 DEF SatisfiedBy, again

\* What has just been planned and done is satisfied: a link, a copy that was written,
\* taken over or found, and drift that was left.
LEMMA PlannedIsSatisfied ==
  ASSUME NEW o \in Object, NEW want \in Want, NEW prev \in Entry \cup {NoEntry},
         HashIsDeployed(prev), NEW consent \in BOOLEAN
  PROVE  LET plan == Planned(o, want, prev, consent)
         IN SatisfiedBy(plan.after, want, Inherit(prev, plan.entry))
<1> DEFINE plan == Planned(o, want, prev, consent)
           e == Inherit(prev, plan.entry)
           again == Planned(plan.after, want, e, FALSE)
<1>1. /\ plan.after \in Object /\ plan.entry \in Entry /\ HashIsDeployed(plan.entry)
      /\ plan.entry.mode = want.mode /\ plan.entry.rev = want.rev
  BY PlannedIs
<1>2. /\ e \in Entry /\ HashIsDeployed(e) /\ e # NoEntry
      /\ e.mode = want.mode /\ e.rev = want.rev /\ e.hash = plan.entry.hash
      /\ e.preserved = plan.entry.preserved
  BY <1>1, InheritIs, SentinelAssumption
<1>3. want.rev \in Revision /\ want.mode \in {"owned", "copy"}
  BY DEF Want
<1>4. CASE want.mode = "owned"
  <2> DEFINE link == LinkTo(want.rev)
  <2>1. PICK p : plan = Result(link, want, link, p, FALSE)
    BY <1>4 DEF Planned, Linked
  <2>2. plan.after = link /\ e.hash = link /\ ~e.preserved
    BY <1>2, <2>1 DEF Result
  <2>3. IntoStore(link) /\ link # Nothing
    BY <1>3, LinkIs
  <2>4. PlanLink(link, e, FALSE) = "link"
    BY <2>3 DEF PlanLink
  <2>5. again = Result(link, want, link, Nothing, FALSE)
    BY <1>4, <2>2, <2>4 DEF Planned, Linked
  <2> HIDE DEF again
  <2>6. again.after = plan.after
    BY <2>2, <2>5 DEF Result
  <2>7. Inherit(e, again.entry) = e
    <3>1. again = Result(link, want, e.hash, Nothing, FALSE)
      BY <2>2, <2>5
    <3> HIDE DEF e, link
    <3> QED
      BY <1>2, <2>2, <3>1, NothingNew
  <2> QED
    BY <2>6, <2>7 DEF SatisfiedBy, again
<1>5. CASE want.mode = "copy"
  <2> DEFINE exec == Resolve(prev, want.rev)
             adopted == FileOf(want.rev, IF IsFile(o) THEN o.exec ELSE exec)
             desired == FileOf(want.rev, exec)
  <2>1. \/ plan = Result(adopted, want, adopted, o, FALSE)
        \/ plan = Result(desired, want, desired, Nothing, FALSE)
        \/ /\ plan = Preserved(o, want) /\ o # Nothing
    BY <1>5 DEF Planned, Copied, PlanCopy
  <2>2. CASE plan.after = plan.entry.hash /\ ~plan.entry.preserved
    <3>1. PICK x \in BOOLEAN : plan.entry.hash = FileOf(want.rev, x)
      BY <1>1, <1>5, <2>2, SentinelAssumption DEF HashIsDeployed, Recorded
    <3> QED
      BY <1>2, <1>5, <2>2, <3>1, CopySatisfied
  <2>3. CASE plan = Preserved(o, want) /\ o # Nothing
    <3>1. plan.after = o /\ e.preserved
      BY <1>2, <2>3 DEF Preserved, Result
    <3>2. ~Recorded(e) /\ ~LastWrite(o, e)
      BY <3>1 DEF Recorded, LastWrite
    <3>3. again = Copied(o, want, Resolve(e, want.rev), e, FALSE)
      BY <1>5, <3>1 DEF Planned
    <3>4. \/ again = Preserved(o, want)
          \/ \E x : o = x /\ again = Result(x, want, x, Nothing, FALSE)
      BY <2>3, <3>2, <3>3 DEF Copied, PlanCopy
    <3> HIDE DEF again
    <3>5. again.after = o
      BY <3>4 DEF Preserved, Result
    <3> QED
      BY <3>1, <3>2, <3>5 DEF SatisfiedBy, again
  <2> QED
    BY <2>1, <2>2, <2>3 DEF Result
<1> QED
  BY <1>3, <1>4, <1>5

-----------------------------------------------------------------------------
\* The steps.

\* What is known of the selected generation, the one before the first included.
LEMMA SelectedIs ==
  ASSUME IInv
  PROVE  /\ EntryOf(current) \in Entry \cup {NoEntry}
         /\ HashIsDeployed(EntryOf(current)) /\ Backed(EntryOf(current))
         /\ Carries(EntryOf(current), OriginOf(current))
         /\ current # 0 => current \in retained /\ current \in Number
  BY DEF IInv, TypeOK, RecordInv, EntryOf, OriginOf, HashIsDeployed, Recorded, Backed, Carries

LEMMA ByHandIs == ByHand \subseteq Object
<1>1. ASSUME NEW r \in Revision PROVE FileOf(r, r \in Executable) \in Object
  BY Afresh, FileIs
<1>2. Nothing \in Object
  BY DEF Object
<1> QED
  BY <1>1, <1>2, FileIs, LinkIs DEF ByHand

LEMMA InitIsIInv == Init => IInv
<1> SUFFICES ASSUME Init PROVE IInv
  OBVIOUS
<1>1. live \in Object
  BY ByHandIs DEF Init
<1>2. TypeOK
  BY <1>1, NumberAssumption DEF Init, TypeOK, Object
<1>3. RecordInv /\ RunInv /\ SelectionInv
  BY DEF Init, RecordInv, RunInv, SelectionInv
<1> QED
  BY <1>2, <1>3 DEF IInv

LEMMA TextsAre ==
  ASSUME NEW o \in Object
  PROVE  Texts(o) \subseteq Revision \cup UserText
  BY FileHas DEF Texts

\* What a record needs stays when neither store loses anything.
LEMMA StillBacked ==
  ASSUME NEW e, Backed(e), store \subseteq store', blobs \subseteq blobs'
  PROVE  e = NoEntry \/ (e.rev \in store' /\ Texts(e.prior) \subseteq blobs')
  BY DEF Backed

\* A run that begins keeps what it replaces and what it absorbs.
LEMMA BeginStep ==
  ASSUME IInv, run = NoRun,
         NEW number \in Number, NEW after \in Object, NEW entry \in Entry \cup {NoEntry},
         NEW origin \in Object, NEW want \in Want \cup {Undeclared}, NEW consent \in BOOLEAN,
         Begin(number, after, entry, origin, want, consent),
         UNCHANGED <<entries, retained, current, origins>>,
         store \subseteq store', store' \subseteq Revision, next' \in 1..(MaxNumber + 1),
         HashIsDeployed(entry), Carries(entry, origin),
         entry # NoEntry =>
           entry.rev \in store' /\ (entry.prior = live \/ Texts(entry.prior) \subseteq blobs),
         want # Undeclared => SatisfiedBy(after, want, entry)
  PROVE  IInv'
<1> DEFINE r == [target |-> number, before |-> live, entry |-> entry, origin |-> origin,
                 want |-> want, consent |-> consent]
<1>1. run' = r /\ live' = after /\ settled' = Undeclared
  BY DEF Begin
<1>2. /\ blobs \subseteq blobs' /\ blobs' \subseteq blobs \cup Texts(live)
      /\ after # live => Texts(live) \subseteq blobs'
      /\ entry # NoEntry /\ entry.prior = live => Texts(live) \subseteq blobs'
  BY DEF Begin
<1>3. live \in Object /\ blobs \subseteq Revision \cup UserText
  BY DEF IInv, TypeOK
<1>4. r \in Run
  BY <1>3 DEF Run
<1>5. TypeOK'
  <2>1. blobs' \subseteq Revision \cup UserText
    BY <1>2, <1>3, TextsAre
  <2> QED
    BY <1>1, <1>4, <2>1 DEF IInv, TypeOK
<1>6. RecordInv'
  <2>1. \A g \in retained :
          HashIsDeployed(entries[g]) /\ Carries(entries[g], origins[g])
            /\ (entries[g] = NoEntry
                  \/ (entries[g].rev \in store' /\ Texts(entries[g].prior) \subseteq blobs'))
    BY <1>2, StillBacked DEF IInv, RecordInv
  <2> QED
    BY <2>1 DEF RecordInv, Backed
<1>7. RunInv'
  <2>1. entry = NoEntry \/ (entry.rev \in store' /\ Texts(entry.prior) \subseteq blobs')
    BY <1>2
  <2>2. /\ run'.entry = entry /\ run'.origin = origin /\ run'.before = live
        /\ run'.want = want
    BY <1>1
  <2> QED
    BY <1>1, <1>2, <2>1, <2>2 DEF RunInv, Backed
<1>8. SelectionInv'
  BY <1>1 DEF IInv, SelectionInv
<1> QED
  BY <1>5, <1>6, <1>7, <1>8 DEF IInv

LEMMA DeclareStep ==
  ASSUME IInv, NEW want \in Want, NEW consent \in BOOLEAN, Declare(want, consent)
  PROVE  IInv'
<1> DEFINE prev   == EntryOf(current)
           plan   == Planned(live, want, prev, consent)
           entry  == Inherit(prev, plan.entry)
           origin == IF OriginOf(current) # Nothing THEN OriginOf(current)
                                                    ELSE plan.entry.prior
<1>1. /\ prev \in Entry \cup {NoEntry} /\ HashIsDeployed(prev) /\ Backed(prev)
      /\ Carries(prev, OriginOf(current))
  BY SelectedIs
<1>2. live \in Object
  BY DEF IInv, TypeOK
<1>3. /\ plan.after \in Object /\ plan.entry \in Entry /\ HashIsDeployed(plan.entry)
      /\ plan.entry.rev = want.rev /\ plan.entry.prior \in {Nothing, live}
  BY <1>1, <1>2, PlannedIs
<1>4. SatisfiedBy(plan.after, want, entry)
  BY <1>1, <1>2, PlannedIsSatisfied
<1>5. /\ store' = store \cup {want.rev} /\ store' \subseteq Revision
      /\ run = NoRun /\ UNCHANGED <<entries, retained, current, origins>>
  BY DEF Declare, IInv, TypeOK, Want
<1>6. CASE Vacuous(want, consent)
  <2>1. settled' = want /\ UNCHANGED <<live, run, blobs, next>>
    BY <1>6 DEF Declare
  <2>2. current # 0 /\ prev = entries[current] /\ plan.after = live /\ entry = prev
    BY <1>6, SentinelAssumption DEF Vacuous, EntryOf
  <2>3. TypeOK'
    BY <1>5, <2>1 DEF IInv, TypeOK
  <2>4. RecordInv'
    BY <1>5, <2>1 DEF IInv, RecordInv, Backed
  <2>5. SatisfiedBy(live, want, entries[current])
    BY <1>4, <2>2
  <2>6. RunInv' /\ SelectionInv'
    BY <1>5, <2>1, <2>2, <2>5 DEF IInv, RunInv, SelectionInv
  <2> QED
    BY <2>3, <2>4, <2>6 DEF IInv
<1>7. CASE ~Vacuous(want, consent)
  <2>1. /\ next < MaxNumber /\ next' = next + 1
        /\ Begin(next, plan.after, entry, origin, want, consent)
    BY <1>7 DEF Declare
  <2>2. next \in Number /\ next' \in 1..(MaxNumber + 1)
    BY <2>1, NumberAssumption DEF IInv, TypeOK, Number
  <2>3. /\ entry \in Entry /\ HashIsDeployed(entry) /\ entry.rev = want.rev
        /\ entry.prior = IF prev = NoEntry \/ prev.prior = Nothing THEN plan.entry.prior
                                                                  ELSE prev.prior
    BY <1>1, <1>3, InheritIs
  <2>4. Carries(entry, origin)
    BY <1>1, <2>3, SentinelAssumption DEF Carries
  <2>5. origin \in Object
    BY <2>3, <2>4, SentinelAssumption DEF Carries, Entry
  <2>6. entry.prior = live \/ Texts(entry.prior) \subseteq blobs
    BY <1>1, <1>3, <2>3 DEF Backed, Texts, IsFile
  <2> HIDE DEF plan, entry, origin
  <2> QED
    BY <1>3, <1>4, <1>5, <2>1, <2>2, <2>3, <2>4, <2>5, <2>6, BeginStep
<1> QED
  BY <1>6, <1>7

\* What is left where a declaration ends: the origin if it is intact, else what stands.
LEMMA RemovedIs ==
  ASSUME NEW o \in Object, NEW e \in Entry \cup {NoEntry}
  PROVE  Removed(o, e) \in Object
  BY DEF Removed, Entry

LEMMA UndeclareStep == ASSUME IInv, Undeclare PROVE IInv'
<1> DEFINE after == Removed(live, EntryOf(current))
<1>1. /\ run = NoRun /\ next <= MaxNumber /\ next' = next + 1
      /\ Begin(next, after, NoEntry, Nothing, Undeclared, FALSE)
      /\ UNCHANGED <<entries, retained, current, store, origins>>
  BY DEF Undeclare
<1>2. next \in Number /\ next' \in 1..(MaxNumber + 1) /\ store \subseteq Revision
  BY <1>1, NumberAssumption DEF IInv, TypeOK, Number
<1>3. after \in Object /\ Nothing \in Object
  BY SelectedIs, RemovedIs DEF IInv, TypeOK, Object
<1>4. HashIsDeployed(NoEntry) /\ Carries(NoEntry, Nothing)
  BY DEF HashIsDeployed, Recorded, Carries
<1> QED
  BY <1>1, <1>2, <1>3, <1>4, BeginStep

\* A rollback leaves a link, a copy of the payload, or what stood there.
LEMMA RestoredIs ==
  ASSUME NEW o \in Object, NEW e \in Entry, HashIsDeployed(e), NEW prev
  PROVE  Restored(o, e, prev) \in Object
<1> DEFINE want == [mode |-> e.mode, rev |-> e.rev]
<1>1. e.rev \in Revision /\ e.mode \in {"owned", "copy"} /\ want.rev = e.rev /\ want.mode = e.mode
  BY DEF Entry
<1>2. CASE Restored(o, e, prev) = o
  BY <1>2
<1>3. CASE e.mode = "owned" /\ Restored(o, e, prev) = Linked(o, want, prev, FALSE).after
  <2>1. Linked(o, want, prev, FALSE).after = LinkTo(e.rev)
    BY <1>1 DEF Linked, Result
  <2> QED
    BY <1>1, <1>3, <2>1, LinkIs
<1>4. CASE /\ e.mode # "owned" /\ ~e.preserved
           /\ Restored(o, e, prev) = Copied(o, want, e.hash.exec, prev, FALSE).after
  <2>1. PICK x \in BOOLEAN : e.hash = FileOf(e.rev, x)
    BY <1>4, SentinelAssumption DEF HashIsDeployed, Recorded
  <2>2. e.hash.exec = x
    BY <1>1, <2>1, FileIs
  <2>3. Copied(o, want, x, prev, FALSE).after \in
          {o, FileOf(e.rev, x), FileOf(e.rev, IF IsFile(o) THEN o.exec ELSE x)}
    BY <1>1 DEF Copied, Preserved, Result
  <2>4. PICK y \in BOOLEAN : y = IF IsFile(o) THEN o.exec ELSE x
    BY FileHas
  <2>5. FileOf(e.rev, x) \in Object /\ FileOf(e.rev, y) \in Object
    BY <1>1, FileIs
  <2> QED
    BY <1>4, <2>2, <2>3, <2>4, <2>5
<1> QED
  BY <1>2, <1>3, <1>4 DEF Restored

LEMMA RollbackStep ==
  ASSUME IInv, NEW g \in Number, Rollback(g)
  PROVE  IInv'
<1> DEFINE e     == entries[g]
           after == IF e = NoEntry THEN Removed(live, entries[current])
                                   ELSE Restored(live, e, entries[current])
<1>1. /\ run = NoRun /\ g \in retained
      /\ Begin(g, after, e, origins[g], Undeclared, FALSE)
      /\ UNCHANGED <<entries, retained, current, next, store, origins>>
  BY DEF Rollback
<1>2. /\ e \in Entry \cup {NoEntry} /\ HashIsDeployed(e) /\ Backed(e)
      /\ Carries(e, origins[g]) /\ origins[g] \in Object /\ live \in Object
      /\ store \subseteq Revision /\ next \in 1..(MaxNumber + 1)
  BY <1>1 DEF IInv, TypeOK, RecordInv
<1>3. current \in Number /\ entries[current] \in Entry \cup {NoEntry}
  BY <1>1 DEF IInv, TypeOK, SelectionInv
<1>4. after \in Object
  BY <1>2, <1>3, RemovedIs, RestoredIs
<1>5. e # NoEntry => e.rev \in store /\ Texts(e.prior) \subseteq blobs
  BY <1>2 DEF Backed
<1> HIDE DEF e, after
<1> QED
  BY <1>1, <1>2, <1>4, <1>5, BeginStep

LEMMA CommitStep == ASSUME IInv, Commit PROVE IInv'
<1>1. /\ run \in Run /\ run # NoRun /\ run' = NoRun
      /\ entries' = [entries EXCEPT ![run.target] = run.entry]
      /\ origins' = [origins EXCEPT ![run.target] = run.origin]
      /\ retained' = retained \cup {run.target} /\ current' = run.target
      /\ settled' = run.want /\ UNCHANGED <<live, next, store, blobs>>
  BY DEF Commit, IInv, TypeOK
<1>2. /\ run.target \in Number /\ run.entry \in Entry \cup {NoEntry} /\ run.origin \in Object
      /\ run.want \in Want \cup {Undeclared}
  BY <1>1 DEF Run
<1>3. /\ HashIsDeployed(run.entry) /\ Backed(run.entry) /\ Carries(run.entry, run.origin)
      /\ run.want # Undeclared => SatisfiedBy(live, run.want, run.entry)
  BY <1>1 DEF IInv, RunInv
<1>4. \A g \in retained' :
        \/ g = run.target /\ entries'[g] = run.entry /\ origins'[g] = run.origin
        \/ g \in retained /\ entries'[g] = entries[g] /\ origins'[g] = origins[g]
  BY <1>1, <1>2 DEF IInv, TypeOK
<1>5. \A g \in retained' :
        /\ HashIsDeployed(entries'[g]) /\ Carries(entries'[g], origins'[g])
        /\ Backed(entries'[g])
  BY <1>3, <1>4 DEF IInv, RecordInv
<1>6. TypeOK'
  BY <1>1, <1>2, <1>5 DEF IInv, TypeOK, HashIsDeployed
<1>7. RecordInv'
  BY <1>1, <1>5 DEF RecordInv, Backed
<1>8. RunInv' /\ SelectionInv'
  <2>1. current' # 0 /\ entries'[current'] = run.entry
    BY <1>1, <1>2 DEF IInv, TypeOK, Number
  <2>2. settled' # Undeclared => SatisfiedBy(live', settled', entries'[current'])
    BY <1>1, <1>3, <2>1
  <2> QED
    BY <1>1, <2>1, <2>2 DEF RunInv, SelectionInv
<1> QED
  BY <1>6, <1>7, <1>8 DEF IInv

LEMMA CompensateStep == ASSUME IInv, Compensate PROVE IInv'
<1>1. /\ run \in Run /\ run # NoRun /\ run' = NoRun /\ live' = run.before
      /\ UNCHANGED <<entries, retained, current, next, store, blobs, origins, settled>>
  BY DEF Compensate, IInv, TypeOK
<1>2. run.before \in Object /\ settled = Undeclared
  BY <1>1 DEF Run, IInv, RunInv
<1> QED
  BY <1>1, <1>2 DEF IInv, TypeOK, RecordInv, RunInv, SelectionInv, Backed

\* A collection takes nothing that a generation it keeps names.
LEMMA CollectStep ==
  ASSUME IInv, NEW keep \in Number, Collect(keep)
  PROVE  IInv'
<1> DEFINE kept == retained'
<1>1. /\ run = NoRun /\ kept \subseteq retained /\ (current \in retained => current \in kept)
      /\ entries' = [g \in Number |-> IF g \in kept THEN entries[g] ELSE NoEntry]
      /\ origins' = [g \in Number |-> IF g \in kept THEN origins[g] ELSE Nothing]
      /\ UNCHANGED <<live, current, next, run, settled>>
      /\ store' \subseteq store /\ blobs' \subseteq blobs
  BY DEF Collect, Admitted
<1>2. \/ store' = store \cap Payloads(kept) /\ blobs' = blobs \cap Priors(kept)
      \/ UNCHANGED <<store, blobs>>
  BY DEF Collect
<1>3. \A g \in kept : g \in Number /\ entries'[g] = entries[g] /\ origins'[g] = origins[g]
  BY <1>1 DEF IInv, TypeOK
<1>4. ASSUME NEW g \in kept
      PROVE  entries[g] = NoEntry \/ (entries[g].rev \in store' /\ Texts(entries[g].prior) \subseteq blobs')
  <2>1. Backed(entries[g])
    BY <1>1 DEF IInv, RecordInv
  <2>2. CASE entries[g] # NoEntry
    <3>1. entries[g].rev \in Payloads(kept) /\ Texts(entries[g].prior) \subseteq Priors(kept)
      BY <2>2 DEF Payloads, Priors
    <3> QED
      BY <1>2, <2>1, <2>2, <3>1 DEF Backed
  <2> QED
    BY <2>2
<1>5. TypeOK'
  <2>1. \A g \in Number : /\ entries'[g] \in Entry \cup {NoEntry}
                          /\ origins'[g] \in Object
    BY <1>1 DEF IInv, TypeOK, Object
  <2>2. entries' \in [Number -> Entry \cup {NoEntry}] /\ origins' \in [Number -> Object]
    BY <1>1, <2>1
  <2>3. \A g \in kept : HashIsDeployed(entries'[g])
    BY <1>1, <1>3 DEF IInv, RecordInv
  <2>4. /\ live' \in Object /\ retained' \subseteq Number /\ current' \in retained' \cup {0}
        /\ next' \in 1..(MaxNumber + 1) /\ store' \subseteq Revision
        /\ blobs' \subseteq Revision \cup UserText /\ run' \in Run \cup {NoRun}
        /\ settled' \in Want \cup {Undeclared}
    BY <1>1 DEF IInv, TypeOK
  <2> QED
    BY <2>2, <2>3, <2>4 DEF TypeOK, HashIsDeployed
<1>6. RecordInv'
  BY <1>1, <1>3, <1>4 DEF IInv, RecordInv, Backed
<1>7. RunInv' /\ SelectionInv'
  <2>1. current # 0 => current \in kept
    BY <1>1 DEF IInv, TypeOK
  <2> QED
    BY <1>1, <1>3, <2>1 DEF IInv, RunInv, SelectionInv
<1> QED
  BY <1>5, <1>6, <1>7 DEF IInv

LEMMA UserStep ==
  ASSUME IInv, NEW o \in ByHand, UserActs(o)
  PROVE  IInv'
  BY ByHandIs DEF IInv, TypeOK, RecordInv, RunInv, SelectionInv, UserActs, Backed

LEMMA StutterStep == ASSUME IInv, UNCHANGED vars PROVE IInv'
  BY DEF IInv, TypeOK, RecordInv, RunInv, SelectionInv, Backed, vars

\* Every step keeps the invariant.
LEMMA NextIsIInv == ASSUME IInv, [Next]_vars PROVE IInv'
<1>1. CASE UNCHANGED vars
  BY <1>1, StutterStep
<1>2. CASE Next
  BY <1>2, DeclareStep, UndeclareStep, RollbackStep, CommitStep, CompensateStep,
     CollectStep, UserStep DEF Next
<1> QED
  BY <1>1, <1>2

\* The invariant holds throughout.
LEMMA Invariance == Spec => []IInv
<1>1. IInv /\ [Next]_vars => IInv'
  BY NextIsIInv
<1> QED
  BY InitIsIInv, <1>1, PTL DEF Spec

-----------------------------------------------------------------------------
\* What a user alone has, under the actions that begin a run.

\* Without consent a plan leaves it, unless a link takes the place of a record.
LEMMA PlanLeavesUsers ==
  ASSUME NEW o \in Object, Users(o), NEW want \in Want, NEW prev \in Entry \cup {NoEntry},
         HashIsDeployed(prev), ~Refused(o, want, prev, FALSE)
  PROVE  \/ Planned(o, want, prev, FALSE).after = o
         \/ Recorded(prev) /\ want.mode = "owned"
<1>1. o # Nothing /\ ~IntoStore(o)
  BY LinkIs, UsersAssumption DEF Users, IsFile, IntoStore
<1>2. CASE want.mode = "owned"
  BY <1>1, <1>2 DEF Refused, PlanLink
<1>3. CASE want.mode # "owned"
  <2> DEFINE exec == Resolve(prev, want.rev)
             desired == FileOf(want.rev, exec)
  <2>1. ~LastWrite(o, prev)
    BY UsersAreNotDeployed DEF LastWrite, Recorded
  <2>2. PlanCopy(o, desired, prev, FALSE) \in {"satisfied", "preserve"}
    BY <1>1, <2>1 DEF PlanCopy
  <2>3. PlanCopy(o, desired, prev, FALSE) = "satisfied" => desired = o
    BY <1>1, <2>1 DEF PlanCopy
  <2>4. Planned(o, want, prev, FALSE).after = o
    BY <1>3, <2>2, <2>3 DEF Planned, Copied, Preserved, Result
  <2> QED
    BY <2>4
<1> QED
  BY <1>2, <1>3

LEMMA RemovalLeavesUsers ==
  ASSUME NEW o, Users(o), NEW e \in Entry \cup {NoEntry}, HashIsDeployed(e)
  PROVE  Removed(o, e) = o
  BY UsersAreNotDeployed DEF Removed, Intact, Recorded

\* So does a rollback, which never has consent.
LEMMA RollbackLeavesUsers ==
  ASSUME NEW o \in Object, Users(o), NEW e \in Entry, HashIsDeployed(e),
         NEW prev \in Entry \cup {NoEntry}, HashIsDeployed(prev)
  PROVE  \/ Restored(o, e, prev) = o
         \/ Recorded(prev) /\ e.mode = "owned"
<1> DEFINE want == [mode |-> e.mode, rev |-> e.rev]
<1>1. o # Nothing /\ ~IntoStore(o) /\ want.mode = e.mode /\ want.rev = e.rev
  BY LinkIs, UsersAssumption DEF Users, IsFile, IntoStore
<1>2. CASE Restored(o, e, prev) = o
  BY <1>2
<1>3. CASE e.mode = "owned" /\ ~Refused(o, want, prev, FALSE)
  BY <1>1, <1>3 DEF Refused, PlanLink
<1>4. CASE e.mode # "owned" /\ Restored(o, e, prev) = Copied(o, want, e.hash.exec, prev, FALSE).after
  <2>1. ~LastWrite(o, prev)
    BY UsersAreNotDeployed DEF LastWrite, Recorded
  <2>2. Copied(o, want, e.hash.exec, prev, FALSE).after = o
    BY <1>1, <2>1 DEF Copied, PlanCopy, Preserved, Result
  <2> QED
    BY <1>4, <2>2
<1> QED
  BY <1>2, <1>3, <1>4 DEF Restored

\* A run begins by a declaration, an undeclaration or a rollback.
LEMMA BeginsIs ==
  ASSUME [Next]_vars, Begins
  PROVE  \/ \E want \in Want, consent \in BOOLEAN :
              Declare(want, consent) /\ ~Vacuous(want, consent)
         \/ Undeclare
         \/ \E g \in Number : Rollback(g)
  BY DEF Next, vars, Begins, Declare, Commit, Compensate, Collect, Admitted, UserActs

LEMMA StandsStep ==
  ASSUME IInv, [Next]_vars, Begins, Users(live), live' # live
  PROVE  \/ run'.consent
         \/ Recorded(EntryOf(current)) /\ run'.entry # NoEntry /\ run'.entry.mode = "owned"
<1> DEFINE prev == EntryOf(current)
<1>1. live \in Object /\ prev \in Entry \cup {NoEntry} /\ HashIsDeployed(prev)
  BY SelectedIs DEF IInv, TypeOK
<1>2. ASSUME NEW want \in Want, NEW consent \in BOOLEAN, Declare(want, consent),
             ~Vacuous(want, consent)
      PROVE  \/ run'.consent
             \/ Recorded(prev) /\ run'.entry # NoEntry /\ run'.entry.mode = "owned"
  <2> DEFINE plan == Planned(live, want, prev, consent)
  <2>1. /\ live' = plan.after /\ run'.consent = consent
        /\ run'.entry = Inherit(prev, plan.entry) /\ ~Refused(live, want, prev, consent)
    BY <1>2 DEF Declare, Begin
  <2>2. CASE consent
    BY <2>1, <2>2
  <2>3. CASE consent = FALSE
    <3>1. Recorded(prev) /\ want.mode = "owned"
      BY <1>1, <2>1, <2>3, PlanLeavesUsers
    <3>2. plan.entry \in Entry /\ HashIsDeployed(plan.entry) /\ plan.entry.mode = want.mode
      BY <1>1, PlannedIs
    <3>3. Inherit(prev, plan.entry) \in Entry /\ Inherit(prev, plan.entry).mode = want.mode
      BY <1>1, <3>2, InheritIs
    <3> QED
      BY <2>1, <3>1, <3>3, SentinelAssumption
  <2> QED
    BY <2>2, <2>3
<1>3. ASSUME Undeclare PROVE FALSE
  <2>1. live' = Removed(live, prev)
    BY <1>3 DEF Undeclare, Begin
  <2> QED
    BY <1>1, <2>1, RemovalLeavesUsers
<1>4. ASSUME NEW g \in Number, Rollback(g)
      PROVE  Recorded(prev) /\ run'.entry # NoEntry /\ run'.entry.mode = "owned"
  <2> DEFINE e == entries[g]
  <2>1. /\ g \in retained /\ run'.entry = e
        /\ live' = IF e = NoEntry THEN Removed(live, entries[current])
                                  ELSE Restored(live, e, entries[current])
    BY <1>4 DEF Rollback, Begin
  <2>2. prev = entries[current] /\ e \in Entry \cup {NoEntry} /\ HashIsDeployed(e)
    BY <2>1 DEF IInv, TypeOK, RecordInv, SelectionInv, EntryOf
  <2>3. e # NoEntry
    BY <1>1, <2>1, <2>2, RemovalLeavesUsers
  <2> QED
    BY <1>1, <2>1, <2>2, <2>3, RollbackLeavesUsers
<1> QED
  BY <1>2, <1>3, <1>4, BeginsIs

LEMMA ReturnsStep ==
  ASSUME IInv, [Next]_vars, Begins, run'.entry = NoEntry, current # 0,
         Recorded(entries[current]), live = entries[current].hash
  PROVE  live' = origins[current]
<1>1. /\ EntryOf(current) = entries[current] /\ OriginOf(current) = origins[current]
      /\ entries[current] \in Entry \cup {NoEntry} /\ HashIsDeployed(EntryOf(current))
  BY SelectedIs DEF EntryOf, OriginOf
<1>2. origins[current] = entries[current].prior
  BY <1>1, SelectedIs DEF Carries, Recorded
<1>3. Removed(live, entries[current]) = entries[current].prior
  BY DEF Removed, Intact, Recorded
<1>4. ASSUME NEW want \in Want, NEW consent \in BOOLEAN, Declare(want, consent),
             ~Vacuous(want, consent)
      PROVE  FALSE
  <2> DEFINE plan == Planned(live, want, entries[current], consent)
  <2>1. run'.entry = Inherit(entries[current], plan.entry)
    BY <1>1, <1>4 DEF Declare, Begin
  <2>2. plan.entry \in Entry /\ HashIsDeployed(plan.entry)
    BY <1>1, PlannedIs DEF IInv, TypeOK
  <2> QED
    BY <1>1, <2>1, <2>2, InheritIs, SentinelAssumption
<1>5. ASSUME Undeclare PROVE live' = origins[current]
  BY <1>1, <1>2, <1>3, <1>5 DEF Undeclare, Begin
<1>6. ASSUME NEW g \in Number, Rollback(g) PROVE live' = origins[current]
  BY <1>2, <1>3, <1>6 DEF Rollback, Begin
<1> QED
  BY <1>4, <1>5, <1>6, BeginsIs

-----------------------------------------------------------------------------
\* The theorems.

\* Every variable keeps its type, and the record of a generation that is not drift is of
\* the link or the file its payload gives.
THEOREM TypeCorrect == Spec => []TypeOK
  BY Invariance, PTL DEF IInv

\* No order of applies, rollbacks, stops and collections leaves a retained generation, or
\* a run before its flip, without the payload or the contents it names, nor a run without
\* what it replaced.
THEOREM RetainedStaysWhole == Spec => []RetainedIsWhole
<1>1. IInv => RetainedIsWhole
  BY DEF IInv, RecordInv, RunInv, Backed, RetainedIsWhole
<1> QED
  BY <1>1, Invariance, PTL

\* Whatever was planned and done is satisfied when it is declared again.
THEOREM AppliesConverge == Spec => []AppliedIsSatisfied
<1>1. IInv => AppliedIsSatisfied
  BY DEF IInv, SelectionInv, SatisfiedBy, AppliedIsSatisfied, Vacuous
<1> QED
  BY <1>1, Invariance, PTL

\* What only the user has is not touched without consent, but for a link declared in the
\* place of a record, and what a lineage first absorbed is what comes back in its end.
THEOREM UsersObjectsAreKept == Spec => UsersObjectsReturn
<1>1. IInv /\ [Next]_vars =>
        (Begins /\ Users(live) /\ live' # live =>
           \/ run'.consent
           \/ Recorded(EntryOf(current)) /\ run'.entry # NoEntry /\ run'.entry.mode = "owned")
  BY StandsStep
<1>2. IInv /\ [Next]_vars =>
        (Begins /\ run'.entry = NoEntry /\ current # 0 /\ Recorded(entries[current])
           /\ live = entries[current].hash
           => live' = origins[current])
  BY ReturnsStep
<1> QED
  BY <1>1, <1>2, Invariance, PTL DEF Spec, UsersObjectsReturn, UsersObjectsStand, OriginReturns

-----------------------------------------------------------------------------
\* Saved plans.

\* A plan says what it was made for, and from its revalidation on nobody but the user
\* can change what that was: the lock is held, and a run that was killed under it is
\* recovered before the plan goes on.
SavedInv ==
  /\ SavedTypeOK
  /\ saved # NoPlan => saved.shows = Shows(saved.seen, saved.want, saved.record)
  /\ phase # "idle" => current = saved.base /\ EntryOf(current) = saved.record
  /\ phase = "checked" => run = NoRun \/ stopped
  /\ phase \in {"planned", "recovered"} => run = NoRun
  /\ phase \in {"checked", "planned"} /\ ~raced => live = saved.seen

\* What is saved is a plan.
LEMMA CaptureIs ==
  ASSUME IInv, NEW want \in Around, Capture(want)
  PROVE  saved' \in Plan /\ saved'.shows = Shows(saved'.seen, saved'.want, saved'.record)
<1>1. /\ want \in Want /\ live \in Object /\ current \in Number \cup {0}
      /\ EntryOf(current) \in Entry \cup {NoEntry} /\ HashIsDeployed(EntryOf(current))
  BY SelectedIs DEF Around, IInv, TypeOK
<1>2. Shows(live, want, EntryOf(current)) \in Object
  BY <1>1, PlannedIs DEF Shows
<1>3. saved' = [want |-> want, base |-> current, record |-> EntryOf(current), seen |-> live,
                shows |-> Shows(live, want, EntryOf(current))]
  BY DEF Capture
<1> QED
  BY <1>1, <1>2, <1>3 DEF Plan

\* Every step of a plan and around it is one of the deployments, or changes none of them.
LEMMA SavedStep ==
  ASSUME SavedInv, [SavedNext]_allVars
  PROVE  [Next]_vars
<1>1. CASE Reconcile
  BY <1>1 DEF Reconcile, Next
<1>2. CASE Execute
  <2>1. saved.want \in Want
    BY <1>2 DEF SavedInv, SavedTypeOK, Execute, Plan
  <2> QED
    BY <1>2, <2>1 DEF Execute, Next
<1>3. CASE Others
  BY <1>3 DEF Others, Around, Next
<1>4. CASE Race
  BY <1>4 DEF Race, HandsOn, Next
<1>5. CASE (\E want \in Around : Capture(want)) \/ Revalidate \/ Kill \/ UNCHANGED allVars
  BY <1>5 DEF Capture, Revalidate, Kill, allVars
<1> QED
  BY <1>1, <1>2, <1>3, <1>4, <1>5 DEF SavedNext

\* What is saved stays true of what it was made from.
LEMMA SavedKept ==
  ASSUME IInv, SavedInv, [SavedNext]_allVars
  PROVE  SavedInv'
<1> USE DEF SavedInv, SavedTypeOK
<1>1. ASSUME NEW want \in Around, Capture(want)
      PROVE  SavedInv'
  <2>1. UNCHANGED <<vars, phase, stopped, raced>> /\ saved = NoPlan
    BY <1>1 DEF Capture
  <2>2. phase = "idle"
    BY <2>1
  <2> QED
    BY <1>1, <2>1, <2>2, CaptureIs DEF vars
<1>2. CASE Revalidate
  BY <1>2 DEF Revalidate, LockIsFree, StillHolds, EntryOf, vars
<1>3. CASE Reconcile
  BY <1>3 DEF Reconcile, Compensate, EntryOf, vars
<1>4. CASE Execute
  <2>1. phase' = "idle" /\ UNCHANGED <<saved, stopped, raced>> /\ run = NoRun
    BY <1>4 DEF Execute
  <2> QED
    BY <2>1
<1>5. CASE Kill
  BY <1>5 DEF Kill, EntryOf, vars
<1>6. CASE Others
  <2>1. UNCHANGED <<saved, phase, raced>> /\ stopped' = FALSE /\ phase = "idle"
    BY <1>6 DEF Others, LockIsFree, Commit
  <2> QED
    BY <2>1
<1>7. CASE Race
  BY <1>7 DEF Race, UserActs, EntryOf
<1>8. CASE UNCHANGED allVars
  BY <1>8 DEF allVars, planVars, EntryOf, vars
<1> QED
  BY <1>1, <1>2, <1>3, <1>4, <1>5, <1>6, <1>7, <1>8 DEF SavedNext

\* Under a plan only its own execution begins a run.
LEMMA PlanBegins ==
  ASSUME SavedInv, SavedNext, phase # "idle", Begins
  PROVE  Execute
BY DEF SavedNext, Begins, Capture, Revalidate, Reconcile, Compensate, Kill, Others,
   LockIsFree, Commit, Race, UserActs, vars

\* What it begins is what the plan showed, of the object it was made for.
LEMMA ExecutionShows ==
  ASSUME SavedInv, Execute, Begins, phase = "planned", ~raced
  PROVE  live' = saved.shows
<1>1. /\ saved # NoPlan /\ live = saved.seen /\ EntryOf(current) = saved.record
      /\ saved.shows = Shows(saved.seen, saved.want, saved.record)
  BY DEF SavedInv, SavedTypeOK
<1>2. Declare(saved.want, FALSE) /\ ~Refused(live, saved.want, EntryOf(current), FALSE)
  BY DEF Execute, Begins, vars
<1>3. ~Vacuous(saved.want, FALSE)
  BY <1>2 DEF Declare, Begins
<1>4. live' = Planned(live, saved.want, EntryOf(current), FALSE).after
  BY <1>2, <1>3 DEF Declare, Begin
<1> QED
  BY <1>1, <1>2, <1>4 DEF Shows

\* The invariant of plans holds throughout.
LEMMA PlansInvariance == SavedSpec => [](IInv /\ SavedInv)
<1>1. SavedInit => IInv /\ SavedInv
  BY InitIsIInv DEF SavedInit, SavedInv, SavedTypeOK, Init
<1>2. IInv /\ SavedInv /\ [SavedNext]_allVars => (IInv /\ SavedInv)'
  BY SavedStep, SavedKept, NextIsIInv
<1> QED
  BY <1>1, <1>2, PTL DEF SavedSpec

\* A plan that is saved and applied is made of steps of the deployments: it can do nothing
\* that an apply could not, and what is proved of them holds with it.
THEOREM PlansApply == SavedSpec => Spec
<1>1. SavedInit => Init
  BY DEF SavedInit
<1>2. SavedInv /\ [SavedNext]_allVars => [Next]_vars
  BY SavedStep
<1> QED
  BY <1>1, <1>2, PlansInvariance, PTL DEF SavedSpec, Spec

\* A plan is executed on the generation and the record it was made from, whoever applied,
\* rolled back or was killed since, and does what it showed unless the user or a recovery
\* got in between.
THEOREM PlansAreKept == SavedSpec => PlansAreOfToday
<1>1. SavedInv /\ [SavedNext]_allVars =>
        (phase # "idle" /\ Begins => current = saved.base /\ EntryOf(current) = saved.record)
  BY DEF SavedInv
<1>2. SavedInv /\ [SavedNext]_allVars =>
        (phase = "planned" /\ ~raced /\ Begins => live' = saved.shows)
  BY PlanBegins, ExecutionShows DEF Begins, allVars, vars
<1> QED
  BY <1>1, <1>2, PlansInvariance, PTL DEF SavedSpec, PlansAreOfToday, BaseIsKept, ShownIsDone

\* Every variable of a saved plan keeps its type, and no plan is applied that was not saved.
THEOREM PlanTypes == SavedSpec => []SavedTypeOK
  BY PlansInvariance, PTL DEF SavedInv

-----------------------------------------------------------------------------
(* JobControl: the supervisor of an interactive consumer.                  *)

\* A termination is among the signals taken only while they are being handled.
SessionTermInv ==
  /\ "TERM" \in todo => point = "signals"
  /\ Session!TerminationIsKept

\* A child that runs has the terminal wherever no stop is being relayed; where one was, the
\* continuation that ends it is recorded.  An orphaned group never gives the terminal up.
SessionLentInv ==
  /\ tty /\ child = "running" /\ point \in {"wait", "take", "signals"} => fore = "child"
  /\ tty /\ child = "running" /\ point = "drain" => fore = "child" \/ halted \/ "CONT" \in received
  /\ tty /\ orphaned /\ point \notin {"start", "restore", "done"} => fore = "child" /\ point # "halt"

SessionInv == Session!TypeOK /\ SessionTermInv /\ SessionLentInv

LEMMA SessionFailStep ==
  ASSUME SessionInv, Session!Fail, point # "signals"
  PROVE  SessionInv'
<1>1. /\ child' = "gone" /\ point' = "restore"
      /\ UNCHANGED <<tty, orphaned, fore, halted, received, todo, told, asked, answered>>
  BY DEF Session!Fail
<1>2. news' \in BOOLEAN
  BY Zenon DEF Session!Fail
<1>3. Session!TypeOK'
  BY <1>1, <1>2 DEF SessionInv, Session!TypeOK
<1>4. SessionTermInv' /\ SessionLentInv'
  BY <1>1 DEF SessionInv, Session!TypeOK, SessionTermInv, Session!TerminationIsKept, SessionLentInv
<1> QED
  BY <1>3, <1>4 DEF SessionInv

LEMMA SessionStartStep ==
  ASSUME SessionInv, Session!Start \/ Session!StartFails
  PROVE  SessionInv'
<1>1. CASE Session!Start
  BY <1>1 DEF SessionInv, Session!TypeOK, SessionTermInv, Session!TerminationIsKept, SessionLentInv, Session!Start, Session!Active, Session!Barred, Session!Failed,
     Session!Outside, Session!Hand
<1>2. CASE Session!StartFails
  BY <1>2, SessionFailStep DEF Session!StartFails, Session!Active
<1> QED
  BY <1>1, <1>2

LEMMA SessionWaitStep ==
  ASSUME SessionInv, Session!Wait
  PROVE  SessionInv'
<1>1. /\ point = "wait" /\ ~halted
      /\ \/ child = "gone" /\ point' = "restore"
         \/ child = "stopped" /\ point' = "handback"
         \/ child # "gone" /\ ~news /\ point' = "take"
      /\ UNCHANGED <<tty, orphaned, fore, halted, received, todo, child, told, asked, answered>>
  BY DEF Session!Wait, Session!Active
<1>2. news' = news \/ news' = FALSE
  BY DEF Session!Wait
<1>3. news' \in BOOLEAN
  BY <1>2, Zenon DEF SessionInv, Session!TypeOK
<1>4. Session!TypeOK'
  BY <1>1, <1>3 DEF SessionInv, Session!TypeOK
<1>5. SessionTermInv' /\ SessionLentInv'
  BY <1>1 DEF SessionInv, Session!TypeOK, SessionTermInv, Session!TerminationIsKept, SessionLentInv
<1> QED
  BY <1>4, <1>5 DEF SessionInv

LEMMA SessionTakeStep ==
  ASSUME SessionInv, Session!Take
  PROVE  SessionInv'
  BY DEF SessionInv, Session!TypeOK, SessionTermInv, Session!TerminationIsKept, SessionLentInv, Session!Take, Session!Active

LEMMA SessionHandleStep ==
  ASSUME SessionInv, Session!Handle
  PROVE  SessionInv'
  BY DEF SessionInv, Session!TypeOK, SessionTermInv, Session!TerminationIsKept, SessionLentInv, Session!Handle, Session!Active

LEMMA SessionHandBackStep ==
  ASSUME SessionInv, Session!HandBack \/ Session!HandBackFails
  PROVE  SessionInv'
<1>1. CASE Session!HandBack
  BY <1>1 DEF SessionInv, Session!TypeOK, SessionTermInv, Session!TerminationIsKept, SessionLentInv, Session!HandBack, Session!Active, Session!Barred, Session!Failed,
     Session!Outside, Session!Hand
<1>2. CASE Session!HandBackFails
  BY <1>2, SessionFailStep DEF Session!HandBackFails, Session!Active
<1> QED
  BY <1>1, <1>2

LEMMA SessionHaltStep ==
  ASSUME SessionInv, Session!Halt
  PROVE  SessionInv'
<1>1. /\ point = "halt" /\ ~halted /\ point' = "drain" /\ halted' = TRUE
      /\ fore' = IF tty THEN "shell" ELSE fore
      /\ UNCHANGED <<tty, orphaned, received, todo, child, news, told, asked, answered>>
  BY DEF Session!Halt, Session!Stop, Session!Active
<1>2. halted' \in BOOLEAN
  BY <1>1, Zenon
<1>3. Session!TypeOK'
  BY <1>1, <1>2 DEF SessionInv, Session!TypeOK
<1>4. SessionTermInv' /\ SessionLentInv'
  BY <1>1 DEF SessionInv, Session!TypeOK, SessionTermInv, Session!TerminationIsKept, SessionLentInv
<1> QED
  BY <1>3, <1>4 DEF SessionInv

LEMMA SessionDrainStep ==
  ASSUME SessionInv, Session!Drain
  PROVE  SessionInv'
  BY DEF SessionInv, Session!TypeOK, SessionTermInv, Session!TerminationIsKept, SessionLentInv, Session!Drain, Session!Others, Session!Back, Session!Active

LEMMA SessionGiveStep ==
  ASSUME SessionInv, Session!Give
  PROVE  SessionInv'
  BY DEF SessionInv, Session!TypeOK, SessionTermInv, Session!TerminationIsKept, SessionLentInv, Session!Give, Session!Lend, Session!Back, Session!Active, Session!Barred,
     Session!Outside, Session!Hand

LEMMA SessionRestoreStep ==
  ASSUME SessionInv, Session!Restore
  PROVE  SessionInv'
  BY DEF SessionInv, Session!TypeOK, SessionTermInv, Session!TerminationIsKept, SessionLentInv, Session!Restore, Session!Active, Session!Hand

LEMMA SessionBarStep ==
  ASSUME SessionInv, NEW where \in {"start", "handback", "give", "restore"}, Session!Bar(where)
  PROVE  SessionInv'
  BY DEF SessionInv, Session!TypeOK, SessionTermInv, Session!TerminationIsKept, SessionLentInv, Session!Bar, Session!Stop, Session!Active, Session!Barred, Session!Outside

LEMMA SessionChildStep ==
  ASSUME SessionInv, Session!ChildEnds \/ Session!ChildStops
  PROVE  SessionInv'
<1>1. /\ child = "running" /\ child' \in {"gone", "stopped"}
      /\ UNCHANGED <<tty, orphaned, fore, halted, point, received, todo, told, asked>>
  BY DEF Session!ChildEnds, Session!ChildStops
<1>2. /\ news' = news \/ news' = TRUE
      /\ answered' = answered \/ answered' = FALSE
  BY DEF Session!ChildEnds, Session!ChildStops
<1>3. news' \in BOOLEAN /\ answered' \in BOOLEAN
  BY <1>2, Zenon DEF SessionInv, Session!TypeOK
<1>4. Session!TypeOK'
  BY <1>1, <1>3 DEF SessionInv, Session!TypeOK
<1>5. SessionTermInv' /\ SessionLentInv'
  BY <1>1 DEF SessionInv, Session!TypeOK, SessionTermInv, Session!TerminationIsKept, SessionLentInv
<1> QED
  BY <1>4, <1>5 DEF SessionInv

LEMMA SessionSignalStep ==
  ASSUME SessionInv, Session!Signal
  PROVE  SessionInv'
<1>1. /\ point \notin {"restore", "done"}
      /\ \/ received' = received \cup {"TERM"}
         \/ received' \in {received \cup {"TSTP"}, received \cup {"CONT"}} /\ UNCHANGED asked
      /\ UNCHANGED <<tty, orphaned, fore, halted, point, todo, child, news, told>>
  BY DEF Session!Signal
<1>2. /\ asked' = asked \/ asked' = TRUE
      /\ answered' = answered \/ answered' = FALSE
  BY DEF Session!Signal
<1>3. asked' \in BOOLEAN /\ answered' \in BOOLEAN
  BY <1>2, Zenon DEF SessionInv, Session!TypeOK
<1>4. Session!TypeOK'
  BY <1>1, <1>3 DEF SessionInv, Session!TypeOK
<1>5. SessionTermInv' /\ SessionLentInv'
  BY <1>1 DEF SessionInv, Session!TypeOK, SessionTermInv, Session!TerminationIsKept, SessionLentInv
<1> QED
  BY <1>4, <1>5 DEF SessionInv

LEMMA SessionContinueStep ==
  ASSUME SessionInv, Session!Continue
  PROVE  SessionInv'
  BY DEF SessionInv, Session!TypeOK, SessionTermInv, Session!TerminationIsKept, SessionLentInv, Session!Continue

LEMMA SessionInit ==
  ASSUME Session!Init
  PROVE  SessionInv
  BY DEF SessionInv, Session!TypeOK, SessionTermInv, Session!TerminationIsKept, SessionLentInv, Session!Init

LEMMA SessionStutters ==
  ASSUME SessionInv, UNCHANGED Session!vars
  PROVE  SessionInv'
  BY DEF SessionInv, Session!TypeOK, SessionTermInv, Session!TerminationIsKept, SessionLentInv, Session!vars

LEMMA SessionInvariance == Session!Spec => []SessionInv
<1>1. Session!Init => SessionInv
  BY SessionInit
<1>2. SessionInv /\ [Session!Next]_(Session!vars) => SessionInv'
  BY SessionStartStep, SessionWaitStep, SessionTakeStep, SessionHandleStep, SessionHandBackStep, SessionHaltStep, SessionDrainStep, SessionGiveStep,
     SessionRestoreStep, SessionBarStep,
     SessionChildStep, SessionSignalStep, SessionContinueStep, SessionStutters DEF Session!Next, Session!Supervise
<1> QED
  BY <1>1, <1>2, PTL DEF Session!Spec

-----------------------------------------------------------------------------
\* Streams: the places of a stream from one to another.

LEMMA PlacesAre ==
  ASSUME NEW a \in Nat, NEW b \in Nat, NEW n \in Nat, n = b - a + 1
  PROVE  /\ Pipes!Places(a, b) \in Seq(Int) /\ Len(Pipes!Places(a, b)) = n
         /\ \A i \in 1..n : Pipes!Places(a, b)[i] = a + i - 1
<1>1. (IF b < a THEN 0 ELSE b - a + 1) = n
  OBVIOUS
<1>2. Pipes!Places(a, b) = [i \in 1..n |-> a + i - 1]
  BY <1>1 DEF Pipes!Places
<1>3. \A i \in 1..n : a + i - 1 \in Int
  OBVIOUS
<1>4. [i \in 1..n |-> a + i - 1] \in Seq(Int) /\ Len([i \in 1..n |-> a + i - 1]) = n
  BY <1>3
<1> QED
  BY <1>2, <1>4

LEMMA PlacesJoin ==
  ASSUME NEW a \in Nat, NEW m \in Nat, NEW b \in Nat, a <= m + 1, m <= b
  PROVE  Pipes!Places(a, m) \o Pipes!Places(m + 1, b) = Pipes!Places(a, b)
<1> DEFINE s == Pipes!Places(a, m)
           t == Pipes!Places(m + 1, b)
           u == Pipes!Places(a, b)
           k == m - a + 1
           n == b - (m + 1) + 1
           w == b - a + 1
<1>1. k \in Nat /\ n \in Nat /\ w \in Nat /\ w = k + n /\ m + 1 \in Nat /\ m + 1 = a + k
  OBVIOUS
<1>2. s \in Seq(Int) /\ Len(s) = k /\ \A i \in 1..k : s[i] = a + i - 1
  <2> HIDE DEF s
  <2> QED
    BY <1>1, PlacesAre DEF s
<1>3. t \in Seq(Int) /\ Len(t) = n /\ \A i \in 1..n : t[i] = m + 1 + i - 1
  <2> DEFINE c == m + 1
  <2>1. c \in Nat /\ n \in Nat /\ n = b - c + 1
    BY <1>1
  <2> HIDE DEF c, n
  <2>2. /\ Pipes!Places(c, b) \in Seq(Int) /\ Len(Pipes!Places(c, b)) = n
        /\ \A i \in 1..n : Pipes!Places(c, b)[i] = c + i - 1
    BY <2>1, PlacesAre
  <2> QED
    BY <2>2 DEF c
<1>4. u \in Seq(Int) /\ Len(u) = w /\ \A i \in 1..w : u[i] = a + i - 1
  <2> HIDE DEF u
  <2> QED
    BY <1>1, PlacesAre DEF u
<1> HIDE DEF s, t, u, k, n, w
<1>5. /\ s \o t \in Seq(Int) /\ Len(s \o t) = w
      /\ \A i \in 1..w : (s \o t)[i] = IF i <= k THEN s[i] ELSE t[i - k]
  <2>1. /\ s \o t \in Seq(Int) /\ Len(s \o t) = Len(s) + Len(t)
        /\ \A i \in 1..(Len(s) + Len(t)) :
             (s \o t)[i] = IF i <= Len(s) THEN s[i] ELSE t[i - Len(s)]
    <3>1. s \in Seq(Int) /\ t \in Seq(Int)
      BY <1>2, <1>3
    <3> QED
      BY <3>1, ConcatProperties
  <2>2. Len(s) = k /\ Len(s) + Len(t) = w
    BY <1>1, <1>2, <1>3
  <2> QED
    BY <2>1, <2>2
<1>6. ASSUME NEW i \in 1..w PROVE (s \o t)[i] = u[i]
  <2>1. CASE i <= k
    BY <1>1, <1>2, <1>4, <1>5, <2>1
  <2>2. CASE ~(i <= k)
    <3>1. i - k \in 1..n
      BY <1>1, <2>2
    <3>2. (s \o t)[i] = t[i - k]
      BY <1>5, <2>2
    <3>3. t[i - k] = m + 1 + (i - k) - 1
      BY <1>3, <3>1
    <3>4. u[i] = a + i - 1
      BY <1>4
    <3> QED
      BY <1>1, <3>1, <3>2, <3>3, <3>4
  <2> QED
    BY <2>1, <2>2
<1>7. s \o t = u
  BY <1>4, <1>5, <1>6, SeqEqual
<1> QED
  BY <1>7 DEF s, t, u

LEMMA PlacesEnd ==
  ASSUME NEW a \in Nat, NEW b \in Nat, NEW n \in Nat, n = b - a + 1
  PROVE  \A k \in 0..n : SubSeq(Pipes!Places(a, b), k + 1, n) = Pipes!Places(a + k, b)
<1> SUFFICES ASSUME NEW k \in 0..n
             PROVE  SubSeq(Pipes!Places(a, b), k + 1, n) = Pipes!Places(a + k, b)
  OBVIOUS
<1> DEFINE j == k + 1
           c == a + k
           s == Pipes!Places(a, b)
           u == Pipes!Places(c, b)
           w == b - c + 1
<1>1. /\ w \in Nat /\ w = n - k /\ c \in Nat /\ j \in Nat
      /\ w = n - j + 1 /\ w = (IF j <= n THEN n - j + 1 ELSE 0)
  OBVIOUS
<1>2. s \in Seq(Int) /\ Len(s) = n /\ \A i \in 1..n : s[i] = a + i - 1
  BY PlacesAre
<1>3. u \in Seq(Int) /\ Len(u) = w /\ \A i \in 1..w : u[i] = c + i - 1
  <2> HIDE DEF c, w
  <2>1. c \in Nat /\ w \in Nat /\ w = b - c + 1
    BY <1>1 DEF w
  <2> HIDE DEF u
  <2> QED
    BY <2>1, PlacesAre DEF u
<1> HIDE DEF s, u, w
<1>4. /\ SubSeq(s, j, n) \in Seq(Int) /\ Len(SubSeq(s, j, n)) = w
      /\ \A i \in 1..w : SubSeq(s, j, n)[i] = s[j + i - 1]
  <2> HIDE DEF j
  <2>1. \A i \in j..n : s[i] \in Int
    BY <1>1, <1>2
  <2>2. j \in Int /\ n \in Int
    BY <1>1
  <2> QED
    BY <1>1, <2>1, <2>2, SubSeqProperties
<1>5. ASSUME NEW i \in 1..w PROVE SubSeq(s, j, n)[i] = u[i]
  <2>1. j + i - 1 \in 1..n /\ a + (j + i - 1) - 1 = c + i - 1
    BY <1>1
  <2>2. SubSeq(s, j, n)[i] = s[j + i - 1]
    BY <1>4
  <2>3. s[j + i - 1] = a + (j + i - 1) - 1
    BY <1>2, <2>1
  <2> QED
    BY <1>3, <2>1, <2>2, <2>3
<1>6. SubSeq(s, j, n) = u
  <2> HIDE DEF j
  <2> QED
    BY <1>3, <1>4, <1>5, SeqEqual
<1> QED
  BY <1>6 DEF s, u

\* The end of so much of the error stream.
PipeTail(e) == Pipes!Places(e - Pipes!Least(e, Retained) + 1, e)

\* What is kept of a tail and of what is read after it is the tail of both.
LEMMA KeepIs ==
  ASSUME Retained \in Nat, NEW e \in Nat, NEW n \in Nat
  PROVE  Pipes!Keep(PipeTail(e), Pipes!Places(e + 1, e + n)) = PipeTail(e + n)
<1> DEFINE p == e - Pipes!Least(e, Retained) + 1
           q == (e + n) - Pipes!Least(e + n, Retained) + 1
           kept == Pipes!Places(p, e)
           read == Pipes!Places(e + 1, e + n)
           k == Pipes!Least(e, Retained)
           skip == IF n >= Retained THEN n - Retained ELSE 0
           room == IF n >= Retained THEN 0 ELSE Retained - n
           drop == IF k > room THEN k - room ELSE 0
<1>1. /\ k = (IF e < Retained THEN e ELSE Retained) /\ k \in Nat /\ k <= e /\ e + n \in Nat /\ e + 1 \in Nat
      /\ p = e - k + 1 /\ p \in Nat
      /\ q = (IF e + n < Retained THEN 1 ELSE e + n - Retained + 1) /\ q \in Nat
  BY DEF Pipes!Least
<1> HIDE DEF p, q, k
<1>2. Len(kept) = k
  <2>1. k = e - p + 1 /\ k \in Nat /\ p \in Nat
    BY <1>1
  <2> HIDE DEF kept
  <2>2. Len(Pipes!Places(p, e)) = k
    BY <2>1, PlacesAre
  <2> QED
    BY <2>2 DEF kept
<1>3. Len(read) = n
  <2>1. n = (e + n) - (e + 1) + 1 /\ e + n \in Nat /\ e + 1 \in Nat
    OBVIOUS
  <2> HIDE DEF read
  <2>2. Len(Pipes!Places(e + 1, e + n)) = n
    BY <2>1, PlacesAre
  <2> QED
    BY <2>2 DEF read
<1> HIDE DEF kept, read
<1>4. Pipes!Keep(kept, read) = SubSeq(kept, drop + 1, k) \o SubSeq(read, skip + 1, n)
  BY <1>2, <1>3 DEF Pipes!Keep
<1>5. /\ drop \in 0..k /\ skip \in 0..n
      /\ n >= Retained => p + drop = e + 1 /\ e + 1 + skip = q
      /\ n < Retained => skip = 0 /\ p + drop = q
  BY <1>1
<1> HIDE DEF skip, room, drop
<1>6. SubSeq(kept, drop + 1, k) = Pipes!Places(p + drop, e)
  <2>1. e \in Nat /\ p \in Nat /\ k \in Nat /\ k = e - p + 1
    BY <1>1
  <2>2. \A i \in 0..k : SubSeq(Pipes!Places(p, e), i + 1, k) = Pipes!Places(p + i, e)
    BY <2>1, PlacesEnd
  <2> QED
    BY <1>5, <2>2 DEF kept
<1>7. SubSeq(read, skip + 1, n) = Pipes!Places(e + 1 + skip, e + n)
  <2> DEFINE f == e + 1
             g == e + n
  <2>1. f \in Nat /\ g \in Nat /\ n \in Nat /\ n = g - f + 1
    OBVIOUS
  <2> HIDE DEF f, g
  <2>2. \A i \in 0..n : SubSeq(Pipes!Places(f, g), i + 1, n) = Pipes!Places(f + i, g)
    BY <2>1, PlacesEnd
  <2> QED
    BY <1>5, <2>2 DEF read, f, g
<1>8. ASSUME n >= Retained PROVE Pipes!Keep(kept, read) = Pipes!Places(q, e + n)
  <2>1. Pipes!Places(e + 1, e) \in Seq(Int) /\ Len(Pipes!Places(e + 1, e)) = 0
    <3>1. 0 = e - (e + 1) + 1
      OBVIOUS
    <3> QED
      BY <1>1, <3>1, PlacesAre
  <2>2. Pipes!Places(e + 1, e) = <<>>
    BY <2>1
  <2>3. Pipes!Places(q, e + n) \in Seq(Int)
    <3> DEFINE w == (e + n) - q + 1
    <3>1. w \in Nat
      BY <1>1, <1>8
    <3> QED
      BY <1>1, <3>1, PlacesAre
  <2>4. <<>> \o Pipes!Places(q, e + n) = Pipes!Places(q, e + n)
    BY <2>3, ConcatEmptySeq
  <2>5. p + drop = e + 1 /\ e + 1 + skip = q
    BY <1>5, <1>8
  <2> QED
    BY <1>4, <1>6, <1>7, <2>2, <2>4, <2>5
<1>9. ASSUME n < Retained PROVE Pipes!Keep(kept, read) = Pipes!Places(q, e + n)
  <2>1. q <= e + 1 /\ e <= e + n
    BY <1>1, <1>5, <1>9
  <2>2. Pipes!Places(q, e) \o Pipes!Places(e + 1, e + n) = Pipes!Places(q, e + n)
    BY <1>1, <2>1, PlacesJoin
  <2>3. e + 1 + skip = e + 1 /\ p + drop = q
    BY <1>5, <1>9
  <2> QED
    BY <1>4, <1>6, <1>7, <2>2, <2>3 DEF read
<1>10. Pipes!Keep(kept, read) = Pipes!Places(q, e + n)
  BY <1>8, <1>9
<1>11. kept = PipeTail(e)
  BY DEF kept, p, PipeTail
<1>12. Pipes!Places(q, e + n) = PipeTail(e + n)
  BY DEF q, PipeTail
<1> QED
  BY <1>10, <1>11, <1>12 DEF read

-----------------------------------------------------------------------------
\* How much of each stream went by, and the order of what is kept of it.
Sized == Length \in Nat /\ Chunk \in Nat /\ Retained \in Nat

PipeInv ==
  /\ err \in 0..Length /\ input.sent \in 0..Length
  /\ input = [sent |-> input.sent, closed |-> input.closed]
  /\ Len(taken) = input.sent /\ taken = Pipes!Places(1, input.sent)
  /\ tail = PipeTail(err)

LEMMA PipeInit == ASSUME Sized, Pipes!Init PROVE PipeInv
<1>1. Pipes!Places(1, 0) = <<>>
  <2>1. Pipes!Places(1, 0) \in Seq(Int) /\ Len(Pipes!Places(1, 0)) = 0
    BY PlacesAre
  <2> QED
    BY <2>1
<1>2. err = 0 /\ tail = <<>> /\ input = [sent |-> 0, closed |-> FALSE] /\ taken = <<>>
  BY DEF Pipes!Init
<1>3. PipeTail(0) = <<>>
  <2>1. 0 - Pipes!Least(0, Retained) + 1 = 1
    BY DEF Pipes!Least, Sized
  <2> QED
    BY <1>1, <2>1 DEF PipeTail
<1> QED
  BY <1>1, <1>2, <1>3 DEF PipeInv, Sized

\* What is not read or written is as it was; closing the input takes nothing back.
LEMMA PipeRest ==
  ASSUME PipeInv, UNCHANGED <<err, tail, taken>>, input' \in {input, Pipes!Closed}
  PROVE  PipeInv'
<1>1. input'.sent = input.sent /\ input' = [sent |-> input'.sent, closed |-> input'.closed]
  BY DEF PipeInv, Pipes!Closed
<1> QED
  BY <1>1 DEF PipeInv

LEMMA PipeWrite == ASSUME Sized, PipeInv, Pipes!Write PROVE PipeInv'
<1> DEFINE offer == Pipes!Least(Length - input.sent, Chunk)
<1>1. UNCHANGED <<err, tail>>
  BY DEF Pipes!Write
<1>2. \/ \E n \in 1..offer :
           /\ taken' = taken \o Pipes!Places(input.sent + 1, input.sent + n)
           /\ input' = [sent |-> input.sent + Pipes!Written(offer, n),
                        closed |-> input.sent + Pipes!Written(offer, n) = Length]
      \/ input' = Pipes!Closed /\ UNCHANGED taken
  BY DEF Pipes!Write
<1>3. CASE input' = Pipes!Closed /\ UNCHANGED taken
  BY <1>1, <1>3, PipeRest
<1>4. ASSUME NEW n \in 1..offer,
             taken' = taken \o Pipes!Places(input.sent + 1, input.sent + n),
             input' = [sent |-> input.sent + Pipes!Written(offer, n),
                       closed |-> input.sent + Pipes!Written(offer, n) = Length]
      PROVE  PipeInv'
  <2> DEFINE s == input.sent
             t == s + n
  <2>1. s \in Nat /\ t \in 0..Length /\ n \in Nat /\ t \in Nat /\ s <= t
    BY DEF PipeInv, Sized, Pipes!Least
  <2> HIDE DEF s, t
  <2>2. input' = [sent |-> t, closed |-> t = Length]
    BY <1>4 DEF s, t, Pipes!Written
  <2>3. taken' = Pipes!Places(1, s) \o Pipes!Places(s + 1, t)
    BY <1>4 DEF PipeInv, s, t
  <2>4. taken' = Pipes!Places(1, t)
    <3>1. 1 \in Nat /\ s \in Nat /\ t \in Nat /\ 1 <= s + 1 /\ s <= t
      BY <2>1
    <3>2. Pipes!Places(1, s) \o Pipes!Places(s + 1, t) = Pipes!Places(1, t)
      BY <3>1, PlacesJoin
    <3> QED
      BY <2>3, <3>2
  <2>5. Len(taken') = t
    BY <2>1, <2>4, PlacesAre
  <2> QED
    BY <1>1, <2>1, <2>2, <2>4, <2>5 DEF PipeInv
<1> QED
  BY <1>2, <1>3, <1>4

LEMMA PipeReadErr == ASSUME Sized, PipeInv, Pipes!ReadErr PROVE PipeInv'
<1>1. PICK n \in 1..Pipes!Least(Chunk, Length - err) :
        err' = err + n /\ tail' = Pipes!Keep(tail, Pipes!Places(err + 1, err + n))
  BY DEF Pipes!ReadErr
<1>2. UNCHANGED taken /\ input' \in {input, Pipes!Closed}
  BY DEF Pipes!ReadErr
<1>3. err \in Nat /\ n \in Nat /\ Retained \in Nat /\ err + n \in 0..Length
  BY <1>1 DEF PipeInv, Sized, Pipes!Least
<1>4. Pipes!Keep(PipeTail(err), Pipes!Places(err + 1, err + n)) = PipeTail(err + n)
  BY <1>3, KeepIs
<1>5. tail' = PipeTail(err')
  BY <1>1, <1>4 DEF PipeInv
<1>6. input'.sent = input.sent /\ input' = [sent |-> input'.sent, closed |-> input'.closed]
  BY <1>2 DEF PipeInv, Pipes!Closed
<1> QED
  BY <1>1, <1>2, <1>3, <1>5, <1>6 DEF PipeInv

LEMMA PipeNext == ASSUME Sized, PipeInv, [Pipes!Next]_(Pipes!vars) PROVE PipeInv'
<1>1. CASE Pipes!ReadOut \/ Pipes!EndOut \/ Pipes!EndErr \/ Pipes!Expire \/ UNCHANGED Pipes!vars
  <2>1. UNCHANGED <<err, tail, taken>>
    BY <1>1 DEF Pipes!ReadOut, Pipes!EndOut, Pipes!EndErr, Pipes!Expire, Pipes!vars
  <2>2. input' \in {input, Pipes!Closed}
    BY <1>1 DEF Pipes!ReadOut, Pipes!EndOut, Pipes!EndErr, Pipes!Expire, Pipes!vars
  <2> QED
    BY <2>1, <2>2, PipeRest
<1> QED
  BY <1>1, PipeWrite, PipeReadErr DEF Pipes!Next

LEMMA PipeInOrder == ASSUME PipeInv PROVE Pipes!TailIsTheEnd /\ Pipes!InputIsInOrder
  BY DEF PipeInv, PipeTail, Pipes!TailIsTheEnd, Pipes!InputIsInOrder

-----------------------------------------------------------------------------
(* The components of Safety, side by side.                                 *)

\* Each component takes its own steps only.
LEMMA SafetyApart ==
  AllSpec => /\ Tasks!Init /\ [][Tasks!Next]_(Tasks!vars)
             /\ Jobbing!Init /\ [][Jobbing!Next]_(Jobbing!vars)
             /\ Pipes!Init /\ [][Pipes!Next]_(Pipes!vars)
             /\ Session!Init /\ [][Session!Next]_(Session!vars)
<1>1. AllInit => Tasks!Init /\ Jobbing!Init /\ Pipes!Init /\ Session!Init
  BY DEF AllInit
<1>2. [AllNext]_all => /\ [Tasks!Next]_(Tasks!vars) /\ [Jobbing!Next]_(Jobbing!vars)
                       /\ [Pipes!Next]_(Pipes!vars) /\ [Session!Next]_(Session!vars)
  BY DEF AllNext, OfTasks, OfJobs, OfPipes, OfSession, OfRuns, OfPlans, Rest, all, walking, scheduling,
     streaming, attending, Pipes!vars, Tasks!vars, Tasks!what, Tasks!claims, Tasks!roots, Tasks!locks, Tasks!objects,
     Tasks!memory, Tasks!execution, Tasks!commands, Jobbing!vars, Session!vars
<1> QED
  BY <1>1, <1>2, PTL DEF AllSpec

\* A task graph that succeeded ran each of its tasks after what it depends on.
THEOREM GraphsAreCovered ==
  ASSUME Tasks!ScopeAssumption, Tasks!ActorAssumption, Tasks!GraphAssumption, Tasks!JobsAssumption
  PROVE  AllSpec => []SuccessCoversTheGraph
<1>1. Tasks!SuccessCoversTheGraph => SuccessCoversTheGraph
  BY DEF SuccessCoversTheGraph
<1>2. Tasks!Spec => []Tasks!SuccessCoversTheGraph
  BY Tasks!SuccessIsWhole
<1> QED
  BY <1>1, <1>2, SafetyApart, PTL DEF Tasks!Spec

\* A job reported as active is loaded and on, and one reported as removed is off.
THEOREM OutcomesAreTrue ==
  ASSUME Jobbing!Distinct
  PROVE  AllSpec => []OutcomeIsTrue
<1>1. Jobbing!OutcomeIsTrue => OutcomeIsTrue
  BY DEF OutcomeIsTrue
<1> QED
  BY <1>1, SafetyApart, Jobbing!ReportsAreTrue, PTL DEF Jobbing!Spec

\* A callback that may start finds its payload, and one that runs keeps all of it.
THEOREM CallbacksAlwaysKeepTheirs ==
  ASSUME Jobbing!Distinct
  PROVE  AllSpec => []CallbacksKeepTheirs
<1>1. Jobbing!CallbackIsRetained /\ Jobbing!RunsAreWhole => CallbacksKeepTheirs
  BY DEF CallbacksKeepTheirs
<1> QED
  BY <1>1, SafetyApart, Jobbing!TimersFindTheirs, Jobbing!PayloadsAreKept, PTL DEF Jobbing!Spec

\* However a child's streams are cut into reads and short writes, and whatever stops the
\* exchange, the error that is kept is the end of what was read, to the byte, and the child
\* has taken its input in order, nothing twice and nothing left out.
THEOREM StreamsKeepOrder ==
  ASSUME Sized
  PROVE  AllSpec => [](Pipes!TailIsTheEnd /\ Pipes!InputIsInOrder)
<1>1. Pipes!Init => PipeInv
  BY PipeInit
<1>2. PipeInv /\ [Pipes!Next]_(Pipes!vars) => PipeInv'
  BY PipeNext
<1>3. PipeInv => Pipes!TailIsTheEnd /\ Pipes!InputIsInOrder
  BY PipeInOrder
<1> QED
  BY <1>1, <1>2, <1>3, SafetyApart, PTL

\* Through every stop, continuation and loss of the terminal, a termination is passed on or
\* still recorded, and a child that is waited for while it runs has the terminal.
THEOREM SignalsAlwaysKept == AllSpec => []SessionsKeepSignals
<1>1. SessionInv => SessionsKeepSignals
  BY DEF SessionInv, SessionTermInv, SessionLentInv, SessionsKeepSignals, Session!TerminalIsTheChilds
<1> QED
  BY <1>1, SafetyApart, SessionInvariance, PTL DEF Session!Spec
=============================================================================
