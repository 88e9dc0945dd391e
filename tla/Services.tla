------------------------------- MODULE Services -------------------------------
(***************************************************************************)
(* The service containers of one workspace (gripsack-exec/src/services):   *)
(* `up' and `down' hold the session lock of the home, keep a record of     *)
(* what they mean to own, and ask a container engine that neither of them  *)
(* controls.  Containers have names, which are reused, and identities,     *)
(* which are not.  The engine may carry a create out after the command     *)
(* that asked for it is gone.                                              *)
(***************************************************************************)
EXTENDS Integers

CONSTANTS
  Count,       \* services, in the order of their dependencies
  Revisions,
  Edited,      \* bound: services whose declaration is edited
  MaxId        \* bound: containers ever created
Service == 1..Count

VARIABLES
  declared,    \* the revision of each service in the workspace
  engine,      \* the container that has each service's name
  made,        \* identities given out
  request,     \* a create that the engine has still to carry out
  saved,       \* services/<workspace>.json
  records,     \* the same in the memory of the command
  pc, at,      \* where the command is, and the service of its loop
  wanted,      \* up: the revisions it was started for; down: the identities it saw
  overtaken    \* history: another container, or an edited service, was recorded
               \* while a create was still with the engine

vars == <<declared, engine, made, request, saved, records, pc, at, wanted, overtaken>>

Absent == [id |-> 0]
NoRecord == [rev |-> 0, id |-> -1]
Recorded(rev, id) == [rev |-> rev, id |-> id]     \* id 0: no outcome is known
NoRequest == [at |-> 0, rev |-> 0]
Container(id, rev, mine) == [id |-> id, rev |-> rev, mine |-> mine, state |-> "created"]

Exists(s) == engine[s] # Absent
Mine(s) == Exists(s) /\ engine[s].mine
Nothing == [s \in Service |-> 0]
Resting == pc \in {"idle", "killed"}

TypeOK ==
  /\ declared \in [Service -> Revisions]
  /\ \A s \in Service : Exists(s) => engine[s].id \in 1..made /\ engine[s].rev \in Revisions
  /\ \A s, t \in Service : Exists(s) /\ Exists(t) /\ s # t => engine[s].id # engine[t].id
  /\ made \in 0..MaxId /\ request.at \in 0..Count
  /\ \A s \in Service : saved[s].id \in -1..made /\ records[s].id \in -1..made
  /\ pc \in {"idle", "killed", "check", "each", "persist", "create", "creating", "inspect", "record",
             "start", "healthy", "observe", "stop", "delete", "forget"}
  /\ IF Resting THEN at = 0 ELSE at \in Service
  /\ overtaken \in BOOLEAN

Init ==
  /\ declared \in [Service -> {CHOOSE r \in Revisions : TRUE}]
  /\ engine = [s \in Service |-> Absent] /\ made = 0 /\ request = NoRequest
  /\ saved = [s \in Service |-> NoRecord] /\ records = saved
  /\ pc = "idle" /\ at = 0 /\ wanted = Nothing /\ overtaken = FALSE

\* admit_container: the labels of this workspace, the identity on record if
\* there is one, the revision on record.
Admits(s) ==
  /\ Exists(s) /\ engine[s].mine
  /\ records[s].rev = engine[s].rev /\ records[s].id \in {0, engine[s].id}

End == pc' = "idle" /\ at' = 0 /\ wanted' = Nothing
Same == UNCHANGED <<declared, made, request, overtaken>>
\* The command, and what it will do for service s next.
Go(p, s) == pc' = p /\ at' = s /\ UNCHANGED wanted

-----------------------------------------------------------------------------
(* up *)

UpBegin ==
  /\ Resting /\ pc' = "check" /\ at' = 1 /\ wanted' = declared
  /\ records' = saved
  /\ UNCHANGED <<engine, saved>> /\ Same

\* Every container is looked at before anything is changed.
Check ==
  /\ pc = "check"
  /\ IF Exists(at) /\ ~(Admits(at) /\ records[at].rev = wanted[at]) THEN End
     ELSE IF at < Count THEN Go("check", at + 1) ELSE Go("each", 1)
  /\ UNCHANGED <<engine, saved, records>> /\ Same

\* The record will not fit the container of an earlier create.
Overtakes == request.at = at /\ (Exists(at) \/ request.rev # wanted[at])
CreateFirst ==   \* mutant: the record is written when the outcome is known
  /\ pc = "each"
  /\ records' = [records EXCEPT ![at] =
       IF Exists(at) THEN [@ EXCEPT !.id = engine[at].id] ELSE Recorded(wanted[at], 0)]
  /\ IF ~Exists(at) THEN Go("create", at)
     ELSE IF Admits(at) THEN Go("record", at) ELSE End
  /\ overtaken' = (overtaken \/ Overtakes)
  /\ UNCHANGED <<engine, saved, declared, made, request>>
\* The container is there, or the intent to create it is put on record.
Each ==
  /\ pc = "each"
  /\ IF Exists(at)
     THEN /\ IF Admits(at) THEN Go("record", at) ELSE End
          /\ records' = [records EXCEPT ![at].id = engine[at].id]
     ELSE /\ Go("persist", at)
          /\ records' = [records EXCEPT ![at] = Recorded(wanted[at], 0)]
  /\ overtaken' = (overtaken \/ Overtakes)
  /\ UNCHANGED <<engine, saved, declared, made, request>>

Persist ==
  /\ pc = "persist" /\ saved' = records /\ Go("create", at)
  /\ UNCHANGED <<engine, records>> /\ Same

Create ==
  /\ pc = "create" /\ request = NoRequest
  /\ request' = [at |-> at, rev |-> wanted[at]]
  /\ Go("creating", at)
  /\ UNCHANGED <<declared, engine, made, saved, records, overtaken>>

\* The engine carries a create out: a name that is taken is a conflict.
Execute ==
  /\ request # NoRequest /\ request' = NoRequest
  /\ LET s == request.at
         waits == pc = "creating" /\ at = s IN
     IF Exists(s)
     THEN /\ IF waits THEN End ELSE UNCHANGED <<pc, at, wanted>>
          /\ UNCHANGED <<engine, made>>
     ELSE /\ made < MaxId /\ made' = made + 1
          /\ engine' = [engine EXCEPT ![s] = Container(made + 1, request.rev, TRUE)]
          /\ IF waits THEN Go("inspect", s) ELSE UNCHANGED <<pc, at, wanted>>
  /\ UNCHANGED <<declared, saved, records, overtaken>>

\* The created container is inspected by the identity that came back, which
\* may be gone again.
Inspect ==
  /\ pc = "inspect"
  /\ IF Admits(at)
     THEN records' = [records EXCEPT ![at].id = engine[at].id] /\ Go("record", at)
     ELSE UNCHANGED records /\ End
  /\ UNCHANGED <<engine, saved>> /\ Same

Record ==
  /\ pc = "record" /\ saved' = records /\ Go("start", at)
  /\ UNCHANGED <<engine, records>> /\ Same

\* Started by identity.
Start ==
  /\ pc = "start"
  /\ IF Exists(at) /\ engine[at].id = records[at].id
     THEN /\ engine' = [engine EXCEPT ![at].state = "running"]
          /\ Go("healthy", at)
     ELSE UNCHANGED engine /\ End
  /\ UNCHANGED <<saved, records>> /\ Same

\* wait_healthy, by name again; a container that stopped or never gets healthy
\* ends the command.
Healthy ==
  /\ pc = "healthy"
  /\ IF Admits(at) /\ engine[at].state = "running" /\ at < Count
     THEN Go("each", at + 1) ELSE End
  /\ UNCHANGED <<engine, saved, records>> /\ Same

-----------------------------------------------------------------------------
(* down *)

DownBegin ==
  /\ Resting /\ pc' = "observe" /\ at' = 1 /\ wanted' = Nothing
  /\ records' = saved
  /\ UNCHANGED <<engine, saved>> /\ Same

\* statuses: a container that is not on record as this one ends the command
\* before anything is stopped.
Observe ==
  /\ pc = "observe"
  /\ IF saved[at] # NoRecord /\ Exists(at) /\ ~Admits(at) THEN End
     ELSE /\ wanted' = [wanted EXCEPT ![at] =
                          IF saved[at] # NoRecord /\ Exists(at) THEN engine[at].id ELSE 0]
          /\ IF at < Count THEN pc' = "observe" /\ at' = at + 1 ELSE pc' = "stop" /\ at' = at
  /\ UNCHANGED <<engine, saved, records>> /\ Same

\* The container that the look before has seen.
Observed(s) == Exists(s) /\ engine[s].id = wanted[s]
Stop ==
  /\ pc = "stop"
  /\ engine' = IF Observed(at) THEN [engine EXCEPT ![at].state = "exited"] ELSE engine
  /\ Go("delete", at)
  /\ UNCHANGED <<saved, records>> /\ Same

DeleteByName ==   \* mutant: what has the name now
  /\ pc = "delete"
  /\ engine' = IF wanted[at] # 0 THEN [engine EXCEPT ![at] = Absent] ELSE engine
  /\ Go("forget", at)
  /\ UNCHANGED <<saved, records>> /\ Same
\* Not forced: a container that somebody started again stays.
Delete ==
  /\ pc = "delete"
  /\ IF Observed(at) /\ engine[at].state = "running" THEN UNCHANGED engine /\ End
     ELSE /\ engine' = IF Observed(at) THEN [engine EXCEPT ![at] = Absent] ELSE engine
          /\ Go("forget", at)
  /\ UNCHANGED <<saved, records>> /\ Same

\* Only the identity is forgotten.
Forget ==
  /\ pc = "forget"
  /\ records' = IF saved[at] = NoRecord THEN records ELSE [records EXCEPT ![at].id = 0]
  /\ saved' = records'
  /\ IF at > 1 THEN Go("stop", at - 1) ELSE End
  /\ UNCHANGED engine /\ Same

-----------------------------------------------------------------------------
\* A command is killed, or an answer does not come in time.
Abort ==
  /\ ~Resting /\ pc' = "killed" /\ at' = 0 /\ wanted' = Nothing
  /\ UNCHANGED <<engine, saved, records>> /\ Same

\* Others use the engine, and the workspace is edited.
UserRemoves(s) == Exists(s) /\ engine' = [engine EXCEPT ![s] = Absent] /\ UNCHANGED made
UserStarts(s) ==
  /\ Exists(s) /\ engine[s].state # "running"
  /\ engine' = [engine EXCEPT ![s].state = "running"] /\ UNCHANGED made
UserCreates(s) ==
  /\ ~Exists(s) /\ made < MaxId /\ made' = made + 1
  /\ \E r \in Revisions : engine' = [engine EXCEPT ![s] = Container(made + 1, r, FALSE)]
User ==
  /\ \E s \in Service : UserRemoves(s) \/ UserStarts(s) \/ UserCreates(s)
  /\ UNCHANGED <<declared, request, saved, records, pc, at, wanted, overtaken>>
Edit ==
  /\ \E s \in Edited, r \in Revisions : declared' = [declared EXCEPT ![s] = r]
  /\ UNCHANGED <<engine, made, request, saved, records, pc, at, wanted, overtaken>>

Up == Check \/ Each \/ Persist \/ Create \/ Inspect \/ Record \/ Start \/ Healthy
Down == Observe \/ Stop \/ Delete \/ Forget
Disturbance == Abort \/ User \/ Edit

Next == UpBegin \/ DownBegin \/ Up \/ Down \/ Execute \/ Disturbance

Spec == Init /\ [][Next]_vars /\ WF_vars(Up \/ Down \/ Execute)

-----------------------------------------------------------------------------
\* A container that Gripsack did not create is neither started, stopped nor
\* removed, whatever takes whose name while a command runs (services/plan.rs:
\* "no automatic adoption, replacement or deletion").
ForeignSurvives ==
  [][\A s \in Service : Exists(s) /\ ~engine[s].mine /\ engine'[s] # engine[s] => User]_vars

\* Whatever was created can be taken down: its record is durable first, agrees
\* with its labels, and stays for as long as it, or a create that the engine has
\* still to carry out, is there.  Only what a later command records while such a
\* create is on its way breaks that.
NothingIsStranded ==
  overtaken \/ \A s \in Service : Mine(s) =>
    saved[s].rev = engine[s].rev /\ saved[s].id \in {0, engine[s].id}

\* `down', run again until nothing disturbs it and no foreign container has one
\* of the names, leaves none of the workspace's containers.
DownClears ==
  (/\ <>[][~Disturbance /\ ~UpBegin]_vars /\ []<><<DownBegin>>_vars
   /\ <>[](~overtaken /\ \A s \in Service : Exists(s) => Mine(s)))
    => <>[](\A s \in Service : ~Mine(s))
===============================================================================
