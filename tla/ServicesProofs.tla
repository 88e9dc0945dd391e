--------------------------- MODULE ServicesProofs ---------------------------
(***************************************************************************)
(* What Services keeps for any number of services, revisions and           *)
(* containers, whatever others do with the engine in between.              *)
(***************************************************************************)
EXTENDS Services, TLAPS

\* There is a service and a revision to declare.
Hypothesis == Count \in Nat \ {0} /\ MaxId \in Nat /\ Revisions # {}

-----------------------------------------------------------------------------
\* The inductive invariant.

UpSteps   == {"check", "each", "persist", "create", "creating", "inspect", "record", "start", "healthy"}
DownSteps == {"observe", "stop", "delete", "forget"}
Containers == [id : 1..MaxId, rev : Revisions, mine : BOOLEAN, state : {"created", "running", "exited"}]
Records == [rev : Revisions \cup {0}, id : -1..MaxId]

\* What TypeOK leaves open.
ShapeInv ==
  /\ engine \in [Service -> {Absent} \cup Containers]
  /\ saved \in [Service -> Records] /\ records \in [Service -> Records]
  /\ request = NoRequest \/ request \in [at : Service, rev : Revisions]
  /\ pc \in UpSteps => wanted \in [Service -> Revisions]
  /\ pc \in DownSteps => wanted \in [Service -> 0..made]

\* A record speaks for a container.
Fits(r, c) == r.rev = c.rev /\ r.id \in {0, c.id}

MemoryInv ==
  /\ ~Resting => \A s \in Service : s # at => records[s] = saved[s]
  /\ ~Resting /\ pc \notin {"persist", "record"} => records = saved

CreateInv ==
  /\ pc \in {"persist", "create"} => records[at] = Recorded(wanted[at], 0)
  /\ pc \in {"inspect"} => request = NoRequest

OwnInv == ~overtaken =>
  /\ \A s \in Service : Mine(s) => Fits(saved[s], engine[s])
  /\ request # NoRequest => saved[request.at] = Recorded(request.rev, 0)
  /\ pc = "persist" => 
       /\ Mine(at) => engine[at].rev = wanted[at]
       /\ request.at = at => request.rev = wanted[at]
  /\ pc = "record" => 
      /\ request.at # at
      /\ Mine(at) => Fits(records[at], engine[at])

IdentityInv ==
  /\ pc \in {"record", "start"} /\ Exists(at) /\ engine[at].id = records[at].id => engine[at].mine
  /\ pc \in DownSteps => \A s \in Service : Observed(s) => engine[s].mine

IInv == TypeOK /\ ShapeInv /\ MemoryInv /\ CreateInv /\ OwnInv /\ IdentityInv
-----------------------------------------------------------------------------
\* What a step does to the containers.

\* Only what was there is there, and each is the container it was, in whatever state.
NoneNew ==
  /\ engine' \in [Service -> {Absent} \cup Containers]
  /\ \A s \in Service : engine'[s] # Absent =>
       /\ engine[s] # Absent /\ engine'[s].id = engine[s].id
       /\ engine'[s].rev = engine[s].rev /\ engine'[s].mine = engine[s].mine

LEMMA Restated ==
  ASSUME ShapeInv, NEW s \in Service, NEW x \in {"running", "exited"}, engine[s] # Absent,
         engine' = [engine EXCEPT ![s].state = x]
  PROVE  NoneNew
<1>1. engine[s] \in Containers
  BY DEF ShapeInv
<1> DEFINE c == [engine[s] EXCEPT !.state = x]
<1>2. c \in Containers /\ c.id = engine[s].id /\ c.rev = engine[s].rev /\ c.mine = engine[s].mine
  BY <1>1 DEF Containers
<1>3. engine' = [engine EXCEPT ![s] = c]
  BY <1>1 DEF ShapeInv
<1> HIDE DEF c
<1>4. engine' \in [Service -> {Absent} \cup Containers]
  BY <1>2, <1>3 DEF ShapeInv
<1>5. \A t \in Service : engine'[t] = IF t = s THEN c ELSE engine[t]
  BY <1>3 DEF ShapeInv
<1> QED
  BY <1>2, <1>4, <1>5 DEF NoneNew

LEMMA Removed ==
  ASSUME ShapeInv, NEW s \in Service, engine' = [engine EXCEPT ![s] = Absent]
  PROVE  NoneNew
  BY DEF ShapeInv, NoneNew

\* Identities of containers stay distinct and given out.
LEMMA EngineTypes ==
  ASSUME TypeOK, NoneNew
  PROVE  /\ \A s \in Service : Exists(s)' => engine'[s].id \in 1..made /\ engine'[s].rev \in Revisions
         /\ \A s, t \in Service : Exists(s)' /\ Exists(t)' /\ s # t => engine'[s].id # engine'[t].id
  BY DEF TypeOK, NoneNew, Exists

\* A new container has an identity that nothing was given before.
LEMMA Added ==
  ASSUME TypeOK, ShapeInv, MaxId \in Nat, made < MaxId, made' = made + 1, NEW s \in Service, ~Exists(s),
         NEW rev \in Revisions, NEW mine \in BOOLEAN,
         engine' = [engine EXCEPT ![s] = Container(made + 1, rev, mine)]
  PROVE  /\ engine' \in [Service -> {Absent} \cup Containers]
         /\ engine'[s] = Container(made + 1, rev, mine)
         /\ \A t \in Service : t # s => engine'[t] = engine[t]
         /\ \A n \in -1..made : engine'[s].id # n
         /\ \A t \in Service : Exists(t)' => engine'[t].id \in 1..made' /\ engine'[t].rev \in Revisions
         /\ \A t, u \in Service : Exists(t)' /\ Exists(u)' /\ t # u => engine'[t].id # engine'[u].id
<1> DEFINE c == Container(made + 1, rev, mine)
<1>1. c \in Containers /\ c.id = made + 1 /\ c.rev = rev
  BY DEF TypeOK, Container, Containers
<1> HIDE DEF c
<1>2. engine' = [engine EXCEPT ![s] = c]
  BY DEF c
<1>3. engine' \in [Service -> {Absent} \cup Containers]
  BY <1>1, <1>2 DEF ShapeInv
<1>4. engine'[s] = c /\ \A t \in Service : t # s => engine'[t] = engine[t]
  BY <1>2 DEF ShapeInv
<1>5. \A n \in -1..made : engine'[s].id # n
  BY <1>1, <1>4 DEF TypeOK
<1>6. \A t \in Service : Exists(t)' => engine'[t].id \in 1..made' /\ engine'[t].rev \in Revisions
  BY <1>1, <1>4 DEF TypeOK, Exists
<1>7. \A t \in Service : t # s /\ Exists(t)' => engine'[t].id # engine'[s].id
  BY <1>1, <1>4 DEF TypeOK, Exists
<1>8. \A t, u \in Service : Exists(t)' /\ Exists(u)' /\ t # u => engine'[t].id # engine'[u].id
  BY <1>4, <1>7 DEF TypeOK, Exists
<1> QED
  BY <1>3, <1>4, <1>5, <1>6, <1>8 DEF c

\* A create that is carried out gives its name a container with the revision asked for.
LEMMA Executed ==
  ASSUME Hypothesis, IInv, Execute, ~Exists(request.at)
  PROVE  /\ engine' \in [Service -> {Absent} \cup Containers]
         /\ made < MaxId /\ made' = made + 1
         /\ engine'[request.at] = Container(made + 1, request.rev, TRUE)
         /\ \A t \in Service : t # request.at => engine'[t] = engine[t]
         /\ \A n \in -1..made : engine'[request.at].id # n
         /\ \A t \in Service : Exists(t)' => engine'[t].id \in 1..made' /\ engine'[t].rev \in Revisions
         /\ \A t, u \in Service : Exists(t)' /\ Exists(u)' /\ t # u => engine'[t].id # engine'[u].id
<1>1. request.at \in Service /\ request.rev \in Revisions /\ MaxId \in Nat /\ TRUE \in BOOLEAN
  BY DEF Hypothesis, IInv, ShapeInv, Execute
<1>2. made < MaxId /\ made' = made + 1
  BY DEF Execute
<1>3. engine' = [engine EXCEPT ![request.at] = Container(made + 1, request.rev, TRUE)]
  BY DEF Execute
<1>4. TypeOK /\ ShapeInv
  BY DEF IInv
<1> QED
  BY <1>1, <1>2, <1>3, <1>4, Added

\* What others do: nothing new, or one container that is not ours.
LEMMA Others ==
  ASSUME Hypothesis, TypeOK, ShapeInv, NEW s \in Service, UserRemoves(s) \/ UserStarts(s) \/ UserCreates(s)
  PROVE  /\ engine' \in [Service -> {Absent} \cup Containers]
         /\ made' \in 0..MaxId /\ made' >= made
         /\ \A t \in Service : Exists(t)' => engine'[t].id \in 1..made' /\ engine'[t].rev \in Revisions
         /\ \A t, u \in Service : Exists(t)' /\ Exists(u)' /\ t # u => engine'[t].id # engine'[u].id
         /\ \A t \in Service : Mine(t)' =>
              Mine(t) /\ engine'[t].id = engine[t].id /\ engine'[t].rev = engine[t].rev
         /\ \/ NoneNew
            \/ /\ \A n \in -1..made : engine'[s].id # n
               /\ \A t \in Service : t # s => engine'[t] = engine[t]
<1>1. CASE NoneNew /\ made' = made
  BY <1>1, EngineTypes DEF NoneNew, TypeOK, Mine, Exists
<1>2. CASE UserCreates(s)
  <2>1. PICK rev \in Revisions : engine' = [engine EXCEPT ![s] = Container(made + 1, rev, FALSE)]
    BY <1>2 DEF UserCreates
  <2>2. made < MaxId /\ made' = made + 1 /\ ~Exists(s)
    BY <1>2 DEF UserCreates
  <2>3. /\ engine' \in [Service -> {Absent} \cup Containers]
        /\ engine'[s] = Container(made + 1, rev, FALSE)
        /\ \A t \in Service : t # s => engine'[t] = engine[t]
        /\ \A n \in -1..made : engine'[s].id # n
        /\ \A t \in Service : Exists(t)' => engine'[t].id \in 1..made' /\ engine'[t].rev \in Revisions
        /\ \A t, u \in Service : Exists(t)' /\ Exists(u)' /\ t # u => engine'[t].id # engine'[u].id
    BY <2>1, <2>2, Added DEF Hypothesis
  <2>4. \A t \in Service : Mine(t)' => t # s /\ engine'[t] = engine[t]
    BY <2>3 DEF Mine, Container
  <2>5. \A t \in Service : Mine(t)' =>
           Mine(t) /\ engine'[t].id = engine[t].id /\ engine'[t].rev = engine[t].rev
    BY <2>4 DEF Mine, Exists
  <2>6. made' \in 0..MaxId /\ made' >= made
    BY <2>2 DEF Hypothesis, TypeOK
  <2> QED
    BY <2>3, <2>5, <2>6
<1>3. CASE UserRemoves(s)
  BY <1>1, <1>3, Removed DEF UserRemoves
<1>4. CASE UserStarts(s)
  BY <1>1, <1>4, Restated DEF UserStarts, Exists
<1> QED
  BY <1>2, <1>3, <1>4

\* With no container new and nothing written, records go on to fit.
LEMMA OwnKept ==
  ASSUME IInv, NoneNew, UNCHANGED <<saved, records, request, overtaken>>,
         pc' \notin {"persist", "record"}
  PROVE  OwnInv'
  BY DEF IInv, OwnInv, NoneNew, Mine, Exists, Fits

\* What a command has seen or recorded stays ours when nothing is new, or when what is new
\* has an identity of its own.
LEMMA IdentityOfFewer ==
  ASSUME IInv, NoneNew, UNCHANGED <<pc, at, wanted, records>>
  PROVE  IdentityInv'
<1>1. at \in Service \/ pc \notin {"record", "start"}
  BY DEF IInv, TypeOK, Resting
<1> QED
  BY <1>1 DEF IInv, IdentityInv, NoneNew, Observed, Exists

LEMMA IdentityKept ==
  ASSUME IInv, NEW s \in Service, \A n \in -1..made : engine'[s].id # n,
         \A t \in Service : t # s => engine'[t] = engine[t], UNCHANGED <<pc, at, wanted, records>>
  PROVE  IdentityInv'
<1>1. pc \in {"record", "start"} => at \in Service /\ records[at].id \in -1..made
  BY DEF IInv, TypeOK, Resting
<1>2. pc \in DownSteps => \A t \in Service : wanted[t] \in -1..made
  BY DEF IInv, ShapeInv, TypeOK
<1>3. pc \in {"record", "start"} /\ Exists(at)' /\ engine'[at].id = records[at].id => engine'[at].mine
  BY <1>1 DEF IInv, IdentityInv, Exists
<1>4. pc \in DownSteps => \A t \in Service : Exists(t)' /\ engine'[t].id = wanted[t] => engine'[t].mine
  BY <1>2 DEF IInv, IdentityInv, Observed, Exists
<1> QED
  BY <1>3, <1>4 DEF IdentityInv, Observed, Exists

-----------------------------------------------------------------------------
\* What a step does to the record.

LEMMA Noted ==
  ASSUME ShapeInv, NEW s \in Service, NEW r \in Records, records' = [records EXCEPT ![s] = r]
  PROVE  /\ records' \in [Service -> Records] /\ records'[s] = r
         /\ \A t \in Service : t # s => records'[t] = records[t]
  BY DEF ShapeInv

LEMMA Identified ==
  ASSUME ShapeInv, NEW s \in Service, NEW n \in -1..MaxId, records' = [records EXCEPT ![s].id = n]
  PROVE  /\ records' \in [Service -> Records]
         /\ records'[s].id = n /\ records'[s].rev = records[s].rev
         /\ \A t \in Service : t # s => records'[t] = records[t]
<1> DEFINE r == [records[s] EXCEPT !.id = n]
<1>1. r \in Records /\ r.id = n /\ r.rev = records[s].rev
  BY DEF ShapeInv, Records
<1>2. records' = [records EXCEPT ![s] = r]
  BY DEF ShapeInv
<1> HIDE DEF r
<1> QED
  BY <1>1, <1>2, Noted

LEMMA EachRecords ==
  ASSUME Hypothesis, IInv, Each
  PROVE  /\ records' \in [Service -> Records]
         /\ \A s \in Service : records'[s].id \in -1..made
         /\ Exists(at) => records'[at].id = engine[at].id /\ records'[at].rev = records[at].rev
<1>1. at \in Service /\ made \in 0..MaxId
  BY DEF IInv, TypeOK, Resting, Each
<1>2. CASE Exists(at)
  <2>1. engine[at].id \in 1..made
    BY <1>1, <1>2 DEF IInv, TypeOK
  <2>2. engine[at].id \in -1..MaxId
    BY <1>1, <2>1 DEF Hypothesis
  <2>3. records' = [records EXCEPT ![at].id = engine[at].id]
    BY <1>2 DEF Each
  <2>4. /\ records' \in [Service -> Records]
        /\ records'[at].id = engine[at].id /\ records'[at].rev = records[at].rev
        /\ \A t \in Service : t # at => records'[t] = records[t]
    BY <1>1, <2>2, <2>3, Identified DEF IInv
  <2> QED
    BY <1>1, <2>1, <2>4 DEF IInv, TypeOK
<1>3. CASE ~Exists(at)
  <2>1. Recorded(wanted[at], 0) \in Records /\ Recorded(wanted[at], 0).id = 0
    BY <1>1 DEF Hypothesis, IInv, ShapeInv, UpSteps, Records, Recorded, Each
  <2>2. records' = [records EXCEPT ![at] = Recorded(wanted[at], 0)]
    BY <1>3 DEF Each
  <2>3. /\ records' \in [Service -> Records] /\ records'[at] = Recorded(wanted[at], 0)
        /\ \A t \in Service : t # at => records'[t] = records[t]
    BY <1>1, <2>1, <2>2, Noted DEF IInv
  <2> QED
    BY <1>1, <1>3, <2>1, <2>3 DEF IInv, TypeOK
<1> QED
  BY <1>2, <1>3

LEMMA InspectRecords ==
  ASSUME Hypothesis, IInv, Inspect
  PROVE  /\ records' \in [Service -> Records]
         /\ \A s \in Service : records'[s].id \in -1..made
<1>1. at \in Service /\ made \in 0..MaxId
  BY DEF IInv, TypeOK, Resting, Inspect
<1>2. CASE Admits(at)
  <2>1. engine[at].id \in 1..made
    BY <1>1, <1>2 DEF IInv, TypeOK, Admits
  <2>2. engine[at].id \in -1..MaxId
    BY <1>1, <2>1 DEF Hypothesis
  <2>3. records' = [records EXCEPT ![at].id = engine[at].id]
    BY <1>2 DEF Inspect
  <2>4. /\ records' \in [Service -> Records] /\ records'[at].id = engine[at].id
        /\ \A t \in Service : t # at => records'[t] = records[t]
    BY <1>1, <2>2, <2>3, Identified DEF IInv
  <2> QED
    BY <1>1, <2>1, <2>4 DEF IInv, TypeOK
<1>3. CASE ~Admits(at)
  BY <1>3 DEF IInv, TypeOK, ShapeInv, Inspect
<1> QED
  BY <1>2, <1>3

LEMMA ForgetRecords ==
  ASSUME Hypothesis, IInv, Forget
  PROVE  /\ records' \in [Service -> Records] /\ saved' = records'
         /\ \A s \in Service : records'[s].rev = records[s].rev /\ records'[s].id \in {0, records[s].id}
<1>1. at \in Service /\ 0 \in -1..MaxId
  BY DEF Hypothesis, IInv, TypeOK, Resting, Forget
<1>2. CASE saved[at] = NoRecord
  BY <1>2 DEF IInv, ShapeInv, Forget
<1>3. CASE saved[at] # NoRecord
  <2>1. records' = [records EXCEPT ![at].id = 0] /\ saved' = records'
    BY <1>3 DEF Forget
  <2>2. /\ records' \in [Service -> Records]
        /\ records'[at].id = 0 /\ records'[at].rev = records[at].rev
        /\ \A t \in Service : t # at => records'[t] = records[t]
    BY <1>1, <2>1, Identified DEF IInv
  <2> QED
    BY <2>1, <2>2
<1> QED
  BY <1>2, <1>3

\* What `down' has seen: nothing, or a container of ours.
LEMMA ObserveWanted ==
  ASSUME Hypothesis, IInv, Observe, pc' # "idle"
  PROVE  /\ wanted' \in [Service -> 0..made]
         /\ \A s \in Service : s # at => wanted'[s] = wanted[s]
         /\ wanted'[at] # 0 => (Exists(at) => engine[at].mine)
<1>1. at \in Service /\ made \in 0..MaxId /\ wanted \in [Service -> 0..made]
  BY DEF IInv, TypeOK, Resting, ShapeInv, DownSteps, Observe
<1>2. ~(saved[at] # NoRecord /\ Exists(at) /\ ~Admits(at))
  BY DEF Observe, End
<1> DEFINE seen == IF saved[at] # NoRecord /\ Exists(at) THEN engine[at].id ELSE 0
<1>3. seen \in 0..made /\ (seen # 0 => engine[at].mine)
  BY <1>1, <1>2 DEF IInv, TypeOK, Admits
<1>4. wanted' = [wanted EXCEPT ![at] = seen]
  BY <1>2 DEF Observe
<1> HIDE DEF seen
<1> QED
  BY <1>1, <1>3, <1>4

LEMMA OvertakenIsBoolean == ASSUME TypeOK, Each PROVE overtaken' \in BOOLEAN
<1>1. CASE overtaken \/ Overtakes
  <2>1. overtaken' = TRUE
    BY <1>1 DEF Each
  <2> QED
    BY <2>1
<1>2. CASE ~(overtaken \/ Overtakes)
  <2>1. overtaken' = FALSE
    BY <1>2 DEF Each
  <2> QED
    BY <2>1
<1> QED
  BY <1>1, <1>2

-----------------------------------------------------------------------------
\* The steps.

\* A command begins with the record that was saved.
LEMMA UpBeginStep == ASSUME Hypothesis, IInv, UpBegin PROVE IInv'
<1>1. TypeOK'
  BY DEF Hypothesis, IInv, TypeOK, Exists, Resting, Service, UpBegin, Same
<1>2. ShapeInv'
  BY DEF IInv, TypeOK, ShapeInv, UpSteps, DownSteps, Containers, Records, Exists,
     Resting, Service, UpBegin, Same
<1>3. MemoryInv'
  BY DEF IInv, MemoryInv, Resting, UpBegin, Same
<1>4. CreateInv'
  BY DEF IInv, CreateInv, UpBegin, Same
<1>5. OwnInv'
  BY DEF IInv, OwnInv, Fits, Mine, Exists, UpBegin, Same
<1>6. IdentityInv'
  BY DEF IInv, IdentityInv, DownSteps, Exists, Observed, UpBegin, Same
<1> QED
  BY <1>1, <1>2, <1>3, <1>4, <1>5, <1>6 DEF IInv

\* So does one that takes services down; it has seen no container yet.
LEMMA DownBeginStep == ASSUME Hypothesis, IInv, DownBegin PROVE IInv'
<1>1. TypeOK'
  BY DEF Hypothesis, IInv, TypeOK, Exists, Resting, Service, DownBegin, Nothing,
     Same
<1>2. ShapeInv'
  BY DEF IInv, TypeOK, ShapeInv, UpSteps, DownSteps, Containers, Records, Exists,
     Resting, Service, DownBegin, Nothing, Same
<1>3. MemoryInv'
  BY DEF IInv, MemoryInv, Resting, DownBegin, Nothing, Same
<1>4. CreateInv'
  BY DEF IInv, CreateInv, DownBegin, Nothing, Same
<1>5. OwnInv'
  BY DEF IInv, OwnInv, Fits, Mine, Exists, DownBegin, Nothing, Same
<1>6. IdentityInv'
  BY DEF IInv, TypeOK, IdentityInv, DownSteps, Exists, Observed, Resting, Service,
     DownBegin, Nothing, Same
<1> QED
  BY <1>1, <1>2, <1>3, <1>4, <1>5, <1>6 DEF IInv

\* Looking changes nothing.
LEMMA CheckStep == ASSUME Hypothesis, IInv, Check PROVE IInv'
<1>1. TypeOK'
  BY DEF Hypothesis, IInv, TypeOK, Exists, Resting, Service, Check, Go, End, Same
<1>2. ShapeInv'
  BY DEF IInv, ShapeInv, UpSteps, DownSteps, Containers, Records, Check, Go, End,
     Same
<1>3. MemoryInv'
  BY DEF IInv, MemoryInv, Resting, Check, Go, End, Same
<1>4. CreateInv'
  BY DEF IInv, CreateInv, Check, Go, End, Same
<1>5. OwnInv'
  BY DEF IInv, OwnInv, Fits, Mine, Exists, Check, Go, End, Same
<1>6. IdentityInv'
  BY DEF IInv, IdentityInv, DownSteps, Exists, Observed, Check, Go, End, Same
<1> QED
  BY <1>1, <1>2, <1>3, <1>4, <1>5, <1>6 DEF IInv

\* The intent to create is noted with no identity; a container that is admitted is this
\* workspace's, and if a create for its name is on its way, this overtakes it.
LEMMA EachStep == ASSUME Hypothesis, IInv, Each PROVE IInv'
<1>1. TypeOK'
  <2>1. records' \in [Service -> Records] /\ \A s \in Service : records'[s].id \in -1..made
    BY EachRecords
  <2>2. at \in Service /\ pc' \in {"idle", "persist", "record"}
    BY DEF IInv, TypeOK, Resting, Each, Go, End
  <2>3. overtaken' \in BOOLEAN
    BY OvertakenIsBoolean DEF IInv
  <2>4. IF Resting' THEN at' = 0 ELSE at' \in Service
    BY <2>2 DEF Each, Go, End, Resting
  <2> QED
    BY <2>1, <2>2, <2>3, <2>4 DEF IInv, TypeOK, Exists, Each
<1>2. ShapeInv'
  <2>1. records' \in [Service -> Records]
    BY EachRecords
  <2>2. pc' \in {"idle", "persist", "record"} /\ (pc' # "idle" => UNCHANGED wanted)
    BY DEF Each, Go, End
  <2> QED
    BY <2>1, <2>2 DEF IInv, ShapeInv, UpSteps, DownSteps, Each
<1>3. MemoryInv'
  BY DEF IInv, TypeOK, Resting, ShapeInv, MemoryInv, Each, Go, End
<1>4. CreateInv'
  BY DEF IInv, TypeOK, Resting, ShapeInv, Each, CreateInv, Go, End
<1>5. OwnInv'
  <2> SUFFICES ASSUME ~overtaken' PROVE OwnInv'
    BY DEF OwnInv
  <2>1. ~overtaken /\ ~Overtakes
    BY DEF Each
  <2>2. at \in Service
    BY DEF IInv, TypeOK, Resting, Each
  <2>3. CASE Exists(at) /\ Admits(at)
    <3>1. pc' = "record" /\ at' = at /\ records'[at].id = engine[at].id /\ records'[at].rev = records[at].rev
      BY <2>2, <2>3, EachRecords DEF Each, Go
    <3>2. records[at].rev = engine[at].rev
      BY <2>3 DEF Admits
    <3>3. request.at # at
      BY <2>1, <2>3 DEF Overtakes
    <3> QED
      BY <2>1, <3>1, <3>2, <3>3 DEF IInv, OwnInv, Mine, Exists, Fits, Each
  <2>4. CASE Exists(at) /\ ~Admits(at)
    <3>1. pc' = "idle"
      BY <2>4 DEF Each, End
    <3> QED
      BY <2>1, <3>1 DEF IInv, OwnInv, Mine, Exists, Fits, Each
  <2>5. CASE ~Exists(at)
    <3>1. pc' = "persist" /\ at' = at /\ wanted' = wanted
      BY <2>5 DEF Each, Go
    <3>2. request.at = at => request.rev = wanted[at]
      BY <2>1, <2>5 DEF Overtakes
    <3> QED
      BY <2>1, <2>5, <3>1, <3>2 DEF IInv, OwnInv, Mine, Exists, Fits, Each
  <2> QED
    BY <2>3, <2>4, <2>5
<1>6. IdentityInv'
  BY DEF IInv, IdentityInv, DownSteps, Exists, Observed, Each, Go, End, Admits,
     Overtakes
<1> QED
  BY <1>1, <1>2, <1>3, <1>4, <1>5, <1>6 DEF IInv

\* What is saved names no identity, so it fits whatever the create still leaves there.
LEMMA PersistStep == ASSUME Hypothesis, IInv, Persist PROVE IInv'
<1>1. TypeOK'
  BY DEF IInv, TypeOK, Exists, Resting, Service, Persist, Go, Same
<1>2. ShapeInv'
  BY DEF IInv, ShapeInv, UpSteps, DownSteps, Containers, Records, Persist, Go,
     Same
<1>3. MemoryInv'
  BY DEF IInv, MemoryInv, Resting, Persist, Go, Same
<1>4. CreateInv'
  BY DEF IInv, CreateInv, Persist, Go, Same
<1>5. OwnInv'
  <2> SUFFICES ASSUME ~overtaken PROVE OwnInv'
    BY DEF OwnInv, Persist, Same
  <2>1. at \in Service /\ saved' = records /\ records[at] = Recorded(wanted[at], 0)
    BY DEF IInv, TypeOK, Resting, CreateInv, Persist
  <2>2. \A s \in Service : s # at => saved'[s] = saved[s]
    BY <2>1 DEF IInv, MemoryInv, Resting, Persist
  <2>3. \A s \in Service : Mine(s) => Fits(saved'[s], engine[s])
    <3>1. Mine(at) => Fits(saved'[at], engine[at])
      BY <2>1 DEF IInv, OwnInv, Fits, Recorded, Persist
    <3> QED
      BY <2>2, <3>1 DEF IInv, OwnInv, Persist
  <2>4. request # NoRequest => saved'[request.at] = Recorded(request.rev, 0)
    <3>1. request # NoRequest => request.at \in Service
      BY DEF IInv, ShapeInv
    <3>2. request.at = at => request.rev = wanted[at]
      BY DEF IInv, OwnInv, Persist
    <3> QED
      BY <2>1, <2>2, <3>1, <3>2 DEF IInv, OwnInv, Persist
  <2> QED
    BY <2>3, <2>4 DEF OwnInv, Mine, Exists, Persist, Go, Same
<1>6. IdentityInv'
  BY DEF IInv, IdentityInv, DownSteps, Exists, Observed, Persist, Go, Same
<1> QED
  BY <1>1, <1>2, <1>3, <1>4, <1>5, <1>6 DEF IInv

\* The create is asked for under a record that is saved.
LEMMA CreateStep == ASSUME Hypothesis, IInv, Create PROVE IInv'
<1>1. TypeOK'
  BY DEF IInv, TypeOK, Exists, Resting, Service, Create, Go
<1>2. ShapeInv'
  BY DEF IInv, TypeOK, ShapeInv, UpSteps, DownSteps, Containers, Records, Exists,
     Resting, Service, Create, Go
<1>3. MemoryInv'
  BY DEF IInv, MemoryInv, Resting, Create, Go
<1>4. CreateInv'
  BY DEF IInv, CreateInv, Create, Go
<1>5. OwnInv'
  <2>1. at \in Service /\ pc' = "creating"
    BY DEF IInv, TypeOK, Resting, Create, Go
  <2>2. saved[at] = Recorded(wanted[at], 0)
    BY <2>1 DEF IInv, MemoryInv, CreateInv, Resting, Create
  <2> QED
    BY <2>1, <2>2 DEF IInv, OwnInv, Mine, Exists, Fits, Create
<1>6. IdentityInv'
  BY DEF IInv, IdentityInv, DownSteps, Exists, Observed, Create, Go
<1> QED
  BY <1>1, <1>2, <1>3, <1>4, <1>5, <1>6 DEF IInv

\* No create is on its way when one is inspected.
LEMMA InspectStep == ASSUME Hypothesis, IInv, Inspect PROVE IInv'
<1>1. TypeOK'
  <2>1. records' \in [Service -> Records] /\ \A s \in Service : records'[s].id \in -1..made
    BY InspectRecords
  <2>2. at \in Service /\ pc' \in {"idle", "record"} /\ (IF Resting' THEN at' = 0 ELSE at' \in Service)
    BY DEF IInv, TypeOK, Resting, Inspect, Go, End
  <2> QED
    BY <2>1, <2>2 DEF IInv, TypeOK, Exists, Inspect, Same
<1>2. ShapeInv'
  <2>1. records' \in [Service -> Records]
    BY InspectRecords
  <2>2. pc' \in {"idle", "record"} /\ (pc' # "idle" => UNCHANGED wanted)
    BY DEF Inspect, Go, End
  <2> QED
    BY <2>1, <2>2 DEF IInv, ShapeInv, UpSteps, DownSteps, Inspect, Same
<1>3. MemoryInv'
  BY DEF IInv, TypeOK, Resting, ShapeInv, MemoryInv, Inspect, Go, End, Same
<1>4. CreateInv'
  BY DEF IInv, CreateInv, Inspect, Go, End, Admits, Same
<1>5. OwnInv'
  <2>1. at \in Service /\ NoRequest.at # at
    BY DEF Hypothesis, IInv, TypeOK, Resting, Service, NoRequest, Inspect
  <2>2. CASE Admits(at)
    <3>1. records[at].rev = engine[at].rev
      BY <2>2 DEF Admits
    <3>2. request' = NoRequest /\ at' = at /\ pc' = "record"
      BY <2>2 DEF IInv, CreateInv, Inspect, Go, Same
    <3>3. Fits(records'[at], engine[at])
      BY <2>1, <2>2, <3>1 DEF IInv, ShapeInv, Records, Fits, Inspect
    <3> QED
      BY <2>1, <3>2, <3>3 DEF IInv, OwnInv, Mine, Exists, Fits, Inspect, Same
  <2>3. CASE ~Admits(at)
    BY <2>3 DEF IInv, OwnInv, Mine, Exists, Fits, Inspect, End, Same
  <2> QED
    BY <2>2, <2>3
<1>6. IdentityInv'
  BY DEF IInv, IdentityInv, DownSteps, Exists, Observed, Inspect, Go, End, Admits,
     Same
<1> QED
  BY <1>1, <1>2, <1>3, <1>4, <1>5, <1>6 DEF IInv

\* The identity that is recorded is of the container that has the name, if it is ours.
LEMMA RecordStep == ASSUME Hypothesis, IInv, Record PROVE IInv'
<1>1. TypeOK'
  BY DEF IInv, TypeOK, Exists, Resting, Service, Record, Go, Same
<1>2. ShapeInv'
  BY DEF IInv, ShapeInv, UpSteps, DownSteps, Containers, Records, Record, Go, Same
<1>3. MemoryInv'
  BY DEF IInv, MemoryInv, Resting, Record, Go, Same
<1>4. CreateInv'
  BY DEF IInv, CreateInv, Record, Go, Same
<1>5. OwnInv'
  <2>1. at \in Service
    BY DEF IInv, TypeOK, Resting, Record
  <2>2. \A s \in Service : s # at => saved'[s] = saved[s]
    BY DEF IInv, MemoryInv, Resting, Record
  <2>3. request # NoRequest => request.at \in Service
    BY DEF IInv, ShapeInv
  <2> QED
    BY <2>1, <2>2, <2>3 DEF IInv, OwnInv, Mine, Exists, Fits, Record, Go, Same
<1>6. IdentityInv'
  BY DEF IInv, IdentityInv, DownSteps, Exists, Observed, Record, Go, Same
<1> QED
  BY <1>1, <1>2, <1>3, <1>4, <1>5, <1>6 DEF IInv

\* A container is started by an identity on record, which is ours.
LEMMA StartStep == ASSUME Hypothesis, IInv, Start PROVE IInv'
<1>0. NoneNew
  <2>1. at \in Service
    BY DEF IInv, TypeOK, Resting, Start
  <2>2. CASE Exists(at) /\ engine[at].id = records[at].id
    BY <2>1, <2>2, Restated DEF IInv, Exists, Start
  <2>3. CASE ~(Exists(at) /\ engine[at].id = records[at].id)
    BY <2>3 DEF IInv, ShapeInv, NoneNew, Start
  <2> QED
    BY <2>2, <2>3
<1>1. TypeOK'
  <2>1. pc' \in {"idle", "healthy"} /\ (IF Resting' THEN at' = 0 ELSE at' \in Service)
    BY DEF IInv, TypeOK, Resting, Start, Go, End
  <2> QED
    BY <1>0, <2>1, EngineTypes DEF IInv, TypeOK, Start, Same
<1>2. ShapeInv'
  <2>1. pc' \in {"idle", "healthy"} /\ (pc' # "idle" => UNCHANGED wanted)
    BY DEF Start, Go, End
  <2> QED
    BY <1>0, <2>1 DEF NoneNew, IInv, ShapeInv, UpSteps, DownSteps, Start, Same
<1>3. MemoryInv'
  BY DEF IInv, MemoryInv, Resting, Start, Go, End, Same
<1>4. CreateInv'
  BY DEF IInv, CreateInv, Start, Go, End, Same
<1>5. OwnInv'
  BY <1>0, OwnKept DEF Start, Go, End, Same
<1>6. IdentityInv'
  BY DEF IInv, IdentityInv, DownSteps, Exists, Observed, Start, Go, End, Same
<1> QED
  BY <1>1, <1>2, <1>3, <1>4, <1>5, <1>6 DEF IInv

\* Waiting changes nothing.
LEMMA HealthyStep == ASSUME Hypothesis, IInv, Healthy PROVE IInv'
<1>1. TypeOK'
  BY DEF Hypothesis, IInv, TypeOK, Exists, Resting, Service, Healthy, Go, End,
     Admits, Same
<1>2. ShapeInv'
  BY DEF IInv, ShapeInv, UpSteps, DownSteps, Containers, Records, Healthy, Go,
     End, Admits, Same
<1>3. MemoryInv'
  BY DEF IInv, MemoryInv, Resting, Healthy, Go, End, Admits, Same
<1>4. CreateInv'
  BY DEF IInv, CreateInv, Healthy, Go, End, Admits, Same
<1>5. OwnInv'
  BY DEF IInv, OwnInv, Fits, Mine, Exists, Healthy, Go, End, Admits, Same
<1>6. IdentityInv'
  BY DEF IInv, IdentityInv, DownSteps, Exists, Observed, Healthy, Go, End, Admits,
     Same
<1> QED
  BY <1>1, <1>2, <1>3, <1>4, <1>5, <1>6 DEF IInv

\* What is seen for deletion is on record, under our labels.
LEMMA ObserveStep == ASSUME Hypothesis, IInv, Observe PROVE IInv'
<1>1. TypeOK'
  BY DEF Hypothesis, IInv, TypeOK, Exists, Resting, Service, Observe, End, Admits,
     Same
<1>2. ShapeInv'
  <2>1. CASE pc' = "idle"
    BY <2>1 DEF IInv, ShapeInv, UpSteps, DownSteps, Observe, Same
  <2>2. CASE pc' # "idle"
    <3>1. wanted' \in [Service -> 0..made]
      BY <2>2, ObserveWanted
    <3> QED
      BY <2>2, <3>1 DEF IInv, ShapeInv, UpSteps, DownSteps, Observe, End, Same
  <2> QED
    BY <2>1, <2>2
<1>3. MemoryInv'
  BY DEF IInv, MemoryInv, Resting, Observe, End, Admits, Same
<1>4. CreateInv'
  BY DEF IInv, CreateInv, Observe, End, Admits, Same
<1>5. OwnInv'
  BY DEF IInv, OwnInv, Fits, Mine, Exists, Observe, End, Admits, Same
<1>6. IdentityInv'
  <2>1. CASE pc' = "idle"
    BY <2>1 DEF IdentityInv, DownSteps
  <2>2. CASE pc' # "idle"
    <3>1. /\ \A s \in Service : s # at => wanted'[s] = wanted[s]
          /\ wanted'[at] # 0 => (Exists(at) => engine[at].mine)
      BY <2>2, ObserveWanted
    <3>2. \A s \in Service : Exists(s) => engine[s].id # 0
      BY DEF IInv, TypeOK
    <3>3. pc' \in {"observe", "stop"} /\ engine' = engine /\ at \in Service
      BY <2>2 DEF IInv, TypeOK, Resting, Observe, End
    <3>4. \A s \in Service : Exists(s) /\ engine[s].id = wanted'[s] => engine[s].mine
      BY <3>1, <3>2, <3>3 DEF IInv, IdentityInv, Observed, DownSteps, Observe
    <3> QED
      BY <3>3, <3>4 DEF IdentityInv, Observed, Exists
  <2> QED
    BY <2>1, <2>2
<1> QED
  BY <1>1, <1>2, <1>3, <1>4, <1>5, <1>6 DEF IInv

\* A container is stopped by the identity that was seen.
LEMMA StopStep == ASSUME Hypothesis, IInv, Stop PROVE IInv'
<1>0. NoneNew
  <2>1. at \in Service
    BY DEF IInv, TypeOK, Resting, Stop
  <2>2. CASE Observed(at)
    BY <2>1, <2>2, Restated DEF IInv, Observed, Exists, Stop
  <2>3. CASE ~Observed(at)
    BY <2>3 DEF IInv, ShapeInv, NoneNew, Stop
  <2> QED
    BY <2>2, <2>3
<1>1. TypeOK'
  BY <1>0, EngineTypes DEF IInv, TypeOK, Resting, Stop, Go, Same
<1>2. ShapeInv'
  BY <1>0 DEF NoneNew, IInv, ShapeInv, UpSteps, DownSteps, Stop, Go, Same
<1>3. MemoryInv'
  BY DEF IInv, MemoryInv, Resting, Stop, Go, Same
<1>4. CreateInv'
  BY DEF IInv, CreateInv, Stop, Go, Same
<1>5. OwnInv'
  BY <1>0, OwnKept DEF Stop, Go, Same
<1>6. IdentityInv'
  BY DEF IInv, IdentityInv, DownSteps, Exists, Observed, Stop, Go, Same
<1> QED
  BY <1>1, <1>2, <1>3, <1>4, <1>5, <1>6 DEF IInv

\* It is deleted by that identity too, and nothing else takes its name meanwhile.
LEMMA DeleteStep == ASSUME Hypothesis, IInv, Delete PROVE IInv'
<1>0. NoneNew
  <2>1. at \in Service
    BY DEF IInv, TypeOK, Resting, Delete
  <2>2. CASE engine' = [engine EXCEPT ![at] = Absent]
    BY <2>1, <2>2, Removed DEF IInv
  <2>3. CASE engine' = engine
    BY <2>3 DEF IInv, ShapeInv, NoneNew
  <2> QED
    BY <2>2, <2>3 DEF Delete
<1>1. TypeOK'
  <2>1. pc' \in {"idle", "forget"} /\ (IF Resting' THEN at' = 0 ELSE at' \in Service)
    BY DEF IInv, TypeOK, Resting, Delete, Go, End
  <2> QED
    BY <1>0, <2>1, EngineTypes DEF IInv, TypeOK, Delete, Same
<1>2. ShapeInv'
  BY DEF IInv, ShapeInv, UpSteps, DownSteps, Containers, Records, Delete, Go, End,
     Same
<1>3. MemoryInv'
  BY DEF IInv, MemoryInv, Resting, Delete, Go, End, Same
<1>4. CreateInv'
  BY DEF IInv, CreateInv, Delete, Go, End, Same
<1>5. OwnInv'
  BY <1>0, OwnKept DEF Delete, Go, End, Same
<1>6. IdentityInv'
  BY <1>0 DEF IInv, IdentityInv, DownSteps, Observed, Exists, NoneNew, Delete, Go, End, Same
<1> QED
  BY <1>1, <1>2, <1>3, <1>4, <1>5, <1>6 DEF IInv

\* Forgetting an identity leaves a record that fits any container of its revision.
LEMMA ForgetStep == ASSUME Hypothesis, IInv, Forget PROVE IInv'
<1>1. TypeOK'
  BY DEF Hypothesis, IInv, TypeOK, Exists, Resting, Service, Forget, Go, End, Same
<1>2. ShapeInv'
  <2>1. records' \in [Service -> Records] /\ saved' = records'
    BY ForgetRecords
  <2>2. pc' \in {"idle", "stop"} /\ (pc' # "idle" => UNCHANGED wanted)
    BY DEF Forget, Go, End
  <2> QED
    BY <2>1, <2>2 DEF IInv, ShapeInv, UpSteps, DownSteps, Forget, Same
<1>3. MemoryInv'
  BY DEF IInv, MemoryInv, Resting, Forget, Go, End, Same
<1>4. CreateInv'
  BY DEF IInv, CreateInv, Forget, Go, End, Same
<1>5. OwnInv'
  <2> SUFFICES ASSUME ~overtaken PROVE OwnInv'
    BY DEF OwnInv, Forget, Same
  <2>1. at \in Service /\ pc' \in {"stop", "idle"} /\ records = saved
    BY DEF IInv, TypeOK, Resting, MemoryInv, Forget, Go, End
  <2>2. /\ saved' \in [Service -> Records]
        /\ \A s \in Service : saved'[s].rev = saved[s].rev /\ saved'[s].id \in {0, saved[s].id}
    BY <2>1, ForgetRecords
  <2>3. request # NoRequest => saved'[request.at] = Recorded(request.rev, 0)
    BY <2>2 DEF IInv, ShapeInv, OwnInv, Recorded, Records
  <2> QED
    BY <2>1, <2>2, <2>3 DEF IInv, OwnInv, Mine, Exists, Fits, Forget, Same
<1>6. IdentityInv'
  BY DEF IInv, IdentityInv, DownSteps, Exists, Observed, Forget, Go, End, Same
<1> QED
  BY <1>1, <1>2, <1>3, <1>4, <1>5, <1>6 DEF IInv

\* A create leaves a container that the record of its name was written for.
LEMMA ExecuteStep == ASSUME Hypothesis, IInv, Execute PROVE IInv'
<1>0. request.at \in Service /\ request.rev \in Revisions
  BY DEF IInv, ShapeInv, Execute
<1>1. TypeOK'
  <2>1. CASE Exists(request.at)
    <3>1. IF Resting' THEN at' = 0 ELSE at' \in Service
      BY <1>0, <2>1 DEF IInv, TypeOK, Resting, Execute, Go, End
    <3>2. pc' \in {"idle", pc} /\ UNCHANGED <<engine, made, saved, records, declared, overtaken>>
      BY <2>1 DEF Execute, End
    <3> QED
      BY <3>1, <3>2 DEF Hypothesis, IInv, TypeOK, Exists, Execute, NoRequest
  <2>2. CASE ~Exists(request.at)
    <3>1. IF Resting' THEN at' = 0 ELSE at' \in Service
      BY <1>0, <2>2 DEF IInv, TypeOK, Resting, Execute, Go, End
    <3>2. /\ \A s \in Service : Exists(s)' => engine'[s].id \in 1..made' /\ engine'[s].rev \in Revisions
          /\ \A s, t \in Service : Exists(s)' /\ Exists(t)' /\ s # t => engine'[s].id # engine'[t].id
      BY <2>2, Executed
    <3>3. /\ pc' \in {"inspect", pc} /\ UNCHANGED <<saved, records, declared, overtaken>>
          /\ made' = made + 1 /\ made < MaxId /\ request' = NoRequest
      BY <2>2 DEF Execute, Go
    <3> QED
      BY <3>1, <3>2, <3>3 DEF Hypothesis, IInv, TypeOK, NoRequest
  <2> QED
    BY <2>1, <2>2
<1>2. ShapeInv'
  <2>1. engine' \in [Service -> {Absent} \cup Containers] /\ made' \in {made, made + 1}
    <3>1. CASE Exists(request.at)
      BY <3>1 DEF IInv, ShapeInv, Execute
    <3>2. CASE ~Exists(request.at)
      BY <3>2, Executed
    <3> QED
      BY <3>1, <3>2
  <2>2. (pc' = pc /\ UNCHANGED wanted) \/ pc' = "idle" \/ (pc' = "inspect" /\ pc = "creating" /\ UNCHANGED wanted)
    BY DEF Execute, Go, End
  <2>3. wanted \in [Service -> 0..made] => wanted \in [Service -> 0..made']
    BY <2>1 DEF IInv, TypeOK
  <2> QED
    BY <2>1, <2>2, <2>3 DEF IInv, ShapeInv, UpSteps, DownSteps, Execute
<1>3. MemoryInv'
  BY DEF IInv, MemoryInv, Resting, Execute, Go, End, Container
<1>4. CreateInv'
  BY DEF IInv, CreateInv, Execute, Go, End, Container
<1>5. OwnInv'
  <2> SUFFICES ASSUME ~overtaken PROVE OwnInv'
    BY DEF OwnInv, Execute
  <2>1. /\ UNCHANGED <<saved, records, overtaken>> /\ request' = NoRequest
        /\ pc' \in {"persist", "record"} => UNCHANGED <<pc, at, wanted>>
    BY DEF Execute, Go, End
  <2>2. NoRequest.at # at' \/ pc' \notin {"persist", "record"}
    BY <2>1 DEF NoRequest, IInv, TypeOK, Resting, Service, Hypothesis
  <2>3. CASE Exists(request.at)
    BY <2>1, <2>2, <2>3 DEF IInv, OwnInv, Mine, Exists, Fits, Execute
  <2>4. CASE ~Exists(request.at)
    <3>1. /\ engine'[request.at] = Container(made + 1, request.rev, TRUE)
          /\ \A s \in Service : s # request.at => engine'[s] = engine[s]
      BY <2>4, Executed
    <3>2. saved[request.at] = Recorded(request.rev, 0)
      BY DEF IInv, OwnInv, Execute
    <3>3. \A s \in Service : Mine(s)' => Fits(saved[s], engine'[s])
      BY <3>1, <3>2 DEF IInv, OwnInv, Mine, Exists, Fits, Recorded, Container
    <3>4. pc \in {"persist", "record"} => at \in Service
      BY DEF IInv, TypeOK, Resting
    <3>5. pc' = "persist" /\ Mine(at)' => engine'[at].rev = wanted[at]
      <4>1. pc = "persist" /\ at = request.at => request.rev = wanted[at]
        BY DEF IInv, OwnInv
      <4>2. pc' = "persist" /\ at # request.at /\ Mine(at)' => engine'[at].rev = wanted[at]
        BY <2>1, <3>1, <3>4 DEF IInv, OwnInv, Mine, Exists
      <4> QED
        BY <2>1, <3>1, <4>1, <4>2 DEF Container
    <3>6. pc' = "record" /\ Mine(at)' => Fits(records[at], engine'[at])
      <4>1. pc = "record" => request.at # at
        BY DEF IInv, OwnInv
      <4> QED
        BY <2>1, <3>1, <3>4, <4>1 DEF IInv, OwnInv, Mine, Exists
    <3> QED
      BY <2>1, <2>2, <3>3, <3>5, <3>6 DEF OwnInv, Mine, Exists
  <2> QED
    BY <2>3, <2>4
<1>6. IdentityInv'
  <2>1. CASE Exists(request.at)
    <3>1. UNCHANGED engine /\ (pc' = "idle" \/ UNCHANGED <<pc, at, wanted, records>>)
      BY <2>1 DEF Execute, End
    <3> QED
      BY <3>1 DEF IInv, IdentityInv, Observed, Exists, DownSteps
  <2>2. CASE ~Exists(request.at)
    <3>1. /\ \A n \in -1..made : engine'[request.at].id # n
          /\ \A s \in Service : s # request.at => engine'[s] = engine[s]
      BY <2>2, Executed
    <3>2. pc' = "inspect" \/ UNCHANGED <<pc, at, wanted>>
      BY <2>2 DEF Execute, Go
    <3> QED
      BY <1>0, <3>1, <3>2, IdentityKept DEF DownSteps, IdentityInv, Execute
  <2> QED
    BY <2>1, <2>2
<1> QED
  BY <1>1, <1>2, <1>3, <1>4, <1>5, <1>6 DEF IInv

\* A command that is killed leaves the record as it was last saved.
LEMMA AbortStep == ASSUME Hypothesis, IInv, Abort PROVE IInv'
<1>1. TypeOK'
  BY DEF IInv, TypeOK, Exists, Resting, Service, Abort, Nothing, Same
<1>2. ShapeInv'
  BY DEF IInv, ShapeInv, UpSteps, DownSteps, Containers, Records, Abort, Nothing,
     Same
<1>3. MemoryInv'
  BY DEF IInv, MemoryInv, Resting, Abort, Nothing, Same
<1>4. CreateInv'
  BY DEF IInv, CreateInv, Abort, Nothing, Same
<1>5. OwnInv'
  BY DEF IInv, OwnInv, Fits, Mine, Exists, Abort, Nothing, Same
<1>6. IdentityInv'
  BY DEF IInv, IdentityInv, DownSteps, Exists, Observed, Abort, Nothing, Same
<1> QED
  BY <1>1, <1>2, <1>3, <1>4, <1>5, <1>6 DEF IInv

\* A container somebody else creates is not ours, and its identity is on no record.
LEMMA UserStep == ASSUME Hypothesis, IInv, User PROVE IInv'
<1>0. PICK x \in Service : UserRemoves(x) \/ UserStarts(x) \/ UserCreates(x)
  BY DEF User
<1>1. TypeOK'
  <2>1. /\ \A s \in Service : Exists(s)' => engine'[s].id \in 1..made' /\ engine'[s].rev \in Revisions
        /\ \A s, t \in Service : Exists(s)' /\ Exists(t)' /\ s # t => engine'[s].id # engine'[t].id
        /\ made' \in 0..MaxId /\ made' >= made
    BY <1>0, Others DEF IInv
  <2> QED
    BY <2>1 DEF Hypothesis, IInv, TypeOK, Resting, User
<1>2. ShapeInv'
  <2>1. engine' \in [Service -> {Absent} \cup Containers] /\ made' \in 0..MaxId /\ made' >= made
    BY <1>0, Others DEF IInv
  <2>2. wanted \in [Service -> 0..made] => wanted \in [Service -> 0..made']
    BY <2>1 DEF IInv, TypeOK
  <2> QED
    BY <2>1, <2>2 DEF IInv, ShapeInv, User
<1>3. MemoryInv'
  BY DEF IInv, MemoryInv, Resting, User, UserRemoves, UserStarts, UserCreates,
     Container
<1>4. CreateInv'
  BY DEF IInv, CreateInv, User, UserRemoves, UserStarts, UserCreates, Container
<1>5. OwnInv'
  <2>1. \A s \in Service : Mine(s)' => Mine(s) /\ engine'[s].id = engine[s].id /\ engine'[s].rev = engine[s].rev
    BY <1>0, Others DEF IInv
  <2>2. at \in Service \/ pc \notin {"persist", "record"}
    BY DEF IInv, TypeOK, Resting
  <2> QED
    BY <2>1, <2>2 DEF IInv, OwnInv, Fits, User
<1>6. IdentityInv'
  <2>1. CASE NoneNew
    BY <2>1, IdentityOfFewer DEF User
  <2>2. CASE ~NoneNew
    <3>1. /\ \A n \in -1..made : engine'[x].id # n
          /\ \A t \in Service : t # x => engine'[t] = engine[t]
      BY <1>0, <2>2, Others DEF IInv
    <3> QED
      BY <3>1, IdentityKept DEF User
  <2> QED
    BY <2>1, <2>2
<1> QED
  BY <1>1, <1>2, <1>3, <1>4, <1>5, <1>6 DEF IInv

\* A declaration is read when a command begins.
LEMMA EditStep == ASSUME Hypothesis, IInv, Edit PROVE IInv'
<1>1. TypeOK'
  <2>1. declared' \in [Service -> Revisions]
    BY DEF IInv, TypeOK, Edit
  <2> QED
    BY <2>1 DEF IInv, TypeOK, Exists, Resting, Edit
<1>2. ShapeInv'
  BY DEF IInv, ShapeInv, UpSteps, DownSteps, Containers, Records, Edit
<1>3. MemoryInv'
  BY DEF IInv, MemoryInv, Resting, Edit
<1>4. CreateInv'
  BY DEF IInv, CreateInv, Edit
<1>5. OwnInv'
  BY DEF IInv, OwnInv, Fits, Mine, Exists, Edit
<1>6. IdentityInv'
  BY DEF IInv, IdentityInv, DownSteps, Exists, Observed, Edit
<1> QED
  BY <1>1, <1>2, <1>3, <1>4, <1>5, <1>6 DEF IInv

-----------------------------------------------------------------------------
\* The invariant.

LEMMA InitInv == ASSUME Hypothesis, Init PROVE IInv
<1>1. 1 \in Service /\ made = 0 /\ at = 0 /\ pc = "idle" /\ ~overtaken
  BY DEF Hypothesis, Init, Service
<1>2. \A s \in Service : engine[s] = Absent /\ saved[s] = NoRecord /\ records[s] = NoRecord
  BY DEF Init
<1>3. NoRecord \in Records /\ NoRecord.id = -1
  BY DEF Hypothesis, NoRecord, Records
<1>4. TypeOK
  <2>1. declared \in [Service -> Revisions]
    <3>1. (CHOOSE r \in Revisions : TRUE) \in Revisions
      BY DEF Hypothesis
    <3> QED
      BY <3>1 DEF Init
  <2>2. request.at \in 0..Count
    BY DEF Hypothesis, Init, NoRequest
  <2>3. overtaken \in BOOLEAN
    BY DEF Init
  <2> QED
    BY <1>1, <1>2, <1>3, <2>1, <2>2, <2>3 DEF Hypothesis, TypeOK, Exists, Resting
<1>5. ShapeInv
  BY <1>3 DEF Init, ShapeInv, UpSteps, DownSteps
<1>6. MemoryInv /\ CreateInv
  BY DEF Init, MemoryInv, CreateInv, Resting
<1>7. OwnInv
  BY <1>1, <1>2 DEF Init, OwnInv, Mine, Exists
<1>8. IdentityInv
  BY <1>1 DEF IdentityInv, DownSteps
<1> QED
  BY <1>4, <1>5, <1>6, <1>7, <1>8 DEF IInv

LEMMA StutterStep == ASSUME IInv, UNCHANGED vars PROVE IInv'
<1>1. TypeOK'
  BY DEF vars, IInv, TypeOK, Exists, Resting
<1>2. ShapeInv' /\ MemoryInv' /\ CreateInv'
  BY DEF vars, IInv, ShapeInv, MemoryInv, CreateInv, Resting
<1>3. OwnInv' /\ IdentityInv'
  BY DEF vars, IInv, OwnInv, IdentityInv, Mine, Exists, Fits, Observed
<1> QED
  BY <1>1, <1>2, <1>3 DEF IInv

LEMMA NextInv == ASSUME Hypothesis, IInv, [Next]_vars PROVE IInv'
  BY UpBeginStep, DownBeginStep, CheckStep, EachStep, PersistStep, CreateStep, InspectStep,
     RecordStep, StartStep, HealthyStep, ObserveStep, StopStep, DeleteStep, ForgetStep,
     ExecuteStep, AbortStep, UserStep, EditStep, StutterStep DEF Next, Up, Down, Disturbance

\* The steps, whatever is fair.
Moves == Init /\ [][Next]_vars

LEMMA Invariance == ASSUME Hypothesis PROVE Moves => []IInv
<1>1. Init => IInv
  BY InitInv
<1>2. IInv /\ [Next]_vars => IInv'
  BY NextInv
<1> QED
  BY <1>1, <1>2, PTL DEF Moves

\* Only what is ours, by the identity on record or seen, is started, stopped or deleted.
LEMMA ForeignStep ==
  ASSUME Hypothesis, IInv, [Next]_vars, NEW s \in Service,
         Exists(s), ~engine[s].mine, engine'[s] # engine[s]
  PROVE  User
<1>1. at \in Service \/ Resting
  BY DEF IInv, TypeOK
<1>2. CASE Start
  <2>1. at = s => ~(Exists(at) /\ engine[at].id = records[at].id)
    BY <1>2 DEF IInv, IdentityInv, Start
  <2> QED
    BY <1>2, <2>1 DEF IInv, ShapeInv, Start
<1>3. CASE Stop
  <2>1. ~Observed(s)
    BY <1>3 DEF IInv, IdentityInv, DownSteps, Stop
  <2> QED
    BY <1>3, <2>1 DEF IInv, ShapeInv, Stop
<1>4. CASE Delete
  <2>1. ~Observed(s)
    BY <1>4 DEF IInv, IdentityInv, DownSteps, Delete
  <2> QED
    BY <1>4, <2>1 DEF IInv, ShapeInv, Delete
<1>5. CASE Execute
  BY <1>5 DEF IInv, ShapeInv, Execute, Exists
<1>6. CASE UNCHANGED engine
  BY <1>6
<1>7. CASE Edit
  BY <1>6, <1>7 DEF Edit
<1>8. CASE Check \/ Each \/ Persist \/ Create \/ Inspect \/ Record \/ Healthy
  BY <1>6, <1>8 DEF Check, Each, Persist, Create, Inspect, Record, Healthy
<1>9. CASE UpBegin \/ DownBegin \/ Observe \/ Forget \/ Abort \/ UNCHANGED vars
  BY <1>6, <1>9 DEF UpBegin, DownBegin, Observe, Forget, Abort, vars
<1> QED
  BY <1>2, <1>3, <1>4, <1>5, <1>7, <1>8, <1>9 DEF Next, Up, Down, Disturbance

-----------------------------------------------------------------------------
\* The theorems.

\* Every variable keeps its type, and identities are never shared.
THEOREM TypeCorrect == ASSUME Hypothesis PROVE Spec => []TypeOK
  BY Invariance, PTL DEF IInv, Spec, Moves

\* Whatever was created is on record under its revision, by its identity or none, for as
\* long as it is there (exec/services/mod.rs, up).
THEOREM StrandsNothing == ASSUME Hypothesis PROVE Moves => []NothingIsStranded
<1>1. IInv => NothingIsStranded
  BY DEF IInv, OwnInv, Fits, NothingIsStranded
<1> QED
  BY <1>1, Invariance, PTL

\* A container that Gripsack did not create is changed by nobody but its user, whatever
\* takes whose name while a command runs (services/plan.rs).
THEOREM ForeignUntouched == ASSUME Hypothesis PROVE Spec => ForeignSurvives
<1>1. IInv /\ [Next]_vars =>
        (\A s \in Service : Exists(s) /\ ~engine[s].mine /\ engine'[s] # engine[s] => User)
  BY ForeignStep
<1> QED
  BY <1>1, Invariance, PTL DEF Spec, Moves, ForeignSurvives
=============================================================================
