------------------------------ MODULE Components ------------------------------
(***************************************************************************)
(* Components that share no state, checked side by side with their         *)
(* liveness: a behaviour is one of the component in `focus', and the       *)
(* others stay as they began.                                              *)
(***************************************************************************)
EXTENDS Generations

CONSTANTS
  Rates, NoBucket, Patience, PaceTime,                                          \* Throttle
  Host, Allowance, Deadlines, WaitBudget, Penalty, Delays, Limit, MaxTime,      \* HttpOperation
  Count, Revisions, Edited, MaxId,                                              \* Services
  Exec, CleanupEnd                                                              \* Supervisor

VARIABLES
  focus,
  elapsed, wall, saved, source, bucket, ask, ideal, lost,          \* Throttle
  now, cooldown, op, received, notBefore, told,                    \* HttpOperation
  declared, engine, made, request, preserved, records, doing, at,
  wanted, overtaken,                                               \* Services
  leader, kids, tick, life, signalled, drained, reason, reaped, error, duty, struck,
  raced                                                            \* Supervisor

pacing   == <<elapsed, wall, saved, source, bucket, ask, ideal, lost>>
fetching == <<now, cooldown, op, received, notBefore, told>>
serving  == <<declared, engine, made, request, preserved, records, doing, at, wanted,
              overtaken>>
guarding == <<leader, kids, tick, life, signalled, drained, reason, reaped, error, duty,
              struck, raced>>
all == <<focus, vars, pacing, fetching, serving, guarding>>

Pace == INSTANCE Throttle WITH MaxTime <- PaceTime
Http == INSTANCE HttpOperation
\* With its theorems.
Serve == INSTANCE ServicesProofs WITH saved <- preserved, pc <- doing
Guard == INSTANCE Supervisor WITH
  End <- CleanupEnd, now <- tick, status <- reaped, pc <- duty

Rest(others) == UNCHANGED <<focus, others>>
OfNumbers(A) ==
  focus = "numbers" /\ A /\ Rest(<<pacing, fetching, serving, guarding>>)
OfPace(A) ==
  focus = "pace" /\ A /\ Rest(<<vars, fetching, serving, guarding>>)
OfHttp(A) ==
  focus = "http" /\ A /\ Rest(<<vars, pacing, serving, guarding>>)
OfServe(A) ==
  focus = "serve" /\ A /\ Rest(<<vars, pacing, fetching, guarding>>)
OfGuard(A) ==
  focus = "guard" /\ A /\ Rest(<<vars, pacing, fetching, serving>>)

AllInit ==
  /\ focus \in {"numbers", "pace", "http", "serve", "guard"}
  /\ Init /\ (focus = "numbers" \/ used = {})
  /\ Guard!Init /\ (focus = "guard" \/ kids = {})
  /\ Pace!Init /\ Http!Init /\ Serve!Init

AllNext ==
  \/ OfNumbers(Next) \/ OfPace(Pace!Next)
  \/ OfHttp(Http!Next) \/ OfServe(Serve!Next) \/ OfGuard(Guard!Next)

AllSpec ==
  /\ AllInit /\ [][AllNext]_all
  /\ WF_all(OfNumbers(Lifecycle)) /\ WF_all(OfNumbers(pc # "idle" /\ Collection))
  /\ SF_all(OfNumbers(\E keep \in Keep : Collect(keep)))
  /\ WF_all(OfPace(Pace!Tick)) /\ WF_all(OfPace(Pace!Asking))
  /\ WF_all(OfHttp(Http!Tick)) /\ WF_all(OfHttp(Http!Work))
  /\ WF_all(OfServe(Serve!Up \/ Serve!Down \/ Serve!Execute))
  /\ WF_all(OfGuard(Guard!Supervise)) /\ WF_all(OfGuard(Guard!Tick))

-----------------------------------------------------------------------------
\* The properties of the instances; each is stated and explained where it is defined.

\* Every variable has its type, whichever component the behaviour is of.
TypesOK ==
  /\ TypeOK
  /\ focus = "pace" => Pace!TypeOK
  /\ focus = "http" => Http!TypeOK
  /\ focus = "serve" => Serve!TypeOK
  /\ focus = "guard" => Guard!TypeOK

\* Commands one after the other never exceed the rate of their domain
\* (gripsack-fetch/throttle.rs).
RunsArePaced == Pace!RunsArePaced

\* No request leaves before a limit on its host has passed, no limit holds up a host that
\* stated none, and what succeeds did so within one deadline and one budget over all its
\* attempts and redirects (gripsack-fetch/request.rs, policy/retry_budget.rs).
RequestsKeepLimits ==
  Http!NoEarlyRequest /\ Http!HealthyHostsAreServed /\ Http!SuccessIsWithinBudget

\* Whatever a cut leaves in the engine is on record, so a later command finds it
\* (exec/services/mod.rs).
NothingIsStranded == focus = "serve" => Serve!NothingIsStranded

\* Containers and volumes that are not this workspace's stay, and a completed `down'
\* leaves none that is (exec/services/mod.rs).
RemovesExactlyItsOwn == Serve!ForeignSurvives /\ Serve!DownClears

\* A signal goes to the group while its leader is unreaped, and an end reported as clean
\* is one (gripsack-process/lifecycle.rs).
SupervisionIsClean == focus = "guard" => Guard!SupervisionIsClean

\* Whoever asks the throttle is answered, every fetch ends, and so does the supervision of
\* every child: EveryAskEnds, EveryOperationEnds and EverySupervisionEnds of the instances
\* in one (throttle.rs, request.rs, lifecycle.rs).
AtRest ==
  /\ focus = "pace" => ask = Pace!Idle
  /\ focus = "http" => op.at = "done"
  /\ focus = "guard" => duty = "done"
WorkEnds == ~AtRest ~> AtRest
=============================================================================
