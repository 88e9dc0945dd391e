-------------------------------- MODULE Safety --------------------------------
(***************************************************************************)
(* Components that share no state, checked side by side for their safety:  *)
(* a behaviour is one of the component in `focus', and the others stay as  *)
(* they began.                                                             *)
(***************************************************************************)
EXTENDS SavedPlans

CONSTANTS
  Inv, Home, Key, UserKey, Path, Jobs, Nodes, MaxActions, User, Nobody, Collector,  \* TaskRuns
  None, Foreign, MaxCommands,                                                       \* Schedules
  Length, Chunk, LineBytes, OutLimits, ErrBytes, Retained                           \* Streams

VARIABLES
  focus,
  job, graph, objects, session, lock, claim, claimDisk, root, rootDisk, staging, report,
  step, left, status, node, actions, result, launched, condemned, alive, unconfirmed,
  refused,                                                         \* TaskRuns
  units, timer, selected, transaction, intent, coming, named, payloads, held, callbacks,
  call, holder, target, issued, meddled, strayed,                  \* Schedules
  newline, answers, raw, outBytes, out, split, err, tail, ended, input, taken,
  stop,                                                            \* Streams
  tty, orphaned, fore, halted, point, received, todo, child, news, told, asked,
  answered                                                         \* JobControl

walking    == <<job, graph, objects, session, lock, claim, claimDisk, root, rootDisk,
                staging, report, step, left, status, node, actions, result, launched,
                condemned, alive, unconfirmed, refused>>
scheduling == <<units, timer, selected, transaction, intent, coming, named, payloads, held,
                callbacks, call, holder, target, issued, meddled, strayed>>
streaming  == <<newline, answers, raw, outBytes, out, split, err, tail, ended, input,
                taken, stop>>
attending  == <<tty, orphaned, fore, halted, point, received, todo, child, news, told,
                asked, answered>>
all == <<focus, allVars, walking, scheduling, streaming, attending>>

\* The first two with their theorems.
Tasks == INSTANCE TaskRunsProofs WITH store <- objects, pc <- step, doomed <- condemned
Jobbing == INSTANCE SchedulesProofs WITH
  journal <- transaction, runs <- callbacks, pc <- holder, commands <- issued,
  next <- coming, retained <- named, store <- payloads
Pipes == INSTANCE Streams
Session == INSTANCE JobControl WITH pc <- point

Rest(others) == UNCHANGED <<focus, others>>
OfTasks(A) ==
  focus = "tasks" /\ A /\ Rest(<<allVars, scheduling, streaming, attending>>)
OfJobs(A) ==
  focus = "jobs" /\ A /\ Rest(<<allVars, walking, streaming, attending>>)
OfPipes(A) ==
  focus = "pipes" /\ A /\ Rest(<<allVars, walking, scheduling, attending>>)
OfSession(A) ==
  focus = "session" /\ A /\ Rest(<<allVars, walking, scheduling, streaming>>)
OfRuns(A) ==
  focus = "runs" /\ A
    /\ Rest(<<walking, scheduling, streaming, attending, planVars>>)
OfPlans(A) ==
  focus = "plans" /\ A /\ Rest(<<walking, scheduling, streaming, attending>>)

AllInit ==
  /\ focus \in {"tasks", "jobs", "pipes", "session", "runs", "plans"}
  /\ Jobbing!Init /\ (focus = "jobs" \/ units = None)
  /\ Tasks!Init /\ (focus = "tasks" \/ graph = CHOOSE g \in Tasks!Graph : TRUE)
  /\ Pipes!Init
  /\ focus = "pipes" \/ (newline = {} /\ answers = 0 /\ ~raw /\ outBytes = 3)
  /\ Session!Init /\ (focus = "session" \/ (~tty /\ ~orphaned /\ fore = "own"))
  /\ IF focus = "runs"
       THEN Init /\ saved = NoPlan /\ phase = "idle" /\ stopped = FALSE /\ raced = FALSE
       ELSE SavedInit /\ (focus = "plans" \/ live = Nothing)

AllNext ==
  OfTasks(Tasks!Next) \/ OfJobs(Jobbing!Next) \/ OfPipes(Pipes!Next)
    \/ OfSession(Session!Next) \/ OfRuns(Next) \/ OfPlans(SavedNext)

AllSpec == AllInit /\ [][AllNext]_all

-----------------------------------------------------------------------------
\* The properties of the instances; each is stated and explained where it is defined.

\* Every variable has its type, whichever component the behaviour is of.
TypesOK ==
  /\ IF focus = "runs" THEN TypeOK ELSE SavedTypeOK
  /\ focus = "tasks" => Tasks!TypeOK
  /\ focus = "jobs" => Jobbing!TypeOK
  /\ focus = "pipes" => Pipes!TypeOK
  /\ focus = "session" => Session!TypeOK

\* A task graph that succeeded ran each of its tasks after what it depends on
\* (consumer/task_graph.rs).
SuccessCoversTheGraph == focus = "tasks" => Tasks!SuccessCoversTheGraph

\* What an apply reports of its schedules is what the manager has (schedules/lifecycle.rs).
OutcomeIsTrue == focus = "jobs" => Jobbing!OutcomeIsTrue

\* A callback that may start finds its payload, and one that runs keeps all of it to its
\* end (schedules/dispatch.rs, activation/inspect.rs).
CallbacksKeepTheirs ==
  focus = "jobs" => Jobbing!CallbackIsRetained /\ Jobbing!RunsAreWhole

\* What a task's consumer is given, what the tail keeps and what the child takes is the
\* stream, cut only by a limit (gripsack-process/exchange.rs).
StreamsAreFaithful ==
  focus = "pipes" =>
    Pipes!GivenAreTheLines /\ Pipes!TailIsTheEnd /\ Pipes!InputIsInOrder

\* A session forgets no termination, and lends the terminal to nobody but its child
\* (gripsack-process/interactive.rs).
SessionsKeepSignals ==
  focus = "session" => Session!TerminationIsKept /\ Session!TerminalIsTheChilds
=============================================================================
