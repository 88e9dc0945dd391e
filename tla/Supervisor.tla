------------------------------ MODULE Supervisor ------------------------------
(***************************************************************************)
(* The supervision of one child (gripsack-process: supervise, Guard,       *)
(* Exchange::drive, task::Session; gripsack-policy process_budget).  The   *)
(* child leads a process group of its own.  It is driven until it exits or *)
(* a limit, a deadline or a cancellation stops it; then the group is       *)
(* killed, the leader reaped and the pipes drained, within one deadline.   *)
(* A process id is free for others once the leader has been waited for.    *)
(*                                                                         *)
(* What the streams carry is Streams.tla's.                                *)
(***************************************************************************)
EXTENDS Naturals

CONSTANTS
  Exec,   \* when execution must stop
  End     \* when cleanup must stop

Grouped == {"holder", "silent"}     \* descendants in the group; one closed its pipes
Kid == Grouped \cup {"escaped"}     \* one left the group with its pipes open

VARIABLES
  leader,    \* the child: running, a zombie, gone (reaped), or stolen by another reaper
  kids,      \* descendants that are alive
  now,
  life,      \* what the guard knows: ChildLifecycle
  signalled, \* a cancellation signal waits for the supervisor
  drained,   \* both pipes are at their end, or given up
  reason,    \* why the drive ended, or "none"
  status,    \* the leader's status was collected
  error,     \* a cleanup error was recorded
  pc,
  struck,    \* history: a group that is not ours was signalled
  raced      \* history: the child was stolen behind an observation

vars == <<leader, kids, now, life, signalled, drained, reason, status, error, pc,
          struck, raced>>

-----------------------------------------------------------------------------
\* Every variable has its type.  An observed exit is a zombie until it is reaped,
\* unless somebody stole it.
TypeOK ==
  /\ leader \in {"running", "zombie", "gone", "stolen"} /\ kids \subseteq Kid
  /\ now \in 0..End
  /\ life \in [leader : {"running", "exited", "reaped", "lost"},
               group : {"pending", "attempted", "signalled"}, observed : BOOLEAN]
  /\ life.leader = "exited" => leader \in {"zombie", "stolen"} /\ life.observed
  /\ life.leader = "reaped" => leader = "gone" /\ status /\ life.group # "pending"
  /\ reason \in {"none", "exited", "deadline", "cancelled", "limit", "io", "panic"}
  /\ (reason = "none") <=> (pc \in {"drive", "look", "kill", "step"})
  /\ pc \in {"drive", "look", "kill", "step", "terminate", "strike", "reap", "drain",
             "decide", "done"}
  /\ {signalled, drained, status, error, struck, raced} \subseteq BOOLEAN

Init ==
  /\ leader = "running" /\ kids \in SUBSET Kid /\ now = 0
  /\ life = [leader |-> "running", group |-> "pending", observed |-> FALSE]
  /\ signalled = FALSE /\ drained = FALSE /\ reason = "none"
  /\ status = FALSE /\ error = FALSE /\ pc = "drive"
  /\ struck = FALSE /\ raced = FALSE

-----------------------------------------------------------------------------

Attempted == IF life.group = "signalled" THEN "signalled" ELSE "attempted"
Owned == life.leader \in {"running", "exited"}
AtEnd == leader # "running" /\ kids \subseteq {"silent"}     \* nobody holds the pipes

Stop(why) == reason' = why /\ pc' = "terminate"

\* Another reaper has taken the child: nothing is known of its id any more.
Lose ==
  /\ leader = "stolen"
  /\ life' = [life EXCEPT !.leader = "lost"]

SeesRunning(exited, group) ==     \* mutant: a lost child is taken for a running one
  /\ Owned
  /\ IF life.leader = "exited" THEN exited ELSE exited = (leader = "zombie")
  /\ life' = [leader |-> IF exited THEN "exited" ELSE life.leader, group |-> group,
              observed |-> TRUE]

\* An observation leaves the child to be reaped.  An exit once seen is remembered.
Sees(exited, group) ==
  /\ Owned
  /\ IF life.leader = "exited" THEN exited
     ELSE leader # "stolen" /\ exited = (leader # "running")
  /\ life' = [leader |-> IF exited THEN "exited" ELSE life.leader, group |-> group,
              observed |-> TRUE]
Unseen == life.leader # "exited" /\ Lose

\* SIGKILL to the group whose id is the leader's.
Strike ==
  /\ leader' = IF leader = "running" THEN "zombie" ELSE leader
  /\ kids' = IF leader \in {"running", "zombie"} THEN kids \ Grouped ELSE kids
  /\ struck' = (struck \/ leader \in {"gone", "stolen"})

\* terminate, after its observation: the signal is sent once, or fails.
Signal(sent) ==
  /\ life' = [life EXCEPT !.group = IF sent THEN "signalled" ELSE Attempted]
  /\ IF sent /\ life.group # "signalled" THEN Strike ELSE UNCHANGED <<leader, kids, struck>>

-----------------------------------------------------------------------------
\* The drive.  A cancellation is forwarded and ends it; the deadline ends it.
Drive ==
  /\ pc = "drive"
  /\ \/ /\ signalled /\ signalled' = FALSE
        /\ \/ /\ \E exited \in BOOLEAN : Sees(exited, Attempted)
              /\ struck' = (struck \/ leader \in {"gone", "stolen"})
              /\ \E why \in {"cancelled", "io"} : Stop(why)
           \/ Unseen /\ Stop("io") /\ UNCHANGED struck
     \/ /\ ~signalled /\ UNCHANGED <<signalled, life, struck>>
        /\ IF now >= Exec THEN Stop("deadline") ELSE pc' = "look" /\ UNCHANGED reason
  /\ UNCHANGED <<leader, kids, now, drained, status, error, raced>>

Look ==
  /\ pc = "look"
  /\ \/ \E exited \in BOOLEAN :
          Sees(exited, life.group) /\ pc' = (IF exited THEN "kill" ELSE "step") /\ UNCHANGED reason
     \/ Unseen /\ Stop("io")
     \/ pc' = "drive" /\ UNCHANGED <<life, reason>>          \* interrupted
  /\ UNCHANGED <<leader, kids, now, signalled, drained, status, error, struck, raced>>

\* What the leader left behind is killed while the zombie still holds the id.
Kill ==
  /\ pc = "kill"
  /\ \/ Signal(TRUE) /\ IF drained THEN Stop("exited") ELSE pc' = "step" /\ UNCHANGED reason
     \/ life.group # "signalled" /\ Signal(FALSE) /\ Stop("io")
  /\ UNCHANGED <<now, signalled, drained, status, error, raced>>

\* One tick of the streams; the callback may panic, which unwinds into the cleanup.
Step ==
  /\ pc = "step"
  /\ \/ pc' = "drive" /\ UNCHANGED reason /\ drained' \in {drained, AtEnd}
     \/ \E why \in {"limit", "io"} : Stop(why) /\ UNCHANGED drained
     \/ Stop("panic") /\ drained' = TRUE
  /\ UNCHANGED <<leader, kids, now, life, signalled, status, error, struck, raced>>

\* The cleanup, in rounds.  The group is signalled unless it was, or is not ours.
NeedsTermination == Owned /\ life.group # "signalled"

Terminate ==
  /\ pc = "terminate"
  /\ IF NeedsTermination
     THEN \/ (\E exited \in BOOLEAN : Sees(exited, life.group)) /\ pc' = "strike" /\ UNCHANGED error
          \/ Unseen /\ pc' = "reap" /\ error' = TRUE
          \/ life.leader = "running" /\ pc' = "reap" /\ UNCHANGED <<life, error>>  \* interrupted
     ELSE pc' = "reap" /\ UNCHANGED <<life, error>>
  /\ UNCHANGED <<leader, kids, now, signalled, drained, reason, status, struck, raced>>

StrikeGroup ==
  /\ pc = "strike" /\ pc' = "reap"
  /\ \/ Signal(TRUE) /\ UNCHANGED error
     \/ Signal(FALSE) /\ error' = TRUE
  /\ UNCHANGED <<now, signalled, drained, reason, status, raced>>

\* The leader is reaped once the group was signalled, or the leader seen to have
\* exited: a signal that fails must not strand a zombie.
ShouldReap == Owned /\ (life.group = "signalled" \/ life.leader = "exited")

Reap ==
  /\ pc = "reap" /\ pc' = "drain"
  /\ IF ShouldReap
     THEN \/ /\ leader = "zombie" /\ leader' = "gone" /\ status' = TRUE
             /\ life' = [life EXCEPT !.leader = "reaped", !.observed = TRUE]
             /\ UNCHANGED error
          \/ /\ leader = "running" /\ life' = [life EXCEPT !.observed = TRUE]
             /\ UNCHANGED <<leader, status, error>>
          \/ /\ Lose /\ error' = TRUE /\ UNCHANGED <<leader, status>>
          \/ /\ life.leader = "running" /\ UNCHANGED <<leader, status, life, error>>  \* interrupted
     ELSE UNCHANGED <<leader, status, life, error>>
  /\ UNCHANGED <<kids, now, signalled, drained, reason, struck, raced>>

Drain ==
  /\ pc = "drain" /\ pc' = "decide"
  /\ \/ drained' = (drained \/ AtEnd) /\ UNCHANGED error
     \/ ~drained /\ UNCHANGED <<drained, error>>               \* nothing to read yet
     \/ ~drained /\ drained' = TRUE /\ error' = TRUE
  /\ UNCHANGED <<leader, kids, now, life, signalled, reason, status, struck, raced>>

DecideDrained ==                  \* mutant: only the pipes and the leader end the cleanup
  CASE life.leader = "lost" /\ drained -> "error"
    [] life.leader = "reaped" /\ drained -> "complete"
    [] OTHER -> "wait"

Decision ==
  CASE now >= End -> "error"
    [] life.leader = "lost" /\ drained -> "error"
    [] life.leader = "reaped" /\ drained -> "complete"
    [] OTHER -> "wait"

Decide ==
  /\ pc = "decide"
  /\ pc' = IF Decision = "wait" THEN "terminate" ELSE "done"
  /\ error' = (error \/ Decision = "error" \/ (Decision = "complete" /\ ~status))
  /\ UNCHANGED <<leader, kids, now, life, signalled, drained, reason, status, struck, raced>>

-----------------------------------------------------------------------------
\* The child and its descendants end when they like; the user cancels.
Ends ==
  /\ \/ leader = "running" /\ leader' = "zombie" /\ UNCHANGED kids
     \/ \E k \in kids : kids' = kids \ {k} /\ UNCHANGED leader
  /\ UNCHANGED <<now, life, signalled, drained, reason, status, error, pc, struck, raced>>

Cancel ==
  /\ ~signalled /\ reason = "none" /\ signalled' = TRUE
  /\ UNCHANGED <<leader, kids, now, life, drained, reason, status, error, pc, struck, raced>>

\* A reaper that breaks the contract; an exit already seen, or a signal about to be
\* sent, is then beyond the guard's knowledge.
Steal ==
  /\ leader = "zombie" /\ leader' = "stolen"
  /\ raced' = (life.leader = "exited" \/ pc \in {"kill", "strike"})
  /\ UNCHANGED <<kids, now, life, signalled, drained, reason, status, error, pc, struck>>

Tick ==
  /\ now < End /\ now' = now + 1
  /\ UNCHANGED <<leader, kids, life, signalled, drained, reason, status, error, pc, struck, raced>>

Supervise ==
  Drive \/ Look \/ Kill \/ Step \/ Terminate \/ StrikeGroup \/ Reap \/ Drain \/ Decide

Next == Supervise \/ Ends \/ Cancel \/ Steal \/ Tick

Spec == Init /\ [][Next]_vars /\ WF_vars(Supervise) /\ WF_vars(Tick)

-----------------------------------------------------------------------------
\* A signal goes to the group only while the leader, running or a zombie, keeps its
\* id from being used again, whatever exits, interruptions, failures and cancellations
\* come between: no signal follows the reaping, and none a loss that was noticed
\* (lifecycle.rs:18-19, "No signal is issued after waitpid, or after loss of wait
\* ownership").
SignalsOnlyItsOwn == struck => raced

\* A supervision that reports no cleanup error leaves nothing of the group: the
\* leader is reaped, its descendants are dead and, unless the caller's callback
\* panicked, nobody writes to the pipes any more.
CleanEndLeavesNothing ==
  pc = "done" /\ ~error =>
    /\ leader = "gone" /\ status /\ kids \cap Grouped = {}
    /\ reason # "panic" => kids = {}

\* An exit the guard has seen is reaped before it ends, whatever signal failed.
SeenExitIsReaped == pc = "done" => life.leader # "exited"

\* A signal goes to the group while its leader is unreaped, and an end reported as clean
\* is one (gripsack-process/lifecycle.rs).
SupervisionIsClean == SignalsOnlyItsOwn /\ CleanEndLeavesNothing /\ SeenExitIsReaped

\* Every supervision ends: descendants that keep the pipes, a leader that cannot be
\* killed and signals that fail are given up at the deadline.
EverySupervisionEnds == <>(pc = "done")
=============================================================================
