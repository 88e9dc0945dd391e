----------------------------- MODULE JobControl -----------------------------
(***************************************************************************)
(* The supervisor of an interactive consumer                               *)
(* (gripsack-process/src/interactive.rs): it lends its terminal to the     *)
(* child's process group, passes signals on, and when the child stops it   *)
(* takes the terminal back, stops itself, and resumes the child once the   *)
(* shell has continued it.  A process outside the foreground group that    *)
(* changes the foreground is stopped by SIGTTOU before the change, or has  *)
(* an error if its group is orphaned.                                      *)
(***************************************************************************)
EXTENDS Naturals

VARIABLES
  tty, orphaned,   \* stdin is a terminal; nobody in the session controls the group
  fore,            \* the foreground group: "own", "child" or "shell"
  halted,          \* the supervisor is stopped
  pc,              \* where it is
  received,        \* signals its handlers recorded
  todo,            \* what is left of those the wait loop took
  child,           \* "running", "stopped" or "gone"
  news,            \* the child's stop has not been reported by waitpid
  told,            \* a termination signal has reached the child's group
  asked,           \* one has been sent to the supervisor
  answered         \* the stop being relayed has been answered by the shell

vars == <<tty, orphaned, fore, halted, pc, received, todo, child, news, told, asked, answered>>

\* Every variable has its type; only what changes the foreground or stops itself is
\* ever found stopped.
TypeOK ==
  /\ {tty, orphaned, halted, news, told, asked, answered} \subseteq BOOLEAN
  /\ fore \in {"own", "child", "shell"} /\ child \in {"running", "stopped", "gone"}
  /\ received \subseteq {"TERM", "TSTP", "CONT"} /\ todo \subseteq {"TERM", "TSTP", "CONT"}
  /\ pc \in {"start", "wait", "take", "signals", "handback", "halt", "drain", "give",
             "restore", "done"}
  /\ halted => pc \in {"start", "handback", "drain", "give", "restore"}

Init ==
  /\ tty \in BOOLEAN /\ orphaned \in BOOLEAN /\ fore \in {"own", "shell"}
  /\ halted = FALSE /\ pc = "start" /\ received = {} /\ todo = {}
  /\ child = "running" /\ news = FALSE
  /\ told = FALSE /\ asked = FALSE /\ answered = FALSE

-----------------------------------------------------------------------------
Active(at) == pc = at /\ ~halted

\* The shell takes the terminal of a job it sees stopped.
Stop == halted' = TRUE /\ fore' = IF tty THEN "shell" ELSE fore

Outside == tty /\ fore # "own"
Barred  == Outside /\ ~orphaned     \* SIGTTOU
Failed  == Outside /\ orphaned      \* EIO
Hand(group) == fore' = IF tty /\ fore = "own" THEN group ELSE fore

\* SIGTTOU stops the supervisor where it is; continued, it tries again.
Bar(at) ==
  /\ Active(at) /\ Barred /\ Stop
  /\ UNCHANGED <<tty, orphaned, pc, received, todo, child, news, told, asked, answered>>

\* The group is killed and reaped, and the failure is the receipt's.
Fail ==
  /\ child' = "gone" /\ news' = FALSE /\ pc' = "restore"
  /\ UNCHANGED <<tty, orphaned, fore, halted, received, todo, told, asked, answered>>

\* The terminal goes to the child's group, and the wait begins.
Start ==
  /\ Active("start") /\ ~Failed /\ ~Barred /\ Hand("child") /\ pc' = "wait"
  /\ UNCHANGED <<tty, orphaned, halted, received, todo, child, news, told, asked, answered>>

StartFails == Active("start") /\ Failed /\ Fail

\* waitpid reports the exit, a stop once, or nothing.
Wait ==
  /\ Active("wait")
  /\ \/ child = "gone" /\ pc' = "restore" /\ UNCHANGED news
     \/ child = "stopped" /\ news /\ news' = FALSE /\ pc' = "handback"
     \/ child # "gone" /\ ~news /\ pc' = "take" /\ UNCHANGED news
  /\ UNCHANGED <<tty, orphaned, fore, halted, received, todo, child, told, asked, answered>>

Take ==
  /\ Active("take") /\ todo' = received /\ received' = {} /\ pc' = "signals"
  /\ UNCHANGED <<tty, orphaned, fore, halted, child, news, told, asked, answered>>

\* What was taken, in the order of the list: a termination is passed on, a stop
\* relayed, a continuation left to Drain; then the next tick.
Handle ==
  /\ Active("signals")
  /\ IF "TERM" \in todo
     THEN todo' = todo \ {"TERM"} /\ told' = TRUE /\ UNCHANGED pc
     ELSE /\ pc' = IF "TSTP" \in todo THEN "handback"
                   ELSE IF "CONT" \in todo THEN "drain" ELSE "wait"
          /\ UNCHANGED <<todo, told>>
  /\ UNCHANGED <<tty, orphaned, fore, halted, received, child, news, asked, answered>>

\* The terminal is taken back, then the supervisor stops itself.
HandBack ==
  /\ Active("handback") /\ ~Failed /\ ~Barred /\ Hand("own") /\ pc' = "halt"
  /\ UNCHANGED <<tty, orphaned, halted, received, todo, child, news, told, asked, answered>>

HandBackFails == Active("handback") /\ Failed /\ Fail

Halt ==
  /\ Active("halt") /\ Stop /\ pc' = "drain"
  /\ UNCHANGED <<tty, orphaned, received, todo, child, news, told, asked, answered>>

\* Back to the signal that was being handled, or to the wait that saw the stop.
Back ==
  IF todo = {} THEN pc' = "take" /\ UNCHANGED todo
  ELSE /\ pc' = "signals"
       /\ todo' = todo \ {IF "TSTP" \in todo THEN "TSTP" ELSE "CONT"}

DropOthers == {}      \* mutant: the other signals are not put back

Others == received \ {"CONT"}

\* A continuation that was recorded resumes the child; the others are put back.
Drain ==
  /\ Active("drain") /\ received' = Others
  /\ IF "CONT" \in received THEN pc' = "give" /\ UNCHANGED todo ELSE Back
  /\ UNCHANGED <<tty, orphaned, fore, halted, child, news, told, asked, answered>>

Lend == Hand("child")

Give ==
  /\ Active("give") /\ ~Barred /\ Lend
  /\ child' = IF child = "stopped" THEN "running" ELSE child
  /\ news' = FALSE /\ Back
  /\ UNCHANGED <<tty, orphaned, halted, received, told, asked, answered>>

\* The terminal is taken back whatever the outcome, which is then returned.
Restore ==
  /\ Active("restore") /\ ~Barred /\ Hand("own") /\ pc' = "done"
  /\ UNCHANGED <<tty, orphaned, halted, received, todo, child, news, told, asked, answered>>

-----------------------------------------------------------------------------
\* The child ends or stops; a stop waits for an answer.
ChildEnds ==
  /\ child = "running" /\ child' = "gone"
  /\ UNCHANGED <<tty, orphaned, fore, halted, pc, received, todo, news, told, asked, answered>>

ChildStops ==
  /\ child = "running" /\ child' = "stopped" /\ news' = TRUE /\ answered' = FALSE
  /\ UNCHANGED <<tty, orphaned, fore, halted, pc, received, todo, told, asked>>

\* Somebody signals the supervisor.
Signal ==
  /\ pc \notin {"restore", "done"}
  /\ \/ received' = received \cup {"TERM"} /\ asked' = TRUE /\ UNCHANGED answered
     \/ ~halted /\ received' = received \cup {"TSTP"} /\ answered' = FALSE
        /\ UNCHANGED asked
     \/ ~halted /\ received' = received \cup {"CONT"} /\ UNCHANGED <<asked, answered>>
  /\ UNCHANGED <<tty, orphaned, fore, halted, pc, todo, child, news, told>>

\* The shell continues a stopped job, in the foreground or (bg, kill) as it is.
Continue ==
  /\ halted /\ halted' = FALSE /\ received' = received \cup {"CONT"}
  /\ \/ ~orphaned /\ fore' = IF tty THEN "own" ELSE fore
     \/ UNCHANGED fore
  /\ answered' = (answered \/ (pc \in {"handback", "drain"} /\ fore' = "own"))
  /\ UNCHANGED <<tty, orphaned, pc, todo, child, news, told, asked>>

Supervise ==
  \/ Start \/ StartFails \/ Wait \/ Take \/ Handle \/ HandBack \/ HandBackFails \/ Halt
  \/ Drain \/ Give \/ Restore
  \/ \E at \in {"start", "handback", "give", "restore"} : Bar(at)

Next == Supervise \/ ChildEnds \/ ChildStops \/ Signal \/ Continue

Spec == Init /\ [][Next]_vars

-----------------------------------------------------------------------------
\* A termination sent to the supervisor reaches the child's group or is still
\* recorded, through every stop and whatever else is handled in between
\* (interactive.rs, relay_continue).
TerminationIsKept ==
  asked /\ pc \notin {"restore", "done"} => told \/ "TERM" \in received \cup todo

\* Whenever the supervisor just waits for a child that runs, the child has the
\* terminal, whatever was stopped and continued before (wait_loop).
TerminalIsTheChilds == tty /\ pc = "wait" /\ child = "running" => fore = "child"

\* A child that stopped is resumed once the shell has answered: "stop the supervisor,
\* and let the continued handler resume the child" (relay_stop).  Violated.
ResumeIsNotLost == halted /\ child = "stopped" => ~answered
=============================================================================
