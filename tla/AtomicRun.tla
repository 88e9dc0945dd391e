----------------------------- MODULE AtomicRun -----------------------------
(***************************************************************************)
(* What a deploy run promises, without journal, records or barriers.       *)
(*                                                                         *)
(* `work' is what the destinations hold.  A run may leave any of it behind *)
(* in disorder, but it closes in one of two ways only: committed, with     *)
(* every destination as the run left it at the one moment of its commit,   *)
(* or undone, with every destination back in an allowed state: the one it  *)
(* had when the run began, or a user's later edit.                         *)
(***************************************************************************)
EXTENDS Naturals

CONSTANTS Dest, State, Absent

VARIABLES
  work,       \* the object at each destination
  allowed,    \* the states each destination may be left in
  phase,      \* "closed", or a run that is "open" or "committed"
  selected    \* the committed selection

vars == <<work, allowed, phase, selected>>

Init ==
  /\ work \in [Dest -> State]
  /\ allowed = [d \in Dest |-> {work[d]}]
  /\ phase = "closed" /\ selected = 0

Open ==
  /\ phase = "closed" /\ phase' = "open"
  /\ UNCHANGED <<work, allowed, selected>>

\* Nothing is pending, so what stands is what the next run may be undone to.
Observe ==
  /\ phase = "closed"
  /\ allowed' = [d \in Dest |-> {work[d]}]
  /\ UNCHANGED <<work, phase, selected>>

\* The run, its recovery or a power loss moves destinations about.
Touch ==
  /\ phase = "open"
  /\ work' \in [Dest -> State]
  /\ UNCHANGED <<allowed, phase, selected>>

\* The whole of the work becomes what is allowed, in one step with the
\* selection; a power loss may be the step that decides it.
Commit ==
  /\ phase = "open" /\ phase' = "committed"
  /\ selected' > selected
  /\ allowed' = [d \in Dest |-> {work[d]}]
  /\ UNCHANGED work

\* A run closes only when every destination is in an allowed state.
Close ==
  /\ phase # "closed" /\ phase' = "closed"
  /\ \A d \in Dest : work'[d] \in allowed[d]
  /\ phase = "committed" => UNCHANGED work
  /\ work' \in [Dest -> State]
  /\ UNCHANGED <<allowed, selected>>

\* An edit is allowed to stand.  Only a deletion during an open run may give
\* the destination back to recovery, and only an open run may overwrite an
\* edit it raced with, so otherwise nothing but the edit is allowed.
UserEdit(d, v) ==
  /\ work' = [work EXCEPT ![d] = v]
  /\ \E s \in SUBSET State :
       /\ v \in s
       /\ s # {v} => phase = "open"
       /\ s \subseteq IF v = Absent THEN State ELSE allowed[d] \cup {v}
       /\ allowed' = [allowed EXCEPT ![d] = s]
  /\ UNCHANGED <<phase, selected>>

Next ==
  \/ Open \/ Observe \/ Touch \/ Commit \/ Close
  \/ \E d \in Dest, v \in State : UserEdit(d, v)

Spec == Init /\ [][Next]_vars
=============================================================================
