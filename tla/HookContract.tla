---------------------------- MODULE HookContract ----------------------------
(***************************************************************************)
(* What activation promises for the hooks of committed runs, without       *)
(* records, pointers or barriers: a hook comes due with the commit of the  *)
(* run that declared it, is launched at least once under attempt numbers   *)
(* that only grow, and is settled for good.  Nothing else ever runs.       *)
(***************************************************************************)
EXTENDS Naturals

CONSTANTS Hook, Attempt

VARIABLES
  owed,       \* hooks of committed runs, not yet settled
  settled,    \* hooks whose last outcome is final
  attempts    \* <<hook, attempt>> launched

vars == <<owed, settled, attempts>>

Init == owed = {} /\ settled = {} /\ attempts = {}

Commit(hooks) ==
  /\ hooks \cap (owed \cup settled) = {}
  /\ owed' = owed \cup hooks
  /\ UNCHANGED <<settled, attempts>>

Launch(h, a) ==
  /\ h \in owed
  /\ \A b \in Attempt : <<h, b>> \in attempts => b < a
  /\ attempts' = attempts \cup {<<h, a>>}
  /\ UNCHANGED <<owed, settled>>

Settle(h) ==
  /\ h \in owed /\ \E a \in Attempt : <<h, a>> \in attempts
  /\ owed' = owed \ {h} /\ settled' = settled \cup {h}
  /\ UNCHANGED attempts

Next ==
  \/ \E hooks \in SUBSET Hook : Commit(hooks)
  \/ \E h \in Hook, a \in Attempt : Launch(h, a)
  \/ \E h \in Hook : Settle(h)

Spec == Init /\ [][Next]_vars
=============================================================================
