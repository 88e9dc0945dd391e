-------------------------- MODULE LedgerRefinement --------------------------
(***************************************************************************)
(* The intent ledger implements HookContract for the hooks of transactions *)
(* (a legacy record carries no identity its hooks could be owed under).  A *)
(* hook is due once its selection is durable and settled once every disk a *)
(* power loss can leave agrees that it ran.                                *)
(***************************************************************************)
EXTENDS IntentLedger

Declared(t) ==
  IF plan[t] # NoPlan /\ plan[t].selection = t
  THEN {<<t, i>> : i \in 1..plan[t].count} ELSE {}

Due == UNION {Declared(t) : t \in committed \ {0}}
Durably(h) == \A o \in outcomeDisk[h[1]][h[2]] : Executed(o)
Attempted == {l \in launched : <<l[1], l[2]>> \in Declared(l[1])}

Contract == INSTANCE HookContract WITH
  Hook <- Instance \X Ordinal,
  Attempt <- 1..MaxAttempt,
  owed <- {h \in Due : ~Durably(h)},
  settled <- {h \in Due : Durably(h)},
  attempts <- {<<<<l[1], l[2]>>, l[3]>> : l \in Attempted}

\* Every behaviour of the ledger, crashes included, runs the hooks of the
\* committed runs as the contract says (ledger.rs, exec/activate.rs).
ImplementsHookContract == Contract!Spec
=============================================================================
