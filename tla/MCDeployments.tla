---------------------------- MODULE MCDeployments ----------------------------
(***************************************************************************)
(* Deployments alone, for the disagreement it shows: what the rollback     *)
(* promises of drift, and does not keep for links.                         *)
(***************************************************************************)
EXTENDS Deployments

\* "A destination shared by both generations is restored only when live state IS the
\* current generation's deployment; live == target is a no-op; anything else is user
\* drift - preserved and reported, never overwritten" (rollback.rs).
RollbackKeepsDrift ==
  [][Begins /\ run'.target \in retained /\ EntryOf(current) # NoEntry
       /\ run'.entry # NoEntry /\ Users(live)
       => live' = live]_vars
=============================================================================
