-------------------------- MODULE MCLedgerRefinement --------------------------
(* A small instance of LedgerRefinement for TLC. *)
EXTENDS LedgerRefinement
=============================================================================
