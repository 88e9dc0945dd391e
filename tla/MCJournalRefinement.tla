------------------------- MODULE MCJournalRefinement -------------------------
(* A small instance of JournalRefinement for TLC. *)
EXTENDS JournalRefinement
=============================================================================
