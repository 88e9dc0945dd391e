----------------------------- MODULE MCJournal -----------------------------
(* Small instances of Journal for TLC. *)
EXTENDS JournalInvariant, TLC

Symmetric == Permutations(Dest)
=============================================================================
