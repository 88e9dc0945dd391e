----------------------------- MODULE MCDirectories -----------------------------
(* Small instances of DirectoryJournal for TLC: identities are alike.      *)
EXTENDS DirectoryJournal, TLC

Symmetry == Permutations(Root) \cup Permutations(Sub)
=============================================================================
