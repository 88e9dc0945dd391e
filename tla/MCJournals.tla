------------------------------ MODULE MCJournals ------------------------------
(* Small instances of the two journals for TLC. *)
EXTENDS Journals, TLC

\* The identities of destinations are alike, and those of directories.
AllSymmetric == Permutations(Dest) \cup Permutations(Root) \cup Permutations(Sub)
=============================================================================
