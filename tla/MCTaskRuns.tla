------------------------------ MODULE MCTaskRuns ------------------------------
(* Small instances of TaskRuns for TLC: invocations and homes are alike.   *)
EXTENDS TaskRunsInvariant, TLC

Symmetry == Permutations(Inv) \cup Permutations(Home)

\* Keys that overlap, in a home or between two; no objects.
Contenders == [home : Home, keys : {{1, 2}, {2, 3}}, needs : {{}}]

\* The same objects, and all keys or none.
Consumers == [home : Home, keys : {{}, Key}, needs : {Path}]
=============================================================================
