-------------------------- MODULE MCContentMemory --------------------------
(* Instances of ContentMemory for TLC.                                     *)
EXTENDS ContentMemoryAlone, TLC

CONSTANTS a, b, s1, s2, t1, t2

\* With and without a prerequisite.
DependencyPayloads ==
    {[title |-> t1, dep |-> Absent], [title |-> t1, dep |-> a]}

SessionSymmetry == Permutations(Sessions)

============================================================================
