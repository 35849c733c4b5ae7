------------------------- MODULE MCContentPostgres -------------------------
(* Instances of ContentPostgres for TLC.                                   *)
EXTENDS ContentPostgres, TLC

CONSTANTS a, b, s1, s2, t1, t2

\* With and without a prerequisite.
PrerequisitePayloads == {[title |-> t1, dep |-> d] : d \in {Absent, a}}

\* No field but the title.
PlainPayloads == {[title |-> t1, dep |-> Absent]}

\* Two titles, to tell concurrent updates apart.
TitlePayloads == {[title |-> t, dep |-> Absent] : t \in {t1, t2}}

\* With and without a prerequisite, and one that misses the required field.
DependencyPayloads ==
    {[title |-> t1, dep |-> Absent], [title |-> t1, dep |-> a],
     [title |-> Absent, dep |-> NoId]}

SessionSymmetry == Permutations(Sessions)

============================================================================
