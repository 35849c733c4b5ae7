-------------------------- MODULE MCDemoFileStore --------------------------
(* Instances of DemoFileStore for TLC.                                     *)
EXTENDS DemoFileStore, TLC

CONSTANTS a, b, p1, p2, t1

Plain == [title |-> t1, dep |-> Absent]

PlainPayloads == {Plain}

\* No field but the title, and a prerequisite.
DemoPayloads == {Plain, [title |-> t1, dep |-> a]}

\* The shape of the demo data, cut short: a record that is then published.
PublishedRecord ==
    << [op |-> "create", id |-> a, body |-> Plain],
       [op |-> "publish", id |-> a] >>

ProcessSymmetry == Permutations(Processes)

============================================================================
