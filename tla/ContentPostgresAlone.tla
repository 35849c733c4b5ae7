------------------------ MODULE ContentPostgresAlone ------------------------
(**************************************************************************)
(* ContentPostgres with a history variable: the mutation a session has    *)
(* under way, or has just finished, never overlapped another one.  It     *)
(* tells what the service over PostgreSQL promises to calls that come one *)
(* at a time, whatever failed or raced before them.                       *)
(**************************************************************************)
EXTENDS ContentPostgres

VARIABLE alone

WatchedInit == Init /\ alone = [s \in Sessions |-> TRUE]

AloneNext ==
    alone' = [s \in Sessions |->
                 IF s \in UnderWay' \/ pc'[s] = "ok"
                 THEN alone[s] /\ UnderWay' \subseteq {s} ELSE TRUE]

WatchedSpec == WatchedInit /\ [][Next /\ AloneNext]_<<vars, alone>>

\* The session that takes the step has run alone so far.
RanAlone == \A s \in Sessions : pc'[s] # pc[s] => alone[s]

\* A mutation that ran alone is one atomic step on the current record and the
\* current prerequisite, as the text of service.go:43-311 reads, whatever
\* failed or raced before it.
AloneImplementsSerialContract == [][RanAlone => SerialNext]_tables

============================================================================
