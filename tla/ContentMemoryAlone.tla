------------------------- MODULE ContentMemoryAlone -------------------------
(***************************************************************************)
(* ContentMemory with a history variable: the mutation a session has under *)
(* way, or has just finished, never overlapped another one.  It tells what *)
(* the service over the memory store promises to calls that come one at a  *)
(* time, though nothing ties their three writes together.                  *)
(***************************************************************************)
EXTENDS ContentMemory

VARIABLE alone

WatchedInit == Init /\ alone = [s \in Sessions |-> TRUE]

AloneNext ==
    alone' = [s \in Sessions |->
                 IF s \in UnderWay' \/ pc'[s] = "ok"
                 THEN alone[s] /\ UnderWay' \subseteq {s} ELSE TRUE]

WatchedSpec == WatchedInit /\ [][Next /\ AloneNext]_<<vars, alone>>

\* The session that takes the step has run alone so far.
RanAlone == \A s \in Sessions : pc'[s] # pc[s] => alone[s]

\* A mutation that ran alone is one atomic step of the serial contract at the
\* moment it writes its row, but for a Create, which also replaces a record
\* (service.go:43 "inserts a new record", memory.go:96).
AloneImplementsSerialUpserts ==
    [][RanAlone => \E id \in Ids : SerialUpsert(id)]_(Settled!tables)

\* Once it is done the live row is the latest revision, and the audit log knows
\* whether the record is gone, as if the three writes had shared a transaction
\* (docs/roadmap.md:234, memory.go:214).
AloneHeadMatchesTrail ==
    \A s \in Sessions :
        pc[s] = "ok" /\ req[s].op # "get" /\ alone[s] => HeadMatchesTrailOf(req[s].id)

============================================================================
