--------------------------- MODULE ContentMemory ---------------------------
(**************************************************************************)
(* ContentService (pkg/content/service.go) over the memory store          *)
(* (pkg/content/memory.go), for one resource and any number of concurrent *)
(* requests of one process.                                               *)
(*                                                                        *)
(* MemoryUnitOfWork.Execute calls its function and does nothing else: the *)
(* row, the revision and the audit entry are three steps, each under the  *)
(* mutex of its own repository, and other requests run between them.      *)
(* None of the three can fail.  Create and Update both assign to the map, *)
(* so each inserts or replaces; Delete never misses the record.  The      *)
(* record a write returns is the one it stored, never changed in place    *)
(* afterwards: reads copy it.                                             *)
(**************************************************************************)
EXTENDS ContentContract, SequencesExt

CONSTANTS
    Sessions,    \* the goroutines that may serve a request at one time
    MaxCommits   \* BOUND: mutations recorded in the trail over a behaviour

VARIABLES       \* besides the tables
    pc,          \* the next step of each session
    req,         \* the request it serves
    held         \* the *Record it holds: the one it read, or it wrote

vars == <<rows, revisions, auditLogs, pc, req, held>>

NoRequest == [op |-> "none"]

\* Where a session stands that wrote its row and owes the trail something.
Owing == {"revising", "auditing"}
Working == {"reading", "checking", "writing"} \cup Owing
Steps == {"idle", "ok", "error"} \cup Working

TypeOK ==
    /\ TablesTypeOK
    /\ pc \in [Sessions -> Steps]
    /\ req \in [Sessions -> Requests \cup {NoRequest}]
    /\ held \in [Sessions -> Record \cup {NoRow}]

Init ==
    /\ TablesInit
    /\ pc = [s \in Sessions |-> "idle"]
    /\ req = [s \in Sessions |-> NoRequest]
    /\ held = [s \in Sessions |-> NoRow]

----------------------------------------------------------------------------
Goto(s, step) == pc' = [pc EXCEPT ![s] = step]

Fail(s) ==
    /\ Goto(s, "error")
    /\ held' = [held EXCEPT ![s] = NoRow]
    /\ UNCHANGED <<tables, req>>

\* BOUND: mutations recorded and under way.
Recorded == UNION {{id} \X DOMAIN auditLogs[id] : id \in Ids}
UnderWay == {s \in Sessions : pc[s] \in Working /\ req[s].op # "get"}
MayMutate == Cardinality(Recorded) + Cardinality(UnderWay) < MaxCommits

\* A request reaches the service.  Create reads nothing.
Accept(s, request) ==
    /\ pc[s] = "idle"
    /\ request.op # "get" => MayMutate
    /\ req' = [req EXCEPT ![s] = request]
    /\ Goto(s, IF RefusedUnread(request) THEN "error"
               ELSE IF request.op = "create" THEN "writing" ELSE "reading")
    /\ UNCHANGED <<tables, held>>

\* repo.Get copies the record under the read lock.
ReadExisting(s) ==
    LET request == req[s]
        existing == rows[request.id]
    IN  /\ pc[s] = "reading"
        /\ IF Refused(request, existing)
           THEN Fail(s)
           ELSE /\ held' = [held EXCEPT ![s] = existing]
                /\ Goto(s, IF request.op = "get" THEN "ok"
                           ELSE IF ChecksDependency(request, existing)
                           THEN "checking" ELSE "writing")
                /\ UNCHANGED <<tables, req>>

\* A second read, under a read lock of its own.
CheckDependency(s) ==
    /\ pc[s] = "checking"
    /\ IF DependencyMet(rows[held[s].dep])
       THEN /\ Goto(s, "writing")
            /\ UNCHANGED <<tables, req, held>>
       ELSE Fail(s)

\* MUTANT of StoreRow: the store counts the version too, behind the caller.
StoreRowCounts(s) ==
    LET record == Proposal(req[s], held[s])
    IN  /\ pc[s] = "writing"
        /\ req[s].op # "delete"
        /\ rows' = [rows EXCEPT
                      ![req[s].id] = [record EXCEPT !.version = @ + 1]]
        /\ held' = [held EXCEPT ![s] = record]
        /\ Goto(s, "revising")
        /\ UNCHANGED <<revisions, auditLogs, req>>

\* MUTANT of StoreRow: Create keeps the record that is there.
StoreRowKeepsExisting(s) ==
    LET id == req[s].id
        record == IF req[s].op = "create" /\ rows[id] # NoRow
                  THEN rows[id] ELSE Proposal(req[s], held[s])
    IN  /\ pc[s] = "writing"
        /\ req[s].op # "delete"
        /\ rows' = [rows EXCEPT ![id] = record]
        /\ held' = [held EXCEPT ![s] = record]
        /\ Goto(s, "revising")
        /\ UNCHANGED <<revisions, auditLogs, req>>

\* repo.Create and repo.Update: tableMap[record.ID] = record, whatever is
\* there.
StoreRow(s) ==
    LET record == Proposal(req[s], held[s])
    IN  /\ pc[s] = "writing"
        /\ req[s].op # "delete"
        /\ rows' = [rows EXCEPT ![req[s].id] = record]
        /\ held' = [held EXCEPT ![s] = record]
        /\ Goto(s, "revising")
        /\ UNCHANGED <<revisions, auditLogs, req>>

\* repo.Delete: delete(tableMap, id), whether or not it is there.
DeleteRow(s) ==
    /\ pc[s] = "writing"
    /\ req[s].op = "delete"
    /\ rows' = [rows EXCEPT ![req[s].id] = NoRow]
    /\ Goto(s, "auditing")
    /\ UNCHANGED <<revisions, auditLogs, req, held>>

InsertRevision(s) ==
    /\ pc[s] = "revising"
    /\ revisions' = [revisions EXCEPT ![req[s].id] = Append(@, held[s])]
    /\ Goto(s, "auditing")
    /\ UNCHANGED <<rows, auditLogs, req, held>>

\* MUTANT of InsertAudit: the snapshot is read again.
InsertAuditRereads(s) ==
    LET id == req[s].id
    IN  /\ pc[s] = "auditing"
        /\ Log(id, req[s].op, IF rows[id] = NoRow THEN held[s] ELSE rows[id])
        /\ Goto(s, "ok")
        /\ UNCHANGED <<rows, revisions, req, held>>

\* MUTANT of InsertAudit: an entry that cannot be written is dropped.
InsertAuditMayFail(s) ==
    /\ pc[s] = "auditing"
    /\ Log(req[s].id, req[s].op, held[s]) \/ UNCHANGED auditLogs
    /\ Goto(s, "ok")
    /\ UNCHANGED <<rows, revisions, req, held>>

\* The snapshot is the record written, or the one read before a delete.
InsertAudit(s) ==
    /\ pc[s] = "auditing"
    /\ Log(req[s].id, req[s].op, held[s])
    /\ Goto(s, "ok")
    /\ UNCHANGED <<rows, revisions, req, held>>

Answer(s) ==
    /\ pc[s] \in {"ok", "error"}
    /\ Goto(s, "idle")
    /\ req' = [req EXCEPT ![s] = NoRequest]
    /\ held' = [held EXCEPT ![s] = NoRow]
    /\ UNCHANGED tables

----------------------------------------------------------------------------
Next ==
    \E s \in Sessions :
        \/ \E request \in Requests : Accept(s, request)
        \/ ReadExisting(s) \/ CheckDependency(s)
        \/ StoreRow(s) \/ DeleteRow(s)
        \/ InsertRevision(s) \/ InsertAudit(s)
        \/ Answer(s)

Spec == Init /\ [][Next]_vars

----------------------------------------------------------------------------
(* What holds however requests interleave.                                 *)

\* No request stands between its row and its trail.
Quiet == \A s \in Sessions : pc[s] \notin Owing

Owes(s, id, step) == pc[s] = step /\ req[s].id = id

\* A live row is one of the record's revisions, or its writer has yet to
\* insert that revision (service.go:142-162): no write goes unversioned.
RowIsARevision ==
    \A id \in Ids :
        rows[id] # NoRow =>
            \/ rows[id] \in Snapshots(id)
            \/ \E s \in Sessions :
                  Owes(s, id, "revising") /\ held[s] = rows[id]

\* Revisions and audit entries of one id pair up one to one, in some order,
\* deletes aside, once the requests on their way have written what they owe:
\* though nothing ties the two inserts together none is lost or doubled.
RevisionsAndAuditPairUp ==
    \A id \in Ids :
        LET saves == {i \in DOMAIN auditLogs[id] :
                         auditLogs[id][i].op # "delete"}
            owing == {s \in Sessions :
                         Owes(s, id, "auditing") /\ req[s].op # "delete"}
            records == Snapshots(id) \cup {held[s] : s \in owing}
                          \cup {auditLogs[id][i].snapshot : i \in saves}
        IN  \A r \in records :
               Cardinality({i \in DOMAIN revisions[id] : revisions[id][i] = r})
                 = Cardinality({i \in saves : auditLogs[id][i].snapshot = r})
                     + Cardinality({s \in owing : held[s] = r})

\* With no request on its way the history is legal in every respect but its
\* order: transitions were legal from a record that was stored, and what was
\* published with a prerequisite had it published (service.go:248-257).
QuietHistoryLegal ==
    Quiet => TransitionsFromLegalBase /\ PrerequisiteWasPublished

\* A mutation that was answered without an error is in the audit log with the
\* record the caller was given, and that record is one of its revisions (the
\* record a delete removed may still be waiting for its revision).
AnsweredMutationIsRecorded ==
    \A s \in Sessions :
        pc[s] = "ok" /\ req[s].op # "get" =>
            /\ [op |-> req[s].op, snapshot |-> held[s]]
                  \in Elements(auditLogs[req[s].id])
            /\ req[s].op # "delete" => held[s] \in Snapshots(req[s].id)

----------------------------------------------------------------------------
(* A call that runs alone is one atomic step.                              *)

\* The tables once the requests on their way have written what they owe; one
\* request at a time owes each id one entry at most.
Due(id, steps) == {held[s] : s \in {t \in Sessions :
                      pc[t] \in steps /\ req[t].id = id}}

SettledRevisions ==
    [id \in Ids |-> revisions[id] \o SetToSeq(Due(id, {"revising"}))]

SettledAudit ==
    [id \in Ids |->
        auditLogs[id] \o SetToSeq({[op |-> req[s].op, snapshot |-> held[s]] :
            s \in {t \in Sessions : pc[t] \in Owing /\ req[t].id = id}})]

Settled == INSTANCE ContentContract
             WITH revisions <- SettledRevisions, auditLogs <- SettledAudit

\* Each call is one atomic step of the serial contract at the moment it
\* writes its row, but for a Create, which also replaces a record.
SerialUpsert(id) ==
    \/ Settled!AtomicCall(id, {rows[id]}, PublishedNow)
    \/ \E body \in Payloads :
          HasRequired(body) /\ Settled!Save(id, "create", NewRecord(body))

============================================================================
