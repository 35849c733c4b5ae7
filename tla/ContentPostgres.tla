-------------------------- MODULE ContentPostgres --------------------------
(**************************************************************************)
(* ContentService (pkg/content/service.go) over the PostgreSQL adapter    *)
(* (internal/adapter/postgres/content_repository.go), for one resource    *)
(* and any number of concurrent requests: the API server, the admin       *)
(* server, the MCP server and the scheduled jobs all call it.             *)
(*                                                                        *)
(* A call reads the record, and the prerequisite when it publishes,       *)
(* OUTSIDE any transaction; it then opens a READ COMMITTED transaction    *)
(* that writes the row, a revision and an audit entry, and commits.  The  *)
(* write waits for the transaction that holds the row's lock; what is     *)
(* written is what was computed from the record read before.              *)
(*                                                                        *)
(* External, modelled from how the adapter uses it: PostgreSQL's row      *)
(* locks, primary key, rollback and commit.  Any statement may fail and a *)
(* commit's answer may be lost.                                           *)
(**************************************************************************)
EXTENDS ContentContract, FiniteSets

CONSTANTS
    Sessions,    \* the goroutines that may serve a request at one time
    MaxCommits   \* BOUND: mutations recorded in the trail over a behaviour

VARIABLES       \* besides the tables
    pc,          \* the next step of each session
    req,         \* the request it serves
    held,        \* the *Record it holds: the one it read, or it returns
    pend         \* its transaction's uncommitted writes

vars == <<rows, revisions, auditLogs, pc, req, held, pend>>

NoRequest == [op |-> "none"]
NoWrites == [row |-> NoRow, revs |-> << >>, logs |-> << >>]

\* Where a session stands inside an open transaction that wrote its row.
InTransaction == {"revising", "auditing", "committing"}
Working == {"reading", "checking", "writing"} \cup InTransaction
Steps == {"idle", "ok", "error"} \cup Working

TypeOK ==
    /\ TablesTypeOK
    /\ pc \in [Sessions -> Steps]
    /\ req \in [Sessions -> Requests \cup {NoRequest}]
    /\ held \in [Sessions -> Record \cup {NoRow}]
    /\ pend \in [Sessions -> [row  : Record \cup {NoRow},
                              revs : Seq(Record),
                              logs : Seq(AuditEntry)]]

Init ==
    /\ TablesInit
    /\ pc = [s \in Sessions |-> "idle"]
    /\ req = [s \in Sessions |-> NoRequest]
    /\ held = [s \in Sessions |-> NoRow]
    /\ pend = [s \in Sessions |-> NoWrites]

----------------------------------------------------------------------------
Goto(s, step) == pc' = [pc EXCEPT ![s] = step]

\* The call returns an error; an open transaction rolls back (the deferred
\* tx.Rollback of Execute).
Fail(s) ==
    /\ Goto(s, "error")
    /\ held' = [held EXCEPT ![s] = NoRow]
    /\ pend' = [pend EXCEPT ![s] = NoWrites]
    /\ UNCHANGED <<tables, req>>

\* BOUND: mutations committed and under way.
Recorded == UNION {{id} \X DOMAIN auditLogs[id] : id \in Ids}
UnderWay == {s \in Sessions : pc[s] \in Working /\ req[s].op # "get"}
MayMutate == Cardinality(Recorded) + Cardinality(UnderWay) < MaxCommits

\* A request reaches the service.  Create goes straight to its transaction.
Accept(s, request) ==
    /\ pc[s] = "idle"
    /\ request.op # "get" => MayMutate
    /\ req' = [req EXCEPT ![s] = request]
    /\ Goto(s, IF RefusedUnread(request) THEN "error"
               ELSE IF request.op = "create" THEN "writing" ELSE "reading")
    /\ UNCHANGED <<tables, held, pend>>

\* s.repo.Get on the pool, outside the transaction, and the decisions taken
\* on what it returned.
ReadExisting(s) ==
    LET request == req[s]
        existing == rows[request.id]
    IN  /\ pc[s] = "reading"
        /\ IF Refused(request, existing)
           THEN Fail(s)
           ELSE /\ held' = [held EXCEPT ![s] = existing]
                /\ Goto(s, IF request.op = "get" THEN "ok"
                           ELSE IF ChecksDependency(request, existing)
                           THEN "checking" ELSE "writing")
                /\ UNCHANGED <<tables, req, pend>>

\* MUTANT of CheckDependency: publish without looking.
CheckDependencySkipped(s) ==
    /\ pc[s] = "checking"
    /\ Goto(s, "writing")
    /\ UNCHANGED <<tables, req, held, pend>>

\* A second read on the pool, of the prerequisite.
CheckDependency(s) ==
    /\ pc[s] = "checking"
    /\ IF DependencyMet(rows[held[s].dep])
       THEN /\ Goto(s, "writing")
            /\ UNCHANGED <<tables, req, held, pend>>
       ELSE Fail(s)

\* MUTANT of Locked: the row is not locked.
NeverLocked(s, id) == FALSE

\* Another transaction wrote this row and has not ended.
Locked(s, id) ==
    \E t \in Sessions \ {s} : pc[t] \in InTransaction /\ req[t].id = id

\* INSERT ... RETURNING *.  It waits for a transaction that inserted or
\* deleted the same key, and fails when the key is there in the end.
InsertRow(s) ==
    LET id == req[s].id
    IN  /\ pc[s] = "writing"
        /\ req[s].op = "create"
        /\ ~Locked(s, id)
        /\ IF rows[id] # NoRow
           THEN Fail(s)
           ELSE /\ pend' = [pend EXCEPT
                              ![s].row = Stored(NewRecord(req[s].body))]
                /\ Goto(s, "revising")
                /\ UNCHANGED <<tables, req, held>>

\* MUTANT of UpdateRow: a missing row is written anew (INSERT ... ON CONFLICT).
UpdateRowUpserts(s) ==
    LET id == req[s].id
    IN  /\ pc[s] = "writing"
        /\ req[s].op \in {"update"} \cup TransitionOps
        /\ ~Locked(s, id)
        /\ pend' = [pend EXCEPT
                      ![s].row = Stored(Proposal(req[s], held[s]))]
        /\ Goto(s, "revising")
        /\ UNCHANGED <<tables, req, held>>

\* UPDATE ... WHERE id = $n RETURNING *.  A row that is not there, or not
\* yet committed, is not found; a row under change is waited for.  The
\* version in the table takes no part.
UpdateRow(s) ==
    LET id == req[s].id
    IN  /\ pc[s] = "writing"
        /\ req[s].op \in {"update"} \cup TransitionOps
        /\ \/ rows[id] = NoRow /\ Fail(s)
           \/ /\ rows[id] # NoRow
              /\ ~Locked(s, id)
              /\ pend' = [pend EXCEPT
                            ![s].row = Stored(Proposal(req[s], held[s]))]
              /\ Goto(s, "revising")
              /\ UNCHANGED <<tables, req, held>>

\* DELETE ... WHERE id = $1.  No revision follows.
DeleteRow(s) ==
    LET id == req[s].id
    IN  /\ pc[s] = "writing"
        /\ req[s].op = "delete"
        /\ \/ rows[id] = NoRow /\ Fail(s)
           \/ /\ rows[id] # NoRow
              /\ ~Locked(s, id)
              /\ Goto(s, "auditing")
              /\ UNCHANGED <<tables, req, held, pend>>

WriteRow(s) == InsertRow(s) \/ UpdateRow(s) \/ DeleteRow(s)

\* txRev.Insert of the row the write returned.
InsertRevision(s) ==
    /\ pc[s] = "revising"
    /\ pend' = [pend EXCEPT ![s].revs = Append(@, pend[s].row)]
    /\ Goto(s, "auditing")
    /\ UNCHANGED <<tables, req, held>>

\* MUTANT of InsertAudit: Delete does not write an audit entry.
InsertAuditNotOfDelete(s) ==
    /\ pc[s] = "auditing"
    /\ pend' = IF req[s].op = "delete" THEN pend
               ELSE [pend EXCEPT ![s].logs = Append(@,
                      [op |-> req[s].op, snapshot |-> pend[s].row])]
    /\ Goto(s, "committing")
    /\ UNCHANGED <<tables, req, held>>

\* txAudit.Insert: of the row written, or of the record read before a delete.
InsertAudit(s) ==
    LET snapshot == IF req[s].op = "delete" THEN held[s] ELSE pend[s].row
    IN  /\ pc[s] = "auditing"
        /\ pend' = [pend EXCEPT ![s].logs = Append(@,
                      [op |-> req[s].op, snapshot |-> snapshot])]
        /\ Goto(s, "committing")
        /\ UNCHANGED <<tables, req, held>>

\* tx.Commit takes effect.
MakeDurable(s) ==
    LET id == req[s].id
    IN  /\ rows' = [rows EXCEPT ![id] = pend[s].row]
        /\ revisions' = [revisions EXCEPT ![id] = @ \o pend[s].revs]
        /\ auditLogs' = [auditLogs EXCEPT ![id] = @ \o pend[s].logs]
        /\ pend' = [pend EXCEPT ![s] = NoWrites]

\* MUTANT of Commit: the error of tx.Commit is dropped.
CommitErrorDropped(s) ==
    /\ pc[s] = "committing"
    /\ \/ MakeDurable(s)
       \/ pend' = [pend EXCEPT ![s] = NoWrites] /\ UNCHANGED tables
    /\ Goto(s, "ok")
    /\ held' = [held EXCEPT ![s] =
                  IF req[s].op = "delete" THEN @ ELSE pend[s].row]
    /\ UNCHANGED req

\* The call returns the record written (a delete returns none; it keeps the
\* one it read).
Commit(s) ==
    /\ pc[s] = "committing"
    /\ MakeDurable(s)
    /\ Goto(s, "ok")
    /\ held' = [held EXCEPT ![s] =
                  IF req[s].op = "delete" THEN @ ELSE pend[s].row]
    /\ UNCHANGED req

\* The commit takes effect but its answer is lost: the call returns an error.
CommitUnacknowledged(s) ==
    /\ pc[s] = "committing"
    /\ MakeDurable(s)
    /\ Goto(s, "error")
    /\ held' = [held EXCEPT ![s] = NoRow]
    /\ UNCHANGED req

\* A statement fails (connection, context cancelled, constraint of the table).
StatementFails(s) ==
    /\ pc[s] \in Working
    /\ Fail(s)

\* MUTANT of Answer: the error branch never answers.
AnswerOnlySuccess(s) ==
    /\ pc[s] = "ok"
    /\ Goto(s, "idle")
    /\ req' = [req EXCEPT ![s] = NoRequest]
    /\ held' = [held EXCEPT ![s] = NoRow]
    /\ UNCHANGED <<tables, pend>>

\* The caller writes its response and the session is free.
Answer(s) ==
    /\ pc[s] \in {"ok", "error"}
    /\ Goto(s, "idle")
    /\ req' = [req EXCEPT ![s] = NoRequest]
    /\ held' = [held EXCEPT ![s] = NoRow]
    /\ UNCHANGED <<tables, pend>>

\* One of the processes (serve, mcp, job) dies with the sessions it runs; the
\* database rolls their transactions back.
Crash(dead) ==
    /\ pc' = [s \in Sessions |-> IF s \in dead THEN "idle" ELSE pc[s]]
    /\ req' = [s \in Sessions |-> IF s \in dead THEN NoRequest ELSE req[s]]
    /\ held' = [s \in Sessions |-> IF s \in dead THEN NoRow ELSE held[s]]
    /\ pend' = [s \in Sessions |-> IF s \in dead THEN NoWrites ELSE pend[s]]
    /\ UNCHANGED tables

----------------------------------------------------------------------------
Progress(s) ==
    \/ ReadExisting(s) \/ CheckDependency(s) \/ WriteRow(s)
    \/ InsertRevision(s) \/ InsertAudit(s) \/ Commit(s) \/ Answer(s)

Next ==
    \/ \E s \in Sessions :
          \/ \E request \in Requests : Accept(s, request)
          \/ Progress(s)
          \/ CommitUnacknowledged(s)
          \/ StatementFails(s)
    \/ \E dead \in SUBSET Sessions : Crash(dead)

Spec == Init /\ [][Next]_vars

\* Goroutines are scheduled and statements return; PostgreSQL serves the
\* waiters of a row lock in order, so that a write that can proceed again and
\* again does.
Fairness ==
    \A s \in Sessions : WF_vars(Progress(s)) /\ SF_vars(WriteRow(s))

FairSpec == Spec /\ Fairness

----------------------------------------------------------------------------
(* Properties under concurrency, besides those of the contract.            *)

\* A mutation that was answered without an error is in the audit log with the
\* record the caller was given, and that record was committed as a revision.
AnsweredMutationIsRecorded ==
    \A s \in Sessions :
        pc[s] = "ok" /\ req[s].op # "get" =>
            /\ [op |-> req[s].op, snapshot |-> held[s]]
                  \in Elements(auditLogs[req[s].id])
            /\ held[s] \in Elements(revisions[req[s].id])

\* Every request comes to an end: no transaction waits for a lock for ever.
RequestsEnd == \A s \in Sessions : pc[s] # "idle" ~> pc[s] = "idle"

\* Seen from the tables, each call is one atomic step computed from some
\* committed version of the record.
ImplementsSnapshotContract == SnapshotSpec

----------------------------------------------------------------------------
(* A property the service's text suggests.  It holds for calls that do not *)
(* overlap; the run with two sessions shows how a race breaks it.          *)

\* A row only moves along the lifecycle (CanTransition, lifecycle.go:26-48).
StatusFollowsLifecycle ==
    [][\A id \in Ids :
          rows[id] # NoRow /\ rows'[id] # NoRow =>
              CanTransition(rows[id].status, rows'[id].status)]_vars

============================================================================
