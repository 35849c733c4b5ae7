----------------------------- MODULE McpServer -----------------------------
(**************************************************************************)
(* `cms mcp` (cmd/cms/mcp.go, pkg/mcp/server.go): an agent's JSON-RPC     *)
(* lines on stdin, one process that handles them one after the other and  *)
(* answers on stdout, and the tools that read and change the records of   *)
(* one resource in PostgreSQL.                                            *)
(*                                                                        *)
(* The process reads the table's schema once, when it starts; the table   *)
(* may be migrated and its rows edited by others at any time.  A change   *)
(* is three steps: the row is read, a transaction writes it with its audit *)
(* entry (ContentPostgres has that transaction in full; here it commits or *)
(* it does not), and the outcome is answered.  Which lifecycle transition *)
(* is allowed is ContentRecords' and left open.                           *)
(**************************************************************************)
EXTENDS SchemaValidator, Sequences, FiniteSets

CONSTANTS
    Definition,     \* the resource definition loaded at the start
    Databases,      \* names for the schemas the database may have
    Schema,         \* and the tables of each
    Messages,       \* the lines an agent sends
    Ids,            \* record ids
    NoRow,          \* no row of that id
    MaxLines,       \* bound: lines sent
    MaxFailures,    \* bound: failing statements and crashes
    MaxChanges      \* bound: migrations, and edits by others

\* The tools, and the arguments each asks for.
Requires ==
    [drift   |-> {},
     search  |-> {"resource"},
     list    |-> {"resource"},
     get     |-> {"resource", "id"},
     mutate  |-> {"resource"},
     publish |-> {"resource", "id", "action"}]

\* method is that of the request, hasId says that it has an id; of a tools/call,
\* tool is the name, given those of the arguments above that are there and name a
\* resource or a transition there is, target the id and data the other arguments.
MessageFields == {"method", "hasId", "tool", "given", "target", "data"}

NoId == "none"

ASSUME MessageAssumption ==
    /\ NoId \notin Ids
    /\ \A m \in Messages :
          /\ DOMAIN m = MessageFields
          /\ m.target \in Ids \cup {NoId} /\ m.hasId \in BOOLEAN
          /\ "id" \in m.given <=> m.target # NoId

ASSUME DefinitionAssumption == ValidDefinition(Definition)

ASSUME SchemaAssumption ==
    \A d \in Databases : \A t \in DOMAIN Schema[d] : \A c \in DOMAIN Schema[d][t] :
        Schema[d][t][c].position \in Nat

VARIABLES
    db,         \* the schema of the database now
    rows,       \* the rows of the resource's table, by id
    audit,      \* cms_audit_logs: [call, id], with the line number as request id
    sent,       \* the lines sent so far
    line,       \* number of the line being handled, or handled last
    since,      \* number of the last line an earlier process had
    answers,    \* what was written to stdout: [to, kind, found]
    pc,         \* "down", "ready", "writing", or the outcome that is still to be answered
    snapshot,   \* the schema the process read when it started
    held,       \* the record read for a change, its row, and the schema it was read under
    failures, changes

vars == <<db, rows, audit, sent, line, since, answers, pc, snapshot, held, failures, changes>>
store == <<rows, audit>>
outside == <<db, sent, since, snapshot, changes>>

\* What a transaction ended with, for the answer.
Outcomes == {"result", "toolError"}

NoRecord == [data |-> <<>>, row |-> NoRow, db |-> NoId]

\* The table of the resource, without columns if it is not there.
Table(d) ==
    IF Definition.table \in DOMAIN Schema[d] THEN Schema[d][Definition.table] ELSE <<>>

\* Rows may be there before the first agent is.
Init ==
    /\ db \in Databases
    /\ \E some \in SUBSET Ids :
          /\ some # {} => DOMAIN Table(db) # {}
          /\ rows = [i \in Ids |-> IF i \notin some THEN NoRow ELSE
                       [c \in DOMAIN Table(db) |->
                           IF Table(db)[c].nullable THEN Null ELSE Opaque]]
    /\ audit = <<>> /\ sent = <<>> /\ line = 0 /\ since = 0 /\ answers = <<>>
    /\ pc = "down"
    /\ snapshot = NoId
    /\ held = NoRecord
    /\ failures = 0 /\ changes = 0

TypeOK ==
    /\ db \in Databases
    /\ \A i \in Ids : rows[i] # NoRow => DOMAIN rows[i] = DOMAIN Table(db)
    /\ sent \in Seq(Messages)
    /\ since <= line /\ line <= Len(sent)
    /\ pc \in {"down", "ready", "writing"} \cup Outcomes
    /\ pc # "down" => snapshot \in Databases
    /\ pc = "writing" => sent[line].tool \in {"mutate", "publish"} /\ held.db \in Databases
    /\ \A n \in 1..Len(answers) : answers[n].to \in 1..line
    /\ failures \in Nat /\ changes \in Nat

----------------------------------------------------------------------------
(* The process and the agent.                                              *)

\* The schema of the table is read: it is kept as that of the database.
Start ==
    /\ pc = "down"
    /\ pc' = "ready"
    /\ snapshot' = db
    /\ since' = line
    /\ UNCHANGED <<db, rows, audit, sent, line, answers, held, failures, changes>>

Complete(m) == m.tool \in DOMAIN Requires /\ Requires[m.tool] \subseteq m.given

IsCreate(m) == m.tool = "mutate" /\ m.target = NoId

FreeIds == {i \in Ids : rows[i] = NoRow}

\* Lines the process has still to do with.
Open == {n \in DOMAIN sent : n > line \/ (n = line /\ pc = "writing")}

\* Bounds: lines, and creations while there are ids for them.
InBounds(m) ==
    /\ Len(sent) < MaxLines
    /\ IsCreate(m) =>
          Cardinality({n \in Open : IsCreate(sent[n])}) < Cardinality(FreeIds)

\* Serve returns at the end of its input: the agent has closed it.
EndOfInput ==
    /\ pc = "ready" /\ line = Len(sent)
    /\ pc' = "down"
    /\ UNCHANGED <<outside, store, line, answers, held, failures>>

\* Lines may be sent before the earlier ones are answered.
Send(m) ==
    /\ pc # "down"
    /\ InBounds(m)
    /\ sent' = Append(sent, m)
    /\ UNCHANGED <<db, rows, audit, line, since, answers, pc, snapshot, held, failures, changes>>

\* The process is killed, or ends as its stdout is closed: the lines it has not read
\* are lost with its stdin, and so is the answer it still had to give.
Crash ==
    /\ pc # "down"
    /\ failures < MaxFailures
    /\ failures' = failures + 1
    /\ pc' = "down"
    /\ sent' = SubSeq(sent, 1, line)
    /\ held' = NoRecord
    /\ UNCHANGED <<db, rows, audit, line, since, answers, snapshot, changes>>

----------------------------------------------------------------------------
(* One line.                                                               *)

Reply(to, kind, found) ==
    answers' = Append(answers, [to |-> to, kind |-> kind, found |-> found])

\* MUTANT of Respond: an answer has the number of the line before.
RespondToPrevious(m, kind, found) ==
    IF m.hasId \/ kind = "error" THEN Reply(line, kind, found) ELSE UNCHANGED answers

\* MUTANT of Respond: every line is answered.
RespondToAll(m, kind, found) == Reply(line', kind, found)

\* Serve writes an answer if the request has an id, or the answer is an error.
Respond(m, kind, found) ==
    IF m.hasId \/ kind = "error" THEN Reply(line', kind, found) ELSE UNCHANGED answers

IsCall(m) == m.method = "tools/call"

Handles(m) == pc = "ready" /\ line < Len(sent) /\ sent[line + 1] = m

Take(m) == Handles(m) /\ line' = line + 1

\* A line that is no JSON, a method that is not known, parameters that do not
\* parse: an error, also to a notification.  initialize, ping and tools/list
\* answer from constants; notifications/initialized has nothing to answer.
Control(m) ==
    /\ Take(m)
    /\ \/ m.method \in {"garbled", "unknown", "initialize", "ping", "tools/list",
                        "notifications/initialized"}
       \/ IsCall(m) /\ m.tool = "unparsable"
    /\ Respond(m, IF IsCall(m) \/ m.method \in {"garbled", "unknown"} THEN "error" ELSE "result", 0)
    /\ UNCHANGED <<outside, store, pc, held, failures>>

\* A line of more than 10 MB ends the process.
Oversized(m) ==
    /\ Take(m)
    /\ m.method = "oversized"
    /\ pc' = "down"
    /\ sent' = SubSeq(sent, 1, line + 1)
    /\ UNCHANGED <<db, store, since, answers, snapshot, held, failures, changes>>

Calls(m, tool) == Take(m) /\ IsCall(m) /\ m.tool = tool /\ Complete(m)

\* Arguments are missing, or no resource or tool has that name.
RefuseArguments(m) ==
    /\ Take(m)
    /\ IsCall(m) /\ m.tool # "unparsable" /\ ~Complete(m)
    /\ Respond(m, "toolError", 0)
    /\ UNCHANGED <<outside, store, pc, held, failures>>

\* cms_schema_drift: the definitions against the schema read at the start.
SchemaDrift(m) ==
    /\ Calls(m, "drift")
    /\ Respond(m, IF ValidateSucceeds({Definition}, Schema[snapshot]) THEN "result" ELSE "toolError", 0)
    /\ UNCHANGED <<outside, store, pc, held, failures>>

\* List of the audit repository: both columns are compared, whatever is asked.
AuditsFound(target) == {n \in 1..Len(audit) : audit[n].id = target}

AuditSearch(m) ==
    /\ Calls(m, "search")
    /\ Respond(m, "result", Cardinality(AuditsFound(m.target)))
    /\ UNCHANGED <<outside, store, pc, held, failures>>

\* Reading takes every column, and a row as it is.
GetTaken(target) == target \in Ids /\ rows[target] # NoRow /\ "id" \in DOMAIN Table(db)

ListOrGet(m) ==
    /\ \/ /\ Calls(m, "list")
          /\ Respond(m, IF ListTaken(Definition, Table(db), DOMAIN m.data # {})
                        THEN "result" ELSE "toolError", 0)
       \/ /\ Calls(m, "get")
          /\ Respond(m, IF GetTaken(m.target) THEN "result" ELSE "toolError", 0)
    /\ UNCHANGED <<outside, store, pc, held, failures>>

\* A statement of a reading tool, or the read of a change, fails.
ReadFails(m) ==
    /\ Take(m)
    /\ IsCall(m) /\ Complete(m) /\ m.tool \in {"search", "list", "get", "mutate", "publish"}
    /\ m.tool = "mutate" => m.target # NoId
    /\ failures < MaxFailures
    /\ failures' = failures + 1
    /\ Respond(m, "toolError", 0)
    /\ UNCHANGED <<outside, store, pc, held>>

Refused(m) == Respond(m, "toolError", 0) /\ UNCHANGED <<pc, held>>

\* What Update stores of the record that was read; a transition changes no field.
Changed(m, base) == IF m.tool = "mutate" THEN Merge(base, m.data) ELSE base

Hold(m, data, row) ==
    /\ pc' = "writing"
    /\ held' = [data |-> data, row |-> row, db |-> db]
    /\ UNCHANGED answers

\* cms_content_mutate without an id.
BeginCreate(m) ==
    /\ Calls(m, "mutate") /\ IsCreate(m)
    /\ IF HasRequired(Definition, m.data) THEN Hold(m, m.data, NoRow) ELSE Refused(m)
    /\ UNCHANGED <<outside, store, failures>>

\* cms_content_mutate with an id: the row is read before the fields are checked.
BeginUpdate(m) ==
    /\ Calls(m, "mutate") /\ m.target # NoId
    /\ IF GetTaken(m.target) /\ HasRequired(Definition, m.data)
       THEN Hold(m, Changed(m, Scan(Definition, Table(db), rows[m.target])), rows[m.target])
       ELSE Refused(m)
    /\ UNCHANGED <<outside, store, failures>>

\* cms_content_publish: publish, unpublish or finish; the status of the row or of
\* its prerequisite may stand against it.
BeginTransition(m) ==
    /\ Calls(m, "publish")
    /\ \/ /\ Definition.managed /\ GetTaken(m.target)
          /\ Hold(m, Changed(m, Scan(Definition, Table(db), rows[m.target])), rows[m.target])
       \/ Refused(m)
    /\ UNCHANGED <<outside, store, failures>>

----------------------------------------------------------------------------
(* The transaction of a change.                                            *)

Current == sent[line]
Creates == IsCreate(Current)

\* The statement is taken; that of an update finds its row by the id that was read.
Taken ==
    IF Creates THEN InsertTaken(Definition, Table(db), held.data)
    ELSE /\ UpdateTaken(Definition, Table(db), held.data)
         /\ Suits(Table(held.db), {"id"})
         /\ rows[Current.target] # NoRow

Unsure == Doubtful(Definition, Table(db), IF Creates THEN InsertOwn ELSE UpdateOwn)

\* Row and audit entry are committed together.
Commit(i) ==
    /\ rows' = [rows EXCEPT ![i] =
                  IF Creates THEN InsertedRow(Definition, Table(db), held.data)
                  ELSE UpdatedRow(Definition, rows[i], held.data)]
    /\ audit' = Append(audit, [call |-> line, id |-> i])

Written == IF Creates THEN FreeIds ELSE {Current.target}

\* The transaction has ended; its outcome is not written to stdout yet.
Finish(outcome) ==
    /\ pc = "writing"
    /\ pc' = outcome
    /\ line' = line
    /\ held' = NoRecord
    /\ UNCHANGED <<outside, answers>>

Write ==
    /\ pc = "writing" /\ Taken
    /\ \E i \in Written : Commit(i)
    /\ Finish("result")
    /\ UNCHANGED failures

\* MUTANT of WriteRefused: the audit entry is not part of the transaction.
WriteRefusedLogged ==
    /\ pc = "writing"
    /\ ~Taken \/ Unsure
    /\ Finish("toolError")
    /\ \E i \in Written : audit' = Append(audit, [call |-> line, id |-> i])
    /\ UNCHANGED <<rows, failures>>

WriteRefused ==
    /\ pc = "writing"
    /\ ~Taken \/ Unsure
    /\ Finish("toolError")
    /\ UNCHANGED <<store, failures>>

\* A statement fails, or COMMIT does: then it may still have been carried out.
WriteFails ==
    /\ pc = "writing"
    /\ failures < MaxFailures
    /\ failures' = failures + 1
    /\ \/ UNCHANGED store
       \/ Taken /\ \E i \in Written : Commit(i)
    /\ Finish("toolError")

\* The answer to a change, for which the process must have lived until now.
Answer ==
    /\ pc \in Outcomes
    /\ pc' = "ready"
    /\ line' = line
    /\ Respond(Current, pc, 0)
    /\ UNCHANGED <<outside, store, held, failures>>

----------------------------------------------------------------------------
(* Others.                                                                 *)

\* A migration that the rows allow: new columns are filled, old ones go.
Migrated(row, table) ==
    [c \in DOMAIN table |-> IF c \in DOMAIN row THEN row[c]
                            ELSE IF table[c].default THEN Opaque ELSE Null]

Migrate ==
    /\ changes < MaxChanges
    /\ changes' = changes + 1
    /\ \E d \in Databases \ {db} :
          /\ db' = d
          /\ rows' = [i \in Ids |-> IF rows[i] = NoRow \/ DOMAIN Table(d) = {} THEN NoRow
                                    ELSE Migrated(rows[i], Table(d))]
          /\ \A i \in Ids : rows'[i] # NoRow =>
                \A c \in DOMAIN rows'[i] : rows'[i][c] = Null => Table(d)[c].nullable
    /\ UNCHANGED <<audit, sent, line, since, answers, pc, snapshot, held, failures>>

\* An editor elsewhere deletes a row, or writes a field's column.
EditElsewhere(i) ==
    /\ changes < MaxChanges
    /\ changes' = changes + 1
    /\ rows[i] # NoRow
    /\ \/ rows' = [rows EXCEPT ![i] = NoRow]
       \/ \E n \in DOMAIN Definition.fields \ {"id"} :
             LET c == Definition.fields[n].column IN
             /\ c \in DOMAIN rows[i] /\ rows[i][c] # Opaque
             /\ rows' = [rows EXCEPT ![i] = [@ EXCEPT ![c] = Opaque]]
    /\ audit' = Append(audit, [call |-> 0, id |-> i])
    /\ UNCHANGED <<db, sent, line, since, answers, pc, snapshot, held, failures>>

Handle(m) ==
    \/ Control(m) \/ Oversized(m) \/ RefuseArguments(m) \/ SchemaDrift(m)
    \/ AuditSearch(m) \/ ListOrGet(m) \/ ReadFails(m)
    \/ BeginCreate(m) \/ BeginUpdate(m) \/ BeginTransition(m)

Next ==
    \/ Start \/ EndOfInput \/ Crash \/ Migrate
    \/ \E i \in Ids : EditElsewhere(i)
    \/ \E m \in Messages : Send(m) \/ Handle(m)
    \/ Write \/ WriteRefused \/ WriteFails \/ Answer

Spec == Init /\ [][Next]_vars

----------------------------------------------------------------------------
(* Properties.                                                             *)

\* The agent can tell the answers apart by their order: they come in the order of
\* the lines, every request with an id that the process is done with has one,
\* and a line without an id has none but an error's (server.go:75-80).
AnswersInOrder ==
    /\ \A j, k \in DOMAIN answers : j < k => answers[j].to < answers[k].to
    /\ pc # "down" =>
          \A n \in (since + 1)..(IF pc = "ready" THEN line ELSE line - 1) :
             sent[n].hasId => \E j \in DOMAIN answers : answers[j].to = n
    /\ \A j \in DOMAIN answers : ~sent[answers[j].to].hasId => answers[j].kind = "error"

Entries(n) == {e \in DOMAIN audit : audit[e].call = n}

Mutates(m) == IsCall(m) /\ Complete(m) /\ m.tool \in {"mutate", "publish"}

\* The audit log tells what the agent did: a call leaves at most one entry, a
\* reading call none, a change that was answered has its entry, and one that was
\* refused has none unless a statement or the process failed (service.go:164-178).
AnswersAgreeWithAudit ==
    /\ \A n \in 1..line :
          /\ Cardinality(Entries(n)) <= 1
          /\ Entries(n) # {} => Mutates(sent[n])
    /\ \A j \in DOMAIN answers : Mutates(sent[answers[j].to]) =>
          /\ answers[j].kind = "result" => Entries(answers[j].to) # {}
          /\ answers[j].kind # "result" /\ failures = 0 => Entries(answers[j].to) = {}

\* The step that ends the change of an existing row with a commit.
ChangeCommits == pc = "writing" /\ pc' \in Outcomes /\ audit' # audit /\ ~Creates

\* The end of a change, when nobody touched the row or the table in between and no
\* column shadows a field.
UnnamedKept ==
    ChangeCommits /\ held.row = rows[Current.target] /\ held.db = db
        /\ NoShadowing(Definition, Table(db)) =>
    \A n \in DOMAIN Definition.fields :
        LET c == Definition.fields[n].column IN
        \/ Current.tool = "mutate" /\ n \in DOMAIN Current.data /\ ~Definition.fields[n].readonly
        \/ c \notin DOMAIN Table(db)
        \/ rows'[Current.target][c] = rows[Current.target][c]

\* A change writes back the whole record that was read; still only the fields the
\* agent named differ, and never a readonly one (content_repository.go:158-167).
UnnamedFieldsStay == [][UnnamedKept]_vars

\* The arguments of the call are values its fields' columns take.
ArgumentsFit ==
    \A n \in DOMAIN Current.data \cap DOMAIN Definition.fields :
        Definition.fields[n].column \in DOMAIN Table(db) =>
            Fits(Table(db)[Definition.fields[n].column], Current.data[n])

\* The end of a change with proper arguments, on a table that fits the definition
\* and has what the statements need besides; the row is there, the table is the one
\* it was read from and no statement failed.
CarriedOut ==
    /\ pc = "writing" /\ pc' \in Outcomes /\ failures' = failures
    /\ IsValid(Definition, Schema[db]) /\ Adequate(Definition, Table(db))
    /\ NoShadowing(Definition, Table(db))
    /\ held.db = db /\ ArgumentsFit
    /\ Creates \/ rows[Current.target] # NoRow
    => audit' # audit

\* What a passed validation is worth: such a change is not refused
\* (validator.go:39-125, content_repository.go:114-199).
AdequateTablesTakeChanges == [][CarriedOut]_vars

\* "Optional target record ID to filter by" (server.go:167): without it, a search
\* finds every entry of the resource.
SearchFindsTheResource ==
    [][\A m \in Messages :
          AuditSearch(m) /\ m.target = NoId /\ m.hasId =>
             answers'[Len(answers')].found = Len(audit)]_vars

============================================================================
