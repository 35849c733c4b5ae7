# A verification project for gohcms

gohcms is a headless CMS in Go. It keeps records of user-defined resources in
PostgreSQL (or, in demo mode, in a JSON file), moves them through a lifecycle
of draft, published and finished, and writes a revision and an audit entry for
every mutation. The REST API, the admin pages, an MCP server for agents and
batch jobs all mutate records through one service.

This directory holds TLA+ modules that model that program, the TLC
configurations that check them, and theorems that TLAPS proves about them.

## Inventory

| Component | State it keeps | Operations | Interacts by |
|---|---|---|---|
| content lifecycle, records (`pkg/content/lifecycle.go`, `model.go`, `audit.go`, `revision.go`) | none | `CanTransition`, field access | called by the service |
| content service (`pkg/content/service.go`) | none of its own | Get, List, Create, Update, Publish, Unpublish, Finish, Delete | reads on the repository, writes in `UnitOfWork.Execute` |
| PostgreSQL adapter (`internal/adapter/postgres/content_repository.go`) | the resource's table, `cms_revisions`, `cms_audit_logs` | the repositories' operations, transactions | the database: row locks, keys, commit |
| memory store (`pkg/content/memory.go`) | maps and slices behind one mutex each | the same operations, no transaction | shared memory |
| demo file store (`pkg/content/filestore.go`, `demo_seeder.go`) | a cache per process and one JSON file | the same operations, reload and save | a file that serve, mcp and job share |
| scheduled publishing (`pkg/job/publish_scheduled.go`, `runner.go`) | none | one run: list the drafts, publish the due ones | the content service |
| media library (`pkg/media/*`, `media_repository.go`) | files and `cms_media` | Upload, Get, List, Delete, OpenFile | file system, database, audit log; no transaction |
| API keys (`pkg/auth/service.go`, `model.go`, `auth_repository.go`; `memory.go` in demo mode) | `cms_api_keys` | CreateKey, RevokeKey, ListKeys, ValidateToken | database, audit log; no transaction |
| HTTP admission (`pkg/auth/middleware.go`, `csrf.go`) | configuration | accept or refuse a request | wraps the handlers |
| REST router (`pkg/api/router.go`), media handlers (`pkg/media/handler.go`) | none | method and path to service call, one answer | goroutine per request |
| admin server (`internal/admin/server.go`) | templates | pages and form posts to service calls | goroutine per request |
| MCP server (`pkg/mcp/server.go`, `cmd/cms/mcp.go`) | the schema read at its start | JSON-RPC requests to service calls, one after the other | stdin and stdout |
| schema definitions (`pkg/schema`), validator (`pkg/validator`), introspection (`pkg/introspection`, `inspector.go`) | none | parse definitions, read a database schema, check one against the other | the statements of the PostgreSQL adapter are made from both |
| OpenAPI generator (`pkg/openapi`) | none | the document of the REST API | read by clients of the router |
| scaffold, command line, example | none | writing template files, wiring | |

What is hard in this code:

- **Concurrency.** Requests run in goroutines, jobs and the MCP server in
  processes of their own. The service reads a record *outside* the transaction
  in which it writes it back whole, with no lock and no version check.
- **Failure.** A statement, a commit or a process can fail between the row, the
  revision and the audit entry. PostgreSQL rolls back; the memory store, the
  media library and the API keys have no transaction.
- **Order.** The trail must tell the history in the order in which it happened.
- **Several processes on one file** in demo mode: caches, modification times
  and a file that is rewritten in place.
- **Repetition.** A job that runs again or twice at once; a transition to the
  status a record already has is legal.
- **Revocation while in use.** A key is looked up once, when its request arrives;
  keys are made, shown and revoked while requests with them are under way.
- **Three descriptions of one table.** The definition, the schema read at the start
  and the table of now: a migration changes the third only.

What makes each component correct:

- content service: row, revisions and audit log tell one history; every
  transition is legal; a publish has a published prerequisite; versions count up;
  what was answered is recorded; every request ends.
- stores: each implements the service's contract, or the difference is known.
- scheduled publishing: every due draft that can be published is, in the end,
  and once.
- media: every listed item has its file; a file without an item comes only from
  a failure.
- API keys, admission and routes: whoever is served was granted it, by whichever
  area of whichever role; whoever is turned away lacks something; the audit log
  follows the keys up to the failures.
- MCP server: one answer in its place for each request with an id, and what the
  agent was told is what the audit log knows.
- validator and statements: what passes can be written, and a change leaves the
  fields it does not name alone; the schema of demo mode always passes.
- REST API: its answers are those of the OpenAPI document.

## Modules

```
ContentRecords             values and pure functions of the service
 |- ContentContract        what the core promises: one atomic step per call
 |   |- ContentContractProofs   the contract keeps its invariants
 |   |- ContentPostgres         the service over PostgreSQL, step by step
 |   |   |- ContentPostgresAlone     ... watched for calls that overlap no other
 |   |   |- ContentPostgresProofs    it implements the contract
 |   |- ContentMemory           the service over the memory store
 |   |   |- ContentMemoryAlone       ... watched for calls that overlap no other
 |   |   |- ContentMemoryProofs      what no interleaving loses
 |- DemoFileStore          processes over one demo file
 |   |- DemoFileStoreProofs     what one process up at a time keeps
 |- ScheduledPublish       the job over the service
 |   |- ScheduledPublishProofs   what it publishes was due
MediaLibrary               files, rows and audit log of uploads
 |- MediaLibraryProofs     its properties, for any number of sessions
Admission, Routes          decisions on one request: may it pass, where does it go
 |- HttpServer             the servers of the three roles over keys and records
 |   |- HttpServerProofs        its properties, for any keys and requests
SchemaValidator            definitions, tables, the validator and the statements
 |- McpServer              an agent's session over one table
 |   |- McpServerProofs         its properties, and what these promise each other
```

`MC<module>` gives a module its model values for TLC; `ContentPostgresAlone` and
`ContentMemoryAlone` add a history variable that tells which calls overlapped no other. In
each module a definition headed MUTANT is the preceding or following definition with a
plausible bug, used to see that a property can fail; no specification uses it.

**ContentRecords** (lifecycle.go, model.go, audit.go, the computing parts of
service.go). A record has the two fields the service itself looks at, a required
field (`title`) and the prerequisite (`dep`, the code's `depends_on`), its status
and its version. `Proposal` is the record an operation hands to the store,
`Refused` and `RefusedUnread` its early returns, `Stored` what `scanRecord`
gives back: status and version only for a managed lifecycle. A nil, empty or
missing required value is one value, `Absent`, since `validateRequiredFields`
treats them alike. An id the client does not give is a fresh UUID in the code;
here any id may be chosen, the free ones among them.

**ContentContract** has one atomic action per operation, on three tables by id.
It is parameterised by the record a call is computed from and by how the
prerequisite's status is known, which gives two specifications. `SerialSpec`:
both are current. `SnapshotSpec`: the record is some revision committed before,
the prerequisite was published at some time. The properties of the tables are
stated here, for every store.

**ContentPostgres** is the service over the PostgreSQL adapter. A session is a
goroutine (of any process) that serves a request:

| Action | Code |
|---|---|
| `Accept` | the handler calls the service; validation and the managed check before any read |
| `ReadExisting` | `s.repo.Get` on the pool and the decisions on its result |
| `CheckDependency` | `checkDependencies`, a second read on the pool |
| `InsertRow`, `UpdateRow`, `DeleteRow` | the row write in the transaction of `Execute`; waits for the row's lock |
| `InsertRevision`, `InsertAudit` | `txRev.Insert`, `txAudit.Insert`: of the row the write returned, or of the record read before a delete |
| `Commit` | `tx.Commit`; the three tables change at once |
| `CommitUnacknowledged` | the commit took effect, the call returns an error |
| `StatementFails` | any statement fails at any step; the deferred rollback |
| `Answer` | the handler writes its response |
| `Crash` | a process dies with its sessions; the database rolls back |

`pc` is where the session stands, `held` the `*Record` it holds, `pend` the
uncommitted writes of its transaction. PostgreSQL is not under `src/`: its row
locks, its primary key, READ COMMITTED reads and its commit are modelled from how
the adapter uses them. An UPDATE that waits for a lock and finds the row deleted
reports no row; an INSERT waits for a transaction that wrote the same key.

**ContentMemory** is the same service over `MemoryContentRepository`,
`MemoryRevisionRepository`, `MemoryAuditRepository` and `MemoryUnitOfWork`. There
is no transaction, so `StoreRow` or `DeleteRow`, `InsertRevision` and
`InsertAudit` are steps that other requests run between; nothing fails, and the
row write inserts or replaces whatever is there. The process keeps everything in
memory, so a crash is the initial state.

**DemoFileStore** is the demo mode: `gohcms serve`, `mcp` and `job` started with
`--demo`, over `FileBackedContentRepository`.

| Action | Code |
|---|---|
| `Start`, `Stop` | `NewFileBackedContentRepository`; the process ends or dies |
| `Stat`, `ReadFile` | `reloadIfModified`, before every operation: `os.Stat`, then read and decode |
| `ListToSeed`, `Seed` | `SeedDemoData` lists; its calls become the process's `script` |
| `Accept`, `ReadExisting`, `CheckDependency` | the service, on the cache |
| `StoreRow` | the map is changed and `os.WriteFile` truncates the file, if it can open it |
| `WriteFile`, `RememberModTime` | the records are written; `os.Stat` after the write |

`cache` and `lastModTime` are the repository's fields, `file` the shared file:
`HalfFile` stands for anything that does not decode. Every error of these file
operations is dropped by the code, so each of them may fail and the process goes on:
a look or a read that fails leaves it with what it has in memory, a write that fails
leaves the file as it was or half written, and the call is answered with success.
`unsaved` records that the last save left something else than what was stored,
`disturbed` the cases in which the code keeps nothing (two processes up at once; one
that ends in a save or after its last one failed; one that could not look at or read
a file that differs from its memory). Revisions and audit log are kept in each
process's memory and left out.

**ScheduledPublish** is `PublishScheduledJob.Run` over the service's Publish:
`Begin` takes the time, `List` reads one page and keeps the due drafts in `queue`,
then each is published by `ReadExisting`, `CheckDependency` and `Write`. `Fail` is
an error of a statement, which the job reports and passes over; `Die` ends the
process. Editors change rows by `Reschedule`, `Transit` and `Delete`, one atomic
call each. Rows keep prerequisite, status and `published_at`.

**MediaLibrary** is `media.Service` over `LocalStorage` and
`PostgreSQLMediaRepository`, or over both in memory (`wiring`).

| Action | Code |
|---|---|
| `Accept` | the handler calls Upload (with a fresh uuid), Delete or OpenFile; an upload without a file name is refused there and leaves nothing |
| `CreateFile`, `CopyFile` | `Storage.Save`: `os.Create`, `io.Copy` |
| `InsertRow`, `CleanUp` | `repo.Insert`; `storage.Delete` when it failed |
| `ReadRow`, `OpenFile` | `repo.Get`; `storage.Open` |
| `RemoveFile`, `DeleteRow` | `storage.Delete`; `repo.Delete` |
| `InsertAudit` | `auditRepo.Insert`, its error dropped |
| `StepFails`, `Crash` | any step's error, where a failed statement may have been executed; the process dies |

**Admission** is `pkg/auth` as decisions on one request: `ValidToken` and
`TokenRefusal` (`ValidateToken`, and the 401 or 403 of the middleware),
`PassesWithoutKey` (`APIKeyMiddleware` before it looks at the stored keys),
`BasicAuthAllows`, and `CSRFAllows` with `HostAndSchemeMatch` (`csrf.go`). Headers
are model values; hosts are compared as the code does, without port and case.

**Routes** is `pkg/api/router.go`, `pkg/media/handler.go` and the mux of
`internal/admin/server.go` as tables: a path is known by its shape, a route says
which call it leads to and which answers the call's success and its errors have.
`Area` is the split into REST API, Admin UI and unprotected paths by role, and
`Documented` the calls and answers of the OpenAPI generator.

**HttpServer** puts both in front of `cms_api_keys`, its audit log and the records.
A session is a goroutine that serves one request of one role:

| Action | Code |
|---|---|
| `Arrive` | the middleware up to the first statement; routing |
| `LookupKey`, `LookupFails` | `GetByHash` and `ValidateToken` |
| `ServeContent`, `ContentFails` | one call of the content service (ContentContract), its answer |
| `ServeElse` | pages, the OpenAPI document, the media store |
| `RefuseUnnamedKey`, `InsertKey`, `InsertKeyFails` | `CreateKey`: the name, the insert or its lost answer |
| `AuditKey`, `ListKeys` | the audit entry whose error is dropped; the page that shows the token once |
| `RevokeKey`, `RevokeKeyFails`, `AuditRevoke` | `RevokeKey`: the update, the entry |
| `Crash` | the server dies, or the client goes away |

`shown` are the keys whose token somebody has seen (nobody can send another),
`retired` those whose revocation was answered; `late` says that a session's key
was retired before its request arrived.

**SchemaValidator** has no state. `ValidDefinition` is `Resource.Validate`,
`IsValid` and `ValidateAll` the validator, `ReadSchema` what the inspector reads,
`IsMockTable` the schema of demo mode. A statement of the adapter is known by the
columns it names and the values it gives them: `InsertTaken` and `UpdateTaken` say
when the database takes it, `InsertedRow` and `UpdatedRow` what the row becomes,
`Scan` what `scanRecord` reads back, `Merge` the loop of Update. The columns the
adapter fills on its own must have a type it can fill (`Suits`): `id` takes a UUID's
text and is kept in the record only if it is read as a string, `updated_at` takes
`NOW()`. Of some types that is certain (`CertainTypes`), of others a length or a type
of the database's own decides (`PossibleTypes`), and then both outcomes are allowed;
a `bigint` id refuses every creation and every change. Unique columns, checks,
references, generated columns and lengths are left out. A value is one a column
takes, `Null`, or `Misfit`. `Adequate` and `NoShadowing` are what the validator does
not look at and the statements need.

**McpServer** is `cms mcp`: one process that reads the schema at its start and then
handles the agent's lines one after the other.

| Action | Code |
|---|---|
| `Start`, `EndOfInput`, `Crash`, `Oversized` | `runMCP`; the loop of `Serve` ends, is killed, or meets a line over 10 MB |
| `Send` | the agent; lines may be sent ahead of their answers |
| `Control`, `RefuseArguments` | what is answered without a tool |
| `SchemaDrift`, `AuditSearch`, `ListOrGet`, `ReadFails` | the reading tools |
| `BeginCreate`, `BeginUpdate`, `BeginTransition` | `cms_content_mutate` and `cms_content_publish` up to the transaction |
| `Write`, `WriteRefused`, `WriteFails` | the transaction commits, is refused by the table, or fails |
| `Answer` | the outcome is written to stdout; the process may have died after the commit |
| `Migrate`, `EditElsewhere` | a migration; another editor of the same rows |

`held` is the record read for a change with the row it was read from, `snapshot`
the schema of the start, `since` the last line of an earlier process.

## Runs

Constants are small sets of model values. Every bound is named `Max...` and is
commented where it is declared.

| Run | Question | Bounds |
|---|---|---|
| `postgres_concurrent` | two requests at once: do row, revisions and audit log stay in step, is every call one atomic step, on the *current* record as long as no calls overlap? | 2 sessions, 2 records of which one may depend on the other, 4 mutations |
| `postgres_liveness` | does every request end? | 2 sessions, 1 record that may name itself as its prerequisite, 4 mutations |
| `race_status` | does a row follow the lifecycle when calls overlap? No. | 2 sessions, 1 record |
| `memory_concurrent` | what holds of row, revisions and audit log although three steps write them, and is a call that ran alone the contract's? | 2 sessions, 2 records, 4 mutations |
| `demo_shared` | processes that share the demo file, seed it and die, with file operations that fail: what is never lost? | 2 processes, 2 records, 3 writes, a clock that may stand still; any number of starts, deaths and failing operations |
| `demo_lost_write` | does the file keep what was acknowledged when two processes save? No. | 2 processes, 3 writes, no failure |
| `job_busy` | two runs of the job, failures, editors: what does the job publish, and does a ready draft wait for ever? | 2 runners, 2 records, 2 edits, 1 failure, every initial schedule |
| `media` | uploads, deletes and deliveries with failing steps and crashes: when do files, rows and audit log disagree? | 2 sessions, 2 uploads, 2 failures |
| `http_server` | keys made, shown, used and revoked while requests are served: who is let through, who is turned away? | 2 sessions, 2 keys, all roles, 22 requests, 1 failure, 1 revocation of a key |
| `openapi_answers` | is a documented call answered as documented? No. | 1 session, the documented content calls on 1 record |
| `agent` | an agent's lines while the table is migrated and edited: what are its answers worth? | 7 schemas, 16 kinds of lines, 2 lines, 1 row, 1 failure, 1 change by others |
| `audit_search` | does a search without a record id find the resource's entries? No. | 2 lines, 1 row |

The bounds are enough for what the properties tell apart. Two sessions are all a
race on a row needs, as every step touches one record and the prerequisite of one
other; four mutations hold a create, two overlapping writes and a delete, or a
create again. Three writes of the demo file are one by each process and one after
both. Two failures let the clean-up after a failure fail. Two keys are one to be
revoked while the other is made. Two lines are one whose answer the other may not
take; a change needs the line that makes its row, or a row that was there. The
theorems below hold for any number. Where sessions or processes are
interchangeable the safety runs use their symmetry; runs with a liveness property
do not. No run turns the deadlock check off.

What they show.

- Over PostgreSQL nothing is ever half done: through failures, crashes and lost
  answers a row, its last revision and its audit log agree (`HeadMatchesTrail`),
  every call is one atomic step (`ImplementsSnapshotContract`), and a mutation that
  was answered is recorded (`AnsweredMutationIsRecorded`).
- What calls promise about the *current* record holds of a call that overlaps no
  other (`AloneImplementsSerialContract`), whatever failed before it, and breaks
  when two overlap (`race_status`).
- Over the memory store every revision has its audit entry in the end and every
  row its revision, transitions and prerequisites are legal, but the order of the
  trail need not be that of the rows.
- Half a demo file is never taken for an empty store, whatever is up and whatever
  fails. For one process at a time the file keeps every acknowledged write as long as
  saves succeed; a save that fails leaves the write in the memory of the process, which
  works on it and, as long as it can look at the file, does not undo it, until a later
  save succeeds. A process that ends
  before that, or in a save, loses it; and one that cannot read the file at its start
  takes the store for empty, seeds it and stores over it.
- The job publishes only what had its time come as a draft, though it may have
  been moved or published since; a ready draft is served as long as the page
  (1000 records) holds all drafts.
- Files and rows of the media library disagree only where a failure or a crash
  left them half done, acknowledged uploads are kept, and what the audit log
  calls deleted is gone.
- Nobody is served by an area of the server without its check, a key that is
  revoked when a request arrives never admits it, and one that is revoked later
  does not stop a request it admitted (`ServedRequestsWereGranted`). A key nobody
  has the token of cost a failure, and so did a missing audit entry.
- An agent gets its answers in order and can trust them: a change that was answered
  is in the audit log, and one that was refused is not, unless a statement failed.
  Each change may be committed and the process die before its answer. A table that
  passed the validator takes every proper change only if it has what the validator
  does not look at besides (`Adequate`, `NoShadowing`), an `id` that takes UUIDs and an
  `updated_at` that takes a time among that.

## Disagreements with what the repository says

Each of these is the violated property of a run:

- `race_status`: a stale update takes a row from finished to published
  (`service_test.go:208` calls that an invalid direct transition);
- `demo_lost_write`: a save of one process undoes another's (`filestore.go:22`);
- `openapi_answers`: update and delete of a record that is not there are answered
  with 400, the document gives 404 and no 400 (`generator.go:377`, `:389`);
- `audit_search`: the audit query compares the record id also when none was given,
  so a search of a resource finds nothing (`content_repository.go:321`; the memory
  store takes an empty id for all, and `server.go:167` calls it optional).

Others follow from the same causes, or directly from the code, and have no run.

Content:

- two updates that read one version take the same number, the second undoing
  the first (`service.go:136`), and a prerequisite withdrawn between check and
  commit leaves its dependent published (`service.go:254`);
- a record deleted and created again starts at version 1 with its old revisions
  in place, and without a managed lifecycle all revisions have version 0
  (`service.go:52`, `content_repository.go:252`; `revision.go:8`);
- over the memory store a create replaces the record that is there and an update
  brings a deleted one back (`memory.go:96`, `:106`), and the latest revision need
  not be the record (`memory.go:214`): `AloneHeadMatchesTrail` and
  `AloneImplementsSerialUpserts` break for calls that overlap;
- the error of `os.WriteFile` is dropped (`filestore.go:73`): with a full disk or
  without permission a write is answered with success and lost when the process ends;
  should `os.Stat` fail after it and after the save before it, the next operation reads
  the old file again and undoes it at once; errors of the look and the read are dropped as well
  (`filestore.go:46`, `:52`), so an unreadable file is taken for an empty store at the
  start and seeded over (`demo_seeder.go:20`);
- a process killed inside `os.WriteFile` leaves no readable copy
  (`filestore.go:73`), a process may take another's modification time for its own
  (`:74`), two processes may both seed (`demo_seeder.go:20`), and revisions and
  audit log are not in the file at all (`:15`): the `Alone...` properties of
  `demo_shared` break without the condition that gives them their name;
- with more drafts than one page the older ones may never be looked at
  (`publish_scheduled.go:66`; `ReadyDraftsAreServed` breaks with `PageLimit = 1`),
  and two runs may publish one record twice;
- List counts and selects in two statements, so total and page may disagree
  (`content_repository.go:72`);
- an upload, a delete or an API key whose audit insert fails has no entry
  (`pkg/media/service.go:64`, `pkg/auth/service.go:52`), and the entry of a
  revocation may come before that of the creation.

Definitions and tables:

- the adapter inserts a UUID as `id` and keeps a record's id only when it is read as a
  string (`content_repository.go:105`, `:246`), and the validator looks at `id` only as
  at any field: a field `id` of type `reference` on a `bigint` column validates (the
  schema `numbered` of the `agent` run), and every creation and change is refused;
- the validator does not ask for `id`, `created_at` and `updated_at`, which the
  adapter's statements name: the table `categories` of `examples/article/schema.sql`
  has neither timestamp, so its list and its updates fail over PostgreSQL although
  it validates; nor does it look at other columns that may not be null;
- a field on the status or version column, or two fields on one column, pass, and
  every write then names a column twice; so does a column named as a field that
  lives in another one, and then a change of another field overwrites it
  (`content_repository.go:282`);
- a required field `id` makes every change by an agent fail, as the id is no field of
  the call's data;
- the drift tool compares with the schema of the process's start, not with the
  database of now (`README.md:131`);
- in demo mode, two resources on one table overwrite each other's mock schema, and a
  resource named `media` cannot be reached behind the media handler.

Interfaces:

- a notification with an unknown method is answered with an error
  (`pkg/mcp/server.go:75`);
- a failing store is answered with 404 by the routes that read one record;
- the generated CreateInput leaves out readonly required fields, which the service
  demands;
- an admin form cannot clear a field, since empty values are dropped
  (`normalizeFormData`), and saving one drops the seconds of its times
  (`formatDateTimeLocal`);
- the lifecycle pages of the Admin UI take any method.

## Fairness

`ContentPostgres!FairSpec` assumes weak fairness of each session's own steps:
goroutines are scheduled and statements return. Failures, lost answers and
crashes are never required to happen. It assumes strong fairness of the row
write, which other sessions can disable by taking the lock: PostgreSQL queues the
waiters of a row lock in order, so a waiter is not passed over for ever. No two
transactions wait for each other, since each writes one row.

`ScheduledPublish!FairSpec` assumes weak fairness of each runner's steps, the
begin of a run among them: the scheduler the job is written for starts it again
and again, and its statements return or fail. Failures and edits are bounded and
never required.

## Proofs

`ContentContractProofs` proves that `SnapshotSpec` keeps `TableInv`, the
conjunction of the table properties, and that `SerialSpec` implies
`SnapshotSpec`. Each step of the contract changes one id by one row and one
entry (`Effect`), and each conjunct follows from that.

`ContentPostgresProofs` proves `Spec => ImplementsSnapshotContract`, `TypeOK` and
the table properties for every set of sessions, ids and payloads. The
properties are not inductive alone: the invariant `PgInv` adds what each session
knows. The record it holds is a revision of its id (`Based`), the checks it
passed were passed on that record and its prerequisite had been published
(`Cleared`), its uncommitted writes are exactly what the contract would write
(`Pending`), the row exists unless the request is a create, and no two open
transactions write the same id (`LocksExclusive`). Tables only grow, so what a
session knows stays true while others commit (`SessionFrame`); from `Pending` a
commit is one `AtomicCall` (`CommitIsAtomicCall`); and the contract's step
preserves `TableInv`.

For a call that overlaps no other it proves more: the call is a step of `SerialSpec`
(`PostgresAloneIsSerial`) and moves along the lifecycle (`PostgresAloneFollowsLifecycle`,
where the resource has a managed one: other resources have no status). `AloneInv` is
`PgInv`, that a lone mutation is the only one under way, and that what it read is still
the row and the prerequisite it checked still published.

`ContentMemoryProofs` proves every property of `memory_concurrent`. `Inv`: a record is
known from the moment its row is stored, before its revision is (`Known`: the revisions
and what requests that owe one hold), every row is known, every audit entry was legal on
a known record (`TrailJustified`), and each request knows of these what its step has
checked or written. That is stated as an operator of three sets that only grow
(`Knows`), so it lasts while others take steps (`KnowsLasts`). Once nothing is owed,
what is known is revised. `Paired` counts, for each record, revisions against audit
entries written and owed.

The two `Alone...` properties are about calls that overlapped no other mutation, and
need `AloneInv`: such a mutation is the only one under way, the record it read is the row
of now and its prerequisite is published now; after its row write the row is what it
holds, then the latest revision is, and when it is answered all three tables agree
(`Current`). Since three steps write what the contract writes in one, the tables are
compared as they will be once the only mutation is through (`SettledByOne`): the row
write is then the contract's step (`StoreRowIsUpsert`, `DeleteRowIsDelete`), and the
revision and the audit entry change nothing (`SettledStays`). `MemoryAloneIsSerial` has
the hypothesis that the lifecycle is managed. Without it, `Stored` in the contract drops
status and version as a scan of PostgreSQL does, and the memory store keeps them.

`ScheduledPublishProofs` proves the two safety properties of `job_busy`. What a run
queued was due when it listed, and `wasDue` never shrinks; what the job writes is
published and makes no record due. There is one lemma for every step of a run
(`RunnerMoves`), which the actions are instances of.

`DemoFileStoreProofs` proves every property of `demo_shared`. `ProcessInv` is what a
process knows by itself, whoever else writes: which step belongs to which request, and
that an update or a transition holds a record. Unless `disturbed`, one process is up at
most (`OneUp`), its cache is what was stored last once it has looked at the file
(`UpToDate`), what a failed save left in the file is not newer than what the process
remembers, so it is not read again (`Follows`), the record its request holds is the
one stored last (`Based`), the records there are while it seeds come from the calls
before the one it is at (`Seeding`), and the file has whatever nobody is in the middle
of saving unless the last save failed (`Saved`), in which case somebody is still up to
remember it. Reading never blanks a cache, whatever the
file holds and however many processes are up.

`MediaLibraryProofs` proves every property of the `media` run. `Inv` adds what a
request knows between two of its steps (`UploadKnows`, `LaterKnows`: an upload that
has copied its file has a whole one and no row yet, a delete that removed the file
still finds none), and whom it is alone with (`Alone`: nobody else uploads under its
uuid, and who asks for it before its row is inserted finds none). There is one
lemma per action with one step per conjunct.

`HttpServerProofs` proves every property of the `http_server` run. `Inv` adds what a
session knows of its request at each step (`RequestKnown`: one that is served has a
route, one that waits for its key presented it; `KeyKnown`: the key it makes has no
entry yet, the one it revokes is dead), that no two sessions make one key (`Apart`),
and that the keys nobody was shown and the keys without an entry are finite and no
more than the failures (`Counted`). Keys are never forgotten, never become active
again and keep their permission (`KeysGrow`), so what a session knows stays true while
others take steps (`OthersKeep`). Three facts about the tables need no behaviour:
`OriginIsChecked`, `RolesAreApart` and `DocumentedCallsAreRouted`.

The first part of `McpServerProofs` is about operators only: the schema of demo mode
passes the validator (`MockTablesValidate`), reading the named tables loses nothing
(`ReadTablesSuffice`), a valid and adequate table takes every insert and update with
proper values (`ValidTablesTakeInserts`, `ValidTablesTakeUpdates`), a field reads back
its own column (`FieldsReadTheirColumns`), and rows keep fitting their columns.

The second part proves every property of the `agent` run from these. `Inv` adds that
rows fit their columns (`RowsFit`), what is held of a record is what it was read as
(`Begun`), and that answers and audit entries are about lines that were handled, at
most one each (`Behind`, `Once`, `Told`), and that an outcome still to be answered is
what the audit log knows (`Owed`). The steps fall into four kinds, `Handled`, `Ended`,
`Answered` and `Elsewhere`: the invariant is proved of the kinds, and each action to be
of its kind. `UnnamedFieldsStay` needs one assumption on the definition: no two
fields live in one column.

The invariants were checked with TLC on small instances before they were proved.
Assumed are the constants' assumptions only, which TLC evaluates in the runs: sentinels
are distinct from what they stand beside, payloads and requests have their fields,
positions of columns are numbers; for the job, the bounds are numbers and a table has
finitely many records; for the demo file, the calls of the seeder create each record
once, and half a file is no snapshot. No other bound needs an assumption.

Only model-checked: `RequestsEnd` and `ReadyDraftsAreServed` (liveness and ENABLED are
out of the prover's reach), and the counterexamples of the four runs that expect one.

## Not modelled

- Actors, timestamps and other columns are carried along by the code and decide
  nothing. Generated SQL text, JSON, HTML and flags are formatting. Each id's
  revisions and audit entries are kept in insertion order; the code lists them by
  version and by timestamp.
- Pages and filters of List: the total beside a page is only shown to the caller.
- The runner's registry and the dry run of a job; the report it prints.
- Templates of the Admin UI, the reading of its forms and the options of reference
  fields: the two lossy conversions are stated above.
- The reading of YAML files (what a definition must hold is in `ValidDefinition`) and
  the schemas of answers in the OpenAPI document.
- The memory store of API keys: each operation is one access under a lock, and none
  can fail, which `HttpServer` without failures includes.
- The scaffold writes template files once, one after the other; the command line and
  the example wire the packages.

## Plan

Done: the content service over its three stores, the job, the media library, the
HTTP servers with their keys and routes, the validator and the MCP server, with a proof
of every safety property the runs check.

Left, in order of importance:

1. Proofs of what the repository says where it is true: `race_status` and
   `demo_lost_write` with the weakest condition under which they hold.
2. Two resources at once for `McpServer`, with the options of reference fields.
3. The admin forms: `normalizeFormData` over Update, as an operator over all small
   forms, with the fields it cannot clear.
