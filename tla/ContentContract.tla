-------------------------- MODULE ContentContract --------------------------
(**************************************************************************)
(* What the content core promises about its three tables, with each call  *)
(* as one atomic step: the row, the revision and the audit entry change   *)
(* together.  Two contracts:                                              *)
(*   - SerialSpec: a call works on the current record and the current     *)
(*     prerequisite, as the service's text reads for one caller;          *)
(*   - SnapshotSpec: a call works on some version of them that was        *)
(*     committed before, which is what is left under concurrency.         *)
(**************************************************************************)
EXTENDS ContentRecords, Sequences

VARIABLES
    rows,        \* the resource's table: the committed row or NoRow, by id
    revisions,   \* cms_revisions by id, in the order they were inserted
    auditLogs    \* cms_audit_logs by id, in the order they were inserted

tables == <<rows, revisions, auditLogs>>

TablesTypeOK ==
    /\ rows \in [Ids -> Record \cup {NoRow}]
    /\ revisions \in [Ids -> Seq(Record)]
    /\ auditLogs \in [Ids -> Seq(AuditEntry)]

TablesInit ==
    /\ rows = [id \in Ids |-> NoRow]
    /\ revisions = [id \in Ids |-> << >>]
    /\ auditLogs = [id \in Ids |-> << >>]

Log(id, op, snapshot) ==
    auditLogs' = [auditLogs EXCEPT
                    ![id] = Append(@, [op |-> op, snapshot |-> snapshot])]

Save(id, op, record) ==
    /\ rows' = [rows EXCEPT ![id] = record]
    /\ revisions' = [revisions EXCEPT ![id] = Append(@, record)]
    /\ Log(id, op, record)

Create(id, body) ==
    /\ HasRequired(body)
    /\ rows[id] = NoRow
    /\ Save(id, "create", Stored(NewRecord(body)))

Update(id, base, body) ==
    /\ HasRequired(body)
    /\ rows[id] # NoRow
    /\ Save(id, "update", Stored(Merged(base, body)))

\* met: the prerequisites taken to be published.
Transition(id, base, op, met) ==
    /\ Managed
    /\ rows[id] # NoRow
    /\ CanTransition(base.status, TargetStatus[op])
    /\ op = "publish" /\ base.dep # NoId => base.dep \in met
    /\ Save(id, op, Stored(Transitioned(base, op)))

Delete(id, base) ==
    /\ rows[id] # NoRow
    /\ rows' = [rows EXCEPT ![id] = NoRow]
    /\ Log(id, "delete", base)
    /\ UNCHANGED revisions

----------------------------------------------------------------------------
AtomicCall(id, bases, met) ==
    \/ \E body \in Payloads : Create(id, body)
    \/ \E base \in bases :
          \/ \E body \in Payloads : Update(id, base, body)
          \/ \E op \in TransitionOps : Transition(id, base, op, met)
          \/ Delete(id, base)

PublishedNow == {id \in Ids : rows[id] # NoRow /\ rows[id].status = "published"}

WasPublished(id) ==
    \E i \in DOMAIN revisions[id] : revisions[id][i].status = "published"

OncePublished == {id \in Ids : WasPublished(id)}

Snapshots(id) == {revisions[id][i] : i \in DOMAIN revisions[id]}

SerialNext == \E id \in Ids : AtomicCall(id, {rows[id]}, PublishedNow)
SnapshotNext == \E id \in Ids : AtomicCall(id, Snapshots(id), OncePublished)

SerialSpec == TablesInit /\ [][SerialNext]_tables
SnapshotSpec == TablesInit /\ [][SnapshotNext]_tables

----------------------------------------------------------------------------
(* What follows from SnapshotSpec, hence from SerialSpec.                  *)

Elements(seq) == {seq[i] : i \in DOMAIN seq}
Latest(seq) == seq[Len(seq)]

\* The table and the trail tell the same story at every moment: a live row is
\* the snapshot of its latest revision, and the audit log of an id ends with
\* a delete, or is empty, exactly when the row is gone (the three inserts of
\* service.go:69-113 share one transaction).
HeadMatchesTrailOf(id) ==
    /\ rows[id] # NoRow => /\ revisions[id] # << >>
                           /\ rows[id] = Latest(revisions[id])
                           /\ auditLogs[id] # << >>
                           /\ Latest(auditLogs[id]).op # "delete"
    /\ rows[id] = NoRow => \/ auditLogs[id] = << >>
                           \/ Latest(auditLogs[id]).op = "delete"

HeadMatchesTrail == \A id \in Ids : HeadMatchesTrailOf(id)

\* Versions are counted up from a committed record, even when calls race:
\* every version above 1 follows an earlier revision one below it
\* (service.go:136 and :261).
RevisionHistoryGapFree ==
    \A id \in Ids : \A i \in DOMAIN revisions[id] :
        revisions[id][i].version > 1 =>
            \E j \in 1..(i - 1) :
                revisions[id][j].version + 1 = revisions[id][i].version

\* A publish, unpublish or finish in the audit log was legal from a record
\* that was committed, one version below, and changed nothing but the status:
\* transitionStatus (service.go:238-311) never mixes two records.
TransitionsFromLegalBase ==
    \A id \in Ids : \A i \in DOMAIN auditLogs[id] :
        auditLogs[id][i].op \in TransitionOps =>
            \E j \in DOMAIN revisions[id] :
                /\ CanTransition(revisions[id][j].status,
                                 TargetStatus[auditLogs[id][i].op])
                /\ auditLogs[id][i].snapshot =
                      Transitioned(revisions[id][j], auditLogs[id][i].op)

\* Whatever was published with a prerequisite, the prerequisite had been
\* published at some time (checkDependencies, service.go:325-340).
PrerequisiteWasPublished ==
    \A id \in Ids : \A i \in DOMAIN auditLogs[id] :
        /\ auditLogs[id][i].op = "publish"
        /\ auditLogs[id][i].snapshot.dep # NoId
        => WasPublished(auditLogs[id][i].snapshot.dep)

\* The audit log of an id is a row of lifetimes: it opens with a create, a
\* create comes only first or after a delete, and nothing but a create
\* follows a delete.  No racing update or second delete gets in between.
AuditTellsLifetimes ==
    \A id \in Ids : \A i \in DOMAIN auditLogs[id] :
        auditLogs[id][i].op = "create" <=>
            (i = 1 \/ auditLogs[id][i - 1].op = "delete")

============================================================================
