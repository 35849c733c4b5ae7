----------------------- MODULE ContentPostgresProofs -----------------------
(**************************************************************************)
(* ContentPostgres implements SnapshotSpec, for any number of sessions,   *)
(* ids and payloads.  The inductive invariant says what each session      *)
(* knows at each step: what it holds was committed, the checks it passed  *)
(* were passed on that, its uncommitted writes are the ones the contract  *)
(* allows, and no two transactions write the same row.                    *)
(**************************************************************************)
EXTENDS ContentPostgresAlone, ContentContractProofs

\* The row a create, an update or a transition writes.
Written(s) == Stored(Proposal(req[s], held[s]))

\* What a session knows after its read: it holds a committed record, and
\* the request was not refused on it.
Based(s) ==
    /\ held[s] \in Snapshots(req[s].id)
    /\ ~Refused(req[s], held[s])

\* What a session knows before it writes.
Cleared(s) ==
    /\ req[s].op \in MutationOps
    /\ ~RefusedUnread(req[s])
    /\ req[s].op # "create" => Based(s)
    /\ req[s].op = "publish" /\ held[s].dep # NoId => WasPublished(held[s].dep)

\* The uncommitted writes at each step.
Pending(s) ==
    LET entry == [op |-> req[s].op,
                  snapshot |-> IF req[s].op = "delete"
                               THEN held[s] ELSE Written(s)]
        row   == IF req[s].op = "delete" THEN NoRow ELSE Written(s)
        saved == IF req[s].op = "delete" THEN << >> ELSE <<Written(s)>>
    IN  CASE pc[s] = "revising"   -> [row |-> row, revs |-> << >>, logs |-> << >>]
          [] pc[s] = "auditing"   -> [row |-> row, revs |-> saved, logs |-> << >>]
          [] pc[s] = "committing" -> [row |-> row, revs |-> saved, logs |-> <<entry>>]
          [] OTHER                -> NoWrites

SessionInv(s) ==
    /\ pc[s] # "idle" => req[s] \in Requests
    /\ pc[s] = "reading" => req[s].op # "create" /\ ~RefusedUnread(req[s])
    /\ pc[s] = "checking" => /\ req[s].op = "publish"
                             /\ ~RefusedUnread(req[s])
                             /\ Based(s)
                             /\ held[s].dep # NoId
    /\ pc[s] \in {"writing"} \cup InTransaction => Cleared(s)
    /\ pc[s] \in InTransaction =>
          (rows[req[s].id] = NoRow <=> req[s].op = "create")
    /\ pc[s] = "revising" => req[s].op # "delete"
    /\ pend[s] = Pending(s)
    /\ pc[s] = "ok" /\ req[s].op # "get" =>
          /\ [op |-> req[s].op, snapshot |-> held[s]]
                \in Elements(auditLogs[req[s].id])
          /\ held[s] \in Elements(revisions[req[s].id])

LocksExclusive ==
    \A s, t \in Sessions :
        s # t /\ pc[s] \in InTransaction /\ pc[t] \in InTransaction =>
            req[s].id # req[t].id

PgInv ==
    /\ TypeOK
    /\ TableInv
    /\ LocksExclusive
    /\ \A s \in Sessions : SessionInv(s)

----------------------------------------------------------------------------
(* Types.                                                                  *)

LEMMA RequestFields ==
    ASSUME NEW request \in Requests
    PROVE  /\ request.id \in Ids
           /\ request.op \in {"get"} \cup MutationOps
           /\ request.op \in {"create", "update"} => request.body \in Payloads
           /\ request # NoRequest
BY DEF Requests, MutationOps, TransitionOps, NoRequest

LEMMA ProposalCases ==
    ASSUME NEW request, NEW existing
    PROVE  /\ request.op = "create" =>
                 Proposal(request, existing) = NewRecord(request.body)
           /\ request.op = "update" =>
                 Proposal(request, existing) = Merged(existing, request.body)
           /\ request.op \in TransitionOps =>
                 Proposal(request, existing) = Transitioned(existing, request.op)
BY DEF Proposal, TransitionOps

\* A cleared request writes a record, and what it writes is what the contract
\* lets it write.
LEMMA WrittenType ==
    ASSUME TypeOK, NEW s \in Sessions, req[s] \in Requests, Cleared(s),
           req[s].op # "delete"
    PROVE  /\ Written(s) \in Record
           /\ req[s].op # "create" => held[s] \in Record
           /\ req[s].op \in {"create", "update"} => HasRequired(req[s].body)
<1>1. /\ req[s].id \in Ids
      /\ req[s].op \in {"create", "update"} \cup TransitionOps
      /\ req[s].op \in {"create", "update"} => req[s].body \in Payloads
  BY RequestFields DEF Cleared, MutationOps
<1>2. req[s].op # "create" => held[s] \in Record
  BY <1>1 DEF Cleared, Based, Snapshots, TypeOK, TablesTypeOK
<1>3. req[s].op \in {"create", "update"} => HasRequired(req[s].body)
  BY DEF Cleared, Based, Refused, RefusedUnread
<1>4. CASE req[s].op = "create"
  BY <1>1, <1>3, <1>4, ProposalCases, NewRecordType DEF Written
<1>5. CASE req[s].op = "update"
  BY <1>1, <1>2, <1>3, <1>5, ProposalCases, MergedType DEF Written
<1>6. CASE req[s].op \in TransitionOps
  <2>1. Proposal(req[s], held[s]) = Transitioned(held[s], req[s].op)
    BY <1>6, ProposalCases
  <2>2. QED
    BY <1>2, <1>3, <1>6, <2>1, TransitionedType DEF Written, TransitionOps
<1>7. QED
  BY <1>1, <1>2, <1>3, <1>4, <1>5, <1>6

----------------------------------------------------------------------------
(* A commit is one atomic call of the contract.                            *)

\* It works on the record the session holds, and on the prerequisite that one
\* names.
LEMMA CommitIsAtomicCall ==
    ASSUME PgInv, NEW s \in Sessions, pc[s] = "committing", MakeDurable(s),
           NEW bases, req[s].op # "create" => held[s] \in bases,
           NEW met, req[s].op = "publish" /\ held[s].dep # NoId => held[s].dep \in met
    PROVE  AtomicCall(req[s].id, bases, met)
<1> DEFINE id == req[s].id
           op == req[s].op
<1>1. /\ TypeOK /\ TablesTypeOK /\ SessionInv(s)
      /\ req[s] \in Requests /\ Cleared(s)
      /\ rows[id] = NoRow <=> op = "create"
      /\ pend[s] = Pending(s)
  BY DEF PgInv, TypeOK, SessionInv, InTransaction
<1>2. /\ id \in Ids
      /\ op \in MutationOps
      /\ op \in {"create", "update"} => req[s].body \in Payloads
  BY <1>1, RequestFields DEF Cleared
<1>3. revisions[id] \in Seq(Record) /\ auditLogs[id] \in Seq(AuditEntry)
  BY <1>1, <1>2 DEF TablesTypeOK
<1>4. CASE op = "delete"
  <2> DEFINE entry == [op |-> "delete", snapshot |-> held[s]]
  <2>1. held[s] \in Snapshots(id) /\ held[s] \in Record
    BY <1>1, <1>2, <1>3, <1>4 DEF Cleared, Based, Snapshots
  <2>2. pend[s] = [row |-> NoRow, revs |-> << >>, logs |-> <<entry>>]
    BY <1>1, <1>4 DEF Pending
  <2>3. /\ revisions[id] \o << >> = revisions[id]
        /\ auditLogs[id] \o <<entry>> = Append(auditLogs[id], entry)
    <3>1. entry \in AuditEntry
      BY <2>1 DEF AuditEntry, MutationOps
    <3>2. QED
      BY <1>3, <3>1
  <2>4. /\ rows' = [rows EXCEPT ![id] = NoRow]
        /\ revisions' = [revisions EXCEPT ![id] = revisions[id]]
        /\ auditLogs' = [auditLogs EXCEPT ![id] = Append(auditLogs[id], entry)]
    <3>1. /\ pend[s].row = NoRow
          /\ pend[s].revs = << >>
          /\ pend[s].logs = <<entry>>
      BY <2>2
    <3>2. /\ revisions[id] \o pend[s].revs = revisions[id]
          /\ auditLogs[id] \o pend[s].logs = Append(auditLogs[id], entry)
      BY <2>3, <3>1, Zenon
    <3>3. QED
      BY <3>1, <3>2, Zenon DEF MakeDurable
  <2>5. Delete(id, held[s])
    <3>1. revisions' = revisions
      BY <1>1, <1>2, <2>4 DEF TablesTypeOK
    <3>2. QED
      BY <1>1, <1>4, <2>4, <3>1 DEF Delete, Log
  <2>6. QED
    BY <1>4, <2>5 DEF AtomicCall
<1>5. CASE op # "delete"
  <2> DEFINE entry == [op |-> op, snapshot |-> Written(s)]
  <2>1. /\ Written(s) \in Record
        /\ op # "create" => held[s] \in Record
        /\ op \in {"create", "update"} => HasRequired(req[s].body)
    BY <1>1, <1>5, WrittenType
  <2>2. pend[s] = [row |-> Written(s), revs |-> <<Written(s)>>,
                   logs |-> <<entry>>]
    BY <1>1, <1>5 DEF Pending
  <2>3. /\ revisions[id] \o <<Written(s)>> = Append(revisions[id], Written(s))
        /\ auditLogs[id] \o <<entry>> = Append(auditLogs[id], entry)
    <3>1. entry \in AuditEntry
      BY <1>2, <2>1 DEF AuditEntry
    <3>2. QED
      BY <1>3, <2>1, <3>1
  <2>4. Save(id, op, Written(s))
    <3>1. /\ rows' = [rows EXCEPT ![id] = Written(s)]
          /\ revisions' = [revisions EXCEPT
                              ![id] = Append(revisions[id], Written(s))]
          /\ auditLogs' = [auditLogs EXCEPT
                              ![id] = Append(auditLogs[id], entry)]
      <4>1. /\ pend[s].row = Written(s)
            /\ pend[s].revs = <<Written(s)>>
            /\ pend[s].logs = <<entry>>
        BY <2>2
      <4>2. /\ revisions[id] \o pend[s].revs = Append(revisions[id], Written(s))
            /\ auditLogs[id] \o pend[s].logs = Append(auditLogs[id], entry)
        BY <2>3, <4>1, Zenon
      <4>3. QED
        BY <4>1, <4>2, Zenon DEF MakeDurable
    <3>2. QED
      BY <3>1 DEF Save, Log
  <2>5. CASE op = "create"
    <3>1. Create(id, req[s].body)
      BY <1>1, <2>1, <2>4, <2>5, ProposalCases DEF Create, Written
    <3>2. QED
      BY <1>2, <2>5, <3>1 DEF AtomicCall
  <2>6. CASE op = "update"
    <3>1. Update(id, held[s], req[s].body)
      BY <1>1, <2>1, <2>4, <2>6, ProposalCases
         DEF Update, Written
    <3>2. QED
      BY <1>2, <2>6, <3>1 DEF AtomicCall
  <2>7. CASE op \in TransitionOps
    <3>1. op # "create" /\ op # "update"
      BY <2>7 DEF TransitionOps
    <3>2. Managed /\ CanTransition(held[s].status, TargetStatus[op])
      BY <1>1, <2>7, <3>1, ManagedAssumption
         DEF Cleared, Based, Refused, RefusedUnread
    <3>3. Written(s) = Stored(Transitioned(held[s], op))
      BY <2>7, ProposalCases DEF Written
    <3>4. Transition(id, held[s], op, met)
      BY <1>1, <2>4, <3>1, <3>2, <3>3 DEF Transition
    <3>5. QED
      BY <2>7, <3>1, <3>4 DEF AtomicCall
  <2>8. QED
    BY <1>2, <1>5, <2>5, <2>6, <2>7 DEF MutationOps
<1>6. QED
  BY <1>4, <1>5

\* What it holds was committed, and the prerequisite was published once.
LEMMA CommitIsSnapshotCall ==
    ASSUME PgInv, NEW s \in Sessions, pc[s] = "committing", MakeDurable(s)
    PROVE  SnapshotNext
<1>1. TypeOK /\ req[s] \in Requests /\ req[s].id \in Ids /\ Cleared(s)
  BY RequestFields DEF PgInv, SessionInv, InTransaction
<1>2. req[s].op # "create" => held[s] \in Snapshots(req[s].id)
  BY <1>1 DEF Cleared, Based
<1>3. ASSUME req[s].op = "publish", held[s].dep # NoId
      PROVE  held[s].dep \in OncePublished
  <2>1. held[s] \in Record
    BY <1>1, <1>2, <1>3 DEF Snapshots, TypeOK, TablesTypeOK
  <2>2. QED
    BY <1>1, <1>3, <2>1, RecordFields DEF Cleared, OncePublished
<1>4. AtomicCall(req[s].id, Snapshots(req[s].id), OncePublished)
  BY <1>2, <1>3, CommitIsAtomicCall
<1>5. QED
  BY <1>1, <1>4 DEF SnapshotNext

----------------------------------------------------------------------------
(* Sessions that do not move keep their invariant.                         *)

Stays(t) ==
    /\ pc'[t] = pc[t]
    /\ req'[t] = req[t]
    /\ held'[t] = held[t]
    /\ pend'[t] = pend[t]

TrailsGrow ==
    \A k \in Ids : /\ Elements(revisions[k]) \subseteq Elements(revisions'[k])
                   /\ Elements(auditLogs[k]) \subseteq Elements(auditLogs'[k])

LEMMA WasPublishedGrows ==
    ASSUME TrailsGrow, NEW k \in Ids, WasPublished(k)
    PROVE  WasPublished(k)'
BY DEF TrailsGrow, WasPublished, Elements

LEMMA SnapshotsGrow ==
    ASSUME TrailsGrow, NEW k \in Ids
    PROVE  Snapshots(k) \subseteq Snapshots(k)'
BY DEF TrailsGrow, Snapshots, Elements

LEMMA SessionFrame ==
    ASSUME TypeOK, TrailsGrow, NEW t \in Sessions, SessionInv(t), Stays(t),
           pc[t] \in InTransaction =>
              (rows'[req[t].id] = NoRow <=> rows[req[t].id] = NoRow)
    PROVE  SessionInv(t)'
<1>1. CASE pc[t] = "idle"
  BY <1>1 DEF SessionInv, Stays, InTransaction, Pending
<1>2. CASE pc[t] # "idle"
  <2>1. req[t] \in Requests /\ req[t].id \in Ids
    BY <1>2, RequestFields DEF SessionInv
  <2>2. Based(t) => Based(t)'
    BY <2>1, SnapshotsGrow DEF Based, Stays
  <2>3. /\ pc[t] \in {"writing"} \cup InTransaction => Cleared(t)'
        /\ pc[t] = "checking" => Based(t)'
    <3>1. SUFFICES ASSUME pc[t] \in {"writing"} \cup InTransaction
                   PROVE  Cleared(t)'
      BY <2>2 DEF SessionInv
    <3>2. Cleared(t)
      BY <3>1 DEF SessionInv
    <3>3. ASSUME req[t].op = "publish", held[t].dep # NoId
          PROVE  WasPublished(held[t].dep)'
      <4>1. Based(t) /\ WasPublished(held[t].dep)
        BY <3>2, <3>3 DEF Cleared
      <4>2. held[t] \in Record
        BY <2>1, <4>1 DEF Based, Snapshots, TypeOK, TablesTypeOK
      <4>3. PICK p \in Ids : p = held[t].dep
        BY <3>3, <4>2, RecordFields
      <4>4. WasPublished(p)'
        BY <4>1, <4>3, WasPublishedGrows
      <4>5. QED
        BY <4>3, <4>4 DEF WasPublished, Stays
    <3>4. QED
      BY <2>2, <3>2, <3>3 DEF Cleared, Stays, WasPublished
  <2>4. Pending(t)' = Pending(t)
    BY DEF Pending, Written, Stays
  <2>5. /\ Elements(revisions[req[t].id]) \subseteq Elements(revisions'[req[t].id])
        /\ Elements(auditLogs[req[t].id]) \subseteq Elements(auditLogs'[req[t].id])
    BY <2>1 DEF TrailsGrow
  <2>6. QED
    BY <2>1, <2>3, <2>4, <2>5 DEF SessionInv, Stays, InTransaction, Elements
<1>3. QED
  BY <1>1, <1>2

\* A session moves and the tables stay.
LEMMA LocalStep ==
    ASSUME PgInv, NEW s \in Sessions, UNCHANGED tables, TypeOK',
           \A t \in Sessions \ {s} : Stays(t),
           SessionInv(s)',
           pc'[s] \in InTransaction =>
              \A t \in Sessions \ {s} :
                 pc[t] \in InTransaction => req[t].id # req'[s].id
    PROVE  PgInv'
<1>1. TableInv'
  BY TableInvStep DEF PgInv
<1>2. TrailsGrow
  BY DEF TrailsGrow, tables
<1>3. \A t \in Sessions \ {s} : SessionInv(t)'
  BY <1>2, SessionFrame DEF PgInv, tables
<1>4. LocksExclusive'
  BY DEF PgInv, LocksExclusive, Stays
<1>5. QED
  BY <1>1, <1>3, <1>4 DEF PgInv

----------------------------------------------------------------------------
(* One lemma per action.                                                   *)

LEMMA FailKeepsInv ==
    ASSUME PgInv, NEW s \in Sessions, pc[s] # "idle", Fail(s)
    PROVE  PgInv'
<1>1. TypeOK /\ SessionInv(s)
  BY DEF PgInv
<1>2. TypeOK'
  BY <1>1 DEF TypeOK, TablesTypeOK, Fail, Goto, Steps, NoWrites, tables
<1>3. /\ pc'[s] = "error" /\ req'[s] = req[s]
      /\ held'[s] = NoRow /\ pend'[s] = NoWrites
      /\ UNCHANGED tables
      /\ \A t \in Sessions \ {s} : Stays(t)
  BY <1>1 DEF Fail, Goto, TypeOK, Stays
<1>4. SessionInv(s)'
  BY <1>1, <1>3 DEF SessionInv, Pending, InTransaction
<1>5. QED
  BY <1>2, <1>3, <1>4, LocalStep DEF InTransaction

LEMMA AcceptKeepsInv ==
    ASSUME PgInv, NEW s \in Sessions, NEW request \in Requests,
           Accept(s, request)
    PROVE  PgInv'
<1>1. TypeOK /\ SessionInv(s) /\ pc[s] = "idle"
  BY DEF PgInv, Accept
<1>2. TypeOK'
  BY <1>1 DEF TypeOK, TablesTypeOK, Accept, Goto, Steps, Working, tables
<1>3. /\ req'[s] = request
      /\ held'[s] = held[s] /\ pend'[s] = NoWrites
      /\ UNCHANGED tables
      /\ \A t \in Sessions \ {s} : Stays(t)
  BY <1>1 DEF Accept, Goto, TypeOK, Stays, SessionInv, Pending
<1>4. \/ pc'[s] = "error"
      \/ /\ pc'[s] = "writing"
         /\ request.op = "create"
         /\ ~RefusedUnread(request)
      \/ /\ pc'[s] = "reading"
         /\ request.op # "create"
         /\ ~RefusedUnread(request)
  BY <1>1 DEF Accept, Goto, TypeOK
<1>5. SessionInv(s)'
  <2>1. pc'[s] = "writing" => Cleared(s)'
    BY <1>3, <1>4 DEF Cleared, MutationOps
  <2>2. QED
    BY <1>3, <1>4, <2>1 DEF SessionInv, Pending, InTransaction
<1>6. QED
  BY <1>2, <1>3, <1>4, <1>5, LocalStep DEF InTransaction

LEMMA ReadExistingKeepsInv ==
    ASSUME PgInv, NEW s \in Sessions, ReadExisting(s)
    PROVE  PgInv'
<1> DEFINE existing == rows[req[s].id]
<1>1. /\ TypeOK /\ SessionInv(s) /\ pc[s] = "reading"
      /\ req[s] \in Requests /\ req[s].id \in Ids
      /\ req[s].op # "create" /\ ~RefusedUnread(req[s])
  BY RequestFields DEF PgInv, ReadExisting, SessionInv
<1>2. CASE Refused(req[s], existing)
  BY <1>1, <1>2, FailKeepsInv DEF ReadExisting
<1>3. CASE ~Refused(req[s], existing)
  <2>1. /\ UNCHANGED <<tables, req, pend>>
        /\ held' = [held EXCEPT ![s] = existing]
        /\ pc' = [pc EXCEPT
                    ![s] = IF req[s].op = "get" THEN "ok"
                           ELSE IF ChecksDependency(req[s], existing)
                           THEN "checking" ELSE "writing"]
    BY <1>3 DEF ReadExisting, Goto
  <2>2. existing # NoRow
    BY <1>3 DEF Refused
  <2>3. existing \in Record /\ existing \in Snapshots(req[s].id)
    <3>1. /\ existing \in Record
          /\ revisions[req[s].id] \in Seq(Record)
          /\ revisions[req[s].id] # << >>
          /\ existing = revisions[req[s].id][Len(revisions[req[s].id])]
      BY <1>1, <2>2 DEF TypeOK, TablesTypeOK, PgInv, TableInv,
                        HeadMatchesTrail, HeadMatchesTrailOf, Latest
    <3>2. Len(revisions[req[s].id]) \in DOMAIN revisions[req[s].id]
      BY <3>1
    <3>3. QED
      BY <3>1, <3>2 DEF Snapshots
  <2>4. TypeOK'
    BY <1>1, <2>1, <2>3 DEF TypeOK, TablesTypeOK, Steps, Working, tables
  <2>5. /\ req'[s] = req[s] /\ held'[s] = existing /\ pend'[s] = NoWrites
        /\ \A t \in Sessions \ {s} : Stays(t)
    BY <1>1, <2>1 DEF TypeOK, Stays, SessionInv, Pending
  <2>6. Based(s)'
    BY <1>1, <1>3, <2>1, <2>3, <2>5 DEF Based, Snapshots, tables
  <2>7. \/ pc'[s] = "ok" /\ req[s].op = "get"
        \/ /\ pc'[s] = "checking"
           /\ req[s].op = "publish" /\ existing.dep # NoId
        \/ /\ pc'[s] = "writing"
           /\ req[s].op # "get"
           /\ ~(req[s].op = "publish" /\ existing.dep # NoId)
    BY <1>1, <2>1 DEF TypeOK, ChecksDependency
  <2>8. pc'[s] = "writing" => Cleared(s)'
    <3>1. req[s].op \in {"get"} \cup MutationOps
      BY <1>1, RequestFields
    <3>2. QED
      BY <1>1, <2>5, <2>6, <2>7, <3>1 DEF Cleared
  <2>9. SessionInv(s)'
    BY <1>1, <2>5, <2>6, <2>7, <2>8 DEF SessionInv, Pending, InTransaction
  <2>10. QED
    BY <2>1, <2>4, <2>5, <2>7, <2>9, LocalStep DEF InTransaction
<1>4. QED
  BY <1>2, <1>3

LEMMA CheckDependencyKeepsInv ==
    ASSUME PgInv, NEW s \in Sessions, CheckDependency(s)
    PROVE  PgInv'
<1>1. /\ TypeOK /\ SessionInv(s) /\ pc[s] = "checking"
      /\ req[s] \in Requests /\ req[s].id \in Ids
      /\ req[s].op = "publish" /\ ~RefusedUnread(req[s])
      /\ Based(s) /\ held[s].dep # NoId
  BY RequestFields DEF PgInv, CheckDependency, SessionInv
<1>2. CASE ~DependencyMet(rows[held[s].dep])
  BY <1>1, <1>2, FailKeepsInv DEF CheckDependency
<1>3. CASE DependencyMet(rows[held[s].dep])
  <2>1. UNCHANGED <<tables, req, held, pend>> /\ pc' = [pc EXCEPT ![s] = "writing"]
    BY <1>3 DEF CheckDependency, Goto
  <2>2. TypeOK'
    BY <1>1, <2>1 DEF TypeOK, TablesTypeOK, Steps, Working, tables
  <2>3. /\ pc'[s] = "writing"
        /\ \A t \in Sessions \ {s} : Stays(t)
    BY <1>1, <2>1 DEF TypeOK, Stays
  <2>4. held[s].dep \in Ids
    <3>1. held[s] \in Record
      BY <1>1 DEF Based, Snapshots, TypeOK, TablesTypeOK
    <3>2. QED
      BY <1>1, <3>1, RecordFields
  <2>5. WasPublished(held[s].dep)
    <3> DEFINE dep == held[s].dep
    <3>1. /\ rows[dep].status = "published"
          /\ revisions[dep] \in Seq(Record)
          /\ revisions[dep] # << >>
          /\ rows[dep] = revisions[dep][Len(revisions[dep])]
      BY <1>1, <1>3, <2>4 DEF DependencyMet, TypeOK, TablesTypeOK, PgInv,
            TableInv, HeadMatchesTrail, HeadMatchesTrailOf, Latest
    <3>2. Len(revisions[dep]) \in DOMAIN revisions[dep]
      BY <3>1
    <3>3. QED
      BY <3>1, <3>2 DEF WasPublished
  <2>6. Cleared(s)
    BY <1>1, <2>5 DEF Cleared, MutationOps, TransitionOps
  <2>7. Cleared(s)'
    BY <2>1, <2>6 DEF Cleared, Based, Snapshots, WasPublished, tables
  <2>8. SessionInv(s)'
    BY <1>1, <2>1, <2>3, <2>7 DEF SessionInv, Pending, InTransaction
  <2>9. QED
    BY <2>1, <2>2, <2>3, <2>8, LocalStep DEF InTransaction
<1>4. QED
  BY <1>2, <1>3

\* A session whose row write goes through enters its transaction alone.
LEMMA EntersAlone ==
    ASSUME PgInv, NEW s \in Sessions, ~Locked(s, req[s].id),
           NEW t \in Sessions \ {s}, pc[t] \in InTransaction
    PROVE  req[t].id # req[s].id
BY DEF Locked

LEMMA InsertRowKeepsInv ==
    ASSUME PgInv, NEW s \in Sessions, InsertRow(s)
    PROVE  PgInv'
<1>1. /\ TypeOK /\ SessionInv(s) /\ pc[s] = "writing"
      /\ req[s] \in Requests /\ req[s].op = "create" /\ Cleared(s)
      /\ pend[s] = NoWrites
  BY DEF PgInv, InsertRow, SessionInv, Pending
<1>2. CASE rows[req[s].id] # NoRow
  BY <1>1, <1>2, FailKeepsInv DEF InsertRow
<1>3. CASE rows[req[s].id] = NoRow
  <2>1. /\ UNCHANGED <<tables, req, held>>
        /\ pc' = [pc EXCEPT ![s] = "revising"]
        /\ pend' = [pend EXCEPT ![s].row = Stored(NewRecord(req[s].body))]
        /\ ~Locked(s, req[s].id)
    BY <1>3 DEF InsertRow, Goto
  <2>2. Written(s) = Stored(NewRecord(req[s].body)) /\ Written(s) \in Record
    BY <1>1, ProposalCases, WrittenType DEF Written
  <2>3. /\ pc'[s] = "revising"
        /\ pend'[s] = [row |-> Written(s), revs |-> << >>, logs |-> << >>]
        /\ \A t \in Sessions \ {s} : Stays(t)
    BY <1>1, <2>1, <2>2 DEF TypeOK, Stays, NoWrites
  <2>4. TypeOK'
    BY <1>1, <2>1, <2>2 DEF TypeOK, TablesTypeOK, Steps, Working,
          InTransaction, tables
  <2>5. Cleared(s)'
    BY <1>1, <2>1 DEF Cleared, Based, Snapshots, WasPublished, tables
  <2>6. Pending(s)' = pend'[s]
    BY <1>1, <2>1, <2>3 DEF Pending, Written
  <2>7. SessionInv(s)'
    BY <1>1, <1>3, <2>1, <2>3, <2>5, <2>6 DEF SessionInv, InTransaction, tables
  <2>8. QED
    BY <2>1, <2>3, <2>4, <2>7, LocalStep, EntersAlone
<1>4. QED
  BY <1>2, <1>3

LEMMA UpdateRowKeepsInv ==
    ASSUME PgInv, NEW s \in Sessions, UpdateRow(s)
    PROVE  PgInv'
<1>1. /\ TypeOK /\ SessionInv(s) /\ pc[s] = "writing"
      /\ req[s] \in Requests /\ Cleared(s)
      /\ req[s].op \in {"update"} \cup TransitionOps
      /\ pend[s] = NoWrites
  BY DEF PgInv, UpdateRow, SessionInv, Pending
<1>2. req[s].op # "create" /\ req[s].op # "delete"
  BY <1>1 DEF TransitionOps
<1>3. CASE Fail(s)
  BY <1>1, <1>3, FailKeepsInv
<1>4. CASE ~Fail(s)
  <2>1. /\ rows[req[s].id] # NoRow
        /\ UNCHANGED <<tables, req, held>>
        /\ pc' = [pc EXCEPT ![s] = "revising"]
        /\ pend' = [pend EXCEPT ![s].row = Written(s)]
        /\ ~Locked(s, req[s].id)
    BY <1>4 DEF UpdateRow, Goto, Written
  <2>2. Written(s) \in Record
    BY <1>1, <1>2, WrittenType
  <2>3. /\ pc'[s] = "revising"
        /\ pend'[s] = [row |-> Written(s), revs |-> << >>, logs |-> << >>]
        /\ \A t \in Sessions \ {s} : Stays(t)
    <3>1. pend'[s] = [pend[s] EXCEPT !.row = Written(s)]
      BY <1>1, <2>1 DEF TypeOK
    <3>2. pend'[s] = [row |-> Written(s), revs |-> << >>, logs |-> << >>]
      BY <1>1, <3>1 DEF NoWrites
    <3>3. pc'[s] = "revising"
      BY <1>1, <2>1 DEF TypeOK
    <3>4. \A t \in Sessions \ {s} : Stays(t)
      BY <1>1, <2>1 DEF TypeOK, Stays
    <3>5. QED
      BY <3>2, <3>3, <3>4
  <2>4. TypeOK'
    BY <1>1, <2>1, <2>2 DEF TypeOK, TablesTypeOK, Steps, Working,
          InTransaction, tables
  <2>5. Cleared(s)'
    BY <1>1, <2>1 DEF Cleared, Based, Snapshots, WasPublished, tables
  <2>6. Pending(s)' = pend'[s]
    BY <1>2, <2>1, <2>3 DEF Pending, Written
  <2>7. SessionInv(s)'
    BY <1>1, <1>2, <2>1, <2>3, <2>5, <2>6 DEF SessionInv, InTransaction, tables
  <2>8. QED
    BY <2>1, <2>3, <2>4, <2>7, LocalStep, EntersAlone
<1>5. QED
  BY <1>3, <1>4

LEMMA DeleteRowKeepsInv ==
    ASSUME PgInv, NEW s \in Sessions, DeleteRow(s)
    PROVE  PgInv'
<1>1. /\ TypeOK /\ SessionInv(s) /\ pc[s] = "writing"
      /\ req[s] \in Requests /\ Cleared(s)
      /\ req[s].op = "delete"
      /\ pend[s] = NoWrites
  BY DEF PgInv, DeleteRow, SessionInv, Pending
<1>2. CASE Fail(s)
  BY <1>1, <1>2, FailKeepsInv
<1>3. CASE ~Fail(s)
  <2>1. /\ rows[req[s].id] # NoRow
        /\ UNCHANGED <<tables, req, held, pend>>
        /\ pc' = [pc EXCEPT ![s] = "auditing"]
        /\ ~Locked(s, req[s].id)
    BY <1>3 DEF DeleteRow, Goto
  <2>2. /\ pc'[s] = "auditing"
        /\ \A t \in Sessions \ {s} : Stays(t)
    BY <1>1, <2>1 DEF TypeOK, Stays
  <2>3. TypeOK'
    BY <1>1, <2>1 DEF TypeOK, TablesTypeOK, Steps, Working,
          InTransaction, tables
  <2>4. Cleared(s)'
    BY <1>1, <2>1 DEF Cleared, Based, Snapshots, WasPublished, tables
  <2>5. Pending(s)' = pend'[s]
    BY <1>1, <2>1, <2>2 DEF Pending, NoWrites
  <2>6. SessionInv(s)'
    BY <1>1, <2>1, <2>2, <2>4, <2>5 DEF SessionInv, InTransaction, tables
  <2>7. QED
    BY <2>1, <2>2, <2>3, <2>6, LocalStep, EntersAlone
<1>4. QED
  BY <1>2, <1>3

LEMMA InsertRevisionKeepsInv ==
    ASSUME PgInv, NEW s \in Sessions, InsertRevision(s)
    PROVE  PgInv'
<1>1. /\ TypeOK /\ SessionInv(s) /\ pc[s] = "revising"
      /\ req[s] \in Requests /\ Cleared(s) /\ req[s].op # "delete"
      /\ rows[req[s].id] = NoRow <=> req[s].op = "create"
      /\ pend[s] = [row |-> Written(s), revs |-> << >>, logs |-> << >>]
  BY DEF PgInv, InsertRevision, SessionInv, Pending, InTransaction
<1>2. Written(s) \in Record
  BY <1>1, WrittenType
<1>3. Append(pend[s].revs, pend[s].row) = <<Written(s)>>
  BY <1>1, <1>2
<1>4. /\ UNCHANGED <<tables, req, held>>
      /\ pc' = [pc EXCEPT ![s] = "auditing"]
      /\ pend' = [pend EXCEPT ![s].revs = <<Written(s)>>]
  BY <1>3 DEF InsertRevision, Goto
<1>5. /\ pc'[s] = "auditing"
      /\ pend'[s] = [row |-> Written(s), revs |-> <<Written(s)>>,
                     logs |-> << >>]
      /\ \A t \in Sessions \ {s} : Stays(t)
  <2>1. pend'[s] = [pend[s] EXCEPT !.revs = <<Written(s)>>]
    BY <1>1, <1>4 DEF TypeOK
  <2>2. pend'[s] = [row |-> Written(s), revs |-> <<Written(s)>>,
                    logs |-> << >>]
    BY <1>1, <2>1
  <2>3. pc'[s] = "auditing"
    BY <1>1, <1>4 DEF TypeOK
  <2>4. \A t \in Sessions \ {s} : Stays(t)
    BY <1>1, <1>4 DEF TypeOK, Stays
  <2>5. QED
    BY <2>2, <2>3, <2>4
<1>6. TypeOK'
  <2>1. <<Written(s)>> \in Seq(Record)
    BY <1>2
  <2>2. QED
    BY <1>1, <1>4, <2>1 DEF TypeOK, TablesTypeOK, Steps, Working,
          InTransaction, tables
<1>7. Cleared(s)'
  BY <1>1, <1>4 DEF Cleared, Based, Snapshots, WasPublished, tables
<1>8. Pending(s)' = pend'[s]
  BY <1>1, <1>4, <1>5 DEF Pending, Written
<1>9. SessionInv(s)'
  BY <1>1, <1>4, <1>5, <1>7, <1>8 DEF SessionInv, InTransaction, tables
<1>10. QED
  BY <1>1, <1>4, <1>5, <1>6, <1>9, LocalStep
     DEF PgInv, LocksExclusive, InTransaction

LEMMA InsertAuditKeepsInv ==
    ASSUME PgInv, NEW s \in Sessions, InsertAudit(s)
    PROVE  PgInv'
<1> DEFINE snapshot == IF req[s].op = "delete" THEN held[s] ELSE pend[s].row
           entry == [op |-> req[s].op, snapshot |-> snapshot]
<1>1. /\ TypeOK /\ SessionInv(s) /\ pc[s] = "auditing"
      /\ req[s] \in Requests /\ req[s].id \in Ids /\ Cleared(s)
      /\ rows[req[s].id] = NoRow <=> req[s].op = "create"
      /\ pend[s] = Pending(s)
  BY RequestFields DEF PgInv, InsertAudit, SessionInv, InTransaction
<1>2. /\ pend[s].logs = << >>
      /\ req[s].op # "delete" => /\ pend[s].row = Written(s)
                                 /\ pend[s].revs = <<Written(s)>>
      /\ req[s].op = "delete" => /\ pend[s].row = NoRow
                                 /\ pend[s].revs = << >>
  BY <1>1 DEF Pending
<1>3. entry \in AuditEntry
  <2>1. CASE req[s].op = "delete"
    <3>1. held[s] \in Record
      BY <1>1, <2>1 DEF Cleared, Based, Snapshots, TypeOK, TablesTypeOK
    <3>2. QED
      BY <2>1, <3>1 DEF AuditEntry, MutationOps
  <2>2. CASE req[s].op # "delete"
    <3>1. Written(s) \in Record
      BY <1>1, <2>2, WrittenType
    <3>2. QED
      BY <1>1, <1>2, <2>2, <3>1 DEF AuditEntry, Cleared
  <2>3. QED
    BY <2>1, <2>2
<1>4. Append(pend[s].logs, entry) = <<entry>>
  BY <1>2, <1>3
<1>5. /\ UNCHANGED <<tables, req, held>>
      /\ pc' = [pc EXCEPT ![s] = "committing"]
      /\ pend' = [pend EXCEPT ![s].logs = <<entry>>]
  BY <1>4 DEF InsertAudit, Goto
<1>6. /\ pc'[s] = "committing"
      /\ \A t \in Sessions \ {s} : Stays(t)
  BY <1>1, <1>5 DEF TypeOK, Stays
<1>7. pend'[s] = [pend[s] EXCEPT !.logs = <<entry>>]
  BY <1>1, <1>5 DEF TypeOK
<1>8. TypeOK'
  <2>1. <<entry>> \in Seq(AuditEntry)
    BY <1>3
  <2>2. QED
    BY <1>1, <1>5, <2>1 DEF TypeOK, TablesTypeOK, Steps, Working,
          InTransaction, tables
<1>9. Cleared(s)'
  BY <1>1, <1>5 DEF Cleared, Based, Snapshots, WasPublished, tables
<1>10. Pending(s)' = pend'[s]
  <2>1. CASE req[s].op = "delete"
    <3>1. pend[s] = [row |-> NoRow, revs |-> << >>, logs |-> << >>]
      BY <1>1, <2>1 DEF Pending
    <3>2. pend'[s] = [row |-> NoRow, revs |-> << >>, logs |-> <<entry>>]
      BY <1>7, <3>1
    <3>3. QED
      BY <1>5, <1>6, <2>1, <3>2 DEF Pending
  <2>2. CASE req[s].op # "delete"
    <3>1. pend[s] = [row |-> Written(s), revs |-> <<Written(s)>>,
                     logs |-> << >>]
      BY <1>1, <2>2 DEF Pending
    <3>2. pend'[s] = [row |-> Written(s), revs |-> <<Written(s)>>,
                      logs |-> <<entry>>]
      BY <1>7, <3>1
    <3>3. Written(s)' = Written(s)
      BY <1>5 DEF Written
    <3>4. QED
      BY <1>2, <1>5, <1>6, <2>2, <3>2, <3>3 DEF Pending
  <2>3. QED
    BY <2>1, <2>2
<1>11. SessionInv(s)'
  BY <1>1, <1>5, <1>6, <1>9, <1>10 DEF SessionInv, InTransaction, tables
<1>12. QED
  BY <1>1, <1>5, <1>6, <1>8, <1>11, LocalStep
     DEF PgInv, LocksExclusive, InTransaction

LEMMA AnswerKeepsInv ==
    ASSUME PgInv, NEW s \in Sessions, Answer(s)
    PROVE  PgInv'
<1>1. TypeOK /\ SessionInv(s) /\ pc[s] \in {"ok", "error"}
  BY DEF PgInv, Answer
<1>2. TypeOK'
  BY <1>1 DEF TypeOK, TablesTypeOK, Answer, Goto, Steps, tables
<1>3. /\ pc'[s] = "idle" /\ pend'[s] = NoWrites
      /\ UNCHANGED tables
      /\ \A t \in Sessions \ {s} : Stays(t)
  BY <1>1 DEF Answer, Goto, TypeOK, Stays, SessionInv, Pending
<1>4. SessionInv(s)'
  BY <1>3 DEF SessionInv, Pending, InTransaction
<1>5. QED
  BY <1>2, <1>3, <1>4, LocalStep DEF InTransaction

LEMMA CrashKeepsInv ==
    ASSUME PgInv, NEW dead \in SUBSET Sessions, Crash(dead)
    PROVE  PgInv'
<1>1. TypeOK /\ UNCHANGED tables
  BY DEF PgInv, Crash
<1>2. TypeOK'
  BY <1>1 DEF TypeOK, TablesTypeOK, Crash, Steps, NoWrites, tables
<1>3. TableInv'
  BY <1>1, TableInvStep DEF PgInv
<1>4. TrailsGrow
  BY <1>1 DEF TrailsGrow, tables
<1>5. \A t \in Sessions \ dead : Stays(t) /\ SessionInv(t)'
  <2>1. \A t \in Sessions \ dead : Stays(t)
    BY <1>1 DEF Crash, Stays
  <2>2. QED
    BY <1>1, <1>4, <2>1, SessionFrame DEF PgInv, tables
<1>6. \A t \in dead : pc'[t] = "idle" /\ SessionInv(t)'
  BY DEF Crash, SessionInv, Pending, InTransaction
<1>7. LocksExclusive'
  BY <1>5, <1>6 DEF PgInv, LocksExclusive, Stays, InTransaction
<1>8. QED
  BY <1>2, <1>3, <1>5, <1>6, <1>7 DEF PgInv

----------------------------------------------------------------------------
(* The commit: the tables move, one atomic call at a time.                 *)

LEMMA SnapshotNextGrows ==
    ASSUME TablesTypeOK, SnapshotNext
    PROVE  TrailsGrow
<1>1. PICK id \in Ids, op \in MutationOps, snapshot \in Record :
             Appended(id, op, snapshot)
  BY SnapshotStepHasEffect DEF Effect
<1>2. ASSUME NEW k \in Ids
      PROVE  /\ Elements(revisions[k]) \subseteq Elements(revisions'[k])
             /\ Elements(auditLogs[k]) \subseteq Elements(auditLogs'[k])
  <2>1. \A i \in DOMAIN revisions[k] : /\ i \in DOMAIN revisions'[k]
                                       /\ revisions'[k][i] = revisions[k][i]
    BY <1>1, EffectOnRevisions
  <2>2. \A i \in DOMAIN auditLogs[k] : /\ i \in DOMAIN auditLogs'[k]
                                       /\ auditLogs'[k][i] = auditLogs[k][i]
    BY <1>1, EffectOnAuditLogs
  <2>3. QED
    BY <2>1, <2>2 DEF Elements
<1>3. QED
  BY <1>2 DEF TrailsGrow

\* What a commit leaves in the trail of its id.
LEMMA CommitRecords ==
    ASSUME PgInv, NEW s \in Sessions, pc[s] = "committing", MakeDurable(s)
    PROVE  /\ req[s].op # "delete" =>
                 /\ pend[s].row = Written(s)
                 /\ Written(s) \in Record
                 /\ Written(s) \in Elements(revisions'[req[s].id])
                 /\ [op |-> req[s].op, snapshot |-> Written(s)]
                       \in Elements(auditLogs'[req[s].id])
           /\ req[s].op = "delete" =>
                 /\ held[s] \in Elements(revisions'[req[s].id])
                 /\ [op |-> req[s].op, snapshot |-> held[s]]
                       \in Elements(auditLogs'[req[s].id])
<1> DEFINE id == req[s].id
<1>1. /\ TypeOK /\ TablesTypeOK /\ SessionInv(s)
      /\ req[s] \in Requests /\ id \in Ids /\ Cleared(s)
      /\ pend[s] = Pending(s)
  BY RequestFields DEF PgInv, TypeOK, SessionInv, InTransaction
<1>2. /\ revisions[id] \in Seq(Record)
      /\ auditLogs[id] \in Seq(AuditEntry)
      /\ pend[s].revs \in Seq(Record)
      /\ pend[s].logs \in Seq(AuditEntry)
  BY <1>1 DEF TypeOK, TablesTypeOK
<1>3. /\ revisions'[id] = revisions[id] \o pend[s].revs
      /\ auditLogs'[id] = auditLogs[id] \o pend[s].logs
  BY <1>1 DEF MakeDurable, TablesTypeOK
<1>4. /\ pend[s].revs # << >> =>
            pend[s].revs[1] \in Elements(revisions[id] \o pend[s].revs)
      /\ pend[s].logs # << >> =>
            pend[s].logs[1] \in Elements(auditLogs[id] \o pend[s].logs)
  <2>1. ASSUME NEW S, NEW p \in Seq(S), NEW q \in Seq(S), q # << >>
        PROVE  q[1] \in Elements(p \o q)
    <3>1. /\ Len(p) + 1 \in DOMAIN (p \o q)
          /\ (p \o q)[Len(p) + 1] = q[1]
      BY <2>1
    <3>2. QED
      BY <3>1 DEF Elements
  <2>2. QED
    BY <1>2, <2>1
<1>5. CASE req[s].op # "delete"
  <2>1. Written(s) \in Record
    BY <1>1, <1>5, WrittenType
  <2>2. /\ pend[s].row = Written(s)
        /\ pend[s].revs = <<Written(s)>>
        /\ pend[s].logs = <<[op |-> req[s].op, snapshot |-> Written(s)]>>
    BY <1>1, <1>5 DEF Pending
  <2>3. /\ Written(s) = pend[s].revs[1] /\ pend[s].revs # << >>
        /\ [op |-> req[s].op, snapshot |-> Written(s)] = pend[s].logs[1]
        /\ pend[s].logs # << >>
    BY <2>2
  <2>4. QED
    BY <1>3, <1>4, <1>5, <2>1, <2>2, <2>3
<1>6. CASE req[s].op = "delete"
  <2>1. pend[s].logs = <<[op |-> req[s].op, snapshot |-> held[s]]>>
    BY <1>1, <1>6 DEF Pending
  <2>2. /\ [op |-> req[s].op, snapshot |-> held[s]] = pend[s].logs[1]
        /\ pend[s].logs # << >>
    BY <2>1
  <2>3. held[s] \in Elements(revisions[id])
    BY <1>1, <1>6 DEF Cleared, Based, Snapshots, Elements
  <2>4. TrailsGrow
    BY <1>1, CommitIsSnapshotCall, SnapshotNextGrows
  <2>5. QED
    BY <1>1, <1>3, <1>4, <1>6, <2>2, <2>3, <2>4 DEF TrailsGrow
<1>7. QED
  BY <1>5, <1>6

\* Both outcomes of a commit: the tables move, the session is done.
LEMMA DurableKeepsInv ==
    ASSUME PgInv, NEW s \in Sessions, pc[s] = "committing", MakeDurable(s),
           NEW step \in {"ok", "error"}, Goto(s, step), UNCHANGED req,
           NEW record \in Record \cup {NoRow},
           held' = [held EXCEPT ![s] = record],
           step = "ok" => record = IF req[s].op = "delete"
                                   THEN held[s] ELSE pend[s].row
    PROVE  PgInv'
<1> DEFINE id == req[s].id
<1>1. /\ TypeOK /\ TablesTypeOK /\ SessionInv(s) /\ LocksExclusive
      /\ req[s] \in Requests /\ id \in Ids
  BY RequestFields DEF PgInv, TypeOK, SessionInv
<1>2. SnapshotNext
  BY CommitIsSnapshotCall
<1>3. TableInv' /\ TablesTypeOK'
  BY <1>2, TableInvStep DEF PgInv, TableInv
<1>4. TrailsGrow
  BY <1>1, <1>2, SnapshotNextGrows
<1>5. /\ pc'[s] = step /\ req'[s] = req[s]
      /\ held'[s] = record /\ pend'[s] = NoWrites
      /\ \A t \in Sessions \ {s} : Stays(t)
      /\ \A k \in Ids \ {id} : rows'[k] = rows[k]
  BY <1>1 DEF Goto, MakeDurable, TypeOK, TablesTypeOK, Stays
<1>6. TypeOK'
  BY <1>1, <1>3 DEF TypeOK, Goto, MakeDurable, Steps, NoWrites
<1>7. ASSUME NEW t \in Sessions \ {s}
      PROVE  SessionInv(t)'
  <2>1. SessionInv(t)
    BY DEF PgInv
  <2>2. ASSUME pc[t] \in InTransaction
        PROVE  rows'[req[t].id] = rows[req[t].id]
    <3>1. req[t].id \in Ids
      BY <2>1, <2>2, RequestFields DEF SessionInv, InTransaction
    <3>2. req[t].id # id
      BY <1>1, <2>2 DEF LocksExclusive, InTransaction
    <3>3. QED
      BY <1>5, <3>1, <3>2
  <2>3. QED
    BY <1>1, <1>4, <1>5, <2>1, <2>2, SessionFrame
<1>8. SessionInv(s)'
  <2>1. ASSUME step = "ok"
        PROVE  /\ [op |-> req[s].op, snapshot |-> record]
                     \in Elements(auditLogs'[id])
               /\ record \in Elements(revisions'[id])
    BY <2>1, CommitRecords
  <2>2. /\ Elements(auditLogs[req[s].id])' = Elements(auditLogs'[req'[s].id])
        /\ Elements(revisions[req[s].id])' = Elements(revisions'[req'[s].id])
    BY DEF Elements
  <2>3. QED
    BY <1>1, <1>5, <2>1, <2>2 DEF SessionInv, Pending, InTransaction
<1>9. LocksExclusive'
  BY <1>1, <1>5 DEF LocksExclusive, Stays, InTransaction
<1>10. QED
  BY <1>3, <1>6, <1>7, <1>8, <1>9 DEF PgInv

LEMMA CommitKeepsInv ==
    ASSUME PgInv, NEW s \in Sessions, Commit(s) \/ CommitUnacknowledged(s)
    PROVE  PgInv'
<1>1. pc[s] = "committing" /\ MakeDurable(s) /\ UNCHANGED req
  BY DEF Commit, CommitUnacknowledged
<1>2. CASE Commit(s)
  <2> DEFINE record == IF req[s].op = "delete" THEN held[s] ELSE pend[s].row
  <2>1. record \in Record \cup {NoRow}
    BY DEF PgInv, TypeOK
  <2>2. held' = [held EXCEPT ![s] = record] /\ Goto(s, "ok")
    BY <1>2 DEF Commit
  <2>3. QED
    BY <1>1, <2>1, <2>2, DurableKeepsInv
<1>3. CASE CommitUnacknowledged(s)
  BY <1>1, <1>3, DurableKeepsInv DEF CommitUnacknowledged
<1>4. QED
  BY <1>2, <1>3

----------------------------------------------------------------------------
(* The theorems.                                                           *)

LEMMA PgInvInit ==
    ASSUME Init
    PROVE  PgInv
<1>1. TableInv /\ TablesTypeOK
  BY TableInvInit DEF Init, TableInv
<1>2. TypeOK
  BY <1>1 DEF Init, TypeOK, Steps, NoWrites
<1>3. \A s \in Sessions : pc[s] = "idle" /\ pend[s] = NoWrites
  BY DEF Init
<1>4. LocksExclusive /\ \A s \in Sessions : SessionInv(s)
  BY <1>3 DEF LocksExclusive, SessionInv, Pending, InTransaction
<1>5. QED
  BY <1>1, <1>2, <1>4 DEF PgInv

LEMMA PgInvStep ==
    ASSUME PgInv, [Next]_vars
    PROVE  PgInv'
<1>1. ASSUME NEW s \in Sessions, NEW request \in Requests,
             Accept(s, request)
      PROVE  PgInv'
  BY <1>1, AcceptKeepsInv
<1>2. ASSUME NEW s \in Sessions, ReadExisting(s)
      PROVE  PgInv'
  BY <1>2, ReadExistingKeepsInv
<1>3. ASSUME NEW s \in Sessions, CheckDependency(s)
      PROVE  PgInv'
  BY <1>3, CheckDependencyKeepsInv
<1>4. ASSUME NEW s \in Sessions, WriteRow(s)
      PROVE  PgInv'
  BY <1>4, InsertRowKeepsInv, UpdateRowKeepsInv, DeleteRowKeepsInv
     DEF WriteRow
<1>5. ASSUME NEW s \in Sessions, InsertRevision(s)
      PROVE  PgInv'
  BY <1>5, InsertRevisionKeepsInv
<1>6. ASSUME NEW s \in Sessions, InsertAudit(s)
      PROVE  PgInv'
  BY <1>6, InsertAuditKeepsInv
<1>7. ASSUME NEW s \in Sessions, Commit(s) \/ CommitUnacknowledged(s)
      PROVE  PgInv'
  BY <1>7, CommitKeepsInv
<1>8. ASSUME NEW s \in Sessions, Answer(s)
      PROVE  PgInv'
  BY <1>8, AnswerKeepsInv
<1>9. ASSUME NEW s \in Sessions, StatementFails(s)
      PROVE  PgInv'
  BY <1>9, FailKeepsInv DEF StatementFails, Working, InTransaction
<1>10. ASSUME NEW dead \in SUBSET Sessions, Crash(dead)
       PROVE  PgInv'
  BY <1>10, CrashKeepsInv
<1>11. ASSUME UNCHANGED vars
       PROVE  PgInv'
  <2>1. TableInv'
    BY <1>11, TableInvStep DEF PgInv, vars, tables
  <2>2. TypeOK' /\ LocksExclusive'
    BY <1>11 DEF PgInv, TypeOK, TablesTypeOK, LocksExclusive, vars
  <2>3. \A t \in Sessions : SessionInv(t)'
    <3>1. TrailsGrow /\ \A t \in Sessions : Stays(t)
      BY <1>11 DEF TrailsGrow, Stays, vars
    <3>2. QED
      BY <1>11, <3>1, SessionFrame DEF PgInv, vars
  <2>4. QED
    BY <2>1, <2>2, <2>3 DEF PgInv
<1>12. QED
  BY <1>1, <1>2, <1>3, <1>4, <1>5, <1>6, <1>7, <1>8, <1>9, <1>10, <1>11
     DEF Next, Progress

LEMMA PgInvariant == Spec => []PgInv
<1>1. Init => PgInv
  BY PgInvInit
<1>2. PgInv /\ [Next]_vars => PgInv'
  BY PgInvStep
<1>3. QED
  BY <1>1, <1>2, PTL DEF Spec

\* Seen from the tables every step is one atomic call or no step at all.
LEMMA EveryStepIsACall ==
    ASSUME PgInv, [Next]_vars
    PROVE  [SnapshotNext]_tables
<1>1. ASSUME NEW s \in Sessions, NEW request \in Requests,
             Accept(s, request)
      PROVE  UNCHANGED tables
  BY <1>1 DEF Accept
<1>2. ASSUME NEW s \in Sessions, Progress(s) \/ StatementFails(s), ~Commit(s)
      PROVE  UNCHANGED tables
  BY <1>2 DEF Progress, ReadExisting, CheckDependency, WriteRow, InsertRow,
              UpdateRow, DeleteRow, InsertRevision, InsertAudit, Answer,
              StatementFails, Fail
<1>3. ASSUME NEW s \in Sessions, Commit(s) \/ CommitUnacknowledged(s)
      PROVE  SnapshotNext
  BY <1>3, CommitIsSnapshotCall DEF Commit, CommitUnacknowledged
<1>4. ASSUME NEW dead \in SUBSET Sessions, Crash(dead)
      PROVE  UNCHANGED tables
  BY <1>4 DEF Crash
<1>5. CASE UNCHANGED vars
  BY <1>5 DEF vars, tables
<1>6. QED
  BY <1>1, <1>2, <1>3, <1>4, <1>5 DEF Next

\* Over PostgreSQL every call, whatever races, fails or crashes, is seen from
\* the tables as one atomic step computed from some committed version of its
\* record: the service over UnitOfWork.Execute implements SnapshotSpec.
THEOREM PostgresImplementsSnapshotContract == Spec => ImplementsSnapshotContract
<1>1. Init => TablesInit
  BY DEF Init
<1>2. PgInv /\ [Next]_vars => [SnapshotNext]_tables
  BY EveryStepIsACall
<1>3. QED
  BY <1>1, <1>2, PgInvariant, PTL DEF Spec, SnapshotSpec,
     ImplementsSnapshotContract

\* The variables of the service and its store keep their types; in particular
\* only known statuses ever reach a row, a revision or an audit entry.
THEOREM PostgresTypes == Spec => []TypeOK
<1>1. PgInv => TypeOK
  BY DEF PgInv
<1>2. QED
  BY <1>1, PgInvariant, PTL

\* A live row is the snapshot of its latest revision, and its audit log ends
\* with a delete, or is empty, exactly when it is gone (service.go:69-113).
THEOREM PostgresHeadMatchesTrail == Spec => []HeadMatchesTrail
<1>1. PgInv => HeadMatchesTrail
  BY DEF PgInv, TableInv, HeadMatchesTrail
<1>2. QED
  BY <1>1, PgInvariant, PTL

\* Every version above 1 follows an earlier revision one below it, however
\* calls race (service.go:136, :261).
THEOREM PostgresHistoryGapFree == Spec => []RevisionHistoryGapFree
<1>1. PgInv => RevisionHistoryGapFree
  BY DEF PgInv, TableInv
<1>2. QED
  BY <1>1, PgInvariant, PTL

\* A transition in the audit log was legal from one committed record and
\* changed its status alone (service.go:238-311).
THEOREM PostgresTransitionsLegal == Spec => []TransitionsFromLegalBase
<1>1. PgInv => TransitionsFromLegalBase
  BY DEF PgInv, TableInv
<1>2. QED
  BY <1>1, PgInvariant, PTL

\* What was published with a prerequisite, its prerequisite had been published
\* at some time (service.go:325-340).
THEOREM PostgresPrerequisites == Spec => []PrerequisiteWasPublished
<1>1. PgInv => PrerequisiteWasPublished
  BY DEF PgInv, TableInv
<1>2. QED
  BY <1>1, PgInvariant, PTL

\* The audit log of an id is a row of lifetimes, each from a create to a
\* delete: no racing write gets between a delete and the next create.
THEOREM PostgresLifetimes == Spec => []AuditTellsLifetimes
<1>1. PgInv => AuditTellsLifetimes
  BY DEF PgInv, TableInv
<1>2. QED
  BY <1>1, PgInvariant, PTL

\* A mutation answered without an error is in the audit log and among the
\* revisions, with the record the caller was given.
THEOREM PostgresAnswersRecorded == Spec => []AnsweredMutationIsRecorded
<1>1. PgInv => AnsweredMutationIsRecorded
  BY DEF PgInv, SessionInv, AnsweredMutationIsRecorded
<1>2. QED
  BY <1>1, PgInvariant, PTL

----------------------------------------------------------------------------
(* Calls that run alone.                                                   *)

\* What a mutation read is what the table holds now.
Current(s) ==
    /\ pc[s] # "reading" /\ req[s].op # "create" => held[s] = rows[req[s].id]
    /\ pc[s] \in {"writing"} \cup InTransaction
       /\ req[s].op = "publish" /\ held[s].dep # NoId =>
          DependencyMet(rows[held[s].dep])

\* A mutation that overlapped no other is the only one, and up to date.
AloneKnows(s) ==
    alone[s] =>
        /\ s \in UnderWay \/ pc[s] = "ok" => UnderWay \subseteq {s}
        /\ s \in UnderWay => Current(s)

AloneInv ==
    /\ PgInv
    /\ alone \in [Sessions -> BOOLEAN]
    /\ \A s \in Sessions : AloneKnows(s)

LEMMA AloneNextFacts ==
    ASSUME AloneNext, NEW s \in Sessions
    PROVE  /\ alone'[s] /\ (s \in UnderWay' \/ pc'[s] = "ok") =>
                 alone[s] /\ UnderWay' \subseteq {s}
           /\ s \in UnderWay' <=> pc'[s] \in Working /\ req'[s].op # "get"
  BY DEF AloneNext, UnderWay

LEMMA AloneNextType ==
    ASSUME alone \in [Sessions -> BOOLEAN], AloneNext
    PROVE  alone' \in [Sessions -> BOOLEAN]
  BY DEF AloneNext

\* One session moves; the rows change by a mutation under way only.
LEMMA AloneStep ==
    ASSUME AloneInv, AloneNext, PgInv', NEW s \in Sessions,
           \A t \in Sessions \ {s} : Stays(t),
           UNCHANGED rows \/ s \in UnderWay,
           alone[s] /\ pc'[s] \in Working /\ req'[s].op # "get" => Current(s)'
    PROVE  AloneInv'
<1>1. alone' \in [Sessions -> BOOLEAN]
  BY AloneNextType DEF AloneInv
<1>2. ASSUME NEW t \in Sessions
      PROVE  AloneKnows(t)'
  <2>1. CASE t = s
    BY <2>1, AloneNextFacts DEF AloneKnows
  <2>2. CASE t # s
    <3>1. SUFFICES ASSUME alone'[t], t \in UnderWay'
                   PROVE  Current(t)'
      BY <2>2, AloneNextFacts DEF AloneKnows
    <3>2. Stays(t)
      BY <2>2
    <3>3. t \in UnderWay /\ alone[t]
      BY <3>1, <3>2, AloneNextFacts DEF UnderWay, Stays
    <3>4. Current(t) /\ UNCHANGED rows
      BY <2>2, <3>3 DEF AloneInv, AloneKnows
    <3>5. QED
      BY <3>2, <3>4 DEF Current, Stays
  <2>3. QED
    BY <2>1, <2>2
<1>3. QED
  BY <1>1, <1>2 DEF AloneInv

\* A step inside the transaction, which keeps what was read.
LEMMA AloneInside ==
    ASSUME AloneInv, AloneNext, PgInv', NEW s \in Sessions,
           \A t \in Sessions \ {s} : Stays(t),
           UNCHANGED <<tables, req, held>>,
           pc[s] \in {"writing"} \cup InTransaction,
           pc'[s] \in {"writing"} \cup InTransaction
    PROVE  AloneInv'
<1>1. s \in UnderWay
  BY DEF UnderWay, Working, AloneInv, PgInv, SessionInv, Cleared, MutationOps,
         TransitionOps
<1>2. alone[s] => Current(s)
  BY <1>1 DEF AloneInv, AloneKnows
<1>3. alone[s] => Current(s)'
  BY <1>2 DEF Current, tables, InTransaction
<1>4. UNCHANGED rows
  BY DEF tables
<1>5. QED
  BY <1>3, <1>4, AloneStep

LEMMA AloneAccept ==
    ASSUME AloneInv, AloneNext, PgInv', NEW s \in Sessions, NEW request \in Requests,
           Accept(s, request)
    PROVE  AloneInv'
<1>1. TypeOK
  BY DEF AloneInv, PgInv
<1>2. /\ \A t \in Sessions \ {s} : Stays(t)
      /\ UNCHANGED rows /\ req'[s] = request
      /\ pc'[s] \in {"error", "reading"} \/ (pc'[s] = "writing" /\ request.op = "create")
  <2>1. /\ req' = [req EXCEPT ![s] = request] /\ UNCHANGED <<rows, held, pend>>
        /\ pc' = [pc EXCEPT ![s] = IF RefusedUnread(request) THEN "error"
                                   ELSE IF request.op = "create" THEN "writing"
                                   ELSE "reading"]
    BY DEF Accept, Goto, tables
  <2>2. QED
    BY <1>1, <2>1 DEF Stays, TypeOK
<1>3. pc'[s] \in Working => Current(s)'
  BY <1>2 DEF Current, Working, InTransaction
<1>4. QED
  BY <1>2, <1>3, AloneStep

LEMMA AloneRead ==
    ASSUME AloneInv, AloneNext, PgInv', NEW s \in Sessions, ReadExisting(s)
    PROVE  AloneInv'
<1>1. TypeOK
  BY DEF AloneInv, PgInv
<1>2. /\ \A t \in Sessions \ {s} : Stays(t)
      /\ UNCHANGED rows /\ req'[s] = req[s]
      /\ \/ pc'[s] \in {"error", "ok"}
         \/ /\ held'[s] = rows[req[s].id]
            /\ pc'[s] = IF ChecksDependency(req[s], held'[s]) THEN "checking" ELSE "writing"
  BY <1>1 DEF ReadExisting, Fail, Goto, Stays, TypeOK, tables
<1>3. pc'[s] \in Working => Current(s)'
  BY <1>2 DEF Current, Working, InTransaction, ChecksDependency
<1>4. QED
  BY <1>2, <1>3, AloneStep

LEMMA AloneCheck ==
    ASSUME AloneInv, AloneNext, PgInv', NEW s \in Sessions, CheckDependency(s)
    PROVE  AloneInv'
<1>1. TypeOK /\ pc[s] = "checking" /\ req[s].op = "publish"
  BY DEF AloneInv, PgInv, SessionInv, CheckDependency
<1>2. s \in UnderWay
  BY <1>1 DEF UnderWay, Working
<1>3. /\ \A t \in Sessions \ {s} : Stays(t)
      /\ UNCHANGED rows /\ req'[s] = req[s]
      /\ \/ pc'[s] = "error"
         \/ DependencyMet(rows[held[s].dep]) /\ pc'[s] = "writing" /\ held'[s] = held[s]
  BY <1>1 DEF CheckDependency, Fail, Goto, Stays, TypeOK, tables
<1>4. alone[s] => held[s] = rows[req[s].id]
  BY <1>1, <1>2 DEF AloneInv, AloneKnows, Current
<1>5. alone[s] /\ pc'[s] \in Working => Current(s)'
  BY <1>3, <1>4 DEF Current, Working, InTransaction
<1>6. QED
  BY <1>3, <1>5, AloneStep

\* A session that ends, in success or failure.
LEMMA AloneEnds ==
    ASSUME AloneInv, AloneNext, PgInv', NEW s \in Sessions,
           \/ pc[s] \in Working /\ Fail(s)
           \/ Commit(s) \/ CommitUnacknowledged(s) \/ Answer(s)
    PROVE  AloneInv'
<1>1. TypeOK
  BY DEF AloneInv, PgInv
<1>2. /\ \A t \in Sessions \ {s} : Stays(t)
      /\ pc'[s] \in {"ok", "error", "idle"}
      /\ UNCHANGED rows \/ pc[s] = "committing"
  BY <1>1 DEF Fail, Commit, CommitUnacknowledged, Answer, MakeDurable, Goto, Stays,
              TypeOK, tables
<1>3. pc[s] = "committing" => s \in UnderWay
  BY DEF UnderWay, Working, InTransaction, AloneInv, PgInv, SessionInv, Cleared,
         MutationOps, TransitionOps
<1>4. pc'[s] \notin Working
  BY <1>2 DEF Working, InTransaction
<1>5. QED
  BY <1>2, <1>3, <1>4, AloneStep

LEMMA AloneWrites ==
    ASSUME AloneInv, AloneNext, PgInv', NEW s \in Sessions,
           WriteRow(s) \/ InsertRevision(s) \/ InsertAudit(s)
    PROVE  AloneInv'
<1>1. TypeOK
  BY DEF AloneInv, PgInv
<1>2. CASE pc[s] \in Working /\ Fail(s)
  BY <1>2, AloneEnds
<1>3. CASE ~Fail(s)
  <2>1. /\ UNCHANGED <<tables, req, held>>
        /\ pc[s] \in {"writing"} \cup InTransaction
        /\ pc'[s] \in {"writing"} \cup InTransaction
        /\ \A t \in Sessions \ {s} : Stays(t)
    BY <1>1, <1>3 DEF WriteRow, InsertRow, UpdateRow, DeleteRow, InsertRevision,
       InsertAudit, Goto, Stays, TypeOK, InTransaction
  <2>2. QED
    BY <2>1, AloneInside
<1>4. pc[s] \in Working
  BY DEF WriteRow, InsertRow, UpdateRow, DeleteRow, InsertRevision, InsertAudit,
         Working, InTransaction
<1>5. QED
  BY <1>2, <1>3, <1>4

LEMMA AloneCrash ==
    ASSUME AloneInv, AloneNext, PgInv', NEW dead \in SUBSET Sessions, Crash(dead)
    PROVE  AloneInv'
<1>1. alone' \in [Sessions -> BOOLEAN]
  BY AloneNextType DEF AloneInv
<1>2. ASSUME NEW t \in Sessions
      PROVE  AloneKnows(t)'
  <2>1. SUFFICES ASSUME alone'[t], t \in UnderWay'
                 PROVE  Current(t)'
    BY AloneNextFacts DEF AloneKnows
  <2>2. t \notin dead
    BY <2>1 DEF Crash, UnderWay, Working, InTransaction
  <2>3. Stays(t) /\ UNCHANGED rows
    BY <2>2 DEF Crash, Stays, tables
  <2>4. t \in UnderWay /\ alone[t]
    BY <2>1, <2>3, AloneNextFacts DEF UnderWay, Stays
  <2>5. Current(t)
    BY <2>4 DEF AloneInv, AloneKnows
  <2>6. QED
    BY <2>3, <2>5 DEF Current, Stays
<1>3. QED
  BY <1>1, <1>2 DEF AloneInv

LEMMA AloneInvStep ==
    ASSUME AloneInv, [Next /\ AloneNext]_<<vars, alone>>
    PROVE  AloneInv'
<1>1. PgInv'
  BY PgInvStep DEF AloneInv, vars
<1>2. CASE UNCHANGED <<vars, alone>>
  BY <1>1, <1>2 DEF AloneInv, AloneKnows, Current, UnderWay, vars
<1>3. CASE Next /\ AloneNext
  <2>1. ASSUME NEW s \in Sessions, StatementFails(s)
        PROVE  AloneInv'
    BY <1>1, <1>3, <2>1, AloneEnds DEF StatementFails
  <2>2. ASSUME NEW s \in Sessions, Progress(s) \/ CommitUnacknowledged(s)
        PROVE  AloneInv'
    BY <1>1, <1>3, <2>2, AloneRead, AloneCheck, AloneWrites, AloneEnds DEF Progress
  <2>3. ASSUME NEW s \in Sessions, NEW request \in Requests, Accept(s, request)
        PROVE  AloneInv'
    BY <1>1, <1>3, <2>3, AloneAccept
  <2>4. ASSUME NEW dead \in SUBSET Sessions, Crash(dead)
        PROVE  AloneInv'
    BY <1>1, <1>3, <2>4, AloneCrash
  <2>5. QED
    BY <1>3, <2>1, <2>2, <2>3, <2>4 DEF Next
<1>4. QED
  BY <1>2, <1>3

LEMMA AloneInvariant == WatchedSpec => []AloneInv
<1>1. WatchedInit => AloneInv
  <2>1. SUFFICES ASSUME WatchedInit
                 PROVE  AloneInv
    OBVIOUS
  <2>2. PgInv /\ UnderWay = {}
    BY <2>1, PgInvInit DEF WatchedInit, Init, UnderWay, Working, InTransaction
  <2>3. QED
    BY <2>1, <2>2 DEF AloneInv, AloneKnows, WatchedInit
<1>2. AloneInv /\ [Next /\ AloneNext]_<<vars, alone>> => AloneInv'
  BY AloneInvStep
<1>3. QED
  BY <1>1, <1>2, PTL DEF WatchedSpec

\* A commit of a session that ran alone works on the current record and the
\* current prerequisite.
LEMMA AloneCommitIsSerial ==
    ASSUME AloneInv, NEW s \in Sessions, pc[s] = "committing", MakeDurable(s), alone[s]
    PROVE  SerialNext
<1>1. /\ TypeOK /\ req[s] \in Requests /\ req[s].id \in Ids /\ Cleared(s)
  BY RequestFields DEF AloneInv, PgInv, SessionInv, InTransaction
<1>2. Current(s)
  <2>1. s \in UnderWay
    BY <1>1 DEF UnderWay, Working, InTransaction, Cleared, MutationOps, TransitionOps
  <2>2. QED
    BY <2>1 DEF AloneInv, AloneKnows
<1>3. req[s].op # "create" => held[s] \in {rows[req[s].id]}
  BY <1>2 DEF Current
<1>4. ASSUME req[s].op = "publish", held[s].dep # NoId
      PROVE  held[s].dep \in PublishedNow
  <2>1. held[s] \in Record
    BY <1>1, <1>4 DEF Cleared, Based, Snapshots, TypeOK, TablesTypeOK
  <2>2. held[s].dep \in Ids
    BY <1>4, <2>1, RecordFields
  <2>3. QED
    BY <1>2, <1>4, <2>2 DEF Current, DependencyMet, PublishedNow, InTransaction
<1>5. AtomicCall(req[s].id, {rows[req[s].id]}, PublishedNow)
  BY <1>3, <1>4, CommitIsAtomicCall DEF AloneInv
<1>6. QED
  BY <1>1, <1>5 DEF SerialNext

\* What changes the tables is a commit.
LEMMA TablesChangeByCommit ==
    ASSUME Next
    PROVE  \/ UNCHANGED tables
           \/ \E s \in Sessions : /\ pc[s] = "committing" /\ MakeDurable(s)
                                  /\ \E step \in {"ok", "error"} : Goto(s, step)
<1>1. ASSUME NEW s \in Sessions, NEW request \in Requests, Accept(s, request)
      PROVE  UNCHANGED tables
  BY <1>1 DEF Accept
<1>2. ASSUME NEW s \in Sessions, Progress(s) \/ StatementFails(s), ~Commit(s)
      PROVE  UNCHANGED tables
  BY <1>2 DEF Progress, ReadExisting, CheckDependency, WriteRow, InsertRow,
              UpdateRow, DeleteRow, InsertRevision, InsertAudit, Answer,
              StatementFails, Fail
<1>3. ASSUME NEW s \in Sessions, Commit(s) \/ CommitUnacknowledged(s)
      PROVE  /\ pc[s] = "committing" /\ MakeDurable(s)
             /\ \E step \in {"ok", "error"} : Goto(s, step)
  BY <1>3 DEF Commit, CommitUnacknowledged
<1>4. ASSUME NEW dead \in SUBSET Sessions, Crash(dead)
      PROVE  UNCHANGED tables
  BY <1>4 DEF Crash
<1>5. QED
  BY <1>1, <1>2, <1>3, <1>4 DEF Next

LEMMA AloneStepIsSerial ==
    ASSUME AloneInv, [Next /\ AloneNext]_<<vars, alone>>, RanAlone
    PROVE  SerialNext \/ UNCHANGED tables
<1>1. CASE UNCHANGED vars
  BY <1>1 DEF vars, tables
<1>2. ASSUME NEW s \in Sessions, pc[s] = "committing", MakeDurable(s),
             NEW step \in {"ok", "error"}, Goto(s, step)
      PROVE  SerialNext
  <2>1. pc'[s] # pc[s]
    BY <1>2 DEF Goto, AloneInv, PgInv, TypeOK
  <2>2. alone[s]
    BY <2>1 DEF RanAlone
  <2>3. QED
    BY <1>2, <2>2, AloneCommitIsSerial
<1>3. QED
  BY <1>1, <1>2, TablesChangeByCommit

\* Over PostgreSQL a mutation that overlapped no other is one atomic step on the
\* current record and the current prerequisite, as the text of service.go:43-311
\* reads, whatever raced, failed or crashed before it.
THEOREM PostgresAloneIsSerial == WatchedSpec => AloneImplementsSerialContract
<1>1. AloneInv /\ [Next /\ AloneNext]_<<vars, alone>> =>
         [RanAlone => SerialNext]_tables
  BY AloneStepIsSerial
<1>2. QED
  BY <1>1, AloneInvariant, PTL DEF WatchedSpec, AloneImplementsSerialContract

\* A serial call moves a record along the lifecycle or leaves its status alone.
LEMMA SerialFollowsLifecycle ==
    ASSUME TablesTypeOK, Managed, SerialNext, NEW id \in Ids,
           rows[id] # NoRow, rows'[id] # NoRow
    PROVE  CanTransition(rows[id].status, rows'[id].status)
<1>1. PICK k \in Ids : AtomicCall(k, {rows[k]}, PublishedNow)
  BY DEF SerialNext
<1>2. CASE k # id
  <2>1. rows'[id] = rows[id]
    BY <1>1, <1>2 DEF AtomicCall, Create, Update, Transition, Delete, Save,
                      TablesTypeOK
  <2>2. QED
    BY <2>1 DEF CanTransition
<1>3. CASE k = id
  <2>1. ASSUME NEW body \in Payloads, Create(id, body)
        PROVE  FALSE
    BY <2>1 DEF Create
  <2>2. ASSUME NEW body \in Payloads, Update(id, rows[id], body)
        PROVE  rows'[id].status = rows[id].status
    BY <2>2 DEF Update, Save, Stored, Merged, TablesTypeOK
  <2>3. ASSUME NEW op \in TransitionOps, NEW met, Transition(id, rows[id], op, met)
        PROVE  CanTransition(rows[id].status, rows'[id].status)
    <3>1. rows'[id] = Transitioned(rows[id], op)
      BY <2>3 DEF Transition, Save, Stored, TablesTypeOK
    <3>2. QED
      BY <2>3, <3>1 DEF Transition, Transitioned
  <2>4. ASSUME Delete(id, rows[id])
        PROVE  FALSE
    BY <2>4 DEF Delete, TablesTypeOK
  <2>5. QED
    BY <1>1, <1>3, <2>1, <2>2, <2>3, <2>4 DEF AtomicCall, CanTransition
<1>4. QED
  BY <1>2, <1>3

\* What the race of an update with a transition breaks, a mutation that ran alone
\* keeps: a row of a managed resource moves along the lifecycle only
\* (lifecycle.go:26-48, service.go:248).
THEOREM PostgresAloneFollowsLifecycle ==
    ASSUME Managed
    PROVE  WatchedSpec =>
             [][RanAlone => \A id \in Ids :
                   rows[id] # NoRow /\ rows'[id] # NoRow =>
                       CanTransition(rows[id].status, rows'[id].status)]_vars
<1>1. ASSUME AloneInv, [Next /\ AloneNext]_<<vars, alone>>, RanAlone,
             NEW id \in Ids, rows[id] # NoRow, rows'[id] # NoRow
      PROVE  CanTransition(rows[id].status, rows'[id].status)
  <2>1. CASE UNCHANGED tables
    BY <2>1 DEF tables, CanTransition
  <2>2. CASE SerialNext
    BY <1>1, <2>2, SerialFollowsLifecycle DEF AloneInv, PgInv, TypeOK
  <2>3. QED
    BY <1>1, <2>1, <2>2, AloneStepIsSerial
<1>2. AloneInv /\ [Next /\ AloneNext]_<<vars, alone>> =>
         [RanAlone => \A id \in Ids :
             rows[id] # NoRow /\ rows'[id] # NoRow =>
                 CanTransition(rows[id].status, rows'[id].status)]_vars
  BY <1>1
<1>3. QED
  BY <1>2, AloneInvariant, PTL DEF WatchedSpec

============================================================================
