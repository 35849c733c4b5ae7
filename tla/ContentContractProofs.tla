----------------------- MODULE ContentContractProofs -----------------------
(**************************************************************************)
(* What SnapshotSpec guarantees for any number of ids and any payloads:   *)
(* the table properties of ContentContract, by one inductive invariant.   *)
(**************************************************************************)
EXTENDS ContentContract, TLAPS

TableInv ==
    /\ TablesTypeOK
    /\ HeadMatchesTrail
    /\ RevisionHistoryGapFree
    /\ TransitionsFromLegalBase
    /\ PrerequisiteWasPublished
    /\ AuditTellsLifetimes

----------------------------------------------------------------------------
(* The pure functions stay within Record.                                  *)

LEMMA RecordFields ==
    ASSUME NEW record \in Record
    PROVE  /\ record.title \in Titles
           /\ record.dep \in Ids \cup {NoId}
           /\ record.status \in Statuses \cup {NoStatus}
           /\ record.version \in Nat
BY DEF Record

LEMMA StoredType ==
    ASSUME NEW record \in Record
    PROVE  /\ Stored(record) \in Record
           /\ Stored(record).version \in {0, record.version}
           /\ Managed => Stored(record) = record
BY DEF Stored, Record

LEMMA NewRecordType ==
    ASSUME NEW body \in Payloads, HasRequired(body)
    PROVE  /\ NewRecord(body) \in Record
           /\ Stored(NewRecord(body)) \in Record
           /\ Stored(NewRecord(body)).version \in {0, 1}
<1>1. body \in Payload
  BY PayloadAssumption
<1>2. NewRecord(body) \in Record
  BY <1>1 DEF NewRecord, Record, Payload, HasRequired, Statuses
<1>3. NewRecord(body).version = 1
  BY DEF NewRecord
<1>4. QED
  BY <1>2, <1>3, StoredType

LEMMA MergedType ==
    ASSUME NEW base \in Record, NEW body \in Payloads, HasRequired(body)
    PROVE  /\ Merged(base, body) \in Record
           /\ Stored(Merged(base, body)) \in Record
           /\ Merged(base, body).version = base.version + 1
<1>1. body \in Payload
  BY PayloadAssumption
<1>2. /\ body.title \in Titles
      /\ body.dep \in Ids \cup {NoId, Absent}
  BY <1>1 DEF Payload, HasRequired
<1>3. Merged(base, body) \in Record
  BY <1>2, RecordFields DEF Merged, Record
<1>4. Merged(base, body).version = base.version + 1
  BY DEF Merged
<1>5. QED
  BY <1>3, <1>4, StoredType

LEMMA TransitionedType ==
    ASSUME NEW base \in Record, NEW op \in TransitionOps
    PROVE  /\ Transitioned(base, op) \in Record
           /\ Stored(Transitioned(base, op)) \in Record
           /\ Transitioned(base, op).version = base.version + 1
           /\ Transitioned(base, op).dep = base.dep
<1>1. TargetStatus[op] \in Statuses
  BY DEF TargetStatus, TransitionOps, Statuses
<1>2. Transitioned(base, op) \in Record
  BY <1>1, RecordFields DEF Transitioned, Record
<1>3. /\ Transitioned(base, op).version = base.version + 1
      /\ Transitioned(base, op).dep = base.dep
  BY DEF Transitioned
<1>4. QED
  BY <1>2, <1>3, StoredType

----------------------------------------------------------------------------
(* Every step of SnapshotSpec has one effect on the tables, and what it    *)
(* appends is tied to what was there.                                      *)

Appended(id, op, snapshot) ==
    /\ Log(id, op, snapshot)
    /\ IF op = "delete"
       THEN /\ rows' = [rows EXCEPT ![id] = NoRow]
            /\ UNCHANGED revisions
       ELSE /\ rows' = [rows EXCEPT ![id] = snapshot]
            /\ revisions' = [revisions EXCEPT ![id] = Append(@, snapshot)]

Grounded(id, op, snapshot) ==
    /\ op = "create" <=> rows[id] = NoRow
    /\ op # "delete" /\ snapshot.version > 1 =>
          \E j \in DOMAIN revisions[id] :
              revisions[id][j].version + 1 = snapshot.version
    /\ op \in TransitionOps =>
          \E j \in DOMAIN revisions[id] :
              /\ CanTransition(revisions[id][j].status, TargetStatus[op])
              /\ snapshot = Transitioned(revisions[id][j], op)
    /\ op = "publish" /\ snapshot.dep # NoId => WasPublished(snapshot.dep)

Effect(id, op, snapshot) ==
    Appended(id, op, snapshot) /\ Grounded(id, op, snapshot)

LEMMA SnapshotStepHasEffect ==
    ASSUME TablesTypeOK, SnapshotNext
    PROVE  \E id \in Ids, op \in MutationOps, snapshot \in Record :
              Effect(id, op, snapshot)
<1>1. PICK id \in Ids : AtomicCall(id, Snapshots(id), OncePublished)
  BY DEF SnapshotNext
<1>2. ASSUME NEW base \in Snapshots(id)
      PROVE  /\ base \in Record
             /\ \E j \in DOMAIN revisions[id] : base = revisions[id][j]
  BY <1>2 DEF TablesTypeOK, Snapshots
<1>3. NoRow \notin Record
  BY SentinelAssumption
<1>4. ASSUME NEW body \in Payloads, Create(id, body)
      PROVE  \E op \in MutationOps, snapshot \in Record :
                Effect(id, op, snapshot)
  <2> DEFINE new == Stored(NewRecord(body))
  <2>1. new \in Record /\ new.version \in {0, 1}
    BY <1>4, NewRecordType DEF Create
  <2>2. Appended(id, "create", new)
    BY <1>4 DEF Create, Save, Appended
  <2>3. Grounded(id, "create", new)
    BY <1>4, <2>1 DEF Create, Grounded, TransitionOps
  <2>4. QED
    BY <2>1, <2>2, <2>3 DEF Effect, MutationOps
<1>5. ASSUME NEW base \in Snapshots(id), NEW body \in Payloads,
             Update(id, base, body)
      PROVE  \E op \in MutationOps, snapshot \in Record :
                Effect(id, op, snapshot)
  <2> DEFINE new == Stored(Merged(base, body))
  <2>1. /\ new \in Record
        /\ new.version \in {0, base.version + 1}
    BY <1>2, <1>5, MergedType, StoredType DEF Update
  <2>2. Appended(id, "update", new)
    BY <1>5 DEF Update, Save, Appended
  <2>3. Grounded(id, "update", new)
    BY <1>2, <1>5, <2>1 DEF Update, Grounded, TransitionOps
  <2>4. QED
    BY <2>1, <2>2, <2>3 DEF Effect, MutationOps
<1>6. ASSUME NEW base \in Snapshots(id), NEW op \in TransitionOps,
             Transition(id, base, op, OncePublished)
      PROVE  \E snapshot \in Record : Effect(id, op, snapshot)
  <2> DEFINE new == Transitioned(base, op)
  <2>1. /\ new \in Record
        /\ new.version = base.version + 1
        /\ new.dep = base.dep
        /\ Stored(new) = new
    BY <1>2, <1>6, TransitionedType, StoredType DEF Transition
  <2>2. Appended(id, op, new)
    BY <1>6, <2>1 DEF Transition, Save, Appended, TransitionOps
  <2>3. Grounded(id, op, new)
    BY <1>2, <1>6, <2>1 DEF Transition, Grounded, TransitionOps, OncePublished
  <2>4. QED
    BY <2>1, <2>2, <2>3 DEF Effect
<1>7. ASSUME NEW base \in Snapshots(id), Delete(id, base)
      PROVE  Effect(id, "delete", base)
  BY <1>7 DEF Delete, Effect, Appended, Grounded, TransitionOps
<1>8. QED
  BY <1>1, <1>2, <1>4, <1>5, <1>6, <1>7 DEF AtomicCall, MutationOps

----------------------------------------------------------------------------
(* One lemma per part of TableInv: an effect keeps it.                     *)

\* What an effect on id leaves in the tables of any id.
LEMMA EffectOnValues ==
    ASSUME TablesTypeOK, NEW id \in Ids, NEW op \in MutationOps,
           NEW snapshot \in Record, Appended(id, op, snapshot), NEW k \in Ids
    PROVE  /\ auditLogs'[k] =
                 IF k = id
                 THEN Append(auditLogs[k], [op |-> op, snapshot |-> snapshot])
                 ELSE auditLogs[k]
           /\ revisions'[k] =
                 IF k = id /\ op # "delete"
                 THEN Append(revisions[k], snapshot) ELSE revisions[k]
           /\ rows'[k] =
                 IF k = id THEN IF op = "delete" THEN NoRow ELSE snapshot
                 ELSE rows[k]
BY DEF Appended, Log, TablesTypeOK

\* Entries keep their place; at most one is new, at the end.
LEMMA EffectOnRevisions ==
    ASSUME TablesTypeOK, NEW id \in Ids, NEW op \in MutationOps,
           NEW snapshot \in Record, Appended(id, op, snapshot), NEW k \in Ids
    PROVE  /\ \A i \in DOMAIN revisions[k] :
                 /\ i \in DOMAIN revisions'[k]
                 /\ revisions'[k][i] = revisions[k][i]
           /\ \A i \in DOMAIN revisions'[k] :
                 \/ i \in DOMAIN revisions[k]
                 \/ /\ k = id /\ op # "delete" /\ i = Len(revisions[k]) + 1
                    /\ revisions'[k][i] = snapshot
<1>1. revisions[k] \in Seq(Record) /\ snapshot \in Record
  BY DEF TablesTypeOK, AuditEntry
<1>2. revisions'[k] = IF k = id /\ op # "delete"
                      THEN Append(revisions[k], snapshot) ELSE revisions[k]
  BY DEF Appended, TablesTypeOK
<1>3. CASE k = id /\ op # "delete"
  BY <1>1, <1>2, <1>3
<1>4. CASE ~(k = id /\ op # "delete")
  BY <1>2, <1>4
<1>5. QED
  BY <1>3, <1>4

LEMMA EffectOnAuditLogs ==
    ASSUME TablesTypeOK, NEW id \in Ids, NEW op \in MutationOps,
           NEW snapshot \in Record, Appended(id, op, snapshot), NEW k \in Ids
    PROVE  /\ \A i \in DOMAIN auditLogs[k] :
                 /\ i \in DOMAIN auditLogs'[k]
                 /\ auditLogs'[k][i] = auditLogs[k][i]
           /\ \A i \in DOMAIN auditLogs'[k] :
                 \/ i \in DOMAIN auditLogs[k]
                 \/ /\ k = id /\ i = Len(auditLogs[k]) + 1
                    /\ auditLogs'[k][i] = [op |-> op, snapshot |-> snapshot]
<1>1. auditLogs[k] \in Seq(AuditEntry) /\ [op |-> op, snapshot |-> snapshot] \in AuditEntry
  BY DEF TablesTypeOK, AuditEntry
<1>2. auditLogs'[k] = IF k = id
                      THEN Append(auditLogs[k], [op |-> op, snapshot |-> snapshot]) ELSE auditLogs[k]
  BY EffectOnValues
<1>3. CASE k = id
  BY <1>1, <1>2, <1>3
<1>4. CASE ~(k = id)
  BY <1>2, <1>4
<1>5. QED
  BY <1>3, <1>4

LEMMA EffectKeepsType ==
    ASSUME TablesTypeOK, NEW id \in Ids, NEW op \in MutationOps,
           NEW snapshot \in Record, Appended(id, op, snapshot)
    PROVE  TablesTypeOK'
<1>1. [op |-> op, snapshot |-> snapshot] \in AuditEntry
  BY DEF AuditEntry
<1>2. auditLogs' \in [Ids -> Seq(AuditEntry)]
  BY <1>1 DEF Appended, Log, TablesTypeOK
<1>3. revisions' \in [Ids -> Seq(Record)]
  <2>1. CASE op = "delete"
    BY <2>1 DEF Appended, TablesTypeOK
  <2>2. CASE op # "delete"
    <3>1. Append(revisions[id], snapshot) \in Seq(Record)
      BY DEF TablesTypeOK
    <3>2. QED
      BY <2>2, <3>1 DEF Appended, TablesTypeOK
  <2>3. QED
    BY <2>1, <2>2
<1>4. rows' \in [Ids -> Record \cup {NoRow}]
  BY DEF Appended, TablesTypeOK
<1>5. QED
  BY <1>2, <1>3, <1>4 DEF TablesTypeOK

LEMMA EffectKeepsHead ==
    ASSUME TablesTypeOK, HeadMatchesTrail, NEW id \in Ids,
           NEW op \in MutationOps, NEW snapshot \in Record,
           Appended(id, op, snapshot)
    PROVE  HeadMatchesTrail'
<1> SUFFICES ASSUME NEW k \in Ids
             PROVE  HeadMatchesTrailOf(k)'
  BY DEF HeadMatchesTrail
<1>1. CASE k # id
  <2>1. /\ rows'[k] = rows[k]
        /\ revisions'[k] = revisions[k]
        /\ auditLogs'[k] = auditLogs[k]
    BY <1>1, EffectOnValues
  <2>2. QED
    BY <2>1 DEF HeadMatchesTrail, HeadMatchesTrailOf, Latest
<1>2. CASE k = id
  <2> DEFINE entry == [op |-> op, snapshot |-> snapshot]
  <2>1. /\ auditLogs[k] \in Seq(AuditEntry)
        /\ revisions[k] \in Seq(Record)
        /\ entry \in AuditEntry
        /\ snapshot # NoRow
    BY SentinelAssumption DEF TablesTypeOK, AuditEntry
  <2>2. /\ auditLogs'[k] # << >>
        /\ Latest(auditLogs'[k]).op = op
    <3>1. auditLogs'[k] = Append(auditLogs[k], entry)
      BY <1>2, EffectOnValues
    <3>2. QED
      BY <2>1, <3>1 DEF Latest
  <2>3. CASE op = "delete"
    <3>1. rows'[k] = NoRow
      BY <1>2, <2>3, EffectOnValues
    <3>2. QED
      BY <2>2, <2>3, <3>1 DEF HeadMatchesTrailOf, Latest
  <2>4. CASE op # "delete"
    <3>1. rows'[k] = snapshot /\ revisions'[k] = Append(revisions[k], snapshot)
      BY <1>2, <2>4, EffectOnValues
    <3>2. revisions'[k] # << >> /\ Latest(revisions'[k]) = snapshot
      BY <2>1, <3>1 DEF Latest
    <3>3. QED
      BY <2>1, <2>2, <2>4, <3>1, <3>2 DEF HeadMatchesTrailOf, Latest
  <2>5. QED
    BY <2>3, <2>4
<1>3. QED
  BY <1>1, <1>2

LEMMA EffectKeepsGapFree ==
    ASSUME TablesTypeOK, RevisionHistoryGapFree, NEW id \in Ids,
           NEW op \in MutationOps, NEW snapshot \in Record,
           Effect(id, op, snapshot)
    PROVE  RevisionHistoryGapFree'
<1> SUFFICES ASSUME NEW k \in Ids, NEW i \in DOMAIN revisions'[k],
                    revisions'[k][i].version > 1
             PROVE  \E j \in 1..(i - 1) :
                       revisions'[k][j].version + 1 = revisions'[k][i].version
  BY DEF RevisionHistoryGapFree
<1>1. /\ revisions[k] \in Seq(Record)
      /\ Appended(id, op, snapshot)
      /\ Grounded(id, op, snapshot)
  BY DEF TablesTypeOK, Effect
<1>2. \A j \in DOMAIN revisions[k] : revisions'[k][j] = revisions[k][j]
  BY <1>1, EffectOnRevisions
<1>3. CASE i \in DOMAIN revisions[k]
  <2>1. PICK j \in 1..(i - 1) :
               revisions[k][j].version + 1 = revisions[k][i].version
    BY <1>2, <1>3 DEF RevisionHistoryGapFree
  <2>2. j \in DOMAIN revisions[k]
    BY <1>1, <1>3
  <2>3. QED
    BY <1>2, <1>3, <2>1, <2>2
<1>4. CASE /\ k = id /\ op # "delete" /\ i = Len(revisions[k]) + 1
           /\ revisions'[k][i] = snapshot
  <2>1. PICK j \in DOMAIN revisions[k] :
               revisions[k][j].version + 1 = snapshot.version
    BY <1>1, <1>4 DEF Grounded
  <2>2. j \in 1..(i - 1)
    BY <1>1, <1>4
  <2>3. QED
    BY <1>2, <1>4, <2>1, <2>2
<1>5. \A n \in DOMAIN revisions'[k] :
         \/ n \in DOMAIN revisions[k]
         \/ /\ k = id /\ op # "delete" /\ n = Len(revisions[k]) + 1
            /\ revisions'[k][n] = snapshot
  BY <1>1, EffectOnRevisions
<1>6. QED
  BY <1>3, <1>4, <1>5

LEMMA EffectKeepsLegalBase ==
    ASSUME TablesTypeOK, TransitionsFromLegalBase, NEW id \in Ids,
           NEW op \in MutationOps, NEW snapshot \in Record,
           Effect(id, op, snapshot)
    PROVE  TransitionsFromLegalBase'
<1> SUFFICES ASSUME NEW k \in Ids, NEW i \in DOMAIN auditLogs'[k],
                    auditLogs'[k][i].op \in TransitionOps
             PROVE  \E j \in DOMAIN revisions'[k] :
                       /\ CanTransition(revisions'[k][j].status,
                                        TargetStatus[auditLogs'[k][i].op])
                       /\ auditLogs'[k][i].snapshot =
                             Transitioned(revisions'[k][j], auditLogs'[k][i].op)
  BY DEF TransitionsFromLegalBase
<1>1. Appended(id, op, snapshot) /\ Grounded(id, op, snapshot)
  BY DEF Effect
<1>2. \A j \in DOMAIN revisions[k] : /\ j \in DOMAIN revisions'[k]
                                     /\ revisions'[k][j] = revisions[k][j]
  BY <1>1, EffectOnRevisions
<1>3. CASE i \in DOMAIN auditLogs[k]
  <2>1. auditLogs'[k][i] = auditLogs[k][i]
    BY <1>1, <1>3, EffectOnAuditLogs
  <2>2. PICK j \in DOMAIN revisions[k] :
               /\ CanTransition(revisions[k][j].status,
                                TargetStatus[auditLogs[k][i].op])
               /\ auditLogs[k][i].snapshot =
                     Transitioned(revisions[k][j], auditLogs[k][i].op)
    BY <1>3, <2>1 DEF TransitionsFromLegalBase
  <2>3. QED
    BY <1>2, <2>1, <2>2
<1>4. CASE k = id /\ auditLogs'[k][i] = [op |-> op, snapshot |-> snapshot]
  <2>1. PICK j \in DOMAIN revisions[k] :
               /\ CanTransition(revisions[k][j].status, TargetStatus[op])
               /\ snapshot = Transitioned(revisions[k][j], op)
    BY <1>1, <1>4 DEF Grounded
  <2>2. QED
    BY <1>2, <1>4, <2>1
<1>5. QED
  BY <1>1, <1>3, <1>4, EffectOnAuditLogs

LEMMA EffectKeepsPrerequisite ==
    ASSUME TablesTypeOK, PrerequisiteWasPublished, NEW id \in Ids,
           NEW op \in MutationOps, NEW snapshot \in Record,
           Effect(id, op, snapshot)
    PROVE  PrerequisiteWasPublished'
<1> SUFFICES ASSUME NEW k \in Ids, NEW i \in DOMAIN auditLogs'[k],
                    auditLogs'[k][i].op = "publish",
                    auditLogs'[k][i].snapshot.dep # NoId
             PROVE  \E j \in DOMAIN revisions'[auditLogs'[k][i].snapshot.dep] :
                       revisions'[auditLogs'[k][i].snapshot.dep][j].status
                          = "published"
  BY DEF PrerequisiteWasPublished, WasPublished
<1>1. Appended(id, op, snapshot) /\ Grounded(id, op, snapshot)
  BY DEF Effect
<1>2. ASSUME NEW p \in Ids, WasPublished(p)
      PROVE  \E j \in DOMAIN revisions'[p] :
                revisions'[p][j].status = "published"
  <2>1. \A j \in DOMAIN revisions[p] : /\ j \in DOMAIN revisions'[p]
                                       /\ revisions'[p][j] = revisions[p][j]
    BY <1>1, EffectOnRevisions
  <2>2. QED
    BY <1>2, <2>1 DEF WasPublished
<1>3. CASE i \in DOMAIN auditLogs[k]
  <2>1. auditLogs'[k][i] = auditLogs[k][i]
    BY <1>1, <1>3, EffectOnAuditLogs
  <2>2. auditLogs[k][i] \in AuditEntry
    BY <1>3 DEF TablesTypeOK
  <2>3. auditLogs[k][i].snapshot.dep \in Ids
    BY <2>1, <2>2, RecordFields DEF AuditEntry
  <2>4. WasPublished(auditLogs[k][i].snapshot.dep)
    BY <1>3, <2>1 DEF PrerequisiteWasPublished
  <2>5. QED
    BY <1>2, <2>1, <2>3, <2>4
<1>4. CASE auditLogs'[k][i] = [op |-> op, snapshot |-> snapshot]
  <2>1. snapshot.dep \in Ids
    BY <1>4, RecordFields
  <2>2. WasPublished(snapshot.dep)
    BY <1>1, <1>4 DEF Grounded
  <2>3. QED
    BY <1>2, <1>4, <2>1, <2>2
<1>5. QED
  BY <1>1, <1>3, <1>4, EffectOnAuditLogs

LEMMA EffectKeepsLifetimes ==
    ASSUME TablesTypeOK, HeadMatchesTrail, AuditTellsLifetimes,
           NEW id \in Ids, NEW op \in MutationOps, NEW snapshot \in Record,
           Effect(id, op, snapshot)
    PROVE  AuditTellsLifetimes'
<1> SUFFICES ASSUME NEW k \in Ids, NEW i \in DOMAIN auditLogs'[k]
             PROVE  auditLogs'[k][i].op = "create" <=>
                       (i = 1 \/ auditLogs'[k][i - 1].op = "delete")
  BY DEF AuditTellsLifetimes
<1>1. /\ auditLogs[k] \in Seq(AuditEntry)
      /\ Appended(id, op, snapshot)
      /\ Grounded(id, op, snapshot)
  BY DEF TablesTypeOK, Effect
<1>2. \A j \in DOMAIN auditLogs[k] : auditLogs'[k][j] = auditLogs[k][j]
  BY <1>1, EffectOnAuditLogs
<1>3. CASE i \in DOMAIN auditLogs[k]
  <2>1. i = 1 \/ i - 1 \in DOMAIN auditLogs[k]
    BY <1>1, <1>3
  <2>2. QED
    BY <1>2, <1>3, <2>1 DEF AuditTellsLifetimes
<1>4. CASE /\ k = id /\ i = Len(auditLogs[k]) + 1
           /\ auditLogs'[k][i] = [op |-> op, snapshot |-> snapshot]
  <2>1. CASE auditLogs[k] = << >>
    BY <1>1, <1>4, <2>1 DEF Grounded, HeadMatchesTrail, HeadMatchesTrailOf
  <2>2. CASE auditLogs[k] # << >>
    <3>1. /\ i # 1 /\ i - 1 = Len(auditLogs[k])
          /\ i - 1 \in DOMAIN auditLogs[k]
      BY <1>1, <1>4, <2>2
    <3>2. auditLogs'[k][i - 1] = Latest(auditLogs[k])
      BY <1>2, <3>1 DEF Latest
    <3>3. rows[k] = NoRow <=> Latest(auditLogs[k]).op = "delete"
      BY <2>2 DEF HeadMatchesTrail, HeadMatchesTrailOf
    <3>4. QED
      BY <1>1, <1>4, <3>1, <3>2, <3>3 DEF Grounded
  <2>3. QED
    BY <2>1, <2>2
<1>5. QED
  BY <1>1, <1>3, <1>4, EffectOnAuditLogs

----------------------------------------------------------------------------
(* The invariant, and the two contracts compared.                          *)

LEMMA TableInvInit == TablesInit => TableInv
<1> SUFFICES ASSUME TablesInit
             PROVE  TableInv
  OBVIOUS
<1>1. TablesTypeOK
  BY DEF TablesInit, TablesTypeOK
<1>2. \A id \in Ids : /\ rows[id] = NoRow
                      /\ revisions[id] = << >>
                      /\ auditLogs[id] = << >>
  BY DEF TablesInit
<1>3. HeadMatchesTrail
  BY <1>2 DEF HeadMatchesTrail, HeadMatchesTrailOf
<1>4. RevisionHistoryGapFree /\ TransitionsFromLegalBase
  BY <1>2 DEF RevisionHistoryGapFree, TransitionsFromLegalBase
<1>5. PrerequisiteWasPublished /\ AuditTellsLifetimes
  BY <1>2 DEF PrerequisiteWasPublished, AuditTellsLifetimes
<1>6. QED
  BY <1>1, <1>3, <1>4, <1>5 DEF TableInv

LEMMA TableInvStep == TableInv /\ [SnapshotNext]_tables => TableInv'
<1> SUFFICES ASSUME TableInv, [SnapshotNext]_tables
             PROVE  TableInv'
  OBVIOUS
<1>1. CASE SnapshotNext
  <2>1. PICK id \in Ids, op \in MutationOps, snapshot \in Record :
               Effect(id, op, snapshot)
    BY <1>1, SnapshotStepHasEffect DEF TableInv
  <2>2. Appended(id, op, snapshot)
    BY <2>1 DEF Effect
  <2>3. TablesTypeOK'
    BY <2>2, EffectKeepsType DEF TableInv
  <2>4. HeadMatchesTrail'
    BY <2>2, EffectKeepsHead DEF TableInv
  <2>5. RevisionHistoryGapFree'
    BY <2>1, EffectKeepsGapFree DEF TableInv
  <2>6. TransitionsFromLegalBase'
    BY <2>1, EffectKeepsLegalBase DEF TableInv
  <2>7. PrerequisiteWasPublished'
    BY <2>1, EffectKeepsPrerequisite DEF TableInv
  <2>8. AuditTellsLifetimes'
    BY <2>1, EffectKeepsLifetimes DEF TableInv
  <2>9. QED
    BY <2>3, <2>4, <2>5, <2>6, <2>7, <2>8 DEF TableInv
<1>2. CASE UNCHANGED tables
  BY <1>2 DEF tables, TableInv, TablesTypeOK, HeadMatchesTrail,
         HeadMatchesTrailOf, Latest, RevisionHistoryGapFree,
         TransitionsFromLegalBase, PrerequisiteWasPublished, WasPublished,
         AuditTellsLifetimes
<1>3. QED
  BY <1>1, <1>2

\* Racing calls, whatever they read, keep the tables and the trail in step:
\* head, gap-free versions, legal transitions, prerequisites, lifetimes.
THEOREM SnapshotContractKeepsTables == SnapshotSpec => []TableInv
<1>1. QED
  BY TableInvInit, TableInvStep, PTL DEF SnapshotSpec

\* A call that works on the current record works on a committed one: what is
\* promised to racing calls is promised to calls one at a time.
THEOREM SerialImpliesSnapshot == SerialSpec => SnapshotSpec
<1>1. ASSUME TableInv, SerialNext
      PROVE  SnapshotNext
  <2>1. PICK id \in Ids : AtomicCall(id, {rows[id]}, PublishedNow)
    BY <1>1 DEF SerialNext
  <2>2. ASSUME NEW k \in Ids, rows[k] # NoRow
        PROVE  \E j \in DOMAIN revisions[k] : rows[k] = revisions[k][j]
    <3>1. /\ revisions[k] \in Seq(Record)
          /\ revisions[k] # << >>
          /\ rows[k] = revisions[k][Len(revisions[k])]
      BY <1>1, <2>2 DEF TableInv, TablesTypeOK, HeadMatchesTrail,
                        HeadMatchesTrailOf, Latest
    <3>2. Len(revisions[k]) \in DOMAIN revisions[k]
      BY <3>1
    <3>3. QED
      BY <3>1, <3>2
  <2>3. rows[id] # NoRow => rows[id] \in Snapshots(id)
    BY <2>2 DEF Snapshots
  <2>4. PublishedNow \subseteq OncePublished
    BY <2>2 DEF PublishedNow, OncePublished, WasPublished
  <2>5. ASSUME NEW body \in Payloads, Create(id, body)
        PROVE  AtomicCall(id, Snapshots(id), OncePublished)
    BY <2>5 DEF AtomicCall
  <2>6. ASSUME NEW body \in Payloads, Update(id, rows[id], body)
        PROVE  AtomicCall(id, Snapshots(id), OncePublished)
    BY <2>3, <2>6 DEF AtomicCall, Update
  <2>7. ASSUME NEW op \in TransitionOps,
               Transition(id, rows[id], op, PublishedNow)
        PROVE  AtomicCall(id, Snapshots(id), OncePublished)
    <3>1. rows[id] \in Snapshots(id) /\ rows[id] \in Record
      BY <1>1, <2>3, <2>7 DEF Transition, TableInv, TablesTypeOK
    <3>2. rows[id].dep # NoId => rows[id].dep \in Ids
      BY <3>1, RecordFields
    <3>3. Transition(id, rows[id], op, OncePublished)
      BY <2>4, <2>7, <3>2 DEF Transition
    <3>4. QED
      BY <3>1, <3>3 DEF AtomicCall
  <2>8. ASSUME Delete(id, rows[id])
        PROVE  AtomicCall(id, Snapshots(id), OncePublished)
    BY <2>3, <2>8 DEF AtomicCall, Delete
  <2>9. QED
    BY <2>1, <2>5, <2>6, <2>7, <2>8 DEF AtomicCall, SnapshotNext
<1>2. TableInv /\ [SerialNext]_tables => [SnapshotNext]_tables /\ TableInv'
  BY <1>1, TableInvStep
<1>3. QED
  BY <1>2, TableInvInit, PTL DEF SerialSpec, SnapshotSpec

============================================================================
