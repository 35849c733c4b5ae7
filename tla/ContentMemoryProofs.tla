------------------------ MODULE ContentMemoryProofs ------------------------
(**************************************************************************)
(* What no interleaving of requests over the memory store can lose, for   *)
(* any sessions, ids and payloads: a row is a revision or will be, once   *)
(* nothing is owed the history is legal, an answered mutation is recorded *)
(* and revisions and audit entries pair up.                               *)
(*                                                                        *)
(* A record is known from the moment it is stored, though its revision is *)
(* not inserted yet.  What a request knows is stated as an operator of    *)
(* three sets that only grow: records known, revised and logged.          *)
(**************************************************************************)
EXTENDS ContentMemoryAlone, ContentContractProofs, FiniteSetTheorems, SequenceTheorems

----------------------------------------------------------------------------
(* The invariant.                                                          *)

Revised == [id \in Ids |-> Snapshots(id)]

Known ==
    [id \in Ids |-> Snapshots(id) \cup {held[s] : s \in {t \in Sessions : Owes(t, id, "revising")}}]

Logged == [id \in Ids |-> Elements(auditLogs[id])]

\* A transition is from a known record, a publish has a prerequisite that was
\* known to be published.
Supported(known, op, snapshot) ==
    op = "publish" /\ snapshot.dep # NoId =>
        \E record \in known[snapshot.dep] : record.status = "published"

Justified(known, id, op, snapshot) ==
    /\ op \in TransitionOps =>
          \E base \in known[id] :
              /\ CanTransition(base.status, TargetStatus[op])
              /\ snapshot = Transitioned(base, op)
    /\ Supported(known, op, snapshot)

\* What a request at the step p knows, by the record r it holds.
Knows(known, revised, logged, p, request, r) ==
    /\ p \notin {"idle", "error"} => request \in Requests
    /\ p = "reading" => request.op # "create"
    /\ p \in {"checking", "writing"} =>
          /\ request.op # "get"
          /\ request.op \in {"create", "update"} => HasRequired(request.body)
          /\ request.op # "create" => r \in known[request.id]
          /\ request.op \in TransitionOps => CanTransition(r.status, TargetStatus[request.op])
    /\ p = "checking" => request.op = "publish"
    /\ p = "writing" => Supported(known, request.op, r) \/ request.op # "publish"
    /\ p \in Owing =>
          /\ r \in Record /\ request.op \in MutationOps
          /\ Justified(known, request.id, request.op, r)
    /\ p = "revising" => request.op # "delete"
    /\ p = "auditing" /\ request.op # "delete" => r \in revised[request.id]
    /\ p = "ok" /\ request.op # "get" =>
          /\ [op |-> request.op, snapshot |-> r] \in logged[request.id]
          /\ request.op # "delete" => r \in revised[request.id]

SessionsKnow ==
    \A s \in Sessions : Knows(Known, Revised, Logged, pc[s], req[s], held[s])

RowsKnown == \A id \in Ids : rows[id] # NoRow => rows[id] \in Known[id]

TrailJustified ==
    \A id \in Ids : \A e \in Logged[id] : Justified(Known, id, e.op, e.snapshot)

Inv == TypeOK /\ SessionsKnow /\ RowsKnown /\ TrailJustified

----------------------------------------------------------------------------
(* What is known only grows, and what a request knows stays true.          *)

LEMMA RequestFields ==
    ASSUME NEW request \in Requests
    PROVE  /\ request.id \in Ids
           /\ request.op \in {"get"} \cup MutationOps
           /\ request.op \in {"create", "update"} => request.body \in Payloads
  BY DEF Requests, MutationOps, TransitionOps

LEMMA JustifiedLasts ==
    ASSUME NEW known, NEW more, \A k \in Ids : known[k] \subseteq more[k],
           NEW id \in Ids, NEW op, NEW snapshot \in Record
    PROVE  /\ Justified(known, id, op, snapshot) => Justified(more, id, op, snapshot)
           /\ Supported(known, op, snapshot) => Supported(more, op, snapshot)
  <1>1. snapshot.dep \in Ids \cup {NoId}
    BY RecordFields
  <1>2. Supported(known, op, snapshot) => Supported(more, op, snapshot)
    BY <1>1 DEF Supported
  <1> QED  BY <1>2 DEF Justified

LEMMA KnowsLasts ==
    ASSUME NEW known, NEW revised, NEW logged, NEW more, NEW revisedMore, NEW loggedMore,
           \A k \in Ids : /\ known[k] \subseteq more[k] /\ known[k] \subseteq Record
                          /\ revised[k] \subseteq revisedMore[k]
                          /\ logged[k] \subseteq loggedMore[k],
           NEW p, NEW request, NEW r, Knows(known, revised, logged, p, request, r)
    PROVE  Knows(more, revisedMore, loggedMore, p, request, r)
  <1>1. p \notin {"idle", "error"} => request \in Requests /\ request.id \in Ids
    BY RequestFields DEF Knows
  <1>2. p \in Owing => Justified(more, request.id, request.op, r)
    <2>1. SUFFICES ASSUME p \in Owing  PROVE Justified(more, request.id, request.op, r)
      OBVIOUS
    <2>2. request.id \in Ids /\ r \in Record /\ Justified(known, request.id, request.op, r)
      BY <1>1, <2>1 DEF Knows, Owing
    <2> QED  BY <2>2, JustifiedLasts
  <1>3. p = "writing" => Supported(more, request.op, r) \/ request.op # "publish"
    <2>1. SUFFICES ASSUME p = "writing", request.op = "publish"
                   PROVE  Supported(more, request.op, r)
      OBVIOUS
    <2>2. request.id \in Ids /\ r \in known[request.id] /\ Supported(known, request.op, r)
      BY <1>1, <2>1 DEF Knows
    <2>3. r \in Record
      BY <2>2
    <2> QED  BY <2>2, <2>3, JustifiedLasts
  <1>4. p \in {"checking", "writing"} /\ request.op # "create" => r \in more[request.id]
    BY <1>1 DEF Knows
  <1>5. p = "auditing" /\ request.op # "delete" => r \in revisedMore[request.id]
    BY <1>1 DEF Knows
  <1>6. p = "ok" /\ request.op # "get" =>
           /\ [op |-> request.op, snapshot |-> r] \in loggedMore[request.id]
           /\ request.op # "delete" => r \in revisedMore[request.id]
    BY <1>1 DEF Knows
  <1> QED  BY <1>2, <1>3, <1>4, <1>5, <1>6 DEF Knows

\* A sequence that one record was appended to.
LEMMA Appending ==
    ASSUME NEW S, NEW q \in Seq(S), NEW x \in S
    PROVE  /\ DOMAIN Append(q, x) = DOMAIN q \cup {Len(q) + 1}
           /\ \A i \in DOMAIN q : Append(q, x)[i] = q[i]
           /\ Append(q, x)[Len(q) + 1] = x
           /\ Len(q) + 1 \notin DOMAIN q
  OBVIOUS

LEMMA KnownRecords ==
    ASSUME Inv, NEW id \in Ids
    PROVE  /\ Known[id] \subseteq Record
           /\ Revised[id] \subseteq Known[id]
           /\ Logged[id] \subseteq AuditEntry
  <1>1. revisions[id] \in Seq(Record) /\ auditLogs[id] \in Seq(AuditEntry)
    BY DEF Inv, TypeOK, TablesTypeOK
  <1>2. Snapshots(id) \subseteq Record /\ Elements(auditLogs[id]) \subseteq AuditEntry
    BY <1>1 DEF Snapshots, Elements
  <1>3. \A s \in Sessions : Owes(s, id, "revising") => held[s] \in Record
    BY DEF Inv, SessionsKnow, Knows, Owes, Owing
  <1> QED  BY <1>2, <1>3 DEF Known, Revised, Logged

----------------------------------------------------------------------------
(* Steps of one session.                                                   *)

OthersStay(s) ==
    \A t \in Sessions \ {s} : pc'[t] = pc[t] /\ req'[t] = req[t] /\ held'[t] = held[t]

\* What is left to show of a step.
LEMMA StepKeepsInv ==
    ASSUME Inv, NEW s \in Sessions, OthersStay(s), TypeOK',
           \A k \in Ids : /\ Known[k] \subseteq Known'[k]
                          /\ Revised[k] \subseteq Revised'[k]
                          /\ Logged[k] \subseteq Logged'[k],
           Knows(Known', Revised', Logged', pc'[s], req'[s], held'[s]),
           \A id \in Ids : rows'[id] \in {rows[id], NoRow} \cup Known'[id],
           \A id \in Ids : \A e \in Logged'[id] \ Logged[id] :
               Justified(Known', id, e.op, e.snapshot)
    PROVE  Inv'
  <1>1. \A k \in Ids : Known[k] \subseteq Record
    BY KnownRecords
  <1>2. SessionsKnow'
    <2>1. SUFFICES ASSUME NEW t \in Sessions
                   PROVE  Knows(Known', Revised', Logged', pc'[t], req'[t], held'[t])
      BY DEF SessionsKnow
    <2>2. CASE t = s
      BY <2>2
    <2>3. CASE t # s
      <3>1. /\ pc'[t] = pc[t] /\ req'[t] = req[t] /\ held'[t] = held[t]
            /\ Knows(Known, Revised, Logged, pc[t], req[t], held[t])
        BY <2>3 DEF OthersStay, Inv, SessionsKnow
      <3> QED  BY <1>1, <3>1, KnowsLasts
    <2> QED  BY <2>2, <2>3
  <1>3. RowsKnown'
    BY DEF RowsKnown, Inv
  <1>4. TrailJustified'
    <2>1. SUFFICES ASSUME NEW id \in Ids, NEW e \in Logged'[id]
                   PROVE  Justified(Known', id, e.op, e.snapshot)
      BY DEF TrailJustified
    <2>2. CASE e \in Logged[id]
      <3>1. e.snapshot \in Record
        BY <2>2, KnownRecords DEF AuditEntry
      <3>2. Justified(Known, id, e.op, e.snapshot)
        BY <2>2 DEF Inv, TrailJustified
      <3> QED  BY <3>1, <3>2, JustifiedLasts
    <2> QED  BY <2>1, <2>2
  <1> QED  BY <1>2, <1>3, <1>4 DEF Inv

\* A step that leaves the tables alone and is not about a revision.
LEMMA KnownStays ==
    ASSUME NEW s \in Sessions, OthersStay(s), revisions' = revisions,
           pc[s] # "revising", pc'[s] # "revising"
    PROVE  Known' = Known /\ Revised' = Revised
  <1>1. Revised' = Revised
    BY DEF Revised, Snapshots
  <1>2. \A k \in Ids : {t \in Sessions : Owes(t, k, "revising")}'
                          = {t \in Sessions : Owes(t, k, "revising")}
    BY DEF Owes, OthersStay
  <1>3. \A k \in Ids : \A t \in {t \in Sessions : Owes(t, k, "revising")} : held'[t] = held[t]
    BY DEF Owes, OthersStay
  <1>4. \A k \in Ids : {held[t] : t \in {t \in Sessions : Owes(t, k, "revising")}}'
                          = {held[t] : t \in {t \in Sessions : Owes(t, k, "revising")}}
    BY <1>2, <1>3
  <1> QED  BY <1>1, <1>4 DEF Known, Snapshots

LEMMA QuietStepKeepsInv ==
    ASSUME Inv, NEW s \in Sessions, OthersStay(s), UNCHANGED <<revisions, auditLogs>>,
           TypeOK', pc[s] # "revising", pc'[s] # "revising",
           \A id \in Ids : rows'[id] \in {rows[id], NoRow},
           Knows(Known, Revised, Logged, pc'[s], req'[s], held'[s])
    PROVE  Inv'
  <1>1. Known' = Known /\ Revised' = Revised
    BY KnownStays
  <1>2. Logged' = Logged
    BY DEF Logged, Elements
  <1> QED  BY <1>1, <1>2, StepKeepsInv

----------------------------------------------------------------------------
(* The actions.                                                            *)

LEMMA GotoType ==
    ASSUME TypeOK, NEW s \in Sessions, NEW step \in Steps, Goto(s, step)
    PROVE  pc' \in [Sessions -> Steps]
  BY DEF Goto, TypeOK

LEMMA AcceptKeepsInv ==
    ASSUME Inv, NEW s \in Sessions, NEW request \in Requests, Accept(s, request)
    PROVE  Inv'
  <1> DEFINE step == IF RefusedUnread(request) THEN "error"
                     ELSE IF request.op = "create" THEN "writing" ELSE "reading"
  <1>1. /\ pc[s] = "idle" /\ Goto(s, step) /\ req' = [req EXCEPT ![s] = request]
        /\ UNCHANGED <<rows, revisions, auditLogs, held>>
    BY DEF Accept, tables
  <1>2. TypeOK
    BY DEF Inv
  <1>3. OthersStay(s) /\ pc'[s] = step /\ req'[s] = request /\ held'[s] = held[s]
    BY <1>1, <1>2 DEF Goto, OthersStay, TypeOK
  <1>4. step \in Steps
    BY DEF Steps, Working
  <1> HIDE DEF step
  <1>5. TypeOK'
    BY <1>1, <1>2, <1>4, GotoType DEF TypeOK, TablesTypeOK
  <1>6. Knows(Known, Revised, Logged, step, request, held[s])
    BY DEF step, Knows, Owing, RefusedUnread, Supported, TransitionOps
  <1>7. step # "revising"
    BY DEF step
  <1> QED  BY <1>1, <1>3, <1>5, <1>6, <1>7, QuietStepKeepsInv

LEMMA FailKeepsInv ==
    ASSUME Inv, NEW s \in Sessions, Fail(s), pc[s] \in {"reading", "checking"}
    PROVE  Inv'
  <1>1. /\ Goto(s, "error") /\ held' = [held EXCEPT ![s] = NoRow]
        /\ UNCHANGED <<rows, revisions, auditLogs, req>>
    BY DEF Fail, tables
  <1>2. TypeOK
    BY DEF Inv
  <1>3. OthersStay(s) /\ pc'[s] = "error" /\ req'[s] = req[s] /\ held'[s] = NoRow
    BY <1>1, <1>2 DEF Goto, OthersStay, TypeOK
  <1>4. TypeOK'
    <2>1. "error" \in Steps
      BY DEF Steps
    <2> QED  BY <1>1, <1>2, <2>1, GotoType DEF TypeOK, TablesTypeOK
  <1>5. Knows(Known, Revised, Logged, "error", req[s], NoRow)
    BY DEF Knows, Owing
  <1> QED  BY <1>1, <1>3, <1>4, <1>5, QuietStepKeepsInv

LEMMA ReadExistingKeepsInv ==
    ASSUME Inv, NEW s \in Sessions, ReadExisting(s)
    PROVE  Inv'
  <1> DEFINE request == req[s]
             existing == rows[request.id]
             step == IF request.op = "get" THEN "ok"
                     ELSE IF ChecksDependency(request, existing) THEN "checking" ELSE "writing"
  <1>1. CASE Refused(request, existing)
    BY <1>1, FailKeepsInv DEF ReadExisting
  <1>2. CASE ~Refused(request, existing)
    <2>1. /\ pc[s] = "reading" /\ Goto(s, step) /\ held' = [held EXCEPT ![s] = existing]
          /\ UNCHANGED <<rows, revisions, auditLogs, req>>
      BY <1>2 DEF ReadExisting, tables
    <2>2. TypeOK
      BY DEF Inv
    <2>3. /\ request \in Requests /\ request.op # "create"
          /\ request.id \in Ids /\ request.op \in {"get"} \cup MutationOps
      BY <2>1, RequestFields DEF Inv, SessionsKnow, Knows
    <2>4. OthersStay(s) /\ pc'[s] = step /\ req'[s] = request /\ held'[s] = existing
      BY <2>1, <2>2 DEF Goto, OthersStay, TypeOK
    <2>5. step \in Steps /\ step # "revising"
      BY DEF Steps, Working
    <2>6. existing \in Record /\ existing \in Known[request.id]
      <3>1. existing # NoRow
        BY <1>2 DEF Refused
      <3> QED  BY <2>2, <2>3, <3>1 DEF Inv, RowsKnown, TypeOK, TablesTypeOK
    <2>7. Knows(Known, Revised, Logged, step, request, existing)
      <3>1. request.op = "publish" /\ step = "writing" => existing.dep = NoId
        BY DEF ChecksDependency
      <3>2. step = "checking" => request.op = "publish"
        BY DEF ChecksDependency
      <3>3. step \in {"ok", "checking", "writing"} /\ (step = "ok" <=> request.op = "get")
        OBVIOUS
      <3>4. request.op \in {"create", "update"} => HasRequired(request.body)
        BY <1>2, <2>3 DEF Refused
      <3>5. request.op \in TransitionOps => CanTransition(existing.status, TargetStatus[request.op])
        BY <1>2 DEF Refused
      <3> HIDE DEF step, request, existing
      <3> QED  BY <2>3, <2>6, <3>1, <3>2, <3>3, <3>4, <3>5 DEF Knows, Owing, Supported
    <2> HIDE DEF step, request, existing
    <2>8. TypeOK'
      BY <2>1, <2>2, <2>5, <2>6, GotoType DEF TypeOK, TablesTypeOK
    <2> QED  BY <2>1, <2>4, <2>5, <2>7, <2>8, QuietStepKeepsInv
  <1> QED  BY <1>1, <1>2

LEMMA CheckDependencyKeepsInv ==
    ASSUME Inv, NEW s \in Sessions, CheckDependency(s)
    PROVE  Inv'
  <1>1. CASE ~DependencyMet(rows[held[s].dep])
    BY <1>1, FailKeepsInv DEF CheckDependency
  <1>2. CASE DependencyMet(rows[held[s].dep])
    <2>1. pc[s] = "checking" /\ Goto(s, "writing") /\ UNCHANGED <<rows, revisions, auditLogs, req, held>>
      BY <1>2 DEF CheckDependency, tables
    <2>2. TypeOK
      BY DEF Inv
    <2>3. OthersStay(s) /\ pc'[s] = "writing" /\ req'[s] = req[s] /\ held'[s] = held[s]
      BY <2>1, <2>2 DEF Goto, OthersStay, TypeOK
    <2>4. TypeOK'
      <3>1. "writing" \in Steps
        BY DEF Steps, Working
      <3> QED  BY <2>1, <2>2, <3>1, GotoType DEF TypeOK, TablesTypeOK
    <2>5. Knows(Known, Revised, Logged, "checking", req[s], held[s])
      BY <2>1 DEF Inv, SessionsKnow
    <2>6. req[s].op = "publish" /\ req[s] \in Requests /\ req[s].id \in Ids /\ held[s] \in Known[req[s].id]
      BY <2>5, RequestFields DEF Knows
    <2>7. Supported(Known, req[s].op, held[s])
      <3>1. held[s].dep \in Ids \cup {NoId}
        BY <2>6, KnownRecords, RecordFields
      <3>2. SUFFICES ASSUME held[s].dep # NoId
                     PROVE  \E record \in Known[held[s].dep] : record.status = "published"
        BY DEF Supported
      <3> QED  BY <1>2, <3>1, <3>2 DEF DependencyMet, Inv, RowsKnown
    <2>8. Knows(Known, Revised, Logged, "writing", req[s], held[s])
      BY <2>5, <2>6, <2>7 DEF Knows, Owing
    <2> QED  BY <2>1, <2>3, <2>4, <2>8, QuietStepKeepsInv
  <1> QED  BY <1>1, <1>2

\* The record a request is about to store is a record, and justified.
LEMMA ProposalIsJustified ==
    ASSUME NEW known, NEW revised, NEW logged, NEW request, NEW r,
           request.op # "delete",
           \A k \in Ids : known[k] \subseteq Record,
           Knows(known, revised, logged, "writing", request, r)
    PROVE  /\ Proposal(request, r) \in Record
           /\ request.op \in MutationOps
           /\ Justified(known, request.id, request.op, Proposal(request, r))
  <1>1. /\ request \in Requests /\ request.id \in Ids /\ request.op \in MutationOps
        /\ request.op \in {"create", "update"} => request.body \in Payloads /\ HasRequired(request.body)
        /\ request.op # "create" => r \in Record /\ r \in known[request.id]
    BY RequestFields DEF Knows
  <1>2. CASE request.op = "create"
    <2>1. Proposal(request, r) = NewRecord(request.body)
      BY <1>2 DEF Proposal, TransitionOps
    <2> QED  BY <1>1, <1>2, <2>1, NewRecordType DEF Justified, Supported, TransitionOps
  <1>3. CASE request.op = "update"
    <2>1. Proposal(request, r) = Merged(r, request.body)
      BY <1>3 DEF Proposal, TransitionOps
    <2> QED  BY <1>1, <1>3, <2>1, MergedType DEF Justified, Supported, TransitionOps
  <1>4. CASE request.op \in TransitionOps
    <2>1. Proposal(request, r) = Transitioned(r, request.op)
      BY <1>4 DEF Proposal, TransitionOps
    <2>2. Transitioned(r, request.op) \in Record /\ Transitioned(r, request.op).dep = r.dep
      BY <1>1, <1>4, TransitionedType DEF TransitionOps
    <2>3. r \in known[request.id] /\ CanTransition(r.status, TargetStatus[request.op])
      BY <1>1, <1>4 DEF Knows, TransitionOps
    <2>4. Supported(known, request.op, r) \/ request.op # "publish"
      BY DEF Knows
    <2> QED  BY <1>1, <2>1, <2>2, <2>3, <2>4 DEF Justified, Supported
  <1> QED  BY <1>1, <1>2, <1>3, <1>4 DEF MutationOps

LEMMA StoreRowKeepsInv ==
    ASSUME Inv, NEW s \in Sessions, StoreRow(s)
    PROVE  Inv'
  <1> DEFINE record == Proposal(req[s], held[s])
             id == req[s].id
  <1>1. /\ pc[s] = "writing" /\ req[s].op # "delete"
        /\ rows' = [rows EXCEPT ![id] = record] /\ held' = [held EXCEPT ![s] = record]
        /\ Goto(s, "revising") /\ UNCHANGED <<revisions, auditLogs, req>>
    BY DEF StoreRow
  <1>2. TypeOK
    BY DEF Inv
  <1>3. Knows(Known, Revised, Logged, "writing", req[s], held[s])
    BY <1>1 DEF Inv, SessionsKnow
  <1>4. req[s] \in Requests /\ id \in Ids
    BY <1>3, RequestFields DEF Knows
  <1>5. record \in Record /\ req[s].op \in MutationOps /\ Justified(Known, id, req[s].op, record)
    BY <1>1, <1>3, ProposalIsJustified, KnownRecords
  <1> HIDE DEF record
  <1>6. OthersStay(s) /\ pc'[s] = "revising" /\ req'[s] = req[s] /\ held'[s] = record
    BY <1>1, <1>2 DEF Goto, OthersStay, TypeOK
  <1>7. TypeOK'
    <2>1. "revising" \in Steps
      BY DEF Steps, Working, Owing
    <2> QED  BY <1>1, <1>2, <1>4, <1>5, <2>1, GotoType DEF TypeOK, TablesTypeOK
  <1>8. Revised' = Revised /\ Logged' = Logged
    BY <1>1 DEF Revised, Snapshots, Logged, Elements
  <1>9. \A k \in Ids : Known[k] \subseteq Known'[k]
    <2>1. SUFFICES ASSUME NEW k \in Ids, NEW r \in Known[k]  PROVE r \in Known'[k]
      OBVIOUS
    <2>2. CASE r \in Snapshots(k)
      BY <1>1, <2>2 DEF Known, Snapshots
    <2>3. ASSUME NEW t \in Sessions, Owes(t, k, "revising"), r = held[t]
          PROVE  r \in Known'[k]
      <3>1. t # s
        BY <1>1, <2>3 DEF Owes
      <3>2. Owes(t, k, "revising")' /\ held'[t] = r
        BY <1>6, <2>3, <3>1 DEF Owes, OthersStay
      <3> QED  BY <3>2 DEF Known
    <2> QED  BY <2>1, <2>2, <2>3 DEF Known
  <1>10. record \in Known'[id]
    BY <1>4, <1>6 DEF Known, Owes
  <1>11. Knows(Known', Revised', Logged', "revising", req[s], record)
    <2>1. Justified(Known', id, req[s].op, record)
      BY <1>4, <1>5, <1>9, JustifiedLasts
    <2> QED  BY <1>1, <1>4, <1>5, <2>1 DEF Knows, Owing
  <1>12. \A k \in Ids : rows'[k] \in {rows[k], NoRow} \cup Known'[k]
    BY <1>1, <1>2, <1>4, <1>10 DEF TypeOK, TablesTypeOK
  <1> QED  BY <1>6, <1>7, <1>8, <1>9, <1>11, <1>12, StepKeepsInv

LEMMA DeleteRowKeepsInv ==
    ASSUME Inv, NEW s \in Sessions, DeleteRow(s)
    PROVE  Inv'
  <1>1. /\ pc[s] = "writing" /\ req[s].op = "delete"
        /\ rows' = [rows EXCEPT ![req[s].id] = NoRow]
        /\ Goto(s, "auditing") /\ UNCHANGED <<revisions, auditLogs, req, held>>
    BY DEF DeleteRow
  <1>2. TypeOK
    BY DEF Inv
  <1>3. Knows(Known, Revised, Logged, "writing", req[s], held[s])
    BY <1>1 DEF Inv, SessionsKnow
  <1>4. req[s] \in Requests /\ req[s].id \in Ids /\ held[s] \in Record
    BY <1>1, <1>3, RequestFields, KnownRecords DEF Knows
  <1>5. OthersStay(s) /\ pc'[s] = "auditing" /\ req'[s] = req[s] /\ held'[s] = held[s]
    BY <1>1, <1>2 DEF Goto, OthersStay, TypeOK
  <1>6. TypeOK'
    <2>1. "auditing" \in Steps
      BY DEF Steps, Working, Owing
    <2> QED  BY <1>1, <1>2, <1>4, <2>1, GotoType DEF TypeOK, TablesTypeOK
  <1>7. Knows(Known, Revised, Logged, "auditing", req[s], held[s])
    BY <1>1, <1>4 DEF Knows, Owing, Justified, Supported, TransitionOps, MutationOps
  <1>8. \A k \in Ids : rows'[k] \in {rows[k], NoRow}
    BY <1>1, <1>2, <1>4 DEF TypeOK, TablesTypeOK
  <1> QED  BY <1>1, <1>5, <1>6, <1>7, <1>8, QuietStepKeepsInv

LEMMA InsertRevisionKeepsInv ==
    ASSUME Inv, NEW s \in Sessions, InsertRevision(s)
    PROVE  Inv'
  <1> DEFINE id == req[s].id
  <1>1. /\ pc[s] = "revising"
        /\ revisions' = [revisions EXCEPT ![id] = Append(@, held[s])]
        /\ Goto(s, "auditing") /\ UNCHANGED <<rows, auditLogs, req, held>>
    BY DEF InsertRevision
  <1>2. TypeOK
    BY DEF Inv
  <1>3. Knows(Known, Revised, Logged, "revising", req[s], held[s])
    BY <1>1 DEF Inv, SessionsKnow
  <1>4. /\ req[s] \in Requests /\ id \in Ids /\ held[s] \in Record /\ req[s].op \in MutationOps
        /\ Justified(Known, id, req[s].op, held[s])
    BY <1>3, RequestFields DEF Knows, Owing
  <1>5. OthersStay(s) /\ pc'[s] = "auditing" /\ req'[s] = req[s] /\ held'[s] = held[s]
    BY <1>1, <1>2 DEF Goto, OthersStay, TypeOK
  <1>6. \A k \in Ids : revisions[k] \in Seq(Record)
    BY <1>2 DEF TypeOK, TablesTypeOK
  <1>7. TypeOK'
    <2>1. "auditing" \in Steps
      BY DEF Steps, Working, Owing
    <2>2. revisions' \in [Ids -> Seq(Record)]
      BY <1>1, <1>2, <1>4 DEF TypeOK, TablesTypeOK
    <2> QED  BY <1>1, <1>2, <2>1, <2>2, GotoType DEF TypeOK, TablesTypeOK
  <1>8. \A k \in Ids : Revised'[k] = IF k = id THEN Revised[k] \cup {held[s]} ELSE Revised[k]
    <2>1. SUFFICES ASSUME NEW k \in Ids
                   PROVE  Revised'[k] = IF k = id THEN Revised[k] \cup {held[s]} ELSE Revised[k]
      OBVIOUS
    <2>2. revisions'[k] = IF k = id THEN Append(revisions[k], held[s]) ELSE revisions[k]
      BY <1>1, <1>2 DEF TypeOK, TablesTypeOK
    <2>5. Revised[k] = Elements(revisions[k]) /\ Revised'[k] = Elements(revisions'[k])
      BY DEF Revised, Snapshots, Elements
    <2>3. CASE k = id
      <3>1. Elements(revisions'[k]) = Elements(revisions[k]) \cup {held[s]}
        <4>1. /\ revisions[k] \in Seq(Record) /\ held[s] \in Record
              /\ revisions'[k] = Append(revisions[k], held[s])
          BY <1>4, <1>6, <2>2, <2>3
        <4>2. /\ DOMAIN revisions'[k] = DOMAIN revisions[k] \cup {Len(revisions[k]) + 1}
              /\ \A i \in DOMAIN revisions[k] : revisions'[k][i] = revisions[k][i] /\ i # Len(revisions[k]) + 1
              /\ revisions'[k][Len(revisions[k]) + 1] = held[s]
          BY <4>1, Appending
        <4> QED  BY <4>2 DEF Elements
      <3> QED  BY <2>3, <2>5, <3>1
    <2>4. CASE k # id
      BY <2>2, <2>4 DEF Revised, Snapshots
    <2> QED  BY <2>3, <2>4
  <1>9. Logged' = Logged
    BY <1>1 DEF Logged, Elements
  <1>10. \A k \in Ids : Known[k] \subseteq Known'[k]
    <2>1. SUFFICES ASSUME NEW k \in Ids, NEW r \in Known[k]  PROVE r \in Known'[k]
      OBVIOUS
    <2>2. Revised'[k] \subseteq Known'[k]
      BY DEF Revised, Known
    <2>3. CASE r \in Snapshots(k)
      BY <1>8, <2>2, <2>3 DEF Revised
    <2>4. ASSUME NEW t \in Sessions, Owes(t, k, "revising"), r = held[t]
          PROVE  r \in Known'[k]
      <3>1. CASE t = s
        BY <1>8, <2>2, <2>4, <3>1 DEF Owes
      <3>2. CASE t # s
        <4>1. Owes(t, k, "revising")' /\ held'[t] = r
          BY <1>5, <2>4, <3>2 DEF Owes, OthersStay
        <4> QED  BY <4>1 DEF Known
      <3> QED  BY <3>1, <3>2
    <2> QED  BY <2>1, <2>3, <2>4 DEF Known
  <1>11. Knows(Known', Revised', Logged', "auditing", req[s], held[s])
    <2>1. Justified(Known', id, req[s].op, held[s])
      BY <1>4, <1>10, JustifiedLasts
    <2>2. held[s] \in Revised'[id]
      BY <1>4, <1>8
    <2> QED  BY <1>4, <2>1, <2>2 DEF Knows, Owing
  <1> QED  BY <1>1, <1>5, <1>7, <1>8, <1>9, <1>10, <1>11, StepKeepsInv

LEMMA InsertAuditKeepsInv ==
    ASSUME Inv, NEW s \in Sessions, InsertAudit(s)
    PROVE  Inv'
  <1> DEFINE id == req[s].id
             entry == [op |-> req[s].op, snapshot |-> held[s]]
  <1>1. /\ pc[s] = "auditing" /\ auditLogs' = [auditLogs EXCEPT ![id] = Append(@, entry)]
        /\ Goto(s, "ok") /\ UNCHANGED <<rows, revisions, req, held>>
    BY DEF InsertAudit, Log
  <1>2. TypeOK
    BY DEF Inv
  <1>3. Knows(Known, Revised, Logged, "auditing", req[s], held[s])
    BY <1>1 DEF Inv, SessionsKnow
  <1>4. /\ req[s] \in Requests /\ id \in Ids /\ held[s] \in Record /\ req[s].op \in MutationOps
        /\ Justified(Known, id, req[s].op, held[s])
        /\ req[s].op # "delete" => held[s] \in Revised[id]
    BY <1>3, RequestFields DEF Knows, Owing
  <1>5. entry \in AuditEntry /\ entry.op = req[s].op /\ entry.snapshot = held[s]
    BY <1>4 DEF AuditEntry
  <1>6. OthersStay(s) /\ pc'[s] = "ok" /\ req'[s] = req[s] /\ held'[s] = held[s]
    BY <1>1, <1>2 DEF Goto, OthersStay, TypeOK
  <1>7. TypeOK'
    <2>1. "ok" \in Steps
      BY DEF Steps
    <2>2. auditLogs' \in [Ids -> Seq(AuditEntry)]
      BY <1>1, <1>2, <1>4, <1>5 DEF TypeOK, TablesTypeOK
    <2> QED  BY <1>1, <1>2, <2>1, <2>2, GotoType DEF TypeOK, TablesTypeOK
  <1>8. Known' = Known /\ Revised' = Revised
    BY <1>1, <1>6, KnownStays
  <1>9. \A k \in Ids : Logged'[k] = IF k = id THEN Logged[k] \cup {entry} ELSE Logged[k]
    <2>1. SUFFICES ASSUME NEW k \in Ids
                   PROVE  Logged'[k] = IF k = id THEN Logged[k] \cup {entry} ELSE Logged[k]
      OBVIOUS
    <2>2. auditLogs'[k] = IF k = id THEN Append(auditLogs[k], entry) ELSE auditLogs[k]
      BY <1>1, <1>2 DEF TypeOK, TablesTypeOK
    <2>3. auditLogs[k] \in Seq(AuditEntry)
      BY <1>2 DEF TypeOK, TablesTypeOK
    <2> HIDE DEF entry
    <2>5. Logged[k] = Elements(auditLogs[k]) /\ Logged'[k] = Elements(auditLogs'[k])
      BY DEF Logged, Elements
    <2>4. CASE k = id
      <3>1. Elements(auditLogs'[k]) = Elements(auditLogs[k]) \cup {entry}
        <4>1. /\ auditLogs[k] \in Seq(AuditEntry) /\ entry \in AuditEntry
              /\ auditLogs'[k] = Append(auditLogs[k], entry)
          BY <1>5, <2>2, <2>3, <2>4
        <4>2. /\ DOMAIN auditLogs'[k] = DOMAIN auditLogs[k] \cup {Len(auditLogs[k]) + 1}
              /\ \A i \in DOMAIN auditLogs[k] : auditLogs'[k][i] = auditLogs[k][i] /\ i # Len(auditLogs[k]) + 1
              /\ auditLogs'[k][Len(auditLogs[k]) + 1] = entry
          BY <4>1, Appending
        <4> QED  BY <4>2 DEF Elements
      <3> QED  BY <2>4, <2>5, <3>1
    <2>6. CASE k # id
      BY <2>2, <2>6 DEF Logged, Elements
    <2> QED  BY <2>4, <2>6
  <1>10. Knows(Known, Revised, Logged', "ok", req[s], held[s])
    <2>1. entry \in Logged'[id]
      BY <1>4, <1>9
    <2> QED  BY <1>4, <2>1 DEF Knows, Owing
  <1>11. \A k \in Ids : \A e \in Logged'[k] \ Logged[k] : Justified(Known, k, e.op, e.snapshot)
    BY <1>4, <1>5, <1>9
  <1> HIDE DEF entry
  <1>12. \A k \in Ids : Logged[k] \subseteq Logged'[k]
    BY <1>9
  <1> QED  BY <1>1, <1>6, <1>7, <1>8, <1>10, <1>11, <1>12, StepKeepsInv

LEMMA AnswerKeepsInv ==
    ASSUME Inv, NEW s \in Sessions, Answer(s)
    PROVE  Inv'
  <1>1. /\ pc[s] \in {"ok", "error"} /\ Goto(s, "idle") /\ req' = [req EXCEPT ![s] = NoRequest]
        /\ held' = [held EXCEPT ![s] = NoRow] /\ UNCHANGED <<rows, revisions, auditLogs>>
    BY DEF Answer, tables
  <1>2. TypeOK
    BY DEF Inv
  <1>3. OthersStay(s) /\ pc'[s] = "idle" /\ req'[s] = NoRequest /\ held'[s] = NoRow
    BY <1>1, <1>2 DEF Goto, OthersStay, TypeOK
  <1>4. TypeOK'
    <2>1. "idle" \in Steps
      BY DEF Steps
    <2> QED  BY <1>1, <1>2, <2>1, GotoType DEF TypeOK, TablesTypeOK
  <1>5. Knows(Known, Revised, Logged, "idle", NoRequest, NoRow)
    BY DEF Knows, Owing
  <1> QED  BY <1>1, <1>3, <1>4, <1>5, QuietStepKeepsInv

----------------------------------------------------------------------------
(* The specification.                                                      *)

LEMMA InitInv == Init => Inv
  <1> SUFFICES ASSUME Init  PROVE Inv
    OBVIOUS
  <1>1. TypeOK
    BY DEF Init, TablesInit, TypeOK, TablesTypeOK, Steps
  <1>2. SessionsKnow
    BY DEF Init, SessionsKnow, Knows, Owing
  <1>3. RowsKnown
    BY DEF Init, TablesInit, RowsKnown
  <1>4. TrailJustified
    BY DEF Init, TablesInit, TrailJustified, Logged, Elements
  <1> QED  BY <1>1, <1>2, <1>3, <1>4 DEF Inv

LEMMA NextKeepsInv == Inv /\ [Next]_vars => Inv'
  <1> SUFFICES ASSUME Inv, [Next]_vars  PROVE Inv'
    OBVIOUS
  <1>1. CASE UNCHANGED vars
    <2>1. UNCHANGED <<rows, revisions, auditLogs, pc, req, held>>
      BY <1>1 DEF vars
    <2>2. Known' = Known /\ Revised' = Revised /\ Logged' = Logged
      BY <2>1 DEF Known, Revised, Logged, Snapshots, Elements, Owes
    <2>3. TypeOK'
      BY <2>1 DEF Inv, TypeOK, TablesTypeOK
    <2> QED  BY <2>1, <2>2, <2>3 DEF Inv, SessionsKnow, RowsKnown, TrailJustified
  <1>2. ASSUME NEW s \in Sessions, NEW request \in Requests, Accept(s, request)  PROVE Inv'
    BY <1>2, AcceptKeepsInv
  <1>3. ASSUME NEW s \in Sessions, ReadExisting(s) \/ CheckDependency(s)  PROVE Inv'
    BY <1>3, ReadExistingKeepsInv, CheckDependencyKeepsInv
  <1>4. ASSUME NEW s \in Sessions, StoreRow(s) \/ DeleteRow(s)  PROVE Inv'
    BY <1>4, StoreRowKeepsInv, DeleteRowKeepsInv
  <1>5. ASSUME NEW s \in Sessions, InsertRevision(s) \/ InsertAudit(s) \/ Answer(s)  PROVE Inv'
    BY <1>5, InsertRevisionKeepsInv, InsertAuditKeepsInv, AnswerKeepsInv
  <1> QED  BY <1>1, <1>2, <1>3, <1>4, <1>5 DEF Next

LEMMA InvImplies ==
    Inv => TypeOK /\ RowIsARevision /\ QuietHistoryLegal /\ AnsweredMutationIsRecorded
  <1> SUFFICES ASSUME Inv  PROVE RowIsARevision /\ QuietHistoryLegal /\ AnsweredMutationIsRecorded
    BY DEF Inv
  <1>1. RowIsARevision
    BY DEF Inv, RowsKnown, Known, RowIsARevision
  <1>2. AnsweredMutationIsRecorded
    <2>1. SUFFICES ASSUME NEW s \in Sessions, pc[s] = "ok", req[s].op # "get"
                   PROVE  /\ [op |-> req[s].op, snapshot |-> held[s]] \in Elements(auditLogs[req[s].id])
                          /\ req[s].op # "delete" => held[s] \in Snapshots(req[s].id)
      BY DEF AnsweredMutationIsRecorded
    <2>2. Knows(Known, Revised, Logged, "ok", req[s], held[s])
      BY <2>1 DEF Inv, SessionsKnow
    <2>3. req[s].id \in Ids
      BY <2>2, RequestFields DEF Knows
    <2> QED  BY <2>1, <2>2, <2>3 DEF Knows, Logged, Revised
  <1>3. QuietHistoryLegal
    <2>1. SUFFICES ASSUME Quiet  PROVE TransitionsFromLegalBase /\ PrerequisiteWasPublished
      BY DEF QuietHistoryLegal
    <2>2. \A id \in Ids : Known[id] = Snapshots(id)
      BY <2>1 DEF Known, Quiet, Owes, Owing
    <2>3. ASSUME NEW id \in Ids, NEW i \in DOMAIN auditLogs[id]
          PROVE  /\ auditLogs[id][i] \in AuditEntry
                 /\ Justified(Known, id, auditLogs[id][i].op, auditLogs[id][i].snapshot)
      <3>1. auditLogs[id][i] \in Logged[id]
        BY DEF Logged, Elements
      <3> QED  BY <3>1, KnownRecords DEF Inv, TrailJustified
    <2>4. TransitionsFromLegalBase
      BY <2>2, <2>3 DEF TransitionsFromLegalBase, Justified, Snapshots
    <2>5. PrerequisiteWasPublished
      <3>1. SUFFICES ASSUME NEW id \in Ids, NEW i \in DOMAIN auditLogs[id],
                            auditLogs[id][i].op = "publish", auditLogs[id][i].snapshot.dep # NoId
                     PROVE  WasPublished(auditLogs[id][i].snapshot.dep)
        BY DEF PrerequisiteWasPublished
      <3>2. auditLogs[id][i].snapshot.dep \in Ids
        BY <2>3, <3>1, RecordFields DEF AuditEntry
      <3>3. \E record \in Known[auditLogs[id][i].snapshot.dep] : record.status = "published"
        BY <2>3, <3>1 DEF Justified, Supported
      <3> QED  BY <2>2, <3>2, <3>3 DEF WasPublished, Snapshots
    <2> QED  BY <2>4, <2>5
  <1> QED  BY <1>1, <1>2, <1>3

\* The invariant holds throughout.
THEOREM InvAlways == Spec => []Inv
  BY InitInv, NextKeepsInv, PTL DEF Spec

\* Types.
THEOREM MemoryTypes == Spec => []TypeOK
  BY InvAlways, InvImplies, PTL

\* No write goes unversioned, however requests interleave (service.go:142-162).
THEOREM MemoryRowsAreRevisions == Spec => []RowIsARevision
  BY InvAlways, InvImplies, PTL

\* Once nothing is owed, the history is legal (service.go:248-257).
THEOREM MemoryHistoryLegal == Spec => []QuietHistoryLegal
  BY InvAlways, InvImplies, PTL

\* What was answered is recorded, though no transaction says so (memory.go:229).
THEOREM MemoryAnswersRecorded == Spec => []AnsweredMutationIsRecorded
  BY InvAlways, InvImplies, PTL

----------------------------------------------------------------------------
(* Revisions and audit entries, counted.                                   *)

RevisedAs(id, r) == {i \in DOMAIN revisions[id] : revisions[id][i] = r}

LoggedAs(id, r) ==
    {i \in DOMAIN auditLogs[id] : auditLogs[id][i].op # "delete" /\ auditLogs[id][i].snapshot = r}

OwedAs(id, r) ==
    {s \in Sessions : Owes(s, id, "auditing") /\ req[s].op # "delete" /\ held[s] = r}

Balanced(revised, logged, owed) ==
    /\ IsFiniteSet(revised) /\ IsFiniteSet(logged) /\ IsFiniteSet(owed)
    /\ Cardinality(revised) = Cardinality(logged) + Cardinality(owed)

Paired ==
    \A id \in Ids : \A r \in Record : Balanced(RevisedAs(id, r), LoggedAs(id, r), OwedAs(id, r))

\* A revision is owed its audit entry, and the entry pays for it.
LEMMA BalanceKept ==
    ASSUME NEW revised, NEW logged, NEW owed, Balanced(revised, logged, owed)
    PROVE  /\ \A x, y : x \notin revised /\ y \notin owed =>
                 Balanced(revised \cup {x}, logged, owed \cup {y})
           /\ \A x, y : x \notin logged /\ y \in owed =>
                 Balanced(revised, logged \cup {x}, owed \ {y})
  <1>1. /\ IsFiniteSet(revised) /\ IsFiniteSet(logged) /\ IsFiniteSet(owed)
        /\ Cardinality(revised) \in Nat /\ Cardinality(logged) \in Nat /\ Cardinality(owed) \in Nat
        /\ Cardinality(revised) = Cardinality(logged) + Cardinality(owed)
    BY FS_CardinalityType DEF Balanced
  <1>2. ASSUME NEW x, NEW y, x \notin revised, y \notin owed
        PROVE  Balanced(revised \cup {x}, logged, owed \cup {y})
    <2>1. /\ IsFiniteSet(revised \cup {x}) /\ Cardinality(revised \cup {x}) = Cardinality(revised) + 1
          /\ IsFiniteSet(owed \cup {y}) /\ Cardinality(owed \cup {y}) = Cardinality(owed) + 1
      BY <1>1, <1>2, FS_AddElement
    <2> QED  BY <1>1, <2>1 DEF Balanced
  <1>3. ASSUME NEW x, NEW y, x \notin logged, y \in owed
        PROVE  Balanced(revised, logged \cup {x}, owed \ {y})
    <2>1. /\ IsFiniteSet(logged \cup {x}) /\ Cardinality(logged \cup {x}) = Cardinality(logged) + 1
          /\ IsFiniteSet(owed \ {y}) /\ Cardinality(owed \ {y}) = Cardinality(owed) - 1
      BY <1>1, <1>3, FS_AddElement, FS_RemoveElement
    <2> QED  BY <1>1, <2>1 DEF Balanced
  <1> QED  BY <1>2, <1>3

\* Steps that neither insert a revision nor an audit entry.
LEMMA OtherStepsKeepPaired ==
    ASSUME Paired, NEW s \in Sessions, OthersStay(s), UNCHANGED <<revisions, auditLogs>>,
           pc[s] # "auditing", pc'[s] = "auditing" => req'[s].op = "delete"
    PROVE  Paired'
  <1>1. SUFFICES ASSUME NEW id \in Ids, NEW r \in Record
                 PROVE  Balanced(RevisedAs(id, r)', LoggedAs(id, r)', OwedAs(id, r)')
    BY DEF Paired, Balanced
  <1>2. RevisedAs(id, r)' = RevisedAs(id, r) /\ LoggedAs(id, r)' = LoggedAs(id, r)
    BY DEF RevisedAs, LoggedAs
  <1>3. OwedAs(id, r)' = OwedAs(id, r)
    BY DEF OwedAs, Owes, OthersStay
  <1> QED  BY <1>2, <1>3 DEF Paired

LEMMA InsertRevisionKeepsPaired ==
    ASSUME Inv, Paired, NEW s \in Sessions, InsertRevision(s)
    PROVE  Paired'
  <1>1. /\ pc[s] = "revising"
        /\ revisions' = [revisions EXCEPT ![req[s].id] = Append(@, held[s])]
        /\ Goto(s, "auditing") /\ UNCHANGED <<auditLogs, req, held>>
    BY DEF InsertRevision
  <1>2. TypeOK
    BY DEF Inv
  <1>3. req[s].id \in Ids /\ held[s] \in Record /\ req[s].op # "delete"
    <2>1. Knows(Known, Revised, Logged, "revising", req[s], held[s])
      BY <1>1 DEF Inv, SessionsKnow
    <2> QED  BY <2>1, RequestFields DEF Knows, Owing
  <1>4. OthersStay(s) /\ pc'[s] = "auditing" /\ req' = req /\ held' = held
    BY <1>1, <1>2 DEF Goto, OthersStay, TypeOK
  <1>5. SUFFICES ASSUME NEW id \in Ids, NEW r \in Record
                 PROVE  Balanced(RevisedAs(id, r)', LoggedAs(id, r)', OwedAs(id, r)')
    BY DEF Paired, Balanced
  <1>6. Balanced(RevisedAs(id, r), LoggedAs(id, r), OwedAs(id, r))
    BY DEF Paired
  <1>7. LoggedAs(id, r)' = LoggedAs(id, r)
    BY <1>1 DEF LoggedAs
  <1>8. revisions[id] \in Seq(Record)
    BY <1>2 DEF TypeOK, TablesTypeOK
  <1>9. CASE id = req[s].id /\ r = held[s]
    <2>1. revisions'[id] = Append(revisions[id], held[s])
      BY <1>1, <1>2, <1>9 DEF TypeOK, TablesTypeOK
    <2>2. /\ RevisedAs(id, r)' = RevisedAs(id, r) \cup {Len(revisions[id]) + 1}
          /\ Len(revisions[id]) + 1 \notin RevisedAs(id, r)
      BY <1>3, <1>8, <1>9, <2>1, Appending DEF RevisedAs
    <2>3. OwedAs(id, r)' = OwedAs(id, r) \cup {s} /\ s \notin OwedAs(id, r)
      BY <1>1, <1>3, <1>4, <1>9 DEF OwedAs, Owes, OthersStay
    <2> QED  BY <1>6, <1>7, <2>2, <2>3, BalanceKept
  <1>10. CASE ~(id = req[s].id /\ r = held[s])
    <2>1. OwedAs(id, r)' = OwedAs(id, r)
      BY <1>1, <1>4, <1>10 DEF OwedAs, Owes, OthersStay
    <2>2. RevisedAs(id, r)' = RevisedAs(id, r)
      <3>1. CASE id = req[s].id
        <4>1. revisions'[id] = Append(revisions[id], held[s]) /\ r # held[s]
          BY <1>1, <1>2, <1>10, <3>1 DEF TypeOK, TablesTypeOK
        <4> QED  BY <1>3, <1>8, <4>1, Appending DEF RevisedAs
      <3>2. CASE id # req[s].id
        <4>1. revisions'[id] = revisions[id]
          BY <1>1, <1>2, <3>2 DEF TypeOK, TablesTypeOK
        <4> QED  BY <4>1 DEF RevisedAs
      <3> QED  BY <3>1, <3>2
    <2> QED  BY <1>6, <1>7, <2>1, <2>2
  <1> QED  BY <1>9, <1>10

LEMMA InsertAuditKeepsPaired ==
    ASSUME Inv, Paired, NEW s \in Sessions, InsertAudit(s)
    PROVE  Paired'
  <1> DEFINE entry == [op |-> req[s].op, snapshot |-> held[s]]
  <1>1. /\ pc[s] = "auditing"
        /\ auditLogs' = [auditLogs EXCEPT ![req[s].id] = Append(@, entry)]
        /\ Goto(s, "ok") /\ UNCHANGED <<revisions, req, held>>
    BY DEF InsertAudit, Log
  <1>2. TypeOK
    BY DEF Inv
  <1>3. /\ req[s].id \in Ids /\ held[s] \in Record
        /\ entry \in AuditEntry /\ entry.op = req[s].op /\ entry.snapshot = held[s]
    <2>1. Knows(Known, Revised, Logged, "auditing", req[s], held[s])
      BY <1>1 DEF Inv, SessionsKnow
    <2> QED  BY <2>1, RequestFields DEF Knows, Owing, AuditEntry
  <1> HIDE DEF entry
  <1>4. OthersStay(s) /\ pc'[s] = "ok" /\ req' = req /\ held' = held
    BY <1>1, <1>2 DEF Goto, OthersStay, TypeOK
  <1>5. SUFFICES ASSUME NEW id \in Ids, NEW r \in Record
                 PROVE  Balanced(RevisedAs(id, r)', LoggedAs(id, r)', OwedAs(id, r)')
    BY DEF Paired, Balanced
  <1>6. Balanced(RevisedAs(id, r), LoggedAs(id, r), OwedAs(id, r))
    BY DEF Paired
  <1>7. RevisedAs(id, r)' = RevisedAs(id, r)
    BY <1>1 DEF RevisedAs
  <1>8. auditLogs[id] \in Seq(AuditEntry)
    BY <1>2 DEF TypeOK, TablesTypeOK
  <1>9. CASE id = req[s].id /\ r = held[s] /\ req[s].op # "delete"
    <2>1. auditLogs'[id] = Append(auditLogs[id], entry)
      BY <1>1, <1>2, <1>9 DEF TypeOK, TablesTypeOK
    <2>2. /\ LoggedAs(id, r)' = LoggedAs(id, r) \cup {Len(auditLogs[id]) + 1}
          /\ Len(auditLogs[id]) + 1 \notin LoggedAs(id, r)
      BY <1>3, <1>8, <1>9, <2>1, Appending DEF LoggedAs
    <2>3. OwedAs(id, r)' = OwedAs(id, r) \ {s} /\ s \in OwedAs(id, r)
      BY <1>1, <1>3, <1>4, <1>9 DEF OwedAs, Owes, OthersStay
    <2> QED  BY <1>6, <1>7, <2>2, <2>3, BalanceKept
  <1>10. CASE ~(id = req[s].id /\ r = held[s] /\ req[s].op # "delete")
    <2>1. OwedAs(id, r)' = OwedAs(id, r)
      BY <1>1, <1>4, <1>10 DEF OwedAs, Owes, OthersStay
    <2>2. LoggedAs(id, r)' = LoggedAs(id, r)
      <3>1. CASE id = req[s].id
        <4>1. /\ auditLogs'[id] = Append(auditLogs[id], entry)
              /\ entry.op = "delete" \/ entry.snapshot # r
          BY <1>1, <1>2, <1>3, <1>10, <3>1 DEF TypeOK, TablesTypeOK
        <4> QED  BY <1>3, <1>8, <4>1, Appending DEF LoggedAs
      <3>2. CASE id # req[s].id
        <4>1. auditLogs'[id] = auditLogs[id]
          BY <1>1, <1>2, <3>2 DEF TypeOK, TablesTypeOK
        <4> QED  BY <4>1 DEF LoggedAs
      <3> QED  BY <3>1, <3>2
    <2> QED  BY <1>6, <1>7, <2>1, <2>2
  <1> QED  BY <1>9, <1>10

LEMMA InitPaired == Init => Paired
  <1> SUFFICES ASSUME Init, NEW id \in Ids, NEW r \in Record
               PROVE  Balanced(RevisedAs(id, r), LoggedAs(id, r), OwedAs(id, r))
    BY DEF Paired
  <1>1. RevisedAs(id, r) = {} /\ LoggedAs(id, r) = {} /\ OwedAs(id, r) = {}
    BY DEF Init, TablesInit, RevisedAs, LoggedAs, OwedAs, Owes
  <1> QED  BY <1>1, FS_EmptySet DEF Balanced

LEMMA NextKeepsPaired == Inv /\ Paired /\ [Next]_vars => Paired'
  <1> SUFFICES ASSUME Inv, Paired, [Next]_vars  PROVE Paired'
    OBVIOUS
  <1>1. CASE UNCHANGED vars
    <2>1. UNCHANGED <<revisions, auditLogs, pc, req, held>>
      BY <1>1 DEF vars
    <2> QED  BY <2>1 DEF Paired, RevisedAs, LoggedAs, OwedAs, Owes
  <1>2. ASSUME NEW s \in Sessions,
               \/ \E request \in Requests : Accept(s, request)
               \/ ReadExisting(s) \/ CheckDependency(s)
               \/ StoreRow(s) \/ DeleteRow(s) \/ Answer(s)
        PROVE  Paired'
    <2>1. TypeOK
      BY DEF Inv
    <2>2. UNCHANGED <<revisions, auditLogs>>
      BY <1>2 DEF Accept, ReadExisting, CheckDependency, StoreRow, DeleteRow, Answer, Fail, tables
    <2>3. OthersStay(s)
      BY <1>2, <2>1 DEF Accept, ReadExisting, CheckDependency, StoreRow, DeleteRow, Answer, Fail,
                        Goto, OthersStay, TypeOK
    <2>4. pc[s] # "auditing"
      BY <1>2 DEF Accept, ReadExisting, CheckDependency, StoreRow, DeleteRow, Answer
    <2>5. pc'[s] = "auditing" => DeleteRow(s)
      BY <1>2, <2>1 DEF Accept, ReadExisting, CheckDependency, StoreRow, Answer, Fail, Goto, TypeOK
    <2>6. DeleteRow(s) => req'[s].op = "delete"
      BY DEF DeleteRow
    <2> QED  BY <2>2, <2>3, <2>4, <2>5, <2>6, OtherStepsKeepPaired
  <1>3. ASSUME NEW s \in Sessions, InsertRevision(s) \/ InsertAudit(s)  PROVE Paired'
    BY <1>3, InsertRevisionKeepsPaired, InsertAuditKeepsPaired
  <1> QED  BY <1>1, <1>2, <1>3 DEF Next

LEMMA PairedImplies == Inv /\ Paired => RevisionsAndAuditPairUp
  <1> SUFFICES ASSUME Inv, Paired, NEW id \in Ids
               PROVE  LET saves == {i \in DOMAIN auditLogs[id] : auditLogs[id][i].op # "delete"}
                          owing == {s \in Sessions : Owes(s, id, "auditing") /\ req[s].op # "delete"}
                          records == Snapshots(id) \cup {held[s] : s \in owing}
                                        \cup {auditLogs[id][i].snapshot : i \in saves}
                      IN  \A r \in records :
                             Cardinality({i \in DOMAIN revisions[id] : revisions[id][i] = r})
                               = Cardinality({i \in saves : auditLogs[id][i].snapshot = r})
                                   + Cardinality({s \in owing : held[s] = r})
    BY DEF RevisionsAndAuditPairUp
  <1> DEFINE saves == {i \in DOMAIN auditLogs[id] : auditLogs[id][i].op # "delete"}
             owing == {s \in Sessions : Owes(s, id, "auditing") /\ req[s].op # "delete"}
  <1>1. Snapshots(id) \subseteq Record
    BY KnownRecords DEF Revised
  <1>2. \A s \in owing : held[s] \in Record
    BY DEF Inv, SessionsKnow, Knows, Owes, Owing
  <1>3. \A i \in saves : auditLogs[id][i].snapshot \in Record
    <2>1. \A i \in saves : auditLogs[id][i] \in Logged[id]
      BY DEF Logged, Elements
    <2> QED  BY <2>1, KnownRecords DEF AuditEntry
  <1>4. ASSUME NEW r \in Record
        PROVE  Cardinality({i \in DOMAIN revisions[id] : revisions[id][i] = r})
                 = Cardinality({i \in saves : auditLogs[id][i].snapshot = r})
                     + Cardinality({s \in owing : held[s] = r})
    <2>1. /\ {i \in DOMAIN revisions[id] : revisions[id][i] = r} = RevisedAs(id, r)
          /\ {i \in saves : auditLogs[id][i].snapshot = r} = LoggedAs(id, r)
          /\ {s \in owing : held[s] = r} = OwedAs(id, r)
      BY DEF RevisedAs, LoggedAs, OwedAs
    <2>2. Balanced(RevisedAs(id, r), LoggedAs(id, r), OwedAs(id, r))
      BY DEF Paired
    <2> QED  BY <2>1, <2>2 DEF Balanced
  <1> QED  BY <1>1, <1>2, <1>3, <1>4

\* No revision and no audit entry is lost or doubled, though nothing ties the two
\* inserts together (memory.go:229).
THEOREM MemoryTrailsPairUp == Spec => []RevisionsAndAuditPairUp
  <1>1. Inv /\ Inv' /\ Paired /\ [Next]_vars => Paired'
    BY NextKeepsPaired
  <1> QED  BY <1>1, InitPaired, InvAlways, PairedImplies, PTL DEF Spec

----------------------------------------------------------------------------
(* Calls that run alone.                                                   *)

\* What a mutation that ran alone knows of the tables: nothing it read has
\* changed since, and what it wrote is still there.
Current(s) ==
    /\ pc[s] \in {"checking", "writing"} /\ req[s].op # "create" =>
          held[s] = rows[req[s].id]
    /\ pc[s] = "writing" /\ req[s].op = "publish" /\ held[s].dep # NoId =>
          DependencyMet(rows[held[s].dep])
    /\ pc[s] \in Owing =>
          rows[req[s].id] = IF req[s].op = "delete" THEN NoRow ELSE held[s]
    /\ pc[s] = "auditing" /\ req[s].op # "delete" =>
          /\ revisions[req[s].id] # << >>
          /\ Latest(revisions[req[s].id]) = held[s]
    /\ pc[s] = "ok" => HeadMatchesTrailOf(req[s].id)

Mutates(s) == s \in UnderWay \/ (pc[s] = "ok" /\ req[s].op # "get")

AloneKnows(s) ==
    alone[s] =>
        /\ s \in UnderWay \/ pc[s] = "ok" => UnderWay \subseteq {s}
        /\ Mutates(s) => Current(s)

AloneInv ==
    /\ Inv
    /\ alone \in [Sessions -> BOOLEAN]
    /\ \A s \in Sessions : AloneKnows(s)

LEMMA AloneNextFacts ==
    ASSUME AloneNext, NEW s \in Sessions
    PROVE  /\ alone'[s] /\ (s \in UnderWay' \/ pc'[s] = "ok") =>
                 alone[s] /\ UnderWay' \subseteq {s}
           /\ s \in UnderWay' <=> pc'[s] \in Working /\ req'[s].op # "get"
  BY DEF AloneNext, UnderWay

LEMMA AloneNextType ==
    ASSUME alone \in [Sessions -> BOOLEAN], AloneNext
    PROVE  alone' \in [Sessions -> BOOLEAN]
  BY DEF AloneNext

\* One session moves, and only a mutation under way changes the tables.
LEMMA AloneStep ==
    ASSUME AloneInv, AloneNext, Inv', NEW s \in Sessions, OthersStay(s),
           UNCHANGED tables \/ s \in UnderWay,
           alone[s] /\ Mutates(s)' => Current(s)'
    PROVE  AloneInv'
  <1>1. alone' \in [Sessions -> BOOLEAN]
    BY AloneNextType DEF AloneInv
  <1>2. ASSUME NEW t \in Sessions
        PROVE  AloneKnows(t)'
    <2>1. CASE t = s
      BY <2>1, AloneNextFacts DEF AloneKnows, Mutates
    <2>2. CASE t # s
      <3>1. SUFFICES ASSUME alone'[t], Mutates(t)'
                     PROVE  Current(t)'
        BY AloneNextFacts DEF AloneKnows
      <3>2. pc'[t] = pc[t] /\ req'[t] = req[t] /\ held'[t] = held[t]
        BY <2>2 DEF OthersStay
      <3>3. alone[t] /\ Mutates(t)
        BY <3>1, <3>2, AloneNextFacts DEF Mutates, UnderWay
      <3>4. Current(t) /\ UnderWay \subseteq {t}
        BY <3>3 DEF AloneInv, AloneKnows, Mutates
      <3>5. UNCHANGED tables
        BY <2>2, <3>4
      <3> QED  BY <3>2, <3>4, <3>5 DEF Current, HeadMatchesTrailOf, tables
    <2> QED  BY <2>1, <2>2
  <1> QED  BY <1>1, <1>2 DEF AloneInv

LEMMA AloneAccept ==
    ASSUME AloneInv, AloneNext, Inv', NEW s \in Sessions, NEW request \in Requests,
           Accept(s, request)
    PROVE  AloneInv'
  <1> DEFINE step == IF RefusedUnread(request) THEN "error"
                     ELSE IF request.op = "create" THEN "writing" ELSE "reading"
  <1>1. /\ Goto(s, step) /\ req' = [req EXCEPT ![s] = request]
        /\ UNCHANGED <<tables, held>>
    BY DEF Accept
  <1>2. TypeOK
    BY DEF AloneInv, Inv
  <1>3. OthersStay(s) /\ pc'[s] = step /\ req'[s] = request
    BY <1>1, <1>2 DEF Goto, OthersStay, TypeOK
  <1>4. Current(s)'
    BY <1>3 DEF Current, Owing
  <1> HIDE DEF step
  <1> QED  BY <1>1, <1>3, <1>4, AloneStep

LEMMA AloneRead ==
    ASSUME AloneInv, AloneNext, Inv', NEW s \in Sessions, ReadExisting(s)
    PROVE  AloneInv'
  <1>1. TypeOK
    BY DEF AloneInv, Inv
  <1>2. UNCHANGED tables /\ OthersStay(s) /\ req'[s] = req[s]
    BY <1>1 DEF ReadExisting, Fail, Goto, OthersStay, TypeOK
  <1>3. \/ pc'[s] = "error"
        \/ pc'[s] = "ok" /\ req'[s].op = "get"
        \/ /\ held'[s] = rows[req[s].id]
           /\ pc'[s] = IF ChecksDependency(req[s], held'[s]) THEN "checking" ELSE "writing"
    BY <1>1 DEF ReadExisting, Fail, Goto, TypeOK
  <1>4. Mutates(s)' => Current(s)'
    BY <1>2, <1>3 DEF Mutates, UnderWay, Working, Current, Owing, ChecksDependency, tables
  <1> QED  BY <1>2, <1>4, AloneStep

LEMMA AloneCheck ==
    ASSUME AloneInv, AloneNext, Inv', NEW s \in Sessions, CheckDependency(s)
    PROVE  AloneInv'
  <1>1. /\ TypeOK /\ pc[s] = "checking"
        /\ Knows(Known, Revised, Logged, "checking", req[s], held[s])
    BY DEF AloneInv, Inv, SessionsKnow, CheckDependency
  <1>2. s \in UnderWay /\ req[s].op = "publish"
    BY <1>1 DEF UnderWay, Working, Knows
  <1>3. UNCHANGED tables /\ OthersStay(s) /\ req'[s] = req[s]
    BY <1>1 DEF CheckDependency, Fail, Goto, OthersStay, TypeOK
  <1>4. \/ pc'[s] = "error"
        \/ DependencyMet(rows[held[s].dep]) /\ pc'[s] = "writing" /\ held'[s] = held[s]
    BY <1>1 DEF CheckDependency, Fail, Goto, TypeOK
  <1>5. alone[s] => Current(s)
    BY <1>2 DEF AloneInv, AloneKnows, Mutates
  <1>6. alone[s] /\ Mutates(s)' => Current(s)'
    BY <1>1, <1>2, <1>3, <1>4, <1>5 DEF Mutates, UnderWay, Working, Current, Owing, tables
  <1> QED  BY <1>3, <1>6, AloneStep

LEMMA AloneStoreRow ==
    ASSUME AloneInv, AloneNext, Inv', NEW s \in Sessions, StoreRow(s)
    PROVE  AloneInv'
  <1>1. /\ TypeOK /\ pc[s] = "writing"
        /\ Knows(Known, Revised, Logged, "writing", req[s], held[s])
    BY DEF AloneInv, Inv, SessionsKnow, StoreRow
  <1>2. s \in UnderWay /\ req[s].id \in Ids
    BY <1>1, RequestFields DEF UnderWay, Working, Knows
  <1>3. OthersStay(s) /\ req'[s] = req[s] /\ pc'[s] = "revising" /\ req[s].op # "delete"
    BY <1>1 DEF StoreRow, Goto, OthersStay, TypeOK
  <1>4. rows'[req[s].id] = held'[s]
    BY <1>1, <1>2 DEF StoreRow, TypeOK, TablesTypeOK
  <1>5. Current(s)'
    BY <1>3, <1>4 DEF Current
  <1> QED  BY <1>2, <1>3, <1>5, AloneStep

LEMMA AloneDeleteRow ==
    ASSUME AloneInv, AloneNext, Inv', NEW s \in Sessions, DeleteRow(s)
    PROVE  AloneInv'
  <1>1. /\ TypeOK /\ pc[s] = "writing"
        /\ Knows(Known, Revised, Logged, "writing", req[s], held[s])
    BY DEF AloneInv, Inv, SessionsKnow, DeleteRow
  <1>2. s \in UnderWay /\ req[s].id \in Ids
    BY <1>1, RequestFields DEF UnderWay, Working, Knows
  <1>3. OthersStay(s) /\ req'[s] = req[s] /\ pc'[s] = "auditing" /\ req[s].op = "delete"
    BY <1>1 DEF DeleteRow, Goto, OthersStay, TypeOK
  <1>4. rows'[req[s].id] = NoRow
    BY <1>1, <1>2 DEF DeleteRow, TypeOK, TablesTypeOK
  <1>5. Current(s)'
    BY <1>3, <1>4 DEF Current
  <1> QED  BY <1>2, <1>3, <1>5, AloneStep

LEMMA AloneInsertRevision ==
    ASSUME AloneInv, AloneNext, Inv', NEW s \in Sessions, InsertRevision(s)
    PROVE  AloneInv'
  <1>1. /\ TypeOK /\ pc[s] = "revising"
        /\ Knows(Known, Revised, Logged, "revising", req[s], held[s])
    BY DEF AloneInv, Inv, SessionsKnow, InsertRevision
  <1>2. /\ s \in UnderWay /\ req[s].id \in Ids /\ req[s].op # "delete"
        /\ held[s] \in Record /\ revisions[req[s].id] \in Seq(Record)
    BY <1>1, RequestFields
       DEF UnderWay, Working, Knows, Owing, MutationOps, TransitionOps, TypeOK, TablesTypeOK
  <1>3. /\ OthersStay(s) /\ pc'[s] = "auditing"
        /\ UNCHANGED <<rows, req, held>>
    BY <1>1 DEF InsertRevision, Goto, OthersStay, TypeOK
  <1>4. revisions'[req[s].id] = Append(revisions[req[s].id], held[s])
    BY <1>1, <1>2 DEF InsertRevision, TypeOK, TablesTypeOK
  <1>5. revisions'[req[s].id] # << >> /\ Latest(revisions'[req[s].id]) = held[s]
    BY <1>2, <1>4 DEF Latest
  <1>6. alone[s] => Current(s)
    BY <1>2 DEF AloneInv, AloneKnows, Mutates
  <1>7. alone[s] => Current(s)'
    BY <1>1, <1>2, <1>3, <1>5, <1>6 DEF Current, Owing
  <1> QED  BY <1>2, <1>3, <1>7, AloneStep

LEMMA AloneInsertAudit ==
    ASSUME AloneInv, AloneNext, Inv', NEW s \in Sessions, InsertAudit(s)
    PROVE  AloneInv'
  <1> DEFINE id == req[s].id
             entry == [op |-> req[s].op, snapshot |-> held[s]]
  <1>1. /\ TypeOK /\ pc[s] = "auditing"
        /\ Knows(Known, Revised, Logged, "auditing", req[s], held[s])
    BY DEF AloneInv, Inv, SessionsKnow, InsertAudit
  <1>2. /\ s \in UnderWay /\ id \in Ids /\ req[s].op \in MutationOps
        /\ held[s] \in Record /\ auditLogs[id] \in Seq(AuditEntry)
    BY <1>1, RequestFields
       DEF UnderWay, Working, Knows, Owing, MutationOps, TransitionOps, TypeOK, TablesTypeOK
  <1>3. /\ OthersStay(s) /\ pc'[s] = "ok"
        /\ UNCHANGED <<rows, revisions, req, held>>
    BY <1>1 DEF InsertAudit, Goto, OthersStay, TypeOK
  <1>4. auditLogs'[id] = Append(auditLogs[id], entry) /\ entry \in AuditEntry /\ entry.op = req[s].op
    BY <1>1, <1>2 DEF InsertAudit, Log, TypeOK, TablesTypeOK, AuditEntry
  <1> HIDE DEF entry
  <1>5. auditLogs'[id] # << >> /\ Latest(auditLogs'[id]).op = req[s].op
    BY <1>2, <1>4 DEF Latest
  <1>6. alone[s] => Current(s)
    BY <1>2 DEF AloneInv, AloneKnows, Mutates
  <1>7. held[s] # NoRow
    BY <1>2, SentinelAssumption
  <1>8. alone[s] => HeadMatchesTrailOf(id)'
    BY <1>1, <1>3, <1>5, <1>6, <1>7 DEF Current, Owing, HeadMatchesTrailOf
  <1>9. alone[s] => Current(s)'
    BY <1>3, <1>8 DEF Current, Owing
  <1> QED  BY <1>2, <1>3, <1>9, AloneStep

LEMMA AloneAnswer ==
    ASSUME AloneInv, AloneNext, Inv', NEW s \in Sessions, Answer(s)
    PROVE  AloneInv'
  <1>1. TypeOK
    BY DEF AloneInv, Inv
  <1>2. UNCHANGED tables /\ OthersStay(s) /\ pc'[s] = "idle"
    BY <1>1 DEF Answer, Goto, OthersStay, TypeOK
  <1>3. Current(s)'
    BY <1>2 DEF Current, Owing
  <1> QED  BY <1>2, <1>3, AloneStep

LEMMA AloneInvStep ==
    ASSUME AloneInv, [Next /\ AloneNext]_<<vars, alone>>
    PROVE  AloneInv'
  <1>1. Inv'
    BY NextKeepsInv DEF AloneInv, vars
  <1>2. CASE UNCHANGED <<vars, alone>>
    BY <1>1, <1>2
       DEF AloneInv, AloneKnows, Mutates, Current, HeadMatchesTrailOf, UnderWay, vars
  <1>3. CASE Next /\ AloneNext
    <2>1. ASSUME NEW s \in Sessions, NEW request \in Requests, Accept(s, request)
          PROVE  AloneInv'
      BY <1>1, <1>3, <2>1, AloneAccept
    <2>2. ASSUME NEW s \in Sessions,
                 ReadExisting(s) \/ CheckDependency(s) \/ StoreRow(s) \/ DeleteRow(s)
          PROVE  AloneInv'
      BY <1>1, <1>3, <2>2, AloneRead, AloneCheck, AloneStoreRow, AloneDeleteRow
    <2>3. ASSUME NEW s \in Sessions, InsertRevision(s) \/ InsertAudit(s) \/ Answer(s)
          PROVE  AloneInv'
      BY <1>1, <1>3, <2>3, AloneInsertRevision, AloneInsertAudit, AloneAnswer
    <2> QED  BY <1>3, <2>1, <2>2, <2>3 DEF Next
  <1> QED  BY <1>2, <1>3

LEMMA AloneInvariant == WatchedSpec => []AloneInv
  <1>1. WatchedInit => AloneInv
    <2>1. SUFFICES ASSUME WatchedInit  PROVE AloneInv
      OBVIOUS
    <2>2. Inv /\ UnderWay = {} /\ \A s \in Sessions : pc[s] = "idle"
      BY <2>1, InitInv DEF WatchedInit, Init, UnderWay, Working, Owing
    <2> QED  BY <2>1, <2>2 DEF AloneInv, AloneKnows, Mutates, WatchedInit
  <1>2. AloneInv /\ [Next /\ AloneNext]_<<vars, alone>> => AloneInv'
    BY AloneInvStep
  <1> QED  BY <1>1, <1>2, PTL DEF WatchedSpec

\* A mutation that overlapped no other leaves the row, its latest revision and the
\* end of its audit log in agreement (memory.go:214).
THEOREM MemoryAloneHeadMatchesTrail == WatchedSpec => []AloneHeadMatchesTrail
  <1>1. AloneInv => AloneHeadMatchesTrail
    BY DEF AloneInv, AloneKnows, Mutates, Current, AloneHeadMatchesTrail
  <1> QED  BY <1>1, AloneInvariant, PTL

----------------------------------------------------------------------------
(* A call that ran alone is one atomic step on the settled tables.         *)

\* What SetToSeq makes of no element and of one.
LEMMA SetToSeqOfNone == SetToSeq({}) = << >>
  <1> DEFINE f == SetToSeq({})
  <1>1. Cardinality({}) = 0
    BY FS_EmptySet
  <1>2. << >> \in [1..0 -> {}] /\ IsInjective(<< >>)
    BY DEF IsInjective
  <1>3. f \in [1..0 -> {}]
    BY <1>1, <1>2 DEF SetToSeq
  <1>4. f = [i \in 1..0 |-> f[i]]
    BY <1>3
  <1>5. << >> = [i \in 1..0 |-> f[i]]
    OBVIOUS
  <1> QED  BY <1>4, <1>5

LEMMA SetToSeqOfOne ==
    ASSUME NEW x
    PROVE  SetToSeq({x}) = <<x>>
  <1> DEFINE f == SetToSeq({x})
  <1>1. Cardinality({x}) = 1
    BY FS_Singleton
  <1>2. <<x>> \in [1..1 -> {x}] /\ IsInjective(<<x>>)
    BY DEF IsInjective
  <1>3. f \in [1..1 -> {x}]
    BY <1>1, <1>2 DEF SetToSeq
  <1>4. f = [i \in 1..1 |-> x]
    BY <1>3
  <1>5. <<x>> = [i \in 1..1 |-> x]
    OBVIOUS
  <1> QED  BY <1>4, <1>5

\* The trail of a session that owes it, or owes nothing, settled.
OnceRevised(s) ==
    [id \in Ids |-> IF pc[s] = "revising" /\ req[s].id = id
                    THEN Append(revisions[id], held[s]) ELSE revisions[id]]

OnceLogged(s) ==
    [id \in Ids |-> IF pc[s] \in Owing /\ req[s].id = id
                    THEN Append(auditLogs[id], [op |-> req[s].op, snapshot |-> held[s]])
                    ELSE auditLogs[id]]

\* A session that owes the trail is a mutation under way.
LEMMA OwingIsUnderWay ==
    ASSUME Inv, NEW s \in Sessions, pc[s] \in Owing
    PROVE  /\ s \in UnderWay /\ req[s].id \in Ids
           /\ held[s] \in Record /\ req[s].op \in MutationOps
  <1>1. Knows(Known, Revised, Logged, pc[s], req[s], held[s])
    BY DEF Inv, SessionsKnow
  <1> QED  BY <1>1, RequestFields
           DEF Knows, Owing, UnderWay, Working, MutationOps, TransitionOps

\* With one mutation under way at most, the settled tables have what it owes.
LEMMA SettledByOne ==
    Inv => \A s \in Sessions : UnderWay \subseteq {s} =>
               SettledRevisions = OnceRevised(s) /\ SettledAudit = OnceLogged(s)
  <1> SUFFICES ASSUME Inv, NEW s \in Sessions, UnderWay \subseteq {s}
               PROVE  SettledRevisions = OnceRevised(s) /\ SettledAudit = OnceLogged(s)
    OBVIOUS
  <1>1. \A t \in Sessions : pc[t] \in Owing => t = s
    BY OwingIsUnderWay
  <1>2. \A id \in Ids : revisions[id] \in Seq(Record) /\ auditLogs[id] \in Seq(AuditEntry)
    BY DEF Inv, TypeOK, TablesTypeOK
  <1>3. ASSUME NEW id \in Ids
        PROVE  SettledRevisions[id] = OnceRevised(s)[id]
    <2>1. CASE pc[s] = "revising" /\ req[s].id = id
      <3>1. Due(id, {"revising"}) = {held[s]}
        BY <1>1, <2>1 DEF Due, Owing
      <3>2. revisions[id] \o <<held[s]>> = Append(revisions[id], held[s])
        BY <1>2, <2>1, OwingIsUnderWay DEF Owing
      <3> QED  BY <2>1, <3>1, <3>2, SetToSeqOfOne DEF SettledRevisions, OnceRevised
    <2>2. CASE ~(pc[s] = "revising" /\ req[s].id = id)
      <3>1. Due(id, {"revising"}) = {}
        BY <1>1, <2>2 DEF Due, Owing
      <3>2. revisions[id] \o << >> = revisions[id]
        BY <1>2
      <3> QED  BY <2>2, <3>1, <3>2, SetToSeqOfNone DEF SettledRevisions, OnceRevised
    <2> QED  BY <2>1, <2>2
  <1>4. ASSUME NEW id \in Ids
        PROVE  SettledAudit[id] = OnceLogged(s)[id]
    <2> DEFINE entry(t) == [op |-> req[t].op, snapshot |-> held[t]]
               due == {entry(t) : t \in {t \in Sessions : pc[t] \in Owing /\ req[t].id = id}}
    <2>1. SettledAudit[id] = auditLogs[id] \o SetToSeq(due)
      BY DEF SettledAudit
    <2>2. CASE pc[s] \in Owing /\ req[s].id = id
      <3>1. due = {entry(s)}
        BY <1>1, <2>2
      <3>2. entry(s) \in AuditEntry
        BY <2>2, OwingIsUnderWay DEF AuditEntry
      <3>3. OnceLogged(s)[id] = Append(auditLogs[id], entry(s))
        BY <2>2 DEF OnceLogged
      <3> HIDE DEF entry, due
      <3>4. auditLogs[id] \o <<entry(s)>> = Append(auditLogs[id], entry(s))
        BY <1>2, <3>2
      <3> QED  BY <2>1, <3>1, <3>3, <3>4, SetToSeqOfOne
    <2>3. CASE ~(pc[s] \in Owing /\ req[s].id = id)
      <3>1. due = {}
        BY <1>1, <2>3
      <3>2. auditLogs[id] \o << >> = auditLogs[id]
        BY <1>2
      <3>3. OnceLogged(s)[id] = auditLogs[id]
        BY <2>3 DEF OnceLogged
      <3> HIDE DEF entry, due
      <3> QED  BY <2>1, <3>1, <3>2, <3>3, SetToSeqOfNone
    <2> QED  BY <2>2, <2>3
  <1> QED  BY <1>3, <1>4 DEF SettledRevisions, OnceRevised, SettledAudit, OnceLogged

\* A step that owes nothing before or after leaves the settled tables alone.
LEMMA SettledStays ==
    ASSUME NEW s \in Sessions, OthersStay(s), UNCHANGED tables,
           pc[s] \notin Owing, pc'[s] \notin Owing
    PROVE  UNCHANGED Settled!tables
  <1>1. ASSUME NEW id \in Ids
        PROVE  Due(id, {"revising"})' = Due(id, {"revising"})
    <2>1. {t \in Sessions : pc[t] \in {"revising"} /\ req[t].id = id}'
             = {t \in Sessions : pc[t] \in {"revising"} /\ req[t].id = id}
      BY DEF OthersStay, Owing
    <2>2. \A t \in {t \in Sessions : pc[t] \in {"revising"} /\ req[t].id = id} : held'[t] = held[t]
      BY DEF OthersStay, Owing
    <2> QED  BY <2>1, <2>2 DEF Due
  <1>2. ASSUME NEW id \in Ids
        PROVE  SettledAudit'[id] = SettledAudit[id]
    <2> DEFINE owing == {t \in Sessions : pc[t] \in Owing /\ req[t].id = id}
               entry(t) == [op |-> req[t].op, snapshot |-> held[t]]
    <2>1. owing' = owing
      BY DEF OthersStay
    <2>2. \A t \in owing : entry(t)' = entry(t)
      BY DEF OthersStay
    <2>3. {entry(t) : t \in owing}' = {entry(t) : t \in owing}
      BY <2>1, <2>2
    <2> QED  BY <2>3 DEF SettledAudit, tables
  <1>3. SettledRevisions' = SettledRevisions
    BY <1>1 DEF SettledRevisions, tables
  <1>4. SettledAudit' = SettledAudit
    BY <1>2 DEF SettledAudit
  <1> QED  BY <1>3, <1>4 DEF Settled!tables, tables

LEMMA SettledByOneThen ==
    (Inv => \A s \in Sessions : UnderWay \subseteq {s} =>
                SettledRevisions = OnceRevised(s) /\ SettledAudit = OnceLogged(s))'
  BY SettledByOne, PTL

\* The settled tables around a step of a session that runs alone.
LEMMA SettledAround ==
    ASSUME AloneInv, Inv', NEW s \in Sessions, s \in UnderWay, alone[s], OthersStay(s)
    PROVE  /\ SettledRevisions = OnceRevised(s) /\ SettledAudit = OnceLogged(s)
           /\ SettledRevisions' = OnceRevised(s)' /\ SettledAudit' = OnceLogged(s)'
  <1>1. UnderWay \subseteq {s}
    BY DEF AloneInv, AloneKnows
  <1>2. UnderWay' \subseteq {s}
    BY <1>1 DEF UnderWay, OthersStay
  <1>3. SettledRevisions = OnceRevised(s) /\ SettledAudit = OnceLogged(s)
    BY <1>1, SettledByOne DEF AloneInv
  <1> QED  BY <1>2, <1>3, SettledByOneThen

\* The row is written: the settled tables have the row, the revision and the
\* audit entry at once.
LEMMA StoreRowSaves ==
    ASSUME AloneInv, Inv', NEW s \in Sessions, StoreRow(s), alone[s]
    PROVE  Settled!Save(req[s].id, req[s].op, Proposal(req[s], held[s]))
  <1> DEFINE id == req[s].id
             record == Proposal(req[s], held[s])
             entry == [op |-> req[s].op, snapshot |-> record]
  <1>1. /\ TypeOK /\ pc[s] = "writing"
        /\ Knows(Known, Revised, Logged, "writing", req[s], held[s])
    BY DEF AloneInv, Inv, SessionsKnow, StoreRow
  <1>2. s \in UnderWay /\ id \in Ids
    BY <1>1, RequestFields DEF UnderWay, Working, Knows
  <1>3. /\ OthersStay(s) /\ pc'[s] = "revising" /\ req'[s] = req[s] /\ held'[s] = record
        /\ rows' = [rows EXCEPT ![id] = record]
        /\ UNCHANGED <<revisions, auditLogs>>
    BY <1>1 DEF StoreRow, Goto, OthersStay, TypeOK
  <1>4. /\ SettledRevisions = OnceRevised(s) /\ SettledAudit = OnceLogged(s)
        /\ SettledRevisions' = OnceRevised(s)' /\ SettledAudit' = OnceLogged(s)'
    BY <1>2, <1>3, SettledAround
  <1> HIDE DEF record
  <1>5. SettledRevisions' = [SettledRevisions EXCEPT ![id] = Append(@, record)]
    BY <1>1, <1>2, <1>3, <1>4 DEF OnceRevised
  <1>6. SettledAudit' = [SettledAudit EXCEPT ![id] = Append(@, entry)]
    <2>1. OnceLogged(s) = [k \in Ids |-> auditLogs[k]]
      BY <1>1 DEF OnceLogged, Owing
    <2>2. OnceLogged(s)' = [k \in Ids |-> IF k = id THEN Append(auditLogs[k], entry)
                                          ELSE auditLogs[k]]
      BY <1>3 DEF OnceLogged, Owing
    <2> HIDE DEF entry
    <2> QED  BY <1>2, <1>4, <2>1, <2>2
  <1> QED  BY <1>3, <1>5, <1>6 DEF Settled!Save, Settled!Log, record

LEMMA StoreRowIsUpsert ==
    ASSUME Managed, AloneInv, Inv', NEW s \in Sessions, StoreRow(s), alone[s]
    PROVE  \E id \in Ids : SerialUpsert(id)
  <1> DEFINE id == req[s].id
  <1>1. /\ TypeOK /\ pc[s] = "writing" /\ req[s].op # "delete"
        /\ Knows(Known, Revised, Logged, "writing", req[s], held[s])
    BY DEF AloneInv, Inv, SessionsKnow, StoreRow
  <1>2. /\ s \in UnderWay /\ id \in Ids /\ req[s].op \in MutationOps
        /\ req[s].op \in {"create", "update"} => req[s].body \in Payloads /\ HasRequired(req[s].body)
        /\ req[s].op \in TransitionOps => CanTransition(held[s].status, TargetStatus[req[s].op])
    BY <1>1, RequestFields DEF UnderWay, Working, Knows
  <1>3. Settled!Save(id, req[s].op, Proposal(req[s], held[s]))
    BY StoreRowSaves
  <1>4. /\ req[s].op # "create" => held[s] = rows[id]
        /\ req[s].op = "publish" /\ held[s].dep # NoId => DependencyMet(rows[held[s].dep])
    BY <1>1, <1>2 DEF AloneInv, AloneKnows, Mutates, Current
  <1>5. req[s].op # "create" => held[s] \in Record /\ rows[id] # NoRow
    BY <1>1, <1>2, <1>4, KnownRecords, SentinelAssumption DEF Knows, AloneInv
  <1>6. /\ \A r : Settled!Stored(r) = r
        /\ Settled!TransitionOps = TransitionOps /\ Settled!TargetStatus = TargetStatus
        /\ \A from, to : Settled!CanTransition(from, to) <=> CanTransition(from, to)
        /\ \A r, op : Settled!Transitioned(r, op) = Transitioned(r, op)
    BY DEF Settled!Stored, Settled!TransitionOps, TransitionOps, Settled!TargetStatus,
           TargetStatus, Settled!CanTransition, CanTransition, Settled!Transitioned,
           Transitioned
  <1>7. CASE req[s].op = "create"
    BY <1>2, <1>3, <1>7 DEF SerialUpsert, Proposal, TransitionOps
  <1>8. CASE req[s].op = "update"
    <2>1. Settled!Update(id, rows[id], req[s].body)
      BY <1>2, <1>3, <1>4, <1>5, <1>6, <1>8
         DEF Settled!Update, Settled!HasRequired, HasRequired, Proposal, TransitionOps,
             Settled!Merged, Merged
    <2> QED  BY <1>2, <1>8, <2>1 DEF SerialUpsert, Settled!AtomicCall
  <1>9. CASE req[s].op \in TransitionOps
    <2>1. req[s].op = "publish" /\ rows[id].dep # NoId => rows[id].dep \in PublishedNow
      BY <1>4, <1>5, <1>9, RecordFields DEF PublishedNow, DependencyMet, TransitionOps
    <2>2. Settled!Transition(id, rows[id], req[s].op, PublishedNow)
      <3>1. Proposal(req[s], held[s]) = Transitioned(rows[id], req[s].op)
        BY <1>4, <1>9 DEF Proposal, TransitionOps
      <3> QED  BY <1>2, <1>3, <1>4, <1>5, <1>6, <1>9, <2>1, <3>1
               DEF Settled!Transition, TransitionOps
    <2> QED  BY <1>2, <1>6, <1>9, <2>2 DEF SerialUpsert, Settled!AtomicCall
  <1> QED  BY <1>1, <1>2, <1>7, <1>8, <1>9 DEF MutationOps

LEMMA DeleteRowIsDelete ==
    ASSUME AloneInv, Inv', NEW s \in Sessions, DeleteRow(s), alone[s]
    PROVE  \E id \in Ids : SerialUpsert(id)
  <1> DEFINE id == req[s].id
             entry == [op |-> "delete", snapshot |-> rows[id]]
  <1>1. /\ TypeOK /\ pc[s] = "writing" /\ req[s].op = "delete"
        /\ Knows(Known, Revised, Logged, "writing", req[s], held[s])
    BY DEF AloneInv, Inv, SessionsKnow, DeleteRow
  <1>2. s \in UnderWay /\ id \in Ids
    BY <1>1, RequestFields DEF UnderWay, Working, Knows
  <1>3. /\ OthersStay(s) /\ pc'[s] = "auditing" /\ req'[s] = req[s] /\ held'[s] = held[s]
        /\ rows' = [rows EXCEPT ![id] = NoRow]
        /\ UNCHANGED <<revisions, auditLogs>>
    BY <1>1 DEF DeleteRow, Goto, OthersStay, TypeOK
  <1>4. /\ SettledRevisions = OnceRevised(s) /\ SettledAudit = OnceLogged(s)
        /\ SettledRevisions' = OnceRevised(s)' /\ SettledAudit' = OnceLogged(s)'
    BY <1>2, <1>3, SettledAround
  <1>5. held[s] = rows[id] /\ rows[id] # NoRow
    <2>1. held[s] = rows[id]
      BY <1>1, <1>2 DEF AloneInv, AloneKnows, Mutates, Current
    <2>2. held[s] \in Record
      BY <1>1, <1>2, KnownRecords DEF Knows, AloneInv
    <2> QED  BY <2>1, <2>2, SentinelAssumption
  <1>6. SettledRevisions' = SettledRevisions
    BY <1>1, <1>3, <1>4 DEF OnceRevised
  <1>7. SettledAudit' = [SettledAudit EXCEPT ![id] = Append(@, entry)]
    <2>1. OnceLogged(s) = [k \in Ids |-> auditLogs[k]]
      BY <1>1 DEF OnceLogged, Owing
    <2>2. OnceLogged(s)' = [k \in Ids |-> IF k = id THEN Append(auditLogs[k], entry)
                                          ELSE auditLogs[k]]
      BY <1>1, <1>3, <1>5 DEF OnceLogged, Owing
    <2> HIDE DEF entry
    <2> QED  BY <1>2, <1>4, <2>1, <2>2
  <1>8. Settled!Delete(id, rows[id])
    BY <1>3, <1>5, <1>6, <1>7 DEF Settled!Delete, Settled!Log
  <1> QED  BY <1>2, <1>8 DEF SerialUpsert, Settled!AtomicCall

\* The revision and the audit entry were settled already.
LEMMA InsertsWereSettled ==
    ASSUME AloneInv, Inv', NEW s \in Sessions, alone[s],
           InsertRevision(s) \/ InsertAudit(s)
    PROVE  UNCHANGED Settled!tables
  <1>1. TypeOK /\ pc[s] \in Owing
    BY DEF AloneInv, Inv, InsertRevision, InsertAudit, Owing
  <1>2. s \in UnderWay /\ req[s].id \in Ids /\ req[s].op \in MutationOps
    BY <1>1, OwingIsUnderWay DEF AloneInv
  <1>3. OthersStay(s) /\ UNCHANGED <<rows, req, held>>
    BY <1>1 DEF InsertRevision, InsertAudit, Goto, OthersStay, TypeOK
  <1>4. /\ SettledRevisions = OnceRevised(s) /\ SettledAudit = OnceLogged(s)
        /\ SettledRevisions' = OnceRevised(s)' /\ SettledAudit' = OnceLogged(s)'
    BY <1>2, <1>3, SettledAround
  <1>5. CASE InsertRevision(s)
    <2>1. /\ pc[s] = "revising" /\ pc'[s] = "auditing" /\ UNCHANGED auditLogs
          /\ \A k \in Ids : revisions'[k] = IF req[s].id = k THEN Append(revisions[k], held[s])
                                            ELSE revisions[k]
      BY <1>1, <1>5 DEF InsertRevision, Goto, TypeOK, TablesTypeOK
    <2>2. OnceRevised(s)' = OnceRevised(s) /\ OnceLogged(s)' = OnceLogged(s)
      BY <1>3, <2>1 DEF OnceRevised, OnceLogged, Owing
    <2> QED  BY <1>3, <1>4, <2>2 DEF Settled!tables
  <1>6. CASE InsertAudit(s)
    <2> DEFINE entry == [op |-> req[s].op, snapshot |-> held[s]]
    <2>1. /\ pc[s] = "auditing" /\ pc'[s] = "ok" /\ UNCHANGED revisions
          /\ \A k \in Ids : auditLogs'[k] = IF req[s].id = k THEN Append(auditLogs[k], entry)
                                            ELSE auditLogs[k]
      BY <1>1, <1>6 DEF InsertAudit, Log, Goto, TypeOK, TablesTypeOK
    <2>2. OnceRevised(s)' = OnceRevised(s)
      BY <2>1 DEF OnceRevised
    <2>3. OnceLogged(s)' = OnceLogged(s)
      <3>1. OnceLogged(s) = [k \in Ids |-> IF req[s].id = k THEN Append(auditLogs[k], entry)
                                           ELSE auditLogs[k]]
        BY <1>1 DEF OnceLogged
      <3>2. OnceLogged(s)' = [k \in Ids |-> auditLogs'[k]]
        BY <2>1 DEF OnceLogged, Owing
      <3> HIDE DEF entry
      <3> QED  BY <2>1, <3>1, <3>2
    <2> QED  BY <1>3, <1>4, <2>2, <2>3 DEF Settled!tables
  <1> QED  BY <1>5, <1>6

\* Every other step owes the trail nothing.
LEMMA OtherStepsStaySettled ==
    ASSUME Inv, NEW s \in Sessions,
           \/ \E request \in Requests : Accept(s, request)
           \/ ReadExisting(s) \/ CheckDependency(s) \/ Answer(s)
    PROVE  UNCHANGED Settled!tables
  <1>1. TypeOK
    BY DEF Inv
  <1>2. OthersStay(s) /\ UNCHANGED tables
    BY <1>1 DEF Accept, ReadExisting, CheckDependency, Answer, Fail, Goto, OthersStay, TypeOK
  <1>3. pc[s] \notin Owing /\ pc'[s] \notin Owing
    BY <1>1 DEF Accept, ReadExisting, CheckDependency, Answer, Fail, Goto, TypeOK, Owing
  <1> QED  BY <1>2, <1>3, SettledStays

LEMMA AloneStepIsUpsert ==
    ASSUME Managed, AloneInv, AloneInv', [Next /\ AloneNext]_<<vars, alone>>, RanAlone
    PROVE  (\E id \in Ids : SerialUpsert(id)) \/ UNCHANGED Settled!tables
  <1>1. CASE UNCHANGED vars
    BY <1>1 DEF vars, Settled!tables, SettledRevisions, SettledAudit, Due
  <1>2. ASSUME NEW s \in Sessions,
               StoreRow(s) \/ DeleteRow(s) \/ InsertRevision(s) \/ InsertAudit(s)
        PROVE  (\E id \in Ids : SerialUpsert(id)) \/ UNCHANGED Settled!tables
    <2>1. pc'[s] # pc[s]
      BY <1>2 DEF StoreRow, DeleteRow, InsertRevision, InsertAudit, Goto, AloneInv, Inv, TypeOK
    <2>2. alone[s]
      BY <2>1 DEF RanAlone
    <2>3. Inv'
      BY DEF AloneInv
    <2> QED  BY <1>2, <2>2, <2>3, StoreRowIsUpsert, DeleteRowIsDelete, InsertsWereSettled
  <1>3. ASSUME NEW s \in Sessions,
               \/ \E request \in Requests : Accept(s, request)
               \/ ReadExisting(s) \/ CheckDependency(s) \/ Answer(s)
        PROVE  UNCHANGED Settled!tables
    BY <1>3, OtherStepsStaySettled DEF AloneInv
  <1> QED  BY <1>1, <1>2, <1>3 DEF Next

\* Over the memory store a mutation of a managed resource that overlapped no other
\* is one atomic step of the serial contract at the moment it writes its row, but
\* for a Create, which also replaces a record (service.go:43, memory.go:96).
THEOREM MemoryAloneIsSerial ==
    ASSUME Managed
    PROVE  WatchedSpec => AloneImplementsSerialUpserts
  <1>1. AloneInv /\ AloneInv' /\ [Next /\ AloneNext]_<<vars, alone>> =>
            [RanAlone => \E id \in Ids : SerialUpsert(id)]_(Settled!tables)
    BY AloneStepIsUpsert
  <1> QED  BY <1>1, AloneInvariant, PTL DEF WatchedSpec, AloneImplementsSerialUpserts

============================================================================
