-------------------------- MODULE ContentRecords --------------------------
(**************************************************************************)
(* The values the content core works on and the pure functions it applies *)
(* to them: the lifecycle of pkg/content/lifecycle.go, records, payloads, *)
(* audit entries, and what ContentService computes from a record it read  *)
(* and a request before it touches a store.                               *)
(*                                                                        *)
(* A record keeps the two fields the service itself looks at: a required  *)
(* field (title) and the prerequisite (depends_on).  The actor, the       *)
(* timestamps and the other columns are carried along and decide nothing. *)
(**************************************************************************)
EXTENDS Naturals

CONSTANTS
    Ids,        \* record ids of one resource
    Titles,     \* values of the required field
    Payloads,   \* the request bodies clients send
    NoId,       \* depends_on holds null or ""
    Absent,     \* the field is not in the request body
    NoRow,      \* there is no record
    Managed     \* lifecycle.mode is "managed" (otherwise "none")

ASSUME ManagedAssumption == Managed \in BOOLEAN

----------------------------------------------------------------------------
(* Lifecycle.                                                              *)

Statuses == {"draft", "published", "finished"}

\* The zero value of ContentStatus, the empty string.
NoStatus == "unset"

CanTransition(from, to) ==
    \/ from = to
    \/ from = "draft" /\ to = "published"
    \/ from = "published" /\ to \in {"draft", "finished"}
    \/ from = "finished" /\ to = "draft"

TransitionOps == {"publish", "unpublish", "finish"}

TargetStatus ==
    [publish |-> "published", unpublish |-> "draft", finish |-> "finished"]

----------------------------------------------------------------------------
(* Records, request bodies, requests, audit entries.                       *)

\* A resource without a managed lifecycle has no status and version 0 once
\* it was read back from a table.
Record == [title   : Titles,
           dep     : Ids \cup {NoId},
           status  : Statuses \cup {NoStatus},
           version : Nat]

ASSUME SentinelAssumption ==
    /\ NoId \notin Ids
    /\ Absent \notin Ids \cup Titles \cup {NoId}
    /\ NoRow \notin Record

Payload == [title : Titles \cup {Absent}, dep : Ids \cup {NoId, Absent}]

ASSUME PayloadAssumption == Payloads \subseteq Payload

MutationOps == {"create", "update", "delete"} \cup TransitionOps

\* Create and update carry a body, the other operations only an id.
Requests ==
    [op : {"create", "update"}, id : Ids, body : Payloads]
        \cup [op : {"get", "delete"} \cup TransitionOps, id : Ids]

AuditEntry == [op : MutationOps, snapshot : Record]

----------------------------------------------------------------------------
(* What the service computes.                                              *)

\* validateRequiredFields looks at the request body alone, for updates too.
HasRequired(body) == body.title # Absent

\* The record Create hands to the store.
NewRecord(body) ==
    [title   |-> body.title,
     dep     |-> IF body.dep = Absent THEN NoId ELSE body.dep,
     status  |-> IF Managed THEN "draft" ELSE NoStatus,
     version |-> 1]

\* MUTANT of Merged: the version is counted by the service and the store.
MergedCountsTwice(existing, body) ==
    [title   |-> body.title,
     dep     |-> IF body.dep = Absent THEN existing.dep ELSE body.dep,
     status  |-> existing.status,
     version |-> existing.version + 2]

\* MUTANT of Merged: the body takes the place of the record that was read.
MergedReplaces(existing, body) ==
    [title   |-> body.title,
     dep     |-> body.dep,
     status  |-> existing.status,
     version |-> existing.version + 1]

\* Update: the body laid over the record that was read, version counted up.
Merged(existing, body) ==
    [title   |-> body.title,
     dep     |-> IF body.dep = Absent THEN existing.dep ELSE body.dep,
     status  |-> existing.status,
     version |-> existing.version + 1]

\* Publish, Unpublish, Finish: the record that was read with another status.
Transitioned(existing, op) ==
    [title   |-> existing.title,
     dep     |-> existing.dep,
     status  |-> TargetStatus[op],
     version |-> existing.version + 1]

\* The record a create, an update or a transition asks the store to write.
Proposal(request, existing) ==
    CASE request.op = "create" -> NewRecord(request.body)
      [] request.op = "update" -> Merged(existing, request.body)
      [] request.op \in TransitionOps -> Transitioned(existing, request.op)

\* Refusals the service decides before it reads anything.
RefusedUnread(request) ==
    \/ request.op = "create" /\ ~HasRequired(request.body)
    \/ request.op \in TransitionOps /\ ~Managed

\* MUTANT of Refused: the lifecycle is not asked.
RefusedAnyTransition(request, existing) ==
    \/ existing = NoRow
    \/ request.op = "update" /\ ~HasRequired(request.body)

\* Refusals it decides from the record it read.
Refused(request, existing) ==
    \/ existing = NoRow
    \/ request.op = "update" /\ ~HasRequired(request.body)
    \/ /\ request.op \in TransitionOps
       /\ ~CanTransition(existing.status, TargetStatus[request.op])

\* Publish looks at the prerequisite, when the record names one.
ChecksDependency(request, existing) ==
    request.op = "publish" /\ existing.dep # NoId

\* MUTANT of DependencyMet: it is enough that the prerequisite exists.
DependencyExists(prerequisite) == prerequisite # NoRow

DependencyMet(prerequisite) ==
    prerequisite # NoRow /\ prerequisite.status = "published"

\* What a table row gives back: the status and version columns exist, and are
\* read, for managed resources only.
Stored(record) ==
    IF Managed THEN record ELSE [record EXCEPT !.status = NoStatus, !.version = 0]

============================================================================
