-------------------------- MODULE ScheduledPublish --------------------------
(**************************************************************************)
(* The job publish-scheduled (pkg/job/publish_scheduled.go), run again    *)
(* and again by a scheduler, over a managed resource with a published_at  *)
(* field.  A run takes the time, lists the drafts and calls the service's *)
(* Publish for each one whose published_at has passed; a publish that is  *)
(* refused or fails is reported and the run goes on.                      *)
(*                                                                        *)
(* Publish itself (pkg/content/service.go) reads the record again, checks *)
(* the prerequisite and writes the record it read: the three steps of     *)
(* ContentPostgres that others can see.  What editors do meanwhile is one *)
(* atomic call each.  Rows keep what the job looks at: the prerequisite,  *)
(* the status and published_at.                                           *)
(**************************************************************************)
EXTENDS ContentRecords, Sequences, FiniteSets

CONSTANTS
    Runners,          \* the jobs that may run at one time
    NoTime,           \* published_at is missing, empty or cannot be parsed
    PageLimit,        \* how many drafts one run looks at (1000 in the code)
    ListsNewestFirst, \* PostgreSQL; the memory and file stores list in no
                      \* order and ignore the limit
    MaxTime,          \* BOUND: the clock
    MaxEdits,         \* BOUND: calls of editors
    MaxFailures       \* BOUND: failing statements and runs that die

\* Ids are numbered in the order in which the records were created; a table
\* has finitely many.
ASSUME ScheduleAssumption ==
    /\ Ids \subseteq Nat /\ IsFiniteSet(Ids) /\ NoTime \notin Nat
    /\ PageLimit \in Nat \ {0} /\ ListsNewestFirst \in BOOLEAN
    /\ MaxTime \in Nat \ {0} /\ MaxEdits \in Nat /\ MaxFailures \in Nat

Times == 1..MaxTime

Row == [dep : Ids \cup {NoId}, status : Statuses, at : Times \cup {NoTime}]

VARIABLES
    rows,        \* the committed rows
    clock,
    pc,          \* where each runner stands
    now,         \* the time its run began
    queue,       \* the due drafts it has yet to publish
    held,        \* the record Publish read
    edits, failures,
    wasDue       \* HISTORY: records that were drafts when their time had come

vars == <<rows, clock, pc, now, queue, held, edits, failures, wasDue>>

TypeOK ==
    /\ rows \in [Ids -> Row \cup {NoRow}]
    /\ clock \in Times
    /\ pc \in [Runners -> {"idle", "listing", "next", "checking", "writing"}]
    /\ now \in [Runners -> Times]
    /\ queue \in [Runners -> Seq(Ids)]
    /\ held \in [Runners -> Row \cup {NoRow}]
    /\ edits \in 0..MaxEdits /\ failures \in 0..MaxFailures
    /\ wasDue \subseteq Ids

IsDraft(table, id) == table[id] # NoRow /\ table[id].status = "draft"
Scheduled(row, time) == row.at # NoTime /\ row.at <= time
DueIn(table, time) ==
    {id \in Ids : IsDraft(table, id) /\ Scheduled(table[id], time)}

Init ==
    /\ rows \in [Ids -> [dep : Ids \cup {NoId}, status : {"draft"},
                         at : Times \cup {NoTime}]]
    /\ clock = 1
    /\ pc = [j \in Runners |-> "idle"]
    /\ now = [j \in Runners |-> 1]
    /\ queue = [j \in Runners |-> << >>]
    /\ held = [j \in Runners |-> NoRow]
    /\ edits = 0 /\ failures = 0
    /\ wasDue = DueIn(rows, 1)

----------------------------------------------------------------------------
(* The job.                                                                *)

Goto(j, step) == pc' = [pc EXCEPT ![j] = step]

Begin(j) ==
    /\ pc[j] = "idle"
    /\ now' = [now EXCEPT ![j] = clock]
    /\ Goto(j, "listing")
    /\ UNCHANGED <<rows, clock, queue, held, edits, failures, wasDue>>

\* List: the newest drafts up to the limit, or all of them.
Page(drafts) ==
    IF ListsNewestFirst
    THEN {id \in drafts : Cardinality({d \in drafts : d > id}) < PageLimit}
    ELSE drafts

\* The orders in which some records of a page are listed.
Listings(ids) ==
    {listing \in [1..Cardinality(ids) -> ids] :
        \A i, k \in DOMAIN listing :
            i < k => /\ listing[i] # listing[k]
                     /\ ListsNewestFirst => listing[i] > listing[k]}

\* MUTANT of IsDue: a record without published_at is due.
IsDueUnscheduled(row, time) == row.at = NoTime \/ row.at <= time

\* parseDateTime of published_at, at or before the time the run began.
IsDue(row, time) == Scheduled(row, time)

\* The list is read once; what it says decides which records are due.
List(j) ==
    /\ pc[j] = "listing"
    /\ LET page == Page({id \in Ids : IsDraft(rows, id)})
       IN  \E due \in Listings({id \in page : IsDue(rows[id], now[j])}) :
              queue' = [queue EXCEPT ![j] = due]
    /\ Goto(j, "next")
    /\ UNCHANGED <<rows, clock, now, held, edits, failures, wasDue>>

\* Publish of the first record in the queue has ended, one way or the other.
NextRecord(j) ==
    /\ queue' = [queue EXCEPT ![j] = Tail(@)]
    /\ held' = [held EXCEPT ![j] = NoRow]
    /\ Goto(j, "next")

\* transitionStatus reads the record and asks the lifecycle; published to
\* published is a legal transition.
ReadExisting(j) ==
    /\ pc[j] = "next" /\ queue[j] # << >>
    /\ LET existing == rows[Head(queue[j])]
       IN  IF existing = NoRow \/ ~CanTransition(existing.status, "published")
           THEN NextRecord(j)
           ELSE /\ held' = [held EXCEPT ![j] = existing]
                /\ Goto(j, IF existing.dep = NoId THEN "writing" ELSE "checking")
                /\ UNCHANGED queue
    /\ UNCHANGED <<rows, clock, now, edits, failures, wasDue>>

\* MUTANT of CheckDependency: an unpublished prerequisite ends the run.
CheckDependencyEndsRun(j) ==
    /\ pc[j] = "checking"
    /\ IF DependencyMet(rows[held[j].dep])
       THEN Goto(j, "writing") /\ UNCHANGED <<queue, held>>
       ELSE /\ queue' = [queue EXCEPT ![j] = << >>]
            /\ held' = [held EXCEPT ![j] = NoRow]
            /\ Goto(j, "next")
    /\ UNCHANGED <<rows, clock, now, edits, failures, wasDue>>

CheckDependency(j) ==
    /\ pc[j] = "checking"
    /\ IF DependencyMet(rows[held[j].dep])
       THEN Goto(j, "writing") /\ UNCHANGED <<queue, held>>
       ELSE NextRecord(j)
    /\ UNCHANGED <<rows, clock, now, edits, failures, wasDue>>

\* MUTANT of Write: the record is stored whether or not it is still there.
WriteUpserts(j) ==
    /\ pc[j] = "writing"
    /\ rows' = [rows EXCEPT
                  ![Head(queue[j])] = [held[j] EXCEPT !.status = "published"]]
    /\ NextRecord(j)
    /\ UNCHANGED <<clock, now, edits, failures, wasDue>>

\* The record that was read is written with its new status, if the row is
\* still there.
Write(j) ==
    /\ pc[j] = "writing"
    /\ LET id == Head(queue[j])
       IN  rows' = IF rows[id] = NoRow THEN rows
                   ELSE [rows EXCEPT
                           ![id] = [held[j] EXCEPT !.status = "published"]]
    /\ NextRecord(j)
    /\ UNCHANGED <<clock, now, edits, failures, wasDue>>

End(j) ==
    /\ pc[j] = "next" /\ queue[j] = << >>
    /\ Goto(j, "idle")
    /\ UNCHANGED <<rows, clock, now, queue, held, edits, failures, wasDue>>

\* A statement fails: the resource, or the record, is left out of this run.
Fail(j) ==
    /\ failures < MaxFailures
    /\ failures' = failures + 1
    /\ \/ /\ pc[j] = "listing"
          /\ Goto(j, "next")
          /\ UNCHANGED <<queue, held>>
       \/ /\ pc[j] \in {"next", "checking", "writing"} /\ queue[j] # << >>
          /\ NextRecord(j)
    /\ UNCHANGED <<rows, clock, now, edits, wasDue>>

\* The process of a run dies.
Die(j) ==
    /\ pc[j] # "idle"
    /\ failures < MaxFailures
    /\ failures' = failures + 1
    /\ queue' = [queue EXCEPT ![j] = << >>]
    /\ held' = [held EXCEPT ![j] = NoRow]
    /\ Goto(j, "idle")
    /\ UNCHANGED <<rows, clock, now, edits, wasDue>>

----------------------------------------------------------------------------
(* Around it.                                                              *)

Tick ==
    /\ clock < MaxTime
    /\ clock' = clock + 1
    /\ wasDue' = wasDue \cup DueIn(rows, clock')
    /\ UNCHANGED <<rows, pc, now, queue, held, edits, failures>>

Edit(id, row) ==
    /\ edits < MaxEdits
    /\ rows[id] # NoRow
    /\ edits' = edits + 1
    /\ rows' = [rows EXCEPT ![id] = row]
    /\ wasDue' = wasDue \cup DueIn(rows', clock)
    /\ UNCHANGED <<clock, pc, now, queue, held, failures>>

Reschedule(id) ==
    \E at \in Times \cup {NoTime} : Edit(id, [rows[id] EXCEPT !.at = at])

\* Publish, Unpublish and Finish of an editor, on the current record.
Transit(id) ==
    \E op \in TransitionOps :
        /\ rows[id] # NoRow
        /\ CanTransition(rows[id].status, TargetStatus[op])
        /\ op = "publish" /\ rows[id].dep # NoId =>
               DependencyMet(rows[rows[id].dep])
        /\ Edit(id, [rows[id] EXCEPT !.status = TargetStatus[op]])

Delete(id) == Edit(id, NoRow)

Step(j) ==
    \/ Begin(j) \/ List(j) \/ ReadExisting(j) \/ CheckDependency(j)
    \/ Write(j) \/ End(j)

Next ==
    \/ \E j \in Runners : Step(j) \/ Fail(j) \/ Die(j)
    \/ Tick
    \/ \E id \in Ids : Reschedule(id) \/ Transit(id) \/ Delete(id)

Spec == Init /\ [][Next]_vars

\* The scheduler starts the job again and again and runs make progress.
Fairness == \A j \in Runners : WF_vars(Step(j))

FairSpec == Spec /\ Fairness

----------------------------------------------------------------------------
(* Properties.                                                             *)

Writes(j, id) ==
    /\ pc[j] = "writing" /\ id = Head(queue[j])
    /\ rows[id] # NoRow /\ pc'[j] = "next" /\ failures' = failures

\* However runs and editors overlap, what the job publishes had its time come
\* while it was a draft ("publishes draft records whose published_at timestamp
\* has passed", publish_scheduled.go:12), though it may not be one any more.
JobPublishesWhatWasDue ==
    [][\A j \in Runners : \A id \in Ids : Writes(j, id) => id \in wasDue]_vars

\* Nothing the job does brings back a deleted record.
DeletedStaysDeleted ==
    [][\A id \in Ids : rows[id] = NoRow => rows'[id] = NoRow]_vars

\* A draft whose time has come and whose prerequisite is published.
Ready(id) ==
    /\ id \in DueIn(rows, clock)
    /\ rows[id].dep # NoId => DependencyMet(rows[rows[id].dep])

\* It does not wait for ever: the job publishes it, though runs fail now and
\* then and whatever else is due, refused or listed before it, unless an editor
\* does so first, or takes it back (publish_scheduled.go:31, :64).
ReadyDraftsAreServed == \A id \in Ids : Ready(id) ~> ~Ready(id)

============================================================================
