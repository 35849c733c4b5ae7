----------------------- MODULE ScheduledPublishProofs -----------------------
(**************************************************************************)
(* What the job publish-scheduled keeps, for any records, schedules and   *)
(* number of runs and editors: it publishes only what was due, and what   *)
(* is deleted stays deleted.                                              *)
(*                                                                        *)
(* What a run has queued was due when it listed, and was due is never     *)
(* forgotten: so no edit in between matters.                              *)
(**************************************************************************)
EXTENDS ScheduledPublish, FiniteSetTheorems, TLAPS

----------------------------------------------------------------------------
(* The invariant.                                                          *)

Queued(queues, j) == {queues[j][i] : i \in DOMAIN queues[j]}

\* Nothing is queued that was never due.
QueuedWereDue == \A j \in Runners : Queued(queue, j) \subseteq wasDue

\* The clock and a draft make it due, and a run began in the past.
DueIsNoted == DueIn(rows, clock) \subseteq wasDue

RunsBegan == \A j \in Runners : now[j] <= clock

\* A run in the middle of a publish is at the head of its queue and holds what
\* it read.
Publishing ==
    \A j \in Runners :
        pc[j] \in {"checking", "writing"} => queue[j] # << >> /\ held[j] \in Row

Inv == TypeOK /\ QueuedWereDue /\ DueIsNoted /\ RunsBegan /\ Publishing

----------------------------------------------------------------------------
(* Due drafts and queues.                                                  *)

\* Fewer drafts and an earlier time make no record due.
LEMMA DueShrinks ==
    ASSUME NEW table, NEW after, NEW early \in Times, NEW late \in Times, early <= late,
           \A id \in Ids : IsDraft(after, id) => after[id] = table[id],
           \A id \in Ids : table[id] # NoRow => table[id] \in Row
    PROVE  DueIn(after, early) \subseteq DueIn(table, late)
  <1>1. SUFFICES ASSUME NEW id \in DueIn(after, early)  PROVE id \in DueIn(table, late)
    OBVIOUS
  <1>2. /\ id \in Ids /\ after[id] = table[id] /\ table[id] # NoRow
        /\ table[id].status = "draft"
        /\ table[id].at # NoTime /\ table[id].at <= early
    BY <1>1 DEF DueIn, IsDraft, Scheduled
  <1>3. table[id].at \in Times
    BY <1>2 DEF Row
  <1>4. table[id].at <= late
    BY <1>2, <1>3 DEF Times
  <1> QED  BY <1>2, <1>4 DEF DueIn, IsDraft, Scheduled

\* A listing holds what it lists and nothing else.
LEMMA ListingHolds ==
    ASSUME NEW ids \in SUBSET Ids, IsFiniteSet(ids), NEW listing \in Listings(ids)
    PROVE  /\ listing \in Seq(Ids)
           /\ \A i \in DOMAIN listing : listing[i] \in ids
  <1>1. Cardinality(ids) \in Nat
    BY FS_CardinalityType
  <1>2. listing \in [1..Cardinality(ids) -> ids]
    BY DEF Listings
  <1>3. listing \in Seq(ids)
    BY <1>1, <1>2
  <1> QED  BY <1>2, <1>3

\* What is left of a queue was in it.
LEMMA TailIsQueued ==
    ASSUME NEW q \in Seq(Ids), q # << >>
    PROVE  /\ Tail(q) \in Seq(Ids) /\ Head(q) \in Ids
           /\ 1 \in DOMAIN q /\ Head(q) = q[1]
           /\ \A i \in DOMAIN Tail(q) : i + 1 \in DOMAIN q /\ Tail(q)[i] = q[i + 1]
  OBVIOUS

----------------------------------------------------------------------------
(* Steps of a run.                                                         *)

Steps == {"idle", "listing", "next", "checking", "writing"}

\* A run that moves on, keeps to what was due and makes no record due keeps
\* the invariant.
LEMMA RunnerMoves ==
    ASSUME Inv, NEW j \in Runners, NEW step \in Steps,
           NEW q \in Seq(Ids), \A i \in DOMAIN q : q[i] \in wasDue,
           NEW h \in Row \cup {NoRow},
           step \in {"checking", "writing"} => q # << >> /\ h \in Row,
           pc' = [pc EXCEPT ![j] = step],
           queue' = [queue EXCEPT ![j] = q],
           held' = [held EXCEPT ![j] = h],
           UNCHANGED <<clock, edits, wasDue>>, failures' \in 0..MaxFailures,
           now' \in [Runners -> Times], \A k \in Runners : now'[k] <= clock,
           rows' \in [Ids -> Row \cup {NoRow}],
           DueIn(rows', clock) \subseteq DueIn(rows, clock)
    PROVE  Inv'
  <1> USE DEF Inv
  <1>1. TypeOK'
    BY DEF TypeOK, Steps
  <1>2. QueuedWereDue'
    <2>1. SUFFICES ASSUME NEW k \in Runners, NEW i \in DOMAIN queue'[k]
                   PROVE  queue'[k][i] \in wasDue
      BY DEF QueuedWereDue, Queued
    <2>2. CASE k = j
      BY <2>1, <2>2 DEF TypeOK
    <2>3. CASE k # j
      <3>1. queue'[k] = queue[k]
        BY <2>3 DEF TypeOK
      <3> QED  BY <2>1, <3>1 DEF QueuedWereDue, Queued
    <2> QED  BY <2>2, <2>3
  <1>3. DueIsNoted'
    BY DEF DueIsNoted, DueIn, IsDraft, Scheduled
  <1>4. RunsBegan'
    BY DEF RunsBegan
  <1>5. Publishing'
    BY DEF Publishing, TypeOK
  <1> QED  BY <1>1, <1>2, <1>3, <1>4, <1>5

\* What a run knows of its own.
LEMMA RunnerKnows ==
    ASSUME Inv, NEW j \in Runners
    PROVE  /\ queue[j] \in Seq(Ids) /\ held[j] \in Row \cup {NoRow}
           /\ \A i \in DOMAIN queue[j] : queue[j][i] \in wasDue
           /\ queue = [queue EXCEPT ![j] = queue[j]]
           /\ held = [held EXCEPT ![j] = held[j]]
           /\ now \in [Runners -> Times] /\ \A k \in Runners : now[k] <= clock
           /\ rows \in [Ids -> Row \cup {NoRow}]
           /\ clock \in Times /\ failures \in 0..MaxFailures
           /\ << >> \in Seq(Ids) /\ NoRow \in Row \cup {NoRow}
  BY DEF Inv, TypeOK, QueuedWereDue, Queued, RunsBegan

LEMMA BeginKeepsInv ==
    ASSUME Inv, NEW j \in Runners, Begin(j)
    PROVE  Inv'
  <1>1. /\ now' \in [Runners -> Times] /\ \A k \in Runners : now'[k] <= clock
    <2>1. clock \in Times /\ clock <= clock
      BY DEF Inv, TypeOK, Times
    <2> QED  BY <2>1 DEF Begin, Inv, TypeOK, RunsBegan
  <1>2. /\ pc' = [pc EXCEPT ![j] = "listing"]
        /\ UNCHANGED <<rows, clock, queue, held, edits, failures, wasDue>>
    BY DEF Begin, Goto
  <1>3. "listing" \in Steps
    BY DEF Steps
  <1> QED  BY <1>1, <1>2, <1>3, RunnerKnows, RunnerMoves

LEMMA ListKeepsInv ==
    ASSUME Inv, NEW j \in Runners, List(j)
    PROVE  Inv'
  <1> DEFINE page == Page({id \in Ids : IsDraft(rows, id)})
             found == {id \in page : IsDue(rows[id], now[j])}
  <1>1. PICK due \in Listings(found) : queue' = [queue EXCEPT ![j] = due]
    BY DEF List
  <1>2. page \subseteq {id \in Ids : IsDraft(rows, id)}
    BY DEF Page
  <1>3. found \subseteq DueIn(rows, now[j])
    BY <1>2 DEF DueIn, IsDue
  <1>4. DueIn(rows, now[j]) \subseteq wasDue
    <2>1. DueIn(rows, now[j]) \subseteq DueIn(rows, clock)
      BY RunnerKnows, DueShrinks
    <2> QED  BY <2>1 DEF Inv, DueIsNoted
  <1>5. found \in SUBSET Ids /\ IsFiniteSet(found)
    <2>1. found \subseteq Ids
      BY <1>2
    <2> QED  BY <2>1, ScheduleAssumption, FS_Subset
  <1>6. due \in Seq(Ids) /\ \A i \in DOMAIN due : due[i] \in wasDue
    <2> HIDE DEF found
    <2> QED  BY <1>1, <1>3, <1>4, <1>5, ListingHolds
  <1>7. /\ pc' = [pc EXCEPT ![j] = "next"]
        /\ UNCHANGED <<rows, clock, now, held, edits, failures, wasDue>>
    BY DEF List, Goto
  <1>8. "next" \in Steps
    BY DEF Steps
  <1> HIDE DEF found
  <1> QED  BY <1>1, <1>6, <1>7, <1>8, RunnerKnows, RunnerMoves

\* NextRecord leaves the run with what it has not looked at yet; the rows may
\* change with it as long as no record becomes due.
LEMMA NextRecordKeepsInv ==
    ASSUME Inv, NEW j \in Runners, queue[j] # << >>, NextRecord(j),
           UNCHANGED <<clock, now, edits, wasDue>>, failures' \in 0..MaxFailures,
           rows' \in [Ids -> Row \cup {NoRow}],
           DueIn(rows', clock) \subseteq DueIn(rows, clock)
    PROVE  Inv'
  <1>1. /\ queue' = [queue EXCEPT ![j] = Tail(queue[j])]
        /\ held' = [held EXCEPT ![j] = NoRow]
        /\ pc' = [pc EXCEPT ![j] = "next"]
    BY DEF NextRecord, Goto, Inv, TypeOK
  <1>2. Tail(queue[j]) \in Seq(Ids) /\ \A i \in DOMAIN Tail(queue[j]) : Tail(queue[j])[i] \in wasDue
    BY RunnerKnows, TailIsQueued
  <1>3. "next" \in Steps
    BY DEF Steps
  <1> QED  BY <1>1, <1>2, <1>3, RunnerKnows, RunnerMoves

LEMMA ReadExistingKeepsInv ==
    ASSUME Inv, NEW j \in Runners, ReadExisting(j)
    PROVE  Inv'
  <1> DEFINE existing == rows[Head(queue[j])]
  <1>1. queue[j] # << >> /\ UNCHANGED <<rows, clock, now, edits, failures, wasDue>>
    BY DEF ReadExisting
  <1>2. CASE existing = NoRow \/ ~CanTransition(existing.status, "published")
    <2>1. NextRecord(j)
      BY <1>2 DEF ReadExisting
    <2> QED  BY <1>1, <2>1, RunnerKnows, NextRecordKeepsInv
  <1>3. CASE ~(existing = NoRow \/ ~CanTransition(existing.status, "published"))
    <2>1. PICK step \in {"checking", "writing"} :
             /\ pc' = [pc EXCEPT ![j] = step]
             /\ held' = [held EXCEPT ![j] = existing]
             /\ UNCHANGED queue
      BY <1>3 DEF ReadExisting, Goto
    <2>2. existing \in Row
      BY <1>1, <1>3, RunnerKnows, TailIsQueued
    <2>3. step \in Steps
      BY DEF Steps
    <2> HIDE DEF existing
    <2> QED  BY <1>1, <2>1, <2>2, <2>3, RunnerKnows, RunnerMoves
  <1> QED  BY <1>2, <1>3

LEMMA CheckDependencyKeepsInv ==
    ASSUME Inv, NEW j \in Runners, CheckDependency(j)
    PROVE  Inv'
  <1>1. /\ queue[j] # << >> /\ pc[j] = "checking"
        /\ UNCHANGED <<rows, clock, now, edits, failures, wasDue>>
    BY DEF CheckDependency, Inv, Publishing
  <1>2. CASE ~DependencyMet(rows[held[j].dep])
    <2>1. NextRecord(j)
      BY <1>2 DEF CheckDependency
    <2> QED  BY <1>1, <2>1, RunnerKnows, NextRecordKeepsInv
  <1>3. CASE DependencyMet(rows[held[j].dep])
    <2>1. pc' = [pc EXCEPT ![j] = "writing"] /\ UNCHANGED <<queue, held>>
      BY <1>3 DEF CheckDependency, Goto
    <2>2. held[j] \in Row
      BY <1>1 DEF Inv, Publishing
    <2>3. "writing" \in Steps
      BY DEF Steps
    <2> QED  BY <1>1, <2>1, <2>2, <2>3, RunnerKnows, RunnerMoves
  <1> QED  BY <1>2, <1>3

\* What the job writes is published, so no record becomes due by it.
LEMMA WriteKeepsInv ==
    ASSUME Inv, NEW j \in Runners, Write(j)
    PROVE  Inv'
  <1> DEFINE id == Head(queue[j])
             row == [held[j] EXCEPT !.status = "published"]
  <1>1. /\ queue[j] # << >> /\ NextRecord(j)
        /\ UNCHANGED <<clock, now, edits, failures, wasDue>>
        /\ rows' = IF rows[id] = NoRow THEN rows ELSE [rows EXCEPT ![id] = row]
        /\ held[j] \in Row
    BY DEF Write, Inv, Publishing
  <1>2. id \in Ids
    BY <1>1, RunnerKnows, TailIsQueued
  <1>3. row \in Row /\ row.status = "published"
    BY <1>1 DEF Row, Statuses
  <1> HIDE DEF id, row
  <1>4. rows' \in [Ids -> Row \cup {NoRow}]
    BY <1>1, <1>2, <1>3, RunnerKnows
  <1>5. DueIn(rows', clock) \subseteq DueIn(rows, clock)
    <2>1. \A k \in Ids : IsDraft(rows', k) => rows'[k] = rows[k]
      BY <1>1, <1>2, <1>3, RunnerKnows DEF IsDraft
    <2> QED  BY <2>1 DEF DueIn, IsDraft, Scheduled
  <1> QED  BY <1>1, <1>4, <1>5, RunnerKnows, NextRecordKeepsInv

LEMMA EndKeepsInv ==
    ASSUME Inv, NEW j \in Runners, End(j)
    PROVE  Inv'
  <1>1. /\ pc' = [pc EXCEPT ![j] = "idle"]
        /\ UNCHANGED <<rows, clock, now, queue, held, edits, failures, wasDue>>
    BY DEF End, Goto
  <1>2. "idle" \in Steps
    BY DEF Steps
  <1> QED  BY <1>1, <1>2, RunnerKnows, RunnerMoves

LEMMA FailKeepsInv ==
    ASSUME Inv, NEW j \in Runners, Fail(j)
    PROVE  Inv'
  <1>1. failures' \in 0..MaxFailures /\ UNCHANGED <<rows, clock, now, edits, wasDue>>
    BY ScheduleAssumption DEF Fail, Inv, TypeOK
  <1>2. CASE Goto(j, "next") /\ UNCHANGED <<queue, held>>
    <2>1. pc' = [pc EXCEPT ![j] = "next"] /\ "next" \in Steps
      BY <1>2 DEF Goto, Steps
    <2> QED  BY <1>1, <1>2, <2>1, RunnerKnows, RunnerMoves
  <1>3. CASE queue[j] # << >> /\ NextRecord(j)
    BY <1>1, <1>3, RunnerKnows, NextRecordKeepsInv
  <1> QED  BY <1>2, <1>3 DEF Fail

LEMMA DieKeepsInv ==
    ASSUME Inv, NEW j \in Runners, Die(j)
    PROVE  Inv'
  <1>1. failures' \in 0..MaxFailures /\ UNCHANGED <<rows, clock, now, edits, wasDue>>
    BY ScheduleAssumption DEF Die, Inv, TypeOK
  <1>2. /\ queue' = [queue EXCEPT ![j] = << >>] /\ held' = [held EXCEPT ![j] = NoRow]
        /\ pc' = [pc EXCEPT ![j] = "idle"]
    BY DEF Die, Goto
  <1>3. "idle" \in Steps /\ \A i \in DOMAIN << >> : << >>[i] \in wasDue
    BY DEF Steps
  <1> QED  BY <1>1, <1>2, <1>3, RunnerKnows, RunnerMoves

----------------------------------------------------------------------------
(* Time and editors.                                                       *)

LEMMA TickKeepsInv ==
    ASSUME Inv, Tick
    PROVE  Inv'
  <1> USE DEF Inv
  <1>1. clock \in Times /\ clock' \in Times /\ clock <= clock'
    BY ScheduleAssumption DEF Tick, TypeOK, Times
  <1>2. /\ wasDue' = wasDue \cup DueIn(rows, clock')
        /\ UNCHANGED <<rows, pc, now, queue, held, edits, failures>>
    BY DEF Tick
  <1>3. TypeOK'
    BY <1>1, <1>2 DEF TypeOK, DueIn
  <1>4. QueuedWereDue'
    BY <1>2 DEF QueuedWereDue, Queued
  <1>5. DueIsNoted'
    BY <1>2 DEF DueIsNoted, DueIn, IsDraft, Scheduled
  <1>6. RunsBegan'
    <2>1. SUFFICES ASSUME NEW k \in Runners  PROVE now[k] <= clock'
      BY <1>2 DEF RunsBegan
    <2>2. now[k] \in Times /\ now[k] <= clock
      BY DEF TypeOK, RunsBegan
    <2> QED  BY <1>1, <2>2 DEF Times
  <1>7. Publishing'
    BY <1>2 DEF Publishing
  <1> QED  BY <1>3, <1>4, <1>5, <1>6, <1>7

LEMMA EditKeepsInv ==
    ASSUME Inv, NEW id \in Ids, NEW row \in Row \cup {NoRow}, Edit(id, row)
    PROVE  Inv'
  <1> USE DEF Inv
  <1>1. /\ edits' \in 0..MaxEdits /\ rows' \in [Ids -> Row \cup {NoRow}]
        /\ wasDue' = wasDue \cup DueIn(rows', clock)
        /\ UNCHANGED <<clock, pc, now, queue, held, failures>>
    BY ScheduleAssumption DEF Edit, TypeOK
  <1>2. TypeOK'
    BY <1>1 DEF TypeOK, DueIn
  <1>3. QueuedWereDue'
    BY <1>1 DEF QueuedWereDue, Queued
  <1>4. DueIsNoted'
    BY <1>1 DEF DueIsNoted, DueIn, IsDraft, Scheduled
  <1>5. RunsBegan'
    BY <1>1 DEF RunsBegan
  <1>6. Publishing'
    BY <1>1 DEF Publishing
  <1> QED  BY <1>2, <1>3, <1>4, <1>5, <1>6

\* Every call of an editor is one edit by a row or by none.
LEMMA EditorsEdit ==
    ASSUME Inv, NEW id \in Ids, Reschedule(id) \/ Transit(id) \/ Delete(id)
    PROVE  \E row \in Row \cup {NoRow} : Edit(id, row)
  <1>1. rows[id] # NoRow /\ rows[id] \in Row
    BY DEF Reschedule, Transit, Delete, Edit, Inv, TypeOK
  <1>2. CASE Reschedule(id)
    <2>1. PICK at \in Times \cup {NoTime} : Edit(id, [rows[id] EXCEPT !.at = at])
      BY <1>2 DEF Reschedule
    <2>2. [rows[id] EXCEPT !.at = at] \in Row
      BY <1>1 DEF Row
    <2> QED  BY <2>1, <2>2
  <1>3. CASE Transit(id)
    <2>1. PICK op \in TransitionOps : Edit(id, [rows[id] EXCEPT !.status = TargetStatus[op]])
      BY <1>3 DEF Transit
    <2>2. [rows[id] EXCEPT !.status = TargetStatus[op]] \in Row
      BY <1>1 DEF Row, TransitionOps, TargetStatus, Statuses
    <2> QED  BY <2>1, <2>2
  <1>4. CASE Delete(id)
    BY <1>4 DEF Delete
  <1> QED  BY <1>2, <1>3, <1>4

----------------------------------------------------------------------------
(* The theorems.                                                           *)

LEMMA InitInv == Init => Inv
  <1>1. SUFFICES ASSUME Init  PROVE Inv
    OBVIOUS
  <1>2. rows \in [Ids -> Row \cup {NoRow}]
    BY <1>1 DEF Init, Row, Statuses
  <1>3. 1 \in Times /\ 0 \in 0..MaxEdits /\ 0 \in 0..MaxFailures
    BY ScheduleAssumption DEF Times
  <1>4. /\ clock = 1 /\ pc = [j \in Runners |-> "idle"] /\ now = [j \in Runners |-> 1]
        /\ queue = [j \in Runners |-> << >>] /\ held = [j \in Runners |-> NoRow]
        /\ edits = 0 /\ failures = 0 /\ wasDue = DueIn(rows, 1)
    BY <1>1 DEF Init
  <1>5. TypeOK
    BY <1>2, <1>3, <1>4 DEF TypeOK, DueIn
  <1>6. QueuedWereDue /\ DueIsNoted
    BY <1>4 DEF QueuedWereDue, Queued, DueIsNoted
  <1>7. RunsBegan /\ Publishing
    BY <1>4 DEF RunsBegan, Publishing
  <1> QED  BY <1>5, <1>6, <1>7 DEF Inv

LEMMA NextKeepsInv == Inv /\ [Next]_vars => Inv'
  <1>1. SUFFICES ASSUME Inv, [Next]_vars  PROVE Inv'
    OBVIOUS
  <1>2. ASSUME NEW j \in Runners, Step(j) \/ Fail(j) \/ Die(j)
        PROVE  Inv'
    BY <1>1, <1>2, BeginKeepsInv, ListKeepsInv, ReadExistingKeepsInv, CheckDependencyKeepsInv,
       WriteKeepsInv, EndKeepsInv, FailKeepsInv, DieKeepsInv DEF Step
  <1>3. CASE Tick
    BY <1>1, <1>3, TickKeepsInv
  <1>4. ASSUME NEW id \in Ids, Reschedule(id) \/ Transit(id) \/ Delete(id)
        PROVE  Inv'
    BY <1>1, <1>4, EditorsEdit, EditKeepsInv
  <1>5. CASE UNCHANGED vars
    BY <1>1, <1>5 DEF vars, Inv, TypeOK, QueuedWereDue, Queued, DueIsNoted, DueIn, IsDraft,
       Scheduled, RunsBegan, Publishing
  <1> QED  BY <1>1, <1>2, <1>3, <1>4, <1>5 DEF Next

\* The invariant holds throughout.
THEOREM InvAlways == Spec => []Inv
  BY InitInv, NextKeepsInv, PTL DEF Spec

\* Types.
THEOREM JobTypes == Spec => []TypeOK
  <1>1. Inv => TypeOK
    BY DEF Inv
  <1> QED  BY <1>1, InvAlways, PTL

\* The job publishes what was due as a draft, however many runs and editors
\* overlap (publish_scheduled.go:64-92).
THEOREM JobKeepsToTheSchedule == Spec => JobPublishesWhatWasDue
  <1>1. Inv => [\A j \in Runners : \A id \in Ids : Writes(j, id) => id \in wasDue]_vars
    <2>1. SUFFICES ASSUME Inv, NEW j \in Runners, NEW id \in Ids, Writes(j, id)
                   PROVE  id \in wasDue
      OBVIOUS
    <2>2. queue[j] # << >> /\ id = Head(queue[j])
      BY <2>1 DEF Writes, Inv, Publishing
    <2> QED  BY <2>1, <2>2, RunnerKnows, TailIsQueued
  <1> QED  BY <1>1, InvAlways, PTL DEF JobPublishesWhatWasDue

\* A run that read a record before it was deleted does not bring it back
\* (content_repository.go:183-187).
THEOREM JobRevivesNothing == Spec => DeletedStaysDeleted
  <1>1. Inv /\ [Next]_vars =>
           [\A id \in Ids : rows[id] = NoRow => rows'[id] = NoRow]_vars
    <2>1. SUFFICES ASSUME Inv, Next, NEW id \in Ids, rows[id] = NoRow
                   PROVE  rows'[id] = NoRow
      BY DEF vars
    <2>2. CASE UNCHANGED rows
      BY <2>1, <2>2
    <2>3. ASSUME NEW k \in Ids, NEW row, rows[k] # NoRow, rows' = [rows EXCEPT ![k] = row]
          PROVE  rows'[id] = NoRow
      BY <2>1, <2>3 DEF Inv, TypeOK
    <2>4. ASSUME NEW j \in Runners, Write(j)
          PROVE  rows'[id] = NoRow
      <3>1. Head(queue[j]) \in Ids
        BY <2>1, <2>4, RunnerKnows, TailIsQueued DEF Write, Inv, Publishing
      <3>2. \/ UNCHANGED rows
            \/ /\ rows[Head(queue[j])] # NoRow
               /\ rows' = [rows EXCEPT ![Head(queue[j])] = [held[j] EXCEPT !.status = "published"]]
        BY <2>4 DEF Write
      <3> QED  BY <2>2, <2>3, <3>1, <3>2
    <2>5. ASSUME NEW k \in Ids, Reschedule(k) \/ Transit(k) \/ Delete(k)
          PROVE  rows'[id] = NoRow
      BY <2>1, <2>3, <2>5, EditorsEdit DEF Edit
    <2>6. ASSUME NEW j \in Runners, Step(j) \/ Fail(j) \/ Die(j), ~Write(j)
          PROVE  UNCHANGED rows
      BY <2>6 DEF Step, Begin, List, ReadExisting, CheckDependency, End, Fail, Die
    <2>7. CASE Tick
      BY <2>1, <2>7 DEF Tick
    <2> QED  BY <2>1, <2>2, <2>4, <2>5, <2>6, <2>7 DEF Next
  <1> QED  BY <1>1, InvAlways, PTL DEF Spec, DeletedStaysDeleted

=============================================================================
