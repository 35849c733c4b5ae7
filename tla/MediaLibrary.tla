---------------------------- MODULE MediaLibrary ----------------------------
(**************************************************************************)
(* The media library (pkg/media): a file and a row of metadata for every  *)
(* upload, and an audit entry for what was done to it.                    *)
(*                                                                        *)
(* Service writes the three one after the other, without a transaction:   *)
(* Upload the file, then the row, and takes the file away again when the  *)
(* row fails; Delete the file, then the row.  Audit errors are dropped.   *)
(* Two wirings exist (cmd/cms/serve.go:86-96, 165-175): files on disk     *)
(* with rows in PostgreSQL, where steps may fail, a failed statement may  *)
(* have been executed all the same, and the process may die; and both in  *)
(* memory, which do not fail but do not notice a missing row either.      *)
(**************************************************************************)
EXTENDS Naturals, Sequences, FiniteSets

CONSTANTS
    Media,        \* the uuids uploads may draw, each at most once
    Sessions,     \* the goroutines that may serve a request at one time
    NoMedia,      \* what an idle session is about
    MaxFailures   \* BOUND: failing steps and crashes

ASSUME MediaAssumption == NoMedia \notin Media /\ MaxFailures \in Nat

VARIABLES
    wiring,       \* "postgres" or "memory", chosen at start
    files,        \* the file of each upload: none, partly or wholly written
    rows,         \* cms_media
    audit,        \* the operations in the audit log, per upload
    pc, op, item, \* each session's next step, its request, what it is about
    drawn,        \* uuids given out
    failures,
    disturbed,    \* HISTORY: uploads of which a step failed after another had
                  \* been done
    stored,       \* HISTORY: uploads that were answered without an error
    doomed        \* HISTORY: uploads somebody asked to delete

store == <<files, rows, audit>>
session == <<op, item>>
history == <<disturbed, stored, doomed>>
vars == <<wiring, store, pc, session, drawn, failures, history>>

Steps == {"idle", "creating", "copying", "inserting", "cleaning", "reading",
          "opening", "removing", "deleting", "auditing", "ok", "error"}

TypeOK ==
    /\ wiring \in {"postgres", "memory"}
    /\ files \in [Media -> {"none", "partial", "whole"}]
    /\ rows \subseteq Media
    /\ audit \in [Media -> Seq({"create", "delete"})]
    /\ pc \in [Sessions -> Steps]
    /\ op \in [Sessions -> {"none", "create", "delete", "open"}]
    /\ item \in [Sessions -> Media \cup {NoMedia}]
    /\ drawn \subseteq Media
    /\ failures \in 0..MaxFailures
    /\ disturbed \subseteq drawn /\ stored \subseteq drawn /\ doomed \subseteq drawn

Init ==
    /\ wiring \in {"postgres", "memory"}
    /\ files = [m \in Media |-> "none"]
    /\ rows = {}
    /\ audit = [m \in Media |-> << >>]
    /\ pc = [s \in Sessions |-> "idle"]
    /\ op = [s \in Sessions |-> "none"]
    /\ item = [s \in Sessions |-> NoMedia]
    /\ drawn = {} /\ failures = 0
    /\ disturbed = {} /\ stored = {} /\ doomed = {}

----------------------------------------------------------------------------
At(s, step) == pc[s] = step
Goto(s, step) == pc' = [pc EXCEPT ![s] = step]
Put(s, content) == files' = [files EXCEPT ![item[s]] = content]

\* MUTANT of Accept: the uuid is drawn by the caller, who may repeat one.
AcceptGivenId(s, request, m) ==
    /\ At(s, "idle")
    /\ Goto(s, IF request = "create" THEN "creating" ELSE "reading")
    /\ op' = [op EXCEPT ![s] = request]
    /\ item' = [item EXCEPT ![s] = m]
    /\ doomed' = IF request = "delete" THEN doomed \cup {m} ELSE doomed
    /\ UNCHANGED <<wiring, store, drawn, failures, disturbed, stored>>

\* A request reaches the service: an upload draws a uuid.
Accept(s, request, m) ==
    /\ At(s, "idle")
    /\ IF request = "create"
       THEN m \notin drawn /\ drawn' = drawn \cup {m} /\ Goto(s, "creating")
       ELSE m \in drawn /\ UNCHANGED drawn /\ Goto(s, "reading")
    /\ op' = [op EXCEPT ![s] = request]
    /\ item' = [item EXCEPT ![s] = m]
    /\ doomed' = IF request = "delete" THEN doomed \cup {m} ELSE doomed
    /\ UNCHANGED <<wiring, store, failures, disturbed, stored>>

\* Storage.Save: the file is created, then filled.
CreateFile(s) ==
    /\ At(s, "creating")
    /\ Put(s, "partial")
    /\ Goto(s, "copying")
    /\ UNCHANGED <<wiring, rows, audit, session, drawn, failures, history>>

CopyFile(s) ==
    /\ At(s, "copying")
    /\ Put(s, "whole")
    /\ Goto(s, "inserting")
    /\ UNCHANGED <<wiring, rows, audit, session, drawn, failures, history>>

InsertRow(s) ==
    /\ At(s, "inserting")
    /\ rows' = rows \cup {item[s]}
    /\ Goto(s, "auditing")
    /\ UNCHANGED <<wiring, files, audit, session, drawn, failures, history>>

\* The row could not be inserted: the file is taken away again.
CleanUp(s) ==
    /\ At(s, "cleaning")
    /\ Put(s, "none")
    /\ Goto(s, "error")
    /\ UNCHANGED <<wiring, rows, audit, session, drawn, failures, history>>

\* repo.Get, of Delete and of OpenFile.
ReadRow(s) ==
    /\ At(s, "reading")
    /\ Goto(s, IF item[s] \notin rows THEN "error"
               ELSE IF op[s] = "open" THEN "opening" ELSE "removing")
    /\ UNCHANGED <<wiring, store, session, drawn, failures, history>>

\* Storage.Open: the delivery handler answers 404 when the file is gone.
OpenFile(s) ==
    /\ At(s, "opening")
    /\ Goto(s, IF files[item[s]] = "none" THEN "error" ELSE "ok")
    /\ UNCHANGED <<wiring, store, session, drawn, failures, history>>

\* MUTANT of RemoveFile: the row is forgotten.
RemoveFileOnly(s) ==
    /\ At(s, "removing")
    /\ Put(s, "none")
    /\ Goto(s, "auditing")
    /\ UNCHANGED <<wiring, rows, audit, session, drawn, failures, history>>

\* MUTANT of RemoveFile: the file is forgotten.
RemoveFileNot(s) ==
    /\ At(s, "removing")
    /\ Goto(s, "deleting")
    /\ UNCHANGED <<wiring, store, session, drawn, failures, history>>

\* Storage.Delete: it does not matter if the file is gone already.
RemoveFile(s) ==
    /\ At(s, "removing")
    /\ Put(s, "none")
    /\ Goto(s, "deleting")
    /\ UNCHANGED <<wiring, rows, audit, session, drawn, failures, history>>

\* MUTANT of DeleteRow: nobody looks at the number of rows.
DeleteRowUncounted(s) ==
    /\ At(s, "deleting")
    /\ rows' = rows \ {item[s]}
    /\ Goto(s, "auditing")
    /\ UNCHANGED <<wiring, files, audit, session, drawn, failures, history>>

\* repo.Delete: PostgreSQL tells when there was no row, memory does not.
DeleteRow(s) ==
    /\ At(s, "deleting")
    /\ rows' = rows \ {item[s]}
    /\ Goto(s, IF wiring = "postgres" /\ item[s] \notin rows
               THEN "error" ELSE "auditing")
    /\ UNCHANGED <<wiring, files, audit, session, drawn, failures, history>>

Acknowledge(s) ==
    /\ Goto(s, "ok")
    /\ stored' = IF op[s] = "create" THEN stored \cup {item[s]} ELSE stored

InsertAudit(s) ==
    /\ At(s, "auditing")
    /\ audit' = [audit EXCEPT ![item[s]] = Append(@, op[s])]
    /\ Acknowledge(s)
    /\ UNCHANGED <<wiring, files, rows, session, drawn, failures, disturbed, doomed>>

Answer(s) ==
    /\ pc[s] \in {"ok", "error"}
    /\ Goto(s, "idle")
    /\ op' = [op EXCEPT ![s] = "none"]
    /\ item' = [item EXCEPT ![s] = NoMedia]
    /\ UNCHANGED <<wiring, store, drawn, failures, history>>

----------------------------------------------------------------------------
(* Failures.                                                               *)

Counted ==
    /\ wiring = "postgres" /\ failures < MaxFailures
    /\ failures' = failures + 1

\* The steps whose failure leaves an upload half done.
HalfWay == {"copying", "inserting", "cleaning", "deleting"}
HalfDone == {item[s] : s \in {t \in Sessions : pc[t] \in HalfWay}}

\* MUTANT of NextOnFailure: what could not be copied counts as saved.
NextOnFailureCopied(s) ==
    CASE At(s, "copying")   -> "inserting"
      [] At(s, "inserting") -> "cleaning"
      [] At(s, "auditing")  -> "ok"
      [] OTHER              -> "error"

\* Where a request goes when its step fails: errors of the audit insert, and
\* of the clean-up, are dropped.
NextOnFailure(s) ==
    CASE At(s, "inserting") -> "cleaning"
      [] At(s, "auditing")  -> "ok"
      [] OTHER              -> "error"

\* A statement that failed may have been executed: its answer was lost.
RowsAfterFailure(s) ==
    {rows} \cup (IF At(s, "inserting") THEN {rows \cup {item[s]}} ELSE {})
           \cup (IF At(s, "deleting") THEN {rows \ {item[s]}} ELSE {})

StepFails(s) ==
    /\ Counted
    /\ pc[s] \notin {"idle", "ok", "error"}
    /\ Goto(s, NextOnFailure(s))
    /\ rows' \in RowsAfterFailure(s)
    /\ disturbed' = IF pc[s] \in HalfWay THEN disturbed \cup {item[s]}
                    ELSE disturbed
    /\ stored' = IF At(s, "auditing") /\ op[s] = "create"
                 THEN stored \cup {item[s]} ELSE stored
    /\ UNCHANGED <<wiring, files, audit, session, drawn, doomed>>

\* The process dies and is started again; disk and database stay.
Crash ==
    /\ Counted
    /\ \E s \in Sessions : pc[s] # "idle"
    /\ disturbed' = disturbed \cup HalfDone
    /\ pc' = [s \in Sessions |-> "idle"]
    /\ op' = [s \in Sessions |-> "none"]
    /\ item' = [s \in Sessions |-> NoMedia]
    /\ UNCHANGED <<wiring, store, drawn, stored, doomed>>

----------------------------------------------------------------------------
Next ==
    \/ \E s \in Sessions :
          \/ \E request \in {"create", "delete", "open"}, m \in Media :
                Accept(s, request, m)
          \/ CreateFile(s) \/ CopyFile(s) \/ InsertRow(s) \/ CleanUp(s)
          \/ ReadRow(s) \/ OpenFile(s) \/ RemoveFile(s) \/ DeleteRow(s)
          \/ InsertAudit(s) \/ Answer(s) \/ StepFails(s)
    \/ Crash

Spec == Init /\ [][Next]_vars

----------------------------------------------------------------------------
(* Properties.                                                             *)

Audited(m, operation) == \E i \in DOMAIN audit[m] : audit[m][i] = operation

Doing(m, steps) == \E s \in Sessions : item[s] = m /\ pc[s] \in steps

\* A file without a row belongs to an upload under way, or a step of that
\* very upload, or of its delete, failed half way (service.go:36-54).
OrphansComeFromFailures ==
    \A m \in Media :
        files[m] # "none" /\ m \notin rows =>
            Doing(m, {"copying", "inserting"}) \/ m \in disturbed

\* A row whose file is not there is being deleted, or its delete, or its
\* upload's clean-up, failed half way (service.go:51-54, :109-115).
ListedMediaHasFile ==
    \A m \in rows :
        files[m] # "whole" => Doing(m, {"deleting"}) \/ m \in disturbed

\* What was answered as uploaded stays, file and row, through failures and
\* crashes, until somebody asks to delete it ("saves the physical file and
\* metadata", service.go:30).
UploadsAreKept ==
    \A m \in stored \ doomed : m \in rows /\ files[m] = "whole"

\* What the audit log says is deleted is gone, file and row, and never comes
\* back ("removes both physical file and metadata", service.go:102).
DeletedIsGone ==
    \A m \in Media :
        Audited(m, "delete") => m \notin rows /\ files[m] = "none"

\* Over PostgreSQL the audit log tells each upload, and each delete, once,
\* however many deletes of one upload race (media_repository.go:84-95).
AuditedOnce ==
    wiring = "postgres" =>
        \A m \in Media : \A i, j \in DOMAIN audit[m] :
            audit[m][i] = audit[m][j] => i = j

\* The delivery handler never serves a file that is still being copied, or
\* whose copying failed (handler.go:27-61).
OnlyWholeFilesServed ==
    [][\A s \in Sessions :
          At(s, "opening") /\ pc'[s] = "ok" => files[item[s]] = "whole"]_vars

=============================================================================
