------------------------- MODULE MediaLibraryProofs -------------------------
(**************************************************************************)
(* What MediaLibrary promises, proved for any number of sessions, uploads *)
(* and failures.  The invariant says what a request knows between two of  *)
(* its steps, and whom it can be sure to be alone with.                   *)
(**************************************************************************)
EXTENDS MediaLibrary, TLAPS

Writing == {"creating", "copying", "inserting"}

Gone(m) == m \notin rows /\ files[m] = "none"

\* An idle session is about nothing, every other about an upload.
About ==
    \A s \in Sessions :
        IF pc[s] = "idle" THEN item[s] = NoMedia /\ op[s] = "none"
        ELSE item[s] \in drawn

\* The operations that reach each step.
OpOfStep ==
    \A s \in Sessions :
        /\ pc[s] \in Writing \cup {"cleaning"} => op[s] = "create"
        /\ pc[s] \in {"removing", "deleting"} => op[s] = "delete"
        /\ pc[s] = "reading" => op[s] \in {"delete", "open"}
        /\ pc[s] = "auditing" => op[s] \in {"create", "delete"}
        /\ op[s] = "delete" => item[s] \in doomed

\* What an upload knows before it has its row, and when it must clean up.
UploadKnows ==
    \A s \in Sessions :
        /\ pc[s] = "creating"  => files[item[s]] = "none"
        /\ pc[s] = "inserting" => files[item[s]] = "whole"
        /\ pc[s] \in Writing =>
               item[s] \notin rows /\ ~ Audited(item[s], "delete")
        /\ pc[s] \in Writing \cup {"cleaning"} => item[s] \notin stored
        /\ pc[s] = "cleaning" => item[s] \in disturbed

\* What a request knows that removed the file, and one that owes the audit
\* entry.
LaterKnows ==
    \A s \in Sessions :
        /\ pc[s] = "deleting" => files[item[s]] = "none"
        /\ pc[s] = "auditing" /\ op[s] = "delete" => Gone(item[s])
        /\ pc[s] = "auditing" /\ op[s] = "create" =>
               \/ item[s] \in doomed
               \/ item[s] \in rows /\ files[item[s]] = "whole"

\* An upload is alone with its uuid: nobody else uploads under it, and who
\* asks for it before it has a row finds none.
Alone ==
    \A s, t \in Sessions :
        s # t /\ item[s] = item[t] /\ pc[s] # "idle" =>
            /\ op[s] = "create" => op[t] # "create"
            /\ pc[s] \in Writing => pc[t] \in {"reading", "error"}

\* A uuid that was not given out has left no trace.
Untouched ==
    \A m \in Media \ drawn : Gone(m) /\ audit[m] = << >>

\* What has a row was copied to its end, and who read the row may open it.
NoPartialRow ==
    /\ \A m \in rows : files[m] # "partial"
    /\ \A s \in Sessions : pc[s] = "opening" => files[item[s]] # "partial"

\* Who owes an audit entry over PostgreSQL is the only one to owe it.
OwesOnce ==
    wiring = "postgres" =>
        \A s \in Sessions :
            /\ op[s] = "create" /\ pc[s] \notin {"ok", "error"} =>
                   ~ Audited(item[s], "create")
            /\ op[s] = "delete" /\ pc[s] = "auditing" =>
                   /\ ~ Audited(item[s], "delete")
                   /\ \A t \in Sessions \ {s} :
                         op[t] = "delete" /\ pc[t] = "auditing" =>
                             item[t] # item[s]

Inv ==
    /\ TypeOK /\ About /\ OpOfStep /\ UploadKnows /\ LaterKnows /\ Alone
    /\ Untouched /\ NoPartialRow /\ OwesOnce
    /\ OrphansComeFromFailures /\ ListedMediaHasFile
    /\ UploadsAreKept /\ DeletedIsGone /\ AuditedOnce

----------------------------------------------------------------------------
(* Each action keeps the invariant.                                        *)

USE MediaAssumption
    DEFS Inv, vars, store, session, history, At, Goto, Put, Acknowledge, Counted,
         TypeOK, Steps, About, OpOfStep, UploadKnows, LaterKnows, Alone, Untouched,
         NoPartialRow, Writing, Gone, HalfWay, HalfDone, NextOnFailure,
         RowsAfterFailure

LEMMA AcceptKeepsInv ==
    ASSUME Inv, NEW s \in Sessions, NEW m \in Media,
           NEW request \in {"create", "delete", "open"}, Accept(s, request, m)
    PROVE  Inv'
<1>1. TypeOK'
  BY DEF Accept
<1>2. About' /\ OpOfStep'
  BY DEF Accept
<1>3. UploadKnows'
  BY DEF Accept, Audited
<1>4. LaterKnows'
  BY DEF Accept
<1>5. Alone'
  BY DEF Accept
<1>6. Untouched' /\ NoPartialRow'
  BY DEF Accept
<1>7. OwesOnce'
  BY DEF Accept, OwesOnce, Audited, DeletedIsGone
<1>8. OrphansComeFromFailures'
  BY DEF Accept, OrphansComeFromFailures, Doing
<1>9. ListedMediaHasFile'
  BY DEF Accept, ListedMediaHasFile, Doing
<1>10. UploadsAreKept'
  BY DEF Accept, UploadsAreKept
<1>11. DeletedIsGone'
  BY DEF Accept, DeletedIsGone, Audited
<1>12. AuditedOnce'
  BY DEF Accept, AuditedOnce, OwesOnce, Audited
<1> QED
  BY <1>1, <1>2, <1>3, <1>4, <1>5, <1>6,
     <1>7, <1>8, <1>9, <1>10, <1>11, <1>12

LEMMA CreateFileKeepsInv ==
    ASSUME Inv, NEW s \in Sessions, CreateFile(s)
    PROVE  Inv'
<1>1. TypeOK'
  BY DEF CreateFile
<1>2. About' /\ OpOfStep'
  BY DEF CreateFile
<1>3. UploadKnows'
  BY DEF CreateFile, Audited
<1>4. LaterKnows'
  BY DEF CreateFile
<1>5. Alone'
  BY DEF CreateFile
<1>6. Untouched' /\ NoPartialRow'
  <2>1. item[s] \in drawn /\ item[s] \notin rows
    BY DEF CreateFile
  <2>2. \A t \in Sessions : pc[t] = "opening" => item[t] # item[s]
    BY DEF CreateFile
  <2>3. Untouched'
    BY <2>1 DEF CreateFile
  <2>4. NoPartialRow'
    BY <2>1, <2>2 DEF CreateFile
  <2> QED
    BY <2>3, <2>4
<1>7. OwesOnce'
  BY DEF CreateFile, OwesOnce, Audited, DeletedIsGone
<1>8. OrphansComeFromFailures'
  BY DEF CreateFile, OrphansComeFromFailures, Doing
<1>9. ListedMediaHasFile'
  BY DEF CreateFile, ListedMediaHasFile, Doing
<1>10. UploadsAreKept'
  BY DEF CreateFile, UploadsAreKept
<1>11. DeletedIsGone'
  BY DEF CreateFile, DeletedIsGone, Audited
<1>12. AuditedOnce'
  BY DEF CreateFile, AuditedOnce, OwesOnce, Audited
<1> QED
  BY <1>1, <1>2, <1>3, <1>4, <1>5, <1>6,
     <1>7, <1>8, <1>9, <1>10, <1>11, <1>12

LEMMA CopyFileKeepsInv ==
    ASSUME Inv, NEW s \in Sessions, CopyFile(s)
    PROVE  Inv'
<1>1. TypeOK'
  BY DEF CopyFile
<1>2. About' /\ OpOfStep'
  BY DEF CopyFile
<1>3. UploadKnows'
  BY DEF CopyFile, Audited
<1>4. LaterKnows'
  BY DEF CopyFile
<1>5. Alone'
  BY DEF CopyFile
<1>6. Untouched' /\ NoPartialRow'
  BY DEF CopyFile
<1>7. OwesOnce'
  BY DEF CopyFile, OwesOnce, Audited, DeletedIsGone
<1>8. OrphansComeFromFailures'
  BY DEF CopyFile, OrphansComeFromFailures, Doing
<1>9. ListedMediaHasFile'
  BY DEF CopyFile, ListedMediaHasFile, Doing
<1>10. UploadsAreKept'
  BY DEF CopyFile, UploadsAreKept
<1>11. DeletedIsGone'
  BY DEF CopyFile, DeletedIsGone, Audited
<1>12. AuditedOnce'
  BY DEF CopyFile, AuditedOnce, OwesOnce, Audited
<1> QED
  BY <1>1, <1>2, <1>3, <1>4, <1>5, <1>6,
     <1>7, <1>8, <1>9, <1>10, <1>11, <1>12

LEMMA InsertRowKeepsInv ==
    ASSUME Inv, NEW s \in Sessions, InsertRow(s)
    PROVE  Inv'
<1>1. TypeOK'
  BY DEF InsertRow
<1>2. About' /\ OpOfStep'
  BY DEF InsertRow
<1>3. UploadKnows'
  BY DEF InsertRow, Audited
<1>4. LaterKnows'
  BY DEF InsertRow
<1>5. Alone'
  BY DEF InsertRow
<1>6. Untouched' /\ NoPartialRow'
  BY DEF InsertRow
<1>7. OwesOnce'
  BY DEF InsertRow, OwesOnce, Audited, DeletedIsGone
<1>8. OrphansComeFromFailures'
  BY DEF InsertRow, OrphansComeFromFailures, Doing
<1>9. ListedMediaHasFile'
  BY DEF InsertRow, ListedMediaHasFile, Doing
<1>10. UploadsAreKept'
  BY DEF InsertRow, UploadsAreKept
<1>11. DeletedIsGone'
  BY DEF InsertRow, DeletedIsGone, Audited
<1>12. AuditedOnce'
  BY DEF InsertRow, AuditedOnce, OwesOnce, Audited
<1> QED
  BY <1>1, <1>2, <1>3, <1>4, <1>5, <1>6,
     <1>7, <1>8, <1>9, <1>10, <1>11, <1>12

LEMMA CleanUpKeepsInv ==
    ASSUME Inv, NEW s \in Sessions, CleanUp(s)
    PROVE  Inv'
<1>1. TypeOK'
  BY DEF CleanUp
<1>2. About' /\ OpOfStep'
  BY DEF CleanUp
<1>3. UploadKnows'
  BY DEF CleanUp, Audited
<1>4. LaterKnows'
  BY DEF CleanUp
<1>5. Alone'
  BY DEF CleanUp
<1>6. Untouched' /\ NoPartialRow'
  BY DEF CleanUp
<1>7. OwesOnce'
  BY DEF CleanUp, OwesOnce, Audited, DeletedIsGone
<1>8. OrphansComeFromFailures'
  BY DEF CleanUp, OrphansComeFromFailures, Doing
<1>9. ListedMediaHasFile'
  BY DEF CleanUp, ListedMediaHasFile, Doing
<1>10. UploadsAreKept'
  BY DEF CleanUp, UploadsAreKept
<1>11. DeletedIsGone'
  BY DEF CleanUp, DeletedIsGone, Audited
<1>12. AuditedOnce'
  BY DEF CleanUp, AuditedOnce, OwesOnce, Audited
<1> QED
  BY <1>1, <1>2, <1>3, <1>4, <1>5, <1>6,
     <1>7, <1>8, <1>9, <1>10, <1>11, <1>12

LEMMA ReadRowKeepsInv ==
    ASSUME Inv, NEW s \in Sessions, ReadRow(s)
    PROVE  Inv'
<1>1. TypeOK'
  BY DEF ReadRow
<1>2. About' /\ OpOfStep'
  BY DEF ReadRow
<1>3. UploadKnows'
  BY DEF ReadRow, Audited
<1>4. LaterKnows'
  BY DEF ReadRow
<1>5. Alone'
  BY DEF ReadRow
<1>6. Untouched' /\ NoPartialRow'
  BY DEF ReadRow
<1>7. OwesOnce'
  BY DEF ReadRow, OwesOnce, Audited, DeletedIsGone
<1>8. OrphansComeFromFailures'
  BY DEF ReadRow, OrphansComeFromFailures, Doing
<1>9. ListedMediaHasFile'
  BY DEF ReadRow, ListedMediaHasFile, Doing
<1>10. UploadsAreKept'
  BY DEF ReadRow, UploadsAreKept
<1>11. DeletedIsGone'
  BY DEF ReadRow, DeletedIsGone, Audited
<1>12. AuditedOnce'
  BY DEF ReadRow, AuditedOnce, OwesOnce, Audited
<1> QED
  BY <1>1, <1>2, <1>3, <1>4, <1>5, <1>6,
     <1>7, <1>8, <1>9, <1>10, <1>11, <1>12

LEMMA OpenFileKeepsInv ==
    ASSUME Inv, NEW s \in Sessions, OpenFile(s)
    PROVE  Inv'
<1>1. TypeOK'
  BY DEF OpenFile
<1>2. About' /\ OpOfStep'
  BY DEF OpenFile
<1>3. UploadKnows'
  BY DEF OpenFile, Audited
<1>4. LaterKnows'
  BY DEF OpenFile
<1>5. Alone'
  BY DEF OpenFile
<1>6. Untouched' /\ NoPartialRow'
  BY DEF OpenFile
<1>7. OwesOnce'
  BY DEF OpenFile, OwesOnce, Audited, DeletedIsGone
<1>8. OrphansComeFromFailures'
  BY DEF OpenFile, OrphansComeFromFailures, Doing
<1>9. ListedMediaHasFile'
  BY DEF OpenFile, ListedMediaHasFile, Doing
<1>10. UploadsAreKept'
  BY DEF OpenFile, UploadsAreKept
<1>11. DeletedIsGone'
  BY DEF OpenFile, DeletedIsGone, Audited
<1>12. AuditedOnce'
  BY DEF OpenFile, AuditedOnce, OwesOnce, Audited
<1> QED
  BY <1>1, <1>2, <1>3, <1>4, <1>5, <1>6,
     <1>7, <1>8, <1>9, <1>10, <1>11, <1>12

LEMMA RemoveFileKeepsInv ==
    ASSUME Inv, NEW s \in Sessions, RemoveFile(s)
    PROVE  Inv'
<1>1. TypeOK'
  BY DEF RemoveFile
<1>2. About' /\ OpOfStep'
  BY DEF RemoveFile
<1>3. UploadKnows'
  BY DEF RemoveFile, Audited
<1>4. LaterKnows'
  BY DEF RemoveFile
<1>5. Alone'
  BY DEF RemoveFile
<1>6. Untouched' /\ NoPartialRow'
  BY DEF RemoveFile
<1>7. OwesOnce'
  BY DEF RemoveFile, OwesOnce, Audited, DeletedIsGone
<1>8. OrphansComeFromFailures'
  BY DEF RemoveFile, OrphansComeFromFailures, Doing
<1>9. ListedMediaHasFile'
  BY DEF RemoveFile, ListedMediaHasFile, Doing
<1>10. UploadsAreKept'
  BY DEF RemoveFile, UploadsAreKept
<1>11. DeletedIsGone'
  BY DEF RemoveFile, DeletedIsGone, Audited
<1>12. AuditedOnce'
  BY DEF RemoveFile, AuditedOnce, OwesOnce, Audited
<1> QED
  BY <1>1, <1>2, <1>3, <1>4, <1>5, <1>6,
     <1>7, <1>8, <1>9, <1>10, <1>11, <1>12

LEMMA DeleteRowKeepsInv ==
    ASSUME Inv, NEW s \in Sessions, DeleteRow(s)
    PROVE  Inv'
<1>1. TypeOK'
  BY DEF DeleteRow
<1>2. About' /\ OpOfStep'
  BY DEF DeleteRow
<1>3. UploadKnows'
  BY DEF DeleteRow, Audited
<1>4. LaterKnows'
  BY DEF DeleteRow
<1>5. Alone'
  BY DEF DeleteRow
<1>6. Untouched' /\ NoPartialRow'
  BY DEF DeleteRow
<1>7. OwesOnce'
  BY DEF DeleteRow, OwesOnce, Audited, DeletedIsGone
<1>8. OrphansComeFromFailures'
  BY DEF DeleteRow, OrphansComeFromFailures, Doing
<1>9. ListedMediaHasFile'
  BY DEF DeleteRow, ListedMediaHasFile, Doing
<1>10. UploadsAreKept'
  BY DEF DeleteRow, UploadsAreKept
<1>11. DeletedIsGone'
  BY DEF DeleteRow, DeletedIsGone, Audited
<1>12. AuditedOnce'
  BY DEF DeleteRow, AuditedOnce, OwesOnce, Audited
<1> QED
  BY <1>1, <1>2, <1>3, <1>4, <1>5, <1>6,
     <1>7, <1>8, <1>9, <1>10, <1>11, <1>12

LEMMA InsertAuditKeepsInv ==
    ASSUME Inv, NEW s \in Sessions, InsertAudit(s)
    PROVE  Inv'
<1>1. TypeOK'
  BY DEF InsertAudit
<1>2. About' /\ OpOfStep'
  BY DEF InsertAudit
<1>3. UploadKnows'
  <2>1. ASSUME NEW t \in Sessions, pc'[t] \in Writing
        PROVE  item[t] # item[s] /\ pc[t] \in Writing
    BY <2>1 DEF InsertAudit
  <2>2. ASSUME NEW t \in Sessions, pc'[t] \in Writing
        PROVE  audit'[item[t]] = audit[item[t]]
    BY <2>1, <2>2 DEF InsertAudit
  <2> QED
    BY <2>1, <2>2 DEF InsertAudit, Audited
<1>4. LaterKnows'
  BY DEF InsertAudit
<1>5. Alone'
  BY DEF InsertAudit
<1>6. Untouched' /\ NoPartialRow'
  BY DEF InsertAudit
<1>7. OwesOnce'
  BY DEF InsertAudit, OwesOnce, Audited, DeletedIsGone
<1>8. OrphansComeFromFailures'
  BY DEF InsertAudit, OrphansComeFromFailures, Doing
<1>9. ListedMediaHasFile'
  BY DEF InsertAudit, ListedMediaHasFile, Doing
<1>10. UploadsAreKept'
  BY DEF InsertAudit, UploadsAreKept
<1>11. DeletedIsGone'
  BY DEF InsertAudit, DeletedIsGone, Audited
<1>12. AuditedOnce'
  BY DEF InsertAudit, AuditedOnce, OwesOnce, Audited
<1> QED
  BY <1>1, <1>2, <1>3, <1>4, <1>5, <1>6,
     <1>7, <1>8, <1>9, <1>10, <1>11, <1>12

LEMMA AnswerKeepsInv ==
    ASSUME Inv, NEW s \in Sessions, Answer(s)
    PROVE  Inv'
<1>1. TypeOK'
  BY DEF Answer
<1>2. About' /\ OpOfStep'
  BY DEF Answer
<1>3. UploadKnows'
  BY DEF Answer, Audited
<1>4. LaterKnows'
  BY DEF Answer
<1>5. Alone'
  BY DEF Answer
<1>6. Untouched' /\ NoPartialRow'
  BY DEF Answer
<1>7. OwesOnce'
  BY DEF Answer, OwesOnce, Audited, DeletedIsGone
<1>8. OrphansComeFromFailures'
  BY DEF Answer, OrphansComeFromFailures, Doing
<1>9. ListedMediaHasFile'
  BY DEF Answer, ListedMediaHasFile, Doing
<1>10. UploadsAreKept'
  BY DEF Answer, UploadsAreKept
<1>11. DeletedIsGone'
  BY DEF Answer, DeletedIsGone, Audited
<1>12. AuditedOnce'
  BY DEF Answer, AuditedOnce, OwesOnce, Audited
<1> QED
  BY <1>1, <1>2, <1>3, <1>4, <1>5, <1>6,
     <1>7, <1>8, <1>9, <1>10, <1>11, <1>12

LEMMA StepFailsKeepsInv ==
    ASSUME Inv, NEW s \in Sessions, StepFails(s)
    PROVE  Inv'
<1>1. TypeOK'
  BY DEF StepFails
<1>2. About' /\ OpOfStep'
  BY DEF StepFails
<1>3. UploadKnows'
  BY DEF StepFails, Audited
<1>4. LaterKnows'
  BY DEF StepFails
<1>5. Alone'
  BY DEF StepFails
<1>6. Untouched' /\ NoPartialRow'
  BY DEF StepFails
<1>7. OwesOnce'
  BY DEF StepFails, OwesOnce, Audited, DeletedIsGone
<1>8. OrphansComeFromFailures'
  BY DEF StepFails, OrphansComeFromFailures, Doing
<1>9. ListedMediaHasFile'
  BY DEF StepFails, ListedMediaHasFile, Doing
<1>10. UploadsAreKept'
  BY DEF StepFails, UploadsAreKept
<1>11. DeletedIsGone'
  BY DEF StepFails, DeletedIsGone, Audited
<1>12. AuditedOnce'
  BY DEF StepFails, AuditedOnce, OwesOnce, Audited
<1> QED
  BY <1>1, <1>2, <1>3, <1>4, <1>5, <1>6,
     <1>7, <1>8, <1>9, <1>10, <1>11, <1>12

\* A crash leaves the disk and the database, and every step half done in
\* disturbed.
LEMMA CrashKeepsInv ==
    ASSUME Inv, Crash
    PROVE  Inv'
<1>1. TypeOK'
  BY DEF Crash
<1>2. About' /\ OpOfStep'
  BY DEF Crash
<1>3. UploadKnows'
  BY DEF Crash, Audited
<1>4. LaterKnows'
  BY DEF Crash
<1>5. Alone'
  BY DEF Crash
<1>6. Untouched' /\ NoPartialRow'
  BY DEF Crash
<1>7. OwesOnce'
  BY DEF Crash, OwesOnce, Audited, DeletedIsGone
<1>8. OrphansComeFromFailures'
  BY DEF Crash, OrphansComeFromFailures, Doing
<1>9. ListedMediaHasFile'
  BY DEF Crash, ListedMediaHasFile, Doing
<1>10. UploadsAreKept'
  BY DEF Crash, UploadsAreKept
<1>11. DeletedIsGone'
  BY DEF Crash, DeletedIsGone, Audited
<1>12. AuditedOnce'
  BY DEF Crash, AuditedOnce, OwesOnce, Audited
<1> QED
  BY <1>1, <1>2, <1>3, <1>4, <1>5, <1>6,
     <1>7, <1>8, <1>9, <1>10, <1>11, <1>12

LEMMA InitInv ==
    ASSUME Init
    PROVE  Inv
<1>1. /\ TypeOK /\ About /\ OpOfStep /\ UploadKnows /\ LaterKnows /\ Alone
      /\ Untouched /\ NoPartialRow
  BY DEF Init
<1>2. OwesOnce /\ OrphansComeFromFailures /\ ListedMediaHasFile
  BY DEF Init, OwesOnce, OrphansComeFromFailures, ListedMediaHasFile
<1>3. UploadsAreKept /\ DeletedIsGone /\ AuditedOnce
  BY DEF Init, UploadsAreKept, DeletedIsGone, AuditedOnce, Audited
<1> QED
  BY <1>1, <1>2, <1>3

LEMMA StutterKeepsInv ==
    ASSUME Inv, UNCHANGED vars
    PROVE  Inv'
BY DEF OwesOnce, OrphansComeFromFailures, ListedMediaHasFile, UploadsAreKept,
       DeletedIsGone, AuditedOnce, Audited, Doing

HIDE DEFS Inv, vars, store, session, history, At, Goto, Put, Acknowledge,
          Counted, TypeOK, Steps, About, OpOfStep, UploadKnows, LaterKnows, Alone,
          Untouched, NoPartialRow, Writing, Gone, HalfWay, HalfDone,
          NextOnFailure, RowsAfterFailure

LEMMA NextKeepsInv ==
    ASSUME Inv, [Next]_vars
    PROVE  Inv'
<1>1. ASSUME NEW s \in Sessions, NEW request \in {"create", "delete", "open"},
             NEW m \in Media, Accept(s, request, m)
      PROVE  Inv'
  BY <1>1, AcceptKeepsInv
<1>2. ASSUME NEW s \in Sessions,
             CreateFile(s) \/ CopyFile(s) \/ InsertRow(s) \/ CleanUp(s)
      PROVE  Inv'
  BY <1>2, CreateFileKeepsInv, CopyFileKeepsInv, InsertRowKeepsInv, CleanUpKeepsInv
<1>3. ASSUME NEW s \in Sessions,
             ReadRow(s) \/ OpenFile(s) \/ RemoveFile(s) \/ DeleteRow(s)
      PROVE  Inv'
  BY <1>3, ReadRowKeepsInv, OpenFileKeepsInv, RemoveFileKeepsInv, DeleteRowKeepsInv
<1>4. ASSUME NEW s \in Sessions, InsertAudit(s) \/ Answer(s) \/ StepFails(s)
      PROVE  Inv'
  BY <1>4, InsertAuditKeepsInv, AnswerKeepsInv, StepFailsKeepsInv
<1> QED
  BY <1>1, <1>2, <1>3, <1>4, CrashKeepsInv, StutterKeepsInv DEF Next

----------------------------------------------------------------------------
(* The results.                                                            *)

THEOREM MediaInvariant == Spec => []Inv
<1>1. Init => Inv
  BY InitInv
<1>2. Inv /\ [Next]_vars => Inv'
  BY NextKeepsInv
<1> QED
  BY <1>1, <1>2, PTL DEF Spec

\* Type correctness of the media library.
THEOREM MediaTypes == Spec => []TypeOK
<1>1. Inv => TypeOK
  BY DEF Inv
<1> QED
  BY <1>1, MediaInvariant, PTL

\* A file without a row is being uploaded or is left over from a step that
\* failed or a process that died (service.go:36-54, :109-115).
THEOREM MediaOrphans == Spec => []OrphansComeFromFailures
<1>1. Inv => OrphansComeFromFailures
  BY DEF Inv
<1> QED
  BY <1>1, MediaInvariant, PTL

\* A row without its file is being deleted or is left over from a failure
\* (service.go:109-115).
THEOREM MediaListedHaveFiles == Spec => []ListedMediaHasFile
<1>1. Inv => ListedMediaHasFile
  BY DEF Inv
<1> QED
  BY <1>1, MediaInvariant, PTL

\* An upload that was answered without an error keeps its file and its row until
\* somebody asks to delete it (service.go:30-78).
THEOREM MediaUploadsKept == Spec => []UploadsAreKept
<1>1. Inv => UploadsAreKept
  BY DEF Inv
<1> QED
  BY <1>1, MediaInvariant, PTL

\* An upload whose delete is in the audit log is gone for good
\* (service.go:102-135).
THEOREM MediaDeletedGone == Spec => []DeletedIsGone
<1>1. Inv => DeletedIsGone
  BY DEF Inv
<1> QED
  BY <1>1, MediaInvariant, PTL

\* Over PostgreSQL no upload and no delete is audited twice
\* (media_repository.go:84-95).
THEOREM MediaAuditedOnce == Spec => []AuditedOnce
<1>1. Inv => AuditedOnce
  BY DEF Inv
<1> QED
  BY <1>1, MediaInvariant, PTL

\* The delivery handler serves whole files only (handler.go:27-61).
THEOREM MediaServesWholeFiles == Spec => OnlyWholeFilesServed
<1>1. ASSUME Inv, Next, NEW s \in Sessions, At(s, "opening"), pc'[s] = "ok"
      PROVE  OpenFile(s)
  <2>1. ~ Crash
    BY <1>1 DEF Crash
  <2>2. PICK t \in Sessions :
          \/ \E request \in {"create", "delete", "open"}, m \in Media :
                Accept(t, request, m)
          \/ CreateFile(t) \/ CopyFile(t) \/ InsertRow(t) \/ CleanUp(t)
          \/ ReadRow(t) \/ OpenFile(t) \/ RemoveFile(t) \/ DeleteRow(t)
          \/ InsertAudit(t) \/ Answer(t) \/ StepFails(t)
    BY <1>1, <2>1 DEF Next
  <2>3. pc \in [Sessions -> Steps]
    BY <1>1 DEF Inv, TypeOK
  <2>4. t = s
    <3>1. t # s => pc'[s] = pc[s]
      BY <2>2, <2>3 DEF Accept, CreateFile, CopyFile, InsertRow, CleanUp, ReadRow,
                  OpenFile, RemoveFile, DeleteRow, InsertAudit, Answer,
                  StepFails, Acknowledge, Goto
    <3> QED
      BY <1>1, <2>3, <3>1 DEF At
  <2> QED
    BY <1>1, <2>2, <2>3, <2>4
       DEF Accept, CreateFile, CopyFile, InsertRow, CleanUp, ReadRow,
           RemoveFile, DeleteRow, InsertAudit, Answer, StepFails, At, Goto,
           Acknowledge, NextOnFailure
<1>2. ASSUME Inv, NEW s \in Sessions, At(s, "opening"), OpenFile(s), pc'[s] = "ok"
      PROVE  files[item[s]] = "whole"
  BY <1>2 DEF Inv, TypeOK, About, NoPartialRow, OpenFile, At, Goto
<1>3. ASSUME Inv, [Next]_vars
      PROVE  \A s \in Sessions :
                At(s, "opening") /\ pc'[s] = "ok" => files[item[s]] = "whole"
  BY <1>1, <1>2, <1>3 DEF vars, At
<1> QED
  BY <1>3, MediaInvariant, PTL DEF Spec, OnlyWholeFilesServed

=============================================================================
