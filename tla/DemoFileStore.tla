--------------------------- MODULE DemoFileStore ---------------------------
(**************************************************************************)
(* The demo mode: ContentService over FileBackedContentRepository         *)
(* (pkg/content/filestore.go), seeded by pkg/content/demo_seeder.go.  The *)
(* processes gohcms serve, mcp and job --demo share ./.gohcms_demo.json;  *)
(* each keeps all records in memory.  Revisions and audit log are not in  *)
(* the file but in the memory of the process that wrote them, and left    *)
(* out here.                                                              *)
(*                                                                        *)
(* Before every operation a process looks at the file's modification time *)
(* and reads the file when it is newer than the one it knows; after every *)
(* write it truncates the file, writes all records, and looks at the      *)
(* modification time again to remember it as its own.  The mutex orders   *)
(* the goroutines of one process, not the processes: each file operation  *)
(* is a step here.  A process serves one request at a time (what the      *)
(* requests of one process do to each other is in ContentMemory).         *)
(*                                                                        *)
(* Every error of these file operations is dropped: a process that could  *)
(* not look at or read the file goes on with what it has in memory, one   *)
(* that could not write it answers success all the same.                  *)
(*                                                                        *)
(* External: the file system.  A write over what another process wrote    *)
(* since the truncation may leave that one's tail behind.                 *)
(**************************************************************************)
EXTENDS ContentRecords, Sequences, FiniteSets

CONSTANTS
    Processes,
    SeedCalls,   \* the requests SeedDemoData sends, in order
    NoFile,      \* the file does not exist
    HalfFile,    \* what is in the file is not JSON: empty, cut off, or mixed
    MayCrash,    \* processes may die at any step, not just between requests
    MayFail,     \* file operations may fail: full disk, permissions
    FineClock,   \* no two changes of the file have one modification time
    MaxWrites    \* BOUND: record writes over a behaviour

\* f.records, for one table.
Snapshot == [Ids -> Record \cup {NoRow}]

ASSUME DemoAssumption ==
    /\ MayCrash \in BOOLEAN /\ MayFail \in BOOLEAN /\ FineClock \in BOOLEAN
    /\ NoFile # HalfFile
    /\ NoFile \notin Snapshot /\ HalfFile \notin Snapshot

\* The seeder creates each of its records once (demo_seeder.go:26-62).
ASSUME SeedAssumption ==
    /\ SeedCalls \in Seq(Requests)
    /\ \A i, j \in DOMAIN SeedCalls :
          /\ SeedCalls[i].op = "create" /\ SeedCalls[j].op = "create"
          /\ SeedCalls[i].id = SeedCalls[j].id
          => i = j

VARIABLES
    file,        \* the content of the file and its modification time
    pc,          \* what each process is about
    io,          \* where it stands in the file operations of that
    req,         \* the request it serves
    held,        \* the record it read for it
    script,      \* seed calls it has yet to make
    cache,       \* f.records, for one table
    lastModTime, \* f.lastModTime
    seen,        \* the modification time reloadIfModified got from os.Stat
    written,     \* HISTORY: what was last stored under each id, by anyone
    writes,      \* HISTORY: how many writes there were
    unsaved,     \* HISTORY: the last save left something else in the file
    disturbed    \* HISTORY: two processes were up at once; or one ended in a
                 \* save or after its last one failed; or one failed to look
                 \* at or read a file that Differs from its memory

stored == <<written, writes>>
history == <<stored, unsaved, disturbed>>
vars == <<file, pc, io, req, held, script, cache, lastModTime, seen, history>>

NoRequest == [op |-> "none"]
NoRecords == [id \in Ids |-> NoRow]

TypeOK ==
    /\ file \in [content : Snapshot \cup {NoFile, HalfFile}, modTime : Nat]
    /\ pc \in [Processes -> {"down", "starting", "listing", "idle",
                             "reading", "checking", "writing"}]
    /\ io \in [Processes -> {"stat", "read", "ready", "truncated", "written"}]
    /\ req \in [Processes -> Requests \cup {NoRequest}]
    /\ held \in [Processes -> Record \cup {NoRow}]
    /\ script \in [Processes -> Seq(Requests)]
    /\ cache \in [Processes -> Snapshot]
    /\ lastModTime \in [Processes -> Nat]
    /\ seen \in [Processes -> Nat]
    /\ written \in Snapshot
    /\ writes \in Nat
    /\ unsaved \in BOOLEAN
    /\ disturbed \in BOOLEAN

Init ==
    /\ file = [content |-> NoFile, modTime |-> 0]
    /\ pc = [p \in Processes |-> "down"]
    /\ io = [p \in Processes |-> "ready"]
    /\ req = [p \in Processes |-> NoRequest]
    /\ held = [p \in Processes |-> NoRow]
    /\ script = [p \in Processes |-> << >>]
    /\ cache = [p \in Processes |-> NoRecords]
    /\ lastModTime = [p \in Processes |-> 0]
    /\ seen = [p \in Processes |-> 0]
    /\ written = NoRecords
    /\ writes = 0
    /\ unsaved = FALSE
    /\ disturbed = FALSE

----------------------------------------------------------------------------
(* The file.                                                               *)

\* The file gets this content now.
Put(content) ==
    \E now \in {file.modTime + 1} \cup (IF FineClock THEN {} ELSE {file.modTime}) :
        /\ now > 0
        /\ file' = [content |-> content, modTime |-> now]

Goto(p, where, step) ==
    /\ pc' = [pc EXCEPT ![p] = where]
    /\ io' = [io EXCEPT ![p] = step]

\* The service answers; the seeder goes on to its next call.
Answer(p) ==
    /\ Goto(p, "idle", "ready")
    /\ req' = [req EXCEPT ![p] = NoRequest]
    /\ held' = [held EXCEPT ![p] = NoRow]
    /\ script' = [script EXCEPT ![p] = IF @ = << >> THEN @ ELSE Tail(@)]

\* The file holds other records than the process has in memory.
Differs(p) == file.content \in Snapshot \ {cache[p]}

\* The process goes on without looking at the file, or without reading it.
Overlook(p) ==
    /\ disturbed' = (disturbed \/ Differs(p))
    /\ UNCHANGED <<cache, lastModTime>>

\* MUTANT of Stat: a file of the time it knows is read again.
StatNotBefore(p) ==
    /\ io[p] = "stat"
    /\ IF file.content # NoFile /\ file.modTime >= lastModTime[p]
       THEN /\ Goto(p, pc[p], "read")
            /\ seen' = [seen EXCEPT ![p] = file.modTime]
       ELSE Goto(p, pc[p], "ready") /\ UNCHANGED seen
    /\ UNCHANGED <<file, req, held, script, cache, lastModTime, history>>

\* reloadIfModified, before every operation: is the file newer?  Without a file,
\* and on any other error, the process keeps what it has.
Stat(p) ==
    LET newer == file.content # NoFile /\ file.modTime > lastModTime[p]
    IN  /\ io[p] = "stat"
        /\ \/ /\ newer
              /\ Goto(p, pc[p], "read")
              /\ seen' = [seen EXCEPT ![p] = file.modTime]
              /\ UNCHANGED disturbed
           \/ /\ ~newer
              /\ Goto(p, pc[p], "ready")
              /\ UNCHANGED <<seen, disturbed>>
           \/ /\ MayFail /\ newer
              /\ Goto(p, pc[p], "ready")
              /\ Overlook(p)
              /\ UNCHANGED seen
        /\ UNCHANGED <<file, req, held, script, cache, lastModTime, stored, unsaved>>

\* MUTANT of ReadFile: what cannot be parsed counts as an empty store.
ReadFileBlanks(p) ==
    /\ io[p] = "read"
    /\ cache' = [cache EXCEPT
                   ![p] = IF file.content = HalfFile THEN NoRecords
                          ELSE file.content]
    /\ lastModTime' = [lastModTime EXCEPT ![p] = seen[p]]
    /\ Goto(p, pc[p], "ready")
    /\ UNCHANGED <<file, req, held, script, seen, history>>

\* It reads the file; what is not JSON is ignored, until the next time, and so
\* is an error.
ReadFile(p) ==
    /\ io[p] = "read"
    /\ \/ /\ file.content \in Snapshot
          /\ cache' = [cache EXCEPT ![p] = file.content]
          /\ lastModTime' = [lastModTime EXCEPT ![p] = seen[p]]
          /\ UNCHANGED disturbed
       \/ /\ file.content \notin Snapshot \/ MayFail
          /\ Overlook(p)
    /\ Goto(p, pc[p], "ready")
    /\ seen' = [seen EXCEPT ![p] = 0]
    /\ UNCHANGED <<file, req, held, script, stored, unsaved>>

\* os.WriteFile writes all records.  When another process wrote since the
\* truncation, what is longer of the two shows.  When it fails, nothing or a
\* part is written.
WriteFile(p) ==
    /\ io[p] = "truncated"
    /\ \/ Put(cache[p]) /\ unsaved' = FALSE
       \/ /\ \/ Put(HalfFile) /\ (MayFail \/ file.content # HalfFile)
             \/ UNCHANGED file /\ MayFail
          /\ unsaved' = TRUE
    /\ Goto(p, pc[p], "written")
    /\ UNCHANGED <<req, held, script, cache, lastModTime, seen, stored, disturbed>>

\* It takes the file's modification time for that of its own write, even of one
\* that failed, unless there is no file or it fails to look; the service adds
\* revision and audit entry to its memory and answers.
RememberModTime(p) ==
    /\ io[p] = "written"
    /\ \/ /\ file.content # NoFile
          /\ lastModTime' = [lastModTime EXCEPT ![p] = file.modTime]
          /\ UNCHANGED <<cache, disturbed>>
       \/ /\ file.content = NoFile \/ MayFail
          /\ Overlook(p)
    /\ Answer(p)
    /\ UNCHANGED <<file, seen, stored, unsaved>>

----------------------------------------------------------------------------
(* A process starts, seeds and ends.                                       *)

\* NewFileBackedContentRepository: no records yet.
Start(p) ==
    /\ pc[p] = "down"
    /\ Goto(p, "starting", "stat")
    /\ disturbed' = (disturbed \/ \E other \in Processes : pc[other] # "down")
    /\ UNCHANGED <<file, req, held, script, cache, lastModTime, seen, stored, unsaved>>

\* SeedDemoData lists the records, which looks at the file again.
ListToSeed(p) ==
    /\ pc[p] = "starting" /\ io[p] = "ready"
    /\ Goto(p, "listing", "stat")
    /\ UNCHANGED <<file, req, held, script, cache, lastModTime, seen, history>>

\* MUTANT of Seed: every start seeds.
SeedAlways(p) ==
    /\ pc[p] = "listing" /\ io[p] = "ready"
    /\ script' = [script EXCEPT ![p] = SeedCalls]
    /\ Goto(p, "idle", "ready")
    /\ UNCHANGED <<file, req, held, cache, lastModTime, seen, history>>

\* Only an empty store is seeded.
Seed(p) ==
    /\ pc[p] = "listing" /\ io[p] = "ready"
    /\ script' = [script EXCEPT
                    ![p] = IF cache[p] = NoRecords THEN SeedCalls ELSE << >>]
    /\ Goto(p, "idle", "ready")
    /\ UNCHANGED <<file, req, held, cache, lastModTime, seen, history>>

\* The process ends, after its request or anywhere, and its memory with it.
Stop(p) ==
    /\ pc[p] # "down"
    /\ MayCrash \/ (pc[p] = "idle" /\ script[p] = << >>)
    /\ Goto(p, "down", "ready")
    /\ req' = [req EXCEPT ![p] = NoRequest]
    /\ held' = [held EXCEPT ![p] = NoRow]
    /\ script' = [script EXCEPT ![p] = << >>]
    /\ cache' = [cache EXCEPT ![p] = NoRecords]
    /\ lastModTime' = [lastModTime EXCEPT ![p] = 0]
    /\ seen' = [seen EXCEPT ![p] = 0]
    /\ disturbed' = (disturbed \/ io[p] = "truncated" \/ unsaved)
    /\ UNCHANGED <<file, stored, unsaved>>

----------------------------------------------------------------------------
(* The service's calls.                                                    *)

\* BOUND: writes done and under way.
UnderWay == {p \in Processes : req[p].op \notin {"none", "get"}
                                 /\ io[p] \notin {"truncated", "written"}}
MayWrite == writes + Cardinality(UnderWay) < MaxWrites

\* A request reaches the service, or the seeder makes its next call.
Accept(p, request) ==
    /\ pc[p] = "idle"
    /\ script[p] # << >> => request = Head(script[p])
    /\ request.op # "get" => MayWrite
    /\ IF RefusedUnread(request)
       THEN Answer(p)
       ELSE /\ Goto(p, IF request.op = "create" THEN "writing" ELSE "reading",
                    "stat")
            /\ req' = [req EXCEPT ![p] = request]
            /\ UNCHANGED <<held, script>>
    /\ UNCHANGED <<file, cache, lastModTime, seen, history>>

\* Get, after its reload, copies the record.
ReadExisting(p) ==
    LET existing == cache[p][req[p].id]
    IN  /\ pc[p] = "reading" /\ io[p] = "ready"
        /\ IF Refused(req[p], existing) \/ req[p].op = "get"
           THEN Answer(p)
           ELSE /\ held' = [held EXCEPT ![p] = existing]
                /\ Goto(p, IF ChecksDependency(req[p], existing)
                           THEN "checking" ELSE "writing", "stat")
                /\ UNCHANGED <<req, script>>
        /\ UNCHANGED <<file, cache, lastModTime, seen, history>>

\* Get of the prerequisite, after another reload.
CheckDependency(p) ==
    /\ pc[p] = "checking" /\ io[p] = "ready"
    /\ IF DependencyMet(cache[p][held[p].dep])
       THEN Goto(p, "writing", "stat") /\ UNCHANGED <<req, held, script>>
       ELSE Answer(p)
    /\ UNCHANGED <<file, cache, lastModTime, seen, history>>

\* MUTANT of StoreRow: Delete does not save.
StoreRowDeleteUnsaved(p) ==
    LET id == req[p].id
        record == IF req[p].op = "delete" THEN NoRow
                  ELSE Proposal(req[p], held[p])
    IN  /\ pc[p] = "writing" /\ io[p] = "ready"
        /\ cache' = [cache EXCEPT ![p][id] = record]
        /\ IF record = NoRow
           THEN Goto(p, "writing", "written") /\ UNCHANGED file
           ELSE Goto(p, "writing", "truncated") /\ Put(HalfFile)
        /\ written' = [written EXCEPT ![id] = record]
        /\ writes' = writes + 1
        /\ UNCHANGED <<req, held, script, lastModTime, seen, unsaved, disturbed>>

\* Create, Update and Delete, after their reload: the record is put into, or
\* taken from, the map whatever is there, and the file is truncated; when it
\* cannot be opened, it is left alone and the save is over.
StoreRow(p) ==
    LET id == req[p].id
        record == IF req[p].op = "delete" THEN NoRow
                  ELSE Proposal(req[p], held[p])
    IN  /\ pc[p] = "writing" /\ io[p] = "ready"
        /\ cache' = [cache EXCEPT ![p][id] = record]
        /\ \/ Put(HalfFile) /\ Goto(p, "writing", "truncated") /\ UNCHANGED unsaved
           \/ /\ MayFail
              /\ Goto(p, "writing", "written")
              /\ unsaved' = TRUE
              /\ UNCHANGED file
        /\ written' = [written EXCEPT ![id] = record]
        /\ writes' = writes + 1
        /\ UNCHANGED <<req, held, script, lastModTime, seen, disturbed>>

----------------------------------------------------------------------------
Next ==
    \E p \in Processes :
        \/ Start(p) \/ ListToSeed(p) \/ Seed(p) \/ Stop(p)
        \/ Stat(p) \/ ReadFile(p) \/ WriteFile(p) \/ RememberModTime(p)
        \/ \E request \in Requests : Accept(p, request)
        \/ ReadExisting(p) \/ CheckDependency(p) \/ StoreRow(p)

Spec == Init /\ [][Next]_vars

----------------------------------------------------------------------------
(* Properties.                                                             *)

\* No process is about to write the file it truncated.
NobodySaves == \A p \in Processes : io[p] # "truncated"

OnDisk == IF file.content = NoFile THEN NoRecords ELSE file.content

\* The repository "persists to" the file (filestore.go:22): when nobody saves,
\* the file holds under every id what was stored there last.
AcknowledgedWritesSurvive == NobodySaves => OnDisk = written

\* As long as one process is up at a time, none ends with its last save failed
\* or not done, and each reads the file it finds, it does so from one process to
\* the next; what a save that failed left out (filestore.go:73 drops the error)
\* is in the memory of the process until one succeeds.
AloneWritesSurvive ==
    ~disturbed /\ NobodySaves =>
        \/ OnDisk = written
        \/ unsaved /\ \E p \in Processes : pc[p] # "down" /\ cache[p] = written

\* It "auto-reloads from" the file (filestore.go:22): a process on its own works
\* on the records stored last, by whichever process that was, however coarse the
\* clock; and what it could not save it does not lose by reading the file again
\* (filestore.go:50, :75).
AloneWorksOnLatest ==
    ~disturbed =>
        \A p \in Processes : pc[p] # "down" /\ io[p] = "ready" => cache[p] = written

\* No process takes half a file for an empty store, which the seeder would
\* then fill: reading empties what it has in memory only when all records were
\* deleted (filestore.go:54).
ReadingNeverBlanks ==
    [][\A p \in Processes :
          /\ io[p] = "read" /\ pc'[p] # "down"
          /\ cache[p] # NoRecords /\ cache'[p] = NoRecords
          => file.content = NoRecords]_vars

\* The seeder makes sure that there are no records ("Check if records already
\* exist", demo_seeder.go:19): on its own, and able to read the file, it does not
\* store over one, however often the process was started before.
AloneSeedingReplacesNothing ==
    [][\A p \in Processes :
          /\ ~disturbed /\ io[p] = "ready" /\ io'[p] \in {"truncated", "written"}
          /\ req[p].op = "create" /\ script[p] # << >>
          => written[req[p].id] = NoRow]_vars

============================================================================
