------------------------ MODULE DemoFileStoreProofs ------------------------
(***************************************************************************)
(* What the demo file keeps, for any processes, ids, payloads and seed     *)
(* calls, whatever crashes and however coarse the file system's clock:     *)
(*   - no process takes half a file for an empty store;                    *)
(*   - as long as one process is up at a time, none ends with a save not   *)
(*     done or failed, and each reads the file it finds, every             *)
(*     acknowledged write is in the file or, when saving it failed, in the *)
(*     memory of the process, which works on the records stored last, and  *)
(*     the seeder stores over nothing.                                     *)
(***************************************************************************)
EXTENDS DemoFileStore, TLAPS

----------------------------------------------------------------------------
(* The invariant.                                                          *)

Serving == {"reading", "checking", "writing"}

\* What a process is about, by itself.
ProcessInv(p) ==
    /\ pc[p] = "down" => io[p] = "ready" /\ cache[p] = NoRecords /\ lastModTime[p] = 0
    /\ pc[p] = "idle" => io[p] = "ready"
    /\ pc[p] \in {"down", "starting", "listing"} => script[p] = << >>
    /\ pc[p] \in Serving => req[p] \in Requests
    /\ pc[p] \in Serving \ {"writing"} => req[p].op # "create"
    /\ pc[p] = "checking" => req[p].op = "publish"
    /\ pc[p] = "writing" =>
          /\ req[p].op # "get"
          /\ req[p].op \in {"create", "update"} => HasRequired(req[p].body)
    /\ pc[p] \in {"checking", "writing"} /\ req[p].op # "create" => held[p] \in Record
    /\ io[p] \in {"truncated", "written"} => pc[p] = "writing"

DemoInv ==
    /\ TypeOK
    /\ \A p \in Processes : ProcessInv(p)
    /\ file.content # NoFile => file.modTime > 0

\* What a process has in memory is what was stored last: once it looked at the
\* file for the operation it is about, while it saves, while what it could not
\* save is nowhere else, and when it would not find the file newer.
UpToDate(p) ==
    \/ io[p] \in {"ready", "truncated", "written"}
    \/ unsaved
    \/ file.content = NoFile
    \/ lastModTime[p] = file.modTime

\* How the memory of a process follows the file.  What a failed save left in the
\* file it does not read again.
Follows(p) ==
    /\ lastModTime[p] <= file.modTime
    /\ UpToDate(p) => cache[p] = written
    /\ io[p] = "truncated" => file.content = HalfFile
    /\ io[p] = "read" =>
          /\ file.content # NoFile /\ seen[p] = file.modTime
          /\ lastModTime[p] # file.modTime
    /\ unsaved /\ io[p] \notin {"truncated", "written"} /\ file.content \in Snapshot =>
          lastModTime[p] = file.modTime \/ file.content = written

\* The record a request works on is the one stored last.
Based(p) ==
    /\ pc[p] \in {"checking", "writing"} /\ req[p].op # "create"
    /\ io[p] \notin {"truncated", "written"}
    => held[p] = written[req[p].id]

\* The seed calls answered, and those that were stored.
Answered(p) == Len(SeedCalls) - Len(script[p])

StoredCalls(p) ==
    1 .. Answered(p) + (IF io[p] \in {"truncated", "written"} THEN 1 ELSE 0)

\* The script is what is left of the seed calls, the request its first, and only
\* the calls before it have stored a record.
Seeding(p) ==
    script[p] # << >> =>
        /\ Len(script[p]) <= Len(SeedCalls)
        /\ \A i \in DOMAIN script[p] : script[p][i] = SeedCalls[Answered(p) + i]
        /\ pc[p] \in Serving => req[p] = Head(script[p])
        /\ \A id \in Ids : written[id] # NoRow =>
              \E i \in StoredCalls(p) : SeedCalls[i].op = "create" /\ SeedCalls[i].id = id

OneUp == \A p, q \in Processes : pc[p] # "down" /\ pc[q] # "down" => p = q

Saved == ~unsaved => file.content # HalfFile /\ OnDisk = written

AloneInv ==
    ~disturbed =>
        /\ OneUp
        /\ NobodySaves => Saved
        /\ unsaved => \E p \in Processes : pc[p] # "down"
        /\ \A p \in Processes : pc[p] # "down" => Follows(p) /\ Based(p) /\ Seeding(p)

Inv == DemoInv /\ AloneInv

----------------------------------------------------------------------------
(* The pure functions.                                                     *)

LEMMA RequestFields ==
    ASSUME NEW request \in Requests
    PROVE  /\ request.id \in Ids
           /\ request.op \in {"get"} \cup MutationOps
           /\ request.op \in {"create", "update"} => request.body \in Payloads
  BY DEF Requests, MutationOps, TransitionOps

LEMMA RecordFields ==
    ASSUME NEW record \in Record
    PROVE  /\ record.title \in Titles
           /\ record.dep \in Ids \cup {NoId}
           /\ record.status \in Statuses \cup {NoStatus}
           /\ record.version \in Nat
  BY DEF Record

\* What a create, an update or a transition asks the store to write is a record.
LEMMA ProposalType ==
    ASSUME NEW request \in Requests, NEW existing,
           request.op \notin {"get", "delete"},
           request.op \in {"create", "update"} => HasRequired(request.body),
           request.op # "create" => existing \in Record
    PROVE  Proposal(request, existing) \in Record
  <1>1. request.op \in {"create", "update"} =>
           /\ request.body.title \in Titles
           /\ request.body.dep \in Ids \cup {NoId, Absent}
    <2>1. SUFFICES ASSUME request.op \in {"create", "update"}
                   PROVE  /\ request.body.title \in Titles
                          /\ request.body.dep \in Ids \cup {NoId, Absent}
      OBVIOUS
    <2>2. request.body \in Payload
      BY <2>1, RequestFields, PayloadAssumption
    <2> QED  BY <2>1, <2>2 DEF Payload, HasRequired
  <1>2. CASE request.op = "create"
    <2>1. Proposal(request, existing) = NewRecord(request.body)
      BY <1>2 DEF Proposal, TransitionOps
    <2> QED  BY <1>1, <1>2, <2>1 DEF NewRecord, Record, Statuses
  <1>3. CASE request.op = "update"
    <2>1. Proposal(request, existing) = Merged(existing, request.body)
      BY <1>3 DEF Proposal, TransitionOps
    <2> QED  BY <1>1, <1>3, <2>1, RecordFields DEF Merged, Record
  <1>4. CASE request.op \in TransitionOps
    <2>1. Proposal(request, existing) = Transitioned(existing, request.op)
      BY <1>4 DEF Proposal, TransitionOps
    <2>2. TargetStatus[request.op] \in Statuses
      BY <1>4 DEF TargetStatus, TransitionOps, Statuses
    <2> QED  BY <1>4, <2>1, <2>2, RecordFields DEF Transitioned, Record, TransitionOps
  <1> QED  BY <1>2, <1>3, <1>4, RequestFields DEF MutationOps

----------------------------------------------------------------------------
(* Steps of one process.                                                   *)

OthersStay(p) ==
    \A q \in Processes \ {p} :
        /\ pc'[q] = pc[q] /\ io'[q] = io[q] /\ req'[q] = req[q]
        /\ held'[q] = held[q] /\ script'[q] = script[q] /\ cache'[q] = cache[q]
        /\ lastModTime'[q] = lastModTime[q] /\ seen'[q] = seen[q]

\* What a process that is up by itself knows.
Knows(p) ==
    /\ io[p] # "truncated" => Saved
    /\ Follows(p) /\ Based(p) /\ Seeding(p)

LEMMA KnowsWhenUp ==
    ASSUME Inv, ~disturbed, NEW p \in Processes, pc[p] # "down"
    PROVE  Knows(p)
  <1>1. \A q \in Processes \ {p} : io[q] = "ready"
    BY DEF Inv, DemoInv, AloneInv, OneUp, ProcessInv
  <1>2. io[p] # "truncated" => NobodySaves
    BY <1>1 DEF NobodySaves
  <1> QED  BY <1>2 DEF Inv, AloneInv, Knows

\* What is left to show of a step of a process that is up.
LEMMA UpStep ==
    ASSUME Inv, NEW p \in Processes, pc[p] # "down", pc'[p] # "down", OthersStay(p),
           TypeOK', ProcessInv(p)', file'.content # NoFile => file'.modTime > 0,
           ~disturbed' => ~disturbed /\ Knows(p)'
    PROVE  Inv'
  <1>1. \A q \in Processes : ProcessInv(q)'
    <2>1. ASSUME NEW q \in Processes, q # p  PROVE ProcessInv(q)'
      <3>1. ProcessInv(q)
        BY DEF Inv, DemoInv
      <3> QED  BY <2>1, <3>1 DEF ProcessInv, OthersStay
    <2> QED  BY <2>1
  <1>2. DemoInv'
    BY <1>1 DEF DemoInv
  <1>3. AloneInv'
    <2>1. SUFFICES ASSUME ~disturbed'
                   PROVE  /\ OneUp'
                          /\ NobodySaves' => Saved'
                          /\ \A q \in Processes : pc'[q] # "down" => Follows(q)' /\ Based(q)' /\ Seeding(q)'
      BY DEF AloneInv
    <2>2. \A q \in Processes : pc'[q] # "down" => q = p
      BY <2>1 DEF Inv, AloneInv, OneUp, OthersStay
    <2>3. Knows(p)'
      BY <2>1
    <2> QED  BY <2>2, <2>3 DEF OneUp, NobodySaves, Knows
  <1> QED  BY <1>2, <1>3 DEF Inv

LEMMA GotoMoves ==
    ASSUME TypeOK, NEW p \in Processes, NEW where, NEW step, Goto(p, where, step)
    PROVE  /\ pc'[p] = where /\ io'[p] = step
           /\ \A q \in Processes \ {p} : pc'[q] = pc[q] /\ io'[q] = io[q]
           /\ where \in {"down", "starting", "listing", "idle", "reading", "checking", "writing"} =>
                 pc' \in [Processes -> {"down", "starting", "listing", "idle",
                                        "reading", "checking", "writing"}]
           /\ step \in {"stat", "read", "ready", "truncated", "written"} =>
                 io' \in [Processes -> {"stat", "read", "ready", "truncated", "written"}]
  BY DEF Goto, TypeOK

LEMMA PutMoves ==
    ASSUME TypeOK, NEW content \in Snapshot \cup {NoFile, HalfFile}, Put(content)
    PROVE  /\ file' \in [content : Snapshot \cup {NoFile, HalfFile}, modTime : Nat]
           /\ file'.content = content
           /\ file'.modTime >= file.modTime /\ file'.modTime > 0
  <1>1. file.modTime \in Nat
    BY DEF TypeOK
  <1>2. PICK now \in {file.modTime + 1, file.modTime} :
           now > 0 /\ file' = [content |-> content, modTime |-> now]
    BY DEF Put
  <1> QED  BY <1>1, <1>2

\* The script goes on: nothing was stored, no request begun that is not its first.
LEMMA SeedingGoesOn ==
    ASSUME NEW p \in Processes, Seeding(p), script'[p] = script[p], UNCHANGED written,
           StoredCalls(p)' = StoredCalls(p),
           pc'[p] \in Serving => pc[p] \in Serving /\ req'[p] = req[p]
    PROVE  Seeding(p)'
  BY DEF Seeding, Answered

LEMMA AnswerMoves ==
    ASSUME TypeOK, NEW p \in Processes, Answer(p)
    PROVE  /\ pc'[p] = "idle" /\ io'[p] = "ready"
           /\ script'[p] = IF script[p] = << >> THEN << >> ELSE Tail(script[p])
           /\ \A q \in Processes \ {p} :
                 /\ pc'[q] = pc[q] /\ io'[q] = io[q] /\ req'[q] = req[q]
                 /\ held'[q] = held[q] /\ script'[q] = script[q]
           /\ pc' \in [Processes -> {"down", "starting", "listing", "idle",
                                     "reading", "checking", "writing"}]
           /\ io' \in [Processes -> {"stat", "read", "ready", "truncated", "written"}]
           /\ req' \in [Processes -> Requests \cup {NoRequest}]
           /\ held' \in [Processes -> Record \cup {NoRow}]
           /\ script' \in [Processes -> Seq(Requests)]
  <1>1. /\ Goto(p, "idle", "ready")
        /\ req' = [req EXCEPT ![p] = NoRequest]
        /\ held' = [held EXCEPT ![p] = NoRow]
        /\ script' = [script EXCEPT ![p] = IF script[p] = << >> THEN << >> ELSE Tail(script[p])]
    BY DEF Answer
  <1>2. script[p] \in Seq(Requests) /\ (script[p] # << >> => Tail(script[p]) \in Seq(Requests))
    BY DEF TypeOK
  <1>3. script' \in [Processes -> Seq(Requests)]
    BY <1>1, <1>2 DEF TypeOK
  <1> QED  BY <1>1, <1>3, GotoMoves DEF TypeOK

\* An answer ends the first call of the script.
LEMMA SeedingAnswered ==
    ASSUME TypeOK, NEW p \in Processes, Seeding(p), UNCHANGED written,
           pc'[p] = "idle", io'[p] = "ready",
           script'[p] = IF script[p] = << >> THEN << >> ELSE Tail(script[p])
    PROVE  Seeding(p)'
  <1> DEFINE s == script[p]
  <1>1. SUFFICES ASSUME script'[p] # << >>  PROVE Seeding(p)'
    BY DEF Seeding
  <1>2. s \in Seq(Requests) /\ s # << >> /\ script'[p] = Tail(s)
    BY <1>1 DEF TypeOK
  <1>3. Len(SeedCalls) \in Nat
    BY SeedAssumption
  <1>4. /\ Len(s) \in Nat \ {0} /\ Len(s) <= Len(SeedCalls)
        /\ \A i \in 1 .. Len(s) : s[i] = SeedCalls[Answered(p) + i]
    BY <1>2 DEF Seeding
  <1>5. /\ DOMAIN Tail(s) = 1 .. (Len(s) - 1) /\ Len(Tail(s)) = Len(s) - 1
        /\ \A i \in 1 .. (Len(s) - 1) : Tail(s)[i] = s[i + 1]
    BY <1>2
  <1>6. Answered(p)' = Answered(p) + 1 /\ Answered(p) \in Nat
    <2>1. Answered(p) = Len(SeedCalls) - Len(s) /\ Answered(p)' = Len(SeedCalls) - Len(Tail(s))
      BY <1>2 DEF Answered
    <2> HIDE DEF s
    <2> QED  BY <1>3, <1>4, <1>5, <2>1
  <1>7. \A i \in DOMAIN script'[p] : script'[p][i] = SeedCalls[Answered(p)' + i]
    <2>1. SUFFICES ASSUME NEW i \in 1 .. (Len(s) - 1)
                   PROVE  Tail(s)[i] = SeedCalls[Answered(p) + 1 + i]
      BY <1>2, <1>5, <1>6
    <2>2. i + 1 \in 1 .. Len(s) /\ Answered(p) + (i + 1) = Answered(p) + 1 + i
      <3> HIDE DEF s
      <3> QED  BY <1>4, <1>6
    <2> QED  BY <1>4, <1>5, <2>2
  <1>8. StoredCalls(p) \subseteq StoredCalls(p)'
    BY <1>6 DEF StoredCalls
  <1>9. \A id \in Ids : written'[id] # NoRow =>
           \E i \in StoredCalls(p)' : SeedCalls[i].op = "create" /\ SeedCalls[i].id = id
    BY <1>2, <1>8 DEF Seeding
  <1>10. Len(script'[p]) <= Len(SeedCalls)
    BY <1>2, <1>3, <1>4, <1>5
  <1> QED  BY <1>7, <1>9, <1>10 DEF Seeding, Serving

----------------------------------------------------------------------------
(* File operations.                                                        *)

\* A process that does not look at the file or does not read it, and knows no
\* better, has in memory what was stored last.
LEMMA OverlookKeepsUpToDate ==
    ASSUME Inv, NEW p \in Processes, pc[p] # "down", Overlook(p), ~disturbed',
           file.content # NoFile, io[p] # "truncated"
    PROVE  ~disturbed /\ cache[p] = written
  <1>1. ~disturbed /\ ~Differs(p)
    BY DEF Overlook
  <1>2. Saved /\ Follows(p)
    BY <1>1, KnowsWhenUp DEF Knows
  <1>3. file.content \in Snapshot \cup {NoFile, HalfFile}
    BY DEF Inv, DemoInv, TypeOK
  <1> QED  BY <1>1, <1>2, <1>3 DEF Differs, Saved, OnDisk, Follows, UpToDate

LEMMA StatKeepsInv ==
    ASSUME Inv, NEW p \in Processes, Stat(p)
    PROVE  Inv'
  <1> DEFINE newer == file.content # NoFile /\ file.modTime > lastModTime[p]
  <1>1. TypeOK /\ ProcessInv(p) /\ (file.content # NoFile => file.modTime > 0)
    BY DEF Inv, DemoInv
  <1>2. /\ io[p] = "stat"
        /\ UNCHANGED <<file, req, held, script, cache, lastModTime, written, writes, unsaved>>
    BY DEF Stat, stored
  <1>3. \/ /\ newer /\ Goto(p, pc[p], "read")
           /\ seen' = [seen EXCEPT ![p] = file.modTime] /\ UNCHANGED disturbed
        \/ ~newer /\ Goto(p, pc[p], "ready") /\ UNCHANGED <<seen, disturbed>>
        \/ newer /\ Goto(p, pc[p], "ready") /\ Overlook(p) /\ UNCHANGED seen
    BY DEF Stat
  <1>4. /\ pc[p] \in {"down", "starting", "listing", "idle", "reading", "checking", "writing"}
        /\ file.modTime \in Nat /\ lastModTime[p] \in Nat /\ pc[p] # "down"
    BY <1>1, <1>2 DEF TypeOK, ProcessInv
  <1>5. /\ pc'[p] = pc[p] /\ io'[p] \in {"read", "ready"} /\ OthersStay(p)
        /\ io'[p] = "read" => newer /\ seen'[p] = file.modTime
        /\ io'[p] = "ready" => ~newer \/ (newer /\ Overlook(p))
        /\ ~disturbed' => ~disturbed
    BY <1>1, <1>2, <1>3, <1>4, GotoMoves DEF OthersStay, TypeOK, Overlook
  <1>6. TypeOK'
    <2>1. disturbed' \in BOOLEAN
      BY <1>1, <1>3 DEF TypeOK, Overlook
    <2>2. seen' \in [Processes -> Nat]
      BY <1>1, <1>3, <1>4 DEF TypeOK
    <2>3. /\ pc' \in [Processes -> {"down", "starting", "listing", "idle",
                                    "reading", "checking", "writing"}]
          /\ io' \in [Processes -> {"stat", "read", "ready", "truncated", "written"}]
      BY <1>1, <1>3, <1>4, GotoMoves
    <2> QED  BY <1>1, <1>2, <2>1, <2>2, <2>3 DEF TypeOK
  <1>7. ProcessInv(p)'
    BY <1>1, <1>2, <1>4, <1>5 DEF ProcessInv
  <1>8. ASSUME ~disturbed'  PROVE Knows(p)'
    <2>1. Knows(p) /\ Follows(p)
      BY <1>4, <1>5, <1>8, KnowsWhenUp DEF Knows
    <2>2. Saved /\ Saved'
      BY <1>2, <2>1 DEF Knows, Saved, OnDisk
    <2>3. io'[p] = "ready" => cache[p] = written
      <3>1. CASE ~newer
        BY <1>4, <2>1, <3>1 DEF Follows, UpToDate
      <3>2. CASE newer /\ Overlook(p)
        BY <1>2, <1>4, <1>8, <3>2, OverlookKeepsUpToDate
      <3> HIDE DEF newer
      <3> QED  BY <1>5, <3>1, <3>2
    <2>4. Follows(p)'
      <3>1. io'[p] = "read" => file.content # NoFile /\ lastModTime[p] # file.modTime
        BY <1>4, <1>5
      <3> HIDE DEF newer
      <3> QED  BY <1>2, <1>5, <2>1, <2>3, <3>1 DEF Follows, UpToDate
    <2>5. Based(p)'
      BY <1>2, <1>5, <2>1 DEF Knows, Based
    <2>6. StoredCalls(p)' = StoredCalls(p)
      BY <1>2, <1>5 DEF StoredCalls, Answered
    <2>7. Seeding(p)'
      BY <1>2, <1>5, <2>1, <2>6, SeedingGoesOn DEF Knows
    <2> QED  BY <2>2, <2>4, <2>5, <2>7 DEF Knows
  <1> QED  BY <1>1, <1>2, <1>4, <1>5, <1>6, <1>7, <1>8, UpStep

LEMMA ReadFileKeepsInv ==
    ASSUME Inv, NEW p \in Processes, ReadFile(p)
    PROVE  Inv'
  <1>1. TypeOK /\ ProcessInv(p) /\ (file.content # NoFile => file.modTime > 0)
    BY DEF Inv, DemoInv
  <1>2. /\ io[p] = "read" /\ Goto(p, pc[p], "ready")
        /\ seen' = [seen EXCEPT ![p] = 0]
        /\ UNCHANGED <<file, req, held, script, written, writes, unsaved>>
    BY DEF ReadFile, stored
  <1>3. \/ /\ file.content \in Snapshot
           /\ cache' = [cache EXCEPT ![p] = file.content]
           /\ lastModTime' = [lastModTime EXCEPT ![p] = seen[p]]
           /\ UNCHANGED disturbed
        \/ Overlook(p)
    BY DEF ReadFile
  <1>4. /\ pc[p] \in {"down", "starting", "listing", "idle", "reading", "checking", "writing"}
        /\ file.modTime \in Nat /\ lastModTime[p] \in Nat /\ seen[p] \in Nat
        /\ written \in Snapshot /\ pc[p] # "down"
    BY <1>1, <1>2 DEF TypeOK, ProcessInv
  <1>5. pc'[p] = pc[p] /\ io'[p] = "ready" /\ OthersStay(p) /\ (~disturbed' => ~disturbed)
    BY <1>1, <1>2, <1>3, <1>4, GotoMoves DEF OthersStay, TypeOK, Overlook
  <1>6. TypeOK'
    <2>1. /\ cache' \in [Processes -> Snapshot] /\ lastModTime' \in [Processes -> Nat]
          /\ disturbed' \in BOOLEAN
      BY <1>1, <1>3, <1>4 DEF TypeOK, Overlook
    <2>2. seen' \in [Processes -> Nat]
      BY <1>1, <1>2 DEF TypeOK
    <2> QED  BY <1>1, <1>2, <1>4, <2>1, <2>2, GotoMoves DEF TypeOK
  <1>7. ProcessInv(p)'
    BY <1>1, <1>2, <1>4, <1>5 DEF ProcessInv
  <1>8. ASSUME ~disturbed'  PROVE Knows(p)'
    <2>1. Knows(p) /\ Follows(p) /\ Saved
      BY <1>2, <1>4, <1>5, <1>8, KnowsWhenUp DEF Knows
    <2>2. Saved'
      BY <1>2, <2>1 DEF Saved, OnDisk
    <2>3. /\ file.content # NoFile /\ seen[p] = file.modTime
          /\ lastModTime[p] # file.modTime
      BY <1>2, <2>1 DEF Follows
    <2>4. /\ cache'[p] = written /\ lastModTime'[p] <= file.modTime
          /\ lastModTime'[p] = file.modTime \/ lastModTime'[p] = lastModTime[p]
      <3>1. CASE Overlook(p)
        <4>1. cache[p] = written
          BY <1>2, <1>4, <1>8, <2>3, <3>1, OverlookKeepsUpToDate
        <4> QED  BY <2>1, <3>1, <4>1 DEF Overlook, Follows
      <3>2. CASE ~Overlook(p)
        <4>1. file.content = written
          BY <1>2, <1>3, <2>1, <2>3, <3>2 DEF Saved, OnDisk, Follows
        <4> QED  BY <1>1, <1>3, <1>4, <2>3, <3>2, <4>1 DEF TypeOK
      <3> QED  BY <3>1, <3>2
    <2>5. Follows(p)'
      BY <1>2, <1>5, <2>1, <2>4 DEF Follows, UpToDate
    <2>6. Based(p)'
      BY <1>2, <1>5, <2>1 DEF Knows, Based
    <2>7. StoredCalls(p)' = StoredCalls(p)
      BY <1>2, <1>5 DEF StoredCalls, Answered
    <2>8. Seeding(p)'
      BY <1>2, <1>5, <2>1, <2>7, SeedingGoesOn DEF Knows
    <2> QED  BY <2>2, <2>5, <2>6, <2>8 DEF Knows
  <1> QED  BY <1>1, <1>2, <1>4, <1>5, <1>6, <1>7, <1>8, UpStep

LEMMA WriteFileKeepsInv ==
    ASSUME Inv, NEW p \in Processes, WriteFile(p)
    PROVE  Inv'
  <1>1. TypeOK /\ ProcessInv(p) /\ (file.content # NoFile => file.modTime > 0)
    BY DEF Inv, DemoInv
  <1>2. /\ io[p] = "truncated" /\ Goto(p, pc[p], "written")
        /\ UNCHANGED <<req, held, script, cache, lastModTime, seen, written, writes, disturbed>>
        /\ \/ Put(cache[p]) /\ unsaved' = FALSE
           \/ (Put(HalfFile) \/ UNCHANGED file) /\ unsaved' = TRUE
    BY DEF WriteFile, stored
  <1>3. pc[p] = "writing" /\ cache[p] \in Snapshot /\ written \in Snapshot
    BY <1>1, <1>2 DEF ProcessInv, TypeOK
  <1>4. /\ file' \in [content : Snapshot \cup {NoFile, HalfFile}, modTime : Nat]
        /\ file'.modTime >= file.modTime
        /\ file'.content # NoFile => file'.modTime > 0
        /\ \/ file'.content = cache[p] /\ unsaved' = FALSE
           \/ file'.content \in {HalfFile, file.content} /\ unsaved' = TRUE
    <2>1. CASE Put(cache[p]) /\ unsaved' = FALSE
      BY <1>1, <1>3, <2>1, PutMoves
    <2>2. CASE Put(HalfFile) /\ unsaved' = TRUE
      BY <1>1, <2>2, PutMoves
    <2>3. CASE UNCHANGED file /\ unsaved' = TRUE
      BY <1>1, <2>3 DEF TypeOK
    <2> QED  BY <1>2, <2>1, <2>2, <2>3
  <1>5. pc'[p] = "writing" /\ io'[p] = "written" /\ OthersStay(p)
    BY <1>1, <1>2, <1>3, GotoMoves DEF OthersStay
  <1>6. TypeOK'
    BY <1>1, <1>2, <1>3, <1>4, GotoMoves DEF TypeOK
  <1>7. ProcessInv(p)'
    BY <1>1, <1>2, <1>3, <1>5 DEF ProcessInv
  <1>8. ASSUME ~disturbed  PROVE Knows(p)'
    <2>1. Knows(p) /\ Follows(p)
      BY <1>3, <1>8, KnowsWhenUp DEF Knows
    <2>2. file.content = HalfFile /\ cache[p] = written
      BY <1>2, <2>1 DEF Follows, UpToDate
    <2>3. Saved'
      BY <1>2, <1>3, <1>4, <2>2, DemoAssumption DEF Saved, OnDisk
    <2>4. Follows(p)'
      <3>1. lastModTime[p] \in Nat /\ file.modTime \in Nat /\ file'.modTime \in Nat
        BY <1>1, <1>6 DEF TypeOK
      <3> QED  BY <1>2, <1>4, <1>5, <2>1, <2>2, <3>1 DEF Follows
    <2>5. Based(p)'
      BY <1>5 DEF Based
    <2>6. StoredCalls(p)' = StoredCalls(p)
      BY <1>2, <1>5 DEF StoredCalls, Answered
    <2>7. Seeding(p)'
      BY <1>2, <1>3, <1>5, <2>1, <2>6, SeedingGoesOn DEF Knows, Serving
    <2> QED  BY <2>3, <2>4, <2>5, <2>7 DEF Knows
  <1> QED  BY <1>2, <1>3, <1>4, <1>5, <1>6, <1>7, <1>8, UpStep

\* An answered request leaves a process that follows the file.
LEMMA AnswerKeepsInv ==
    ASSUME Inv, NEW p \in Processes, pc[p] # "down", Answer(p),
           UNCHANGED <<file, cache, seen, written, writes, unsaved>>,
           \/ io[p] = "ready" /\ UNCHANGED <<lastModTime, disturbed>>
           \/ /\ io[p] = "written" /\ UNCHANGED disturbed
              /\ lastModTime' = [lastModTime EXCEPT ![p] = file.modTime]
           \/ io[p] = "written" /\ Overlook(p)
    PROVE  Inv'
  <1>1. TypeOK /\ (file.content # NoFile => file.modTime > 0)
    BY DEF Inv, DemoInv
  <1>2. /\ pc'[p] = "idle" /\ io'[p] = "ready" /\ OthersStay(p)
        /\ ~disturbed' => ~disturbed
    BY <1>1, AnswerMoves DEF OthersStay, TypeOK, Overlook
  <1>3. TypeOK'
    <2>1. lastModTime' \in [Processes -> Nat] /\ disturbed' \in BOOLEAN
      BY <1>1 DEF TypeOK, Overlook
    <2> QED  BY <1>1, <2>1, AnswerMoves DEF TypeOK
  <1>4. ProcessInv(p)'
    BY <1>2 DEF ProcessInv, Serving
  <1>5. ASSUME ~disturbed'  PROVE Knows(p)'
    <2>1. Knows(p) /\ Follows(p) /\ Saved
      BY <1>2, <1>5, KnowsWhenUp DEF Knows
    <2>2. Saved'
      BY <2>1 DEF Saved, OnDisk
    <2>3. Follows(p)'
      <3>1. cache[p] = written
        BY <2>1 DEF Follows, UpToDate
      <3>2. CASE io[p] = "ready" /\ UNCHANGED <<lastModTime, disturbed>>
        BY <1>2, <2>1, <3>1, <3>2 DEF Follows
      <3>3. CASE io[p] = "written" /\ lastModTime' = [lastModTime EXCEPT ![p] = file.modTime]
        <4>1. lastModTime'[p] = file.modTime /\ file.modTime \in Nat
          BY <1>1, <3>3 DEF TypeOK
        <4> QED  BY <1>2, <3>1, <4>1 DEF Follows
      <3>4. CASE io[p] = "written" /\ Overlook(p)
        <4>1. lastModTime'[p] = lastModTime[p] /\ ~Differs(p)
          BY <1>5, <3>4 DEF Overlook
        <4>2. file.content \in Snapshot => file.content = written
          BY <3>1, <4>1 DEF Differs
        <4> QED  BY <1>2, <2>1, <3>1, <4>1, <4>2 DEF Follows
      <3> QED  BY <3>2, <3>3, <3>4
    <2>4. Based(p)'
      BY <1>2 DEF Based
    <2>5. Seeding(p)'
      BY <1>1, <2>1, AnswerMoves, SeedingAnswered DEF Knows
    <2> QED  BY <2>2, <2>3, <2>4, <2>5 DEF Knows
  <1> QED  BY <1>1, <1>2, <1>3, <1>4, <1>5, UpStep

LEMMA RememberModTimeKeepsInv ==
    ASSUME Inv, NEW p \in Processes, RememberModTime(p)
    PROVE  Inv'
  <1>1. pc[p] # "down" /\ io[p] = "written"
    BY DEF RememberModTime, Inv, DemoInv, ProcessInv
  <1>2. /\ Answer(p) /\ UNCHANGED <<file, cache, seen, written, writes, unsaved>>
        /\ \/ lastModTime' = [lastModTime EXCEPT ![p] = file.modTime] /\ UNCHANGED disturbed
           \/ Overlook(p)
    BY DEF RememberModTime, Overlook, stored
  <1> QED  BY <1>1, <1>2, AnswerKeepsInv

----------------------------------------------------------------------------
(* A process starts, seeds and ends.                                       *)

\* A start or an end of a process: what is left to show.
LEMMA UpAndDownStep ==
    ASSUME Inv, NEW p \in Processes, OthersStay(p), TypeOK', ProcessInv(p)', UNCHANGED file,
           ~disturbed' =>
               /\ ~disturbed
               /\ \A q \in Processes \ {p} : pc[q] = "down"
               /\ Saved' /\ ~unsaved'
               /\ pc'[p] # "down" => Follows(p)' /\ Based(p)' /\ Seeding(p)'
    PROVE  Inv'
  <1>1. \A q \in Processes : ProcessInv(q)'
    <2>1. ASSUME NEW q \in Processes, q # p  PROVE ProcessInv(q)'
      <3>1. ProcessInv(q)
        BY DEF Inv, DemoInv
      <3> QED  BY <2>1, <3>1 DEF ProcessInv, OthersStay
    <2> QED  BY <2>1
  <1>2. DemoInv'
    BY <1>1 DEF Inv, DemoInv
  <1>3. AloneInv'
    <2>1. SUFFICES ASSUME ~disturbed'
                   PROVE  /\ OneUp'
                          /\ NobodySaves' => Saved'
                          /\ ~unsaved'
                          /\ \A q \in Processes : pc'[q] # "down" => Follows(q)' /\ Based(q)' /\ Seeding(q)'
      BY DEF AloneInv
    <2>2. \A q \in Processes : pc'[q] # "down" => q = p
      BY <2>1 DEF OthersStay
    <2> QED  BY <2>1, <2>2 DEF OneUp
  <1> QED  BY <1>2, <1>3 DEF Inv

LEMMA StartKeepsInv ==
    ASSUME Inv, NEW p \in Processes, Start(p)
    PROVE  Inv'
  <1>1. TypeOK /\ ProcessInv(p) /\ (file.content # NoFile => file.modTime > 0)
    BY DEF Inv, DemoInv
  <1>2. /\ pc[p] = "down" /\ Goto(p, "starting", "stat")
        /\ disturbed' = (disturbed \/ \E other \in Processes : pc[other] # "down")
        /\ UNCHANGED <<file, req, held, script, cache, lastModTime, seen, written, writes, unsaved>>
    BY DEF Start, stored
  <1>3. /\ pc'[p] = "starting" /\ io'[p] = "stat" /\ script'[p] = << >> /\ OthersStay(p)
        /\ cache'[p] = NoRecords /\ lastModTime'[p] = 0
    BY <1>1, <1>2, GotoMoves DEF OthersStay, TypeOK, ProcessInv
  <1>4. TypeOK'
    BY <1>1, <1>2, GotoMoves DEF TypeOK
  <1>5. ProcessInv(p)'
    BY <1>3 DEF ProcessInv, Serving
  <1>6. ASSUME ~disturbed'
        PROVE  /\ ~disturbed /\ \A q \in Processes \ {p} : pc[q] = "down"
               /\ Saved' /\ ~unsaved' /\ Follows(p)' /\ Based(p)' /\ Seeding(p)'
    <2>1. ~disturbed /\ \A q \in Processes : pc[q] = "down"
      BY <1>2, <1>6
    <2>2. NobodySaves
      BY <2>1 DEF Inv, DemoInv, ProcessInv, NobodySaves
    <2>3. Saved /\ Saved' /\ ~unsaved
      BY <1>2, <2>1, <2>2 DEF Inv, AloneInv, Saved, OnDisk
    <2>4. file.modTime \in Nat
      BY <1>1 DEF TypeOK
    <2>5. Follows(p)'
      <3>1. file.content = NoFile => written = NoRecords
        BY <2>3 DEF Saved, OnDisk
      <3> QED  BY <1>1, <1>2, <1>3, <2>3, <2>4, <3>1 DEF Follows, UpToDate
    <2> QED  BY <1>2, <1>3, <2>1, <2>3, <2>5 DEF Based, Seeding
  <1> QED  BY <1>2, <1>3, <1>4, <1>5, <1>6, UpAndDownStep

LEMMA StopKeepsInv ==
    ASSUME Inv, NEW p \in Processes, Stop(p)
    PROVE  Inv'
  <1>1. TypeOK
    BY DEF Inv, DemoInv
  <1>2. /\ pc[p] # "down" /\ Goto(p, "down", "ready")
        /\ req' = [req EXCEPT ![p] = NoRequest]
        /\ held' = [held EXCEPT ![p] = NoRow]
        /\ script' = [script EXCEPT ![p] = << >>]
        /\ cache' = [cache EXCEPT ![p] = NoRecords]
        /\ lastModTime' = [lastModTime EXCEPT ![p] = 0]
        /\ seen' = [seen EXCEPT ![p] = 0]
        /\ disturbed' = (disturbed \/ io[p] = "truncated" \/ unsaved)
        /\ UNCHANGED <<file, written, writes, unsaved>>
    BY DEF Stop, stored
  <1>3. /\ pc'[p] = "down" /\ io'[p] = "ready" /\ script'[p] = << >> /\ OthersStay(p)
        /\ cache'[p] = NoRecords /\ lastModTime'[p] = 0
    BY <1>1, <1>2, GotoMoves DEF OthersStay, TypeOK
  <1>4. TypeOK'
    <2>1. NoRecords \in Snapshot
      BY DEF NoRecords, Snapshot
    <2> QED  BY <1>1, <1>2, <2>1, GotoMoves DEF TypeOK
  <1>5. ProcessInv(p)'
    BY <1>3 DEF ProcessInv, Serving
  <1>6. ASSUME ~disturbed'
        PROVE  ~disturbed /\ (\A q \in Processes \ {p} : pc[q] = "down") /\ Saved' /\ ~unsaved'
    <2>1. ~disturbed /\ io[p] # "truncated" /\ ~unsaved
      BY <1>2, <1>6
    <2>2. \A q \in Processes \ {p} : pc[q] = "down"
      BY <1>2, <2>1 DEF Inv, AloneInv, OneUp
    <2>3. Saved /\ Saved'
      BY <1>2, <2>1, KnowsWhenUp DEF Knows, Saved, OnDisk
    <2> QED  BY <1>2, <2>1, <2>2, <2>3
  <1> QED  BY <1>2, <1>3, <1>4, <1>5, <1>6, UpAndDownStep

LEMMA ListToSeedKeepsInv ==
    ASSUME Inv, NEW p \in Processes, ListToSeed(p)
    PROVE  Inv'
  <1>1. TypeOK /\ ProcessInv(p) /\ (file.content # NoFile => file.modTime > 0)
    BY DEF Inv, DemoInv
  <1>2. /\ pc[p] = "starting" /\ io[p] = "ready" /\ Goto(p, "listing", "stat")
        /\ UNCHANGED <<file, req, held, script, cache, lastModTime, seen, written, writes, unsaved, disturbed>>
    BY DEF ListToSeed, history, stored
  <1>3. pc'[p] = "listing" /\ io'[p] = "stat" /\ OthersStay(p) /\ script'[p] = << >>
    BY <1>1, <1>2, GotoMoves DEF OthersStay, ProcessInv
  <1>4. TypeOK'
    BY <1>1, <1>2, GotoMoves DEF TypeOK
  <1>5. ProcessInv(p)'
    BY <1>3 DEF ProcessInv, Serving
  <1>6. ASSUME ~disturbed  PROVE Knows(p)'
    <2>1. Knows(p)
      BY <1>2, <1>6, KnowsWhenUp
    <2> QED  BY <1>2, <1>3, <2>1 DEF Knows, Saved, OnDisk, Follows, UpToDate, Based, Seeding
  <1> QED  BY <1>1, <1>2, <1>3, <1>4, <1>5, <1>6, UpStep

LEMMA SeedKeepsInv ==
    ASSUME Inv, NEW p \in Processes, Seed(p)
    PROVE  Inv'
  <1> DEFINE calls == IF cache[p] = NoRecords THEN SeedCalls ELSE << >>
  <1>1. TypeOK /\ ProcessInv(p) /\ (file.content # NoFile => file.modTime > 0)
    BY DEF Inv, DemoInv
  <1>2. /\ pc[p] = "listing" /\ io[p] = "ready" /\ Goto(p, "idle", "ready")
        /\ script' = [script EXCEPT ![p] = calls]
        /\ UNCHANGED <<file, req, held, cache, lastModTime, seen, written, writes, unsaved, disturbed>>
    BY DEF Seed, history, stored
  <1>3. calls \in Seq(Requests)
    BY SeedAssumption
  <1>4. pc'[p] = "idle" /\ io'[p] = "ready" /\ OthersStay(p) /\ script'[p] = calls
    BY <1>1, <1>2, GotoMoves DEF OthersStay, TypeOK
  <1>5. TypeOK'
    <2> HIDE DEF calls
    <2> QED  BY <1>1, <1>2, <1>3, GotoMoves DEF TypeOK
  <1>6. ProcessInv(p)'
    BY <1>4 DEF ProcessInv, Serving
  <1>7. ASSUME ~disturbed  PROVE Knows(p)'
    <2>1. Knows(p) /\ cache[p] = written
      BY <1>2, <1>7, KnowsWhenUp DEF Knows, Follows, UpToDate
    <2>2. Saved' /\ Follows(p)' /\ Based(p)'
      BY <1>2, <1>4, <2>1 DEF Knows, Saved, OnDisk, Follows, UpToDate, Based
    <2>3. Seeding(p)'
      <3>1. SUFFICES ASSUME script'[p] # << >>  PROVE Seeding(p)'
        BY DEF Seeding
      <3>2. script'[p] = SeedCalls /\ written' = NoRecords
        BY <1>2, <1>4, <2>1, <3>1
      <3>3. Len(SeedCalls) \in Nat
        BY SeedAssumption
      <3>4. Answered(p)' = 0
        BY <3>2, <3>3 DEF Answered
      <3>5. DOMAIN SeedCalls = 1 .. Len(SeedCalls)
        BY SeedAssumption
      <3>6. \A i \in DOMAIN script'[p] : script'[p][i] = SeedCalls[Answered(p)' + i]
        BY <3>2, <3>3, <3>4, <3>5
      <3>7. \A id \in Ids : written'[id] = NoRow
        BY <3>2 DEF NoRecords
      <3> QED  BY <1>4, <3>2, <3>3, <3>6, <3>7 DEF Seeding, Serving
    <2> QED  BY <2>2, <2>3 DEF Knows
  <1> QED  BY <1>1, <1>2, <1>4, <1>5, <1>6, <1>7, UpStep

----------------------------------------------------------------------------
(* The service's calls.                                                    *)

LEMMA AcceptKeepsInv ==
    ASSUME Inv, NEW p \in Processes, NEW request \in Requests, Accept(p, request)
    PROVE  Inv'
  <1> DEFINE where == IF request.op = "create" THEN "writing" ELSE "reading"
  <1>1. TypeOK /\ ProcessInv(p) /\ (file.content # NoFile => file.modTime > 0)
    BY DEF Inv, DemoInv
  <1>2. /\ pc[p] = "idle" /\ io[p] = "ready"
        /\ script[p] # << >> => request = Head(script[p])
        /\ UNCHANGED <<file, cache, lastModTime, seen, written, writes, unsaved, disturbed>>
    BY <1>1 DEF Accept, ProcessInv, history, stored
  <1>3. CASE RefusedUnread(request)
    <2>1. Answer(p)
      BY <1>3 DEF Accept
    <2> QED  BY <1>2, <2>1, AnswerKeepsInv
  <1>4. CASE ~RefusedUnread(request)
    <2>1. /\ Goto(p, where, "stat") /\ req' = [req EXCEPT ![p] = request]
          /\ UNCHANGED <<held, script>>
      BY <1>4 DEF Accept
    <2>2. /\ pc'[p] = where /\ io'[p] = "stat" /\ OthersStay(p) /\ req'[p] = request
      BY <1>1, <1>2, <2>1, GotoMoves DEF OthersStay, TypeOK
    <2>3. TypeOK'
      BY <1>1, <1>2, <2>1, GotoMoves DEF TypeOK
    <2>4. ProcessInv(p)'
      BY <1>4, <2>2 DEF ProcessInv, Serving, RefusedUnread
    <2>5. ASSUME ~disturbed  PROVE Knows(p)'
      <3>1. Knows(p)
        BY <1>2, <2>5, KnowsWhenUp
      <3>2. Saved' /\ Follows(p)'
        BY <1>2, <2>2, <3>1 DEF Knows, Saved, OnDisk, Follows, UpToDate
      <3>3. Based(p)'
        BY <2>2 DEF Based
      <3>4. StoredCalls(p)' = StoredCalls(p)
        BY <1>2, <2>1, <2>2 DEF StoredCalls, Answered
      <3>5. Seeding(p)'
        BY <1>2, <2>1, <2>2, <3>1, <3>4 DEF Knows, Seeding, Answered
      <3> QED  BY <3>2, <3>3, <3>5 DEF Knows
    <2>6. pc'[p] # "down"
      BY <2>2
    <2> HIDE DEF where
    <2> QED  BY <1>1, <1>2, <2>2, <2>3, <2>4, <2>5, <2>6, UpStep
  <1> QED  BY <1>3, <1>4

LEMMA ReadExistingKeepsInv ==
    ASSUME Inv, NEW p \in Processes, ReadExisting(p)
    PROVE  Inv'
  <1> DEFINE request == req[p]
             existing == cache[p][request.id]
             where == IF ChecksDependency(request, existing) THEN "checking" ELSE "writing"
  <1>1. TypeOK /\ ProcessInv(p) /\ (file.content # NoFile => file.modTime > 0)
    BY DEF Inv, DemoInv
  <1>2. /\ pc[p] = "reading" /\ io[p] = "ready"
        /\ UNCHANGED <<file, cache, lastModTime, seen, written, writes, unsaved, disturbed>>
    BY DEF ReadExisting, history, stored
  <1>3. CASE Refused(request, existing) \/ request.op = "get"
    <2>1. Answer(p)
      BY <1>3 DEF ReadExisting
    <2> QED  BY <1>2, <2>1, AnswerKeepsInv
  <1>4. CASE ~(Refused(request, existing) \/ request.op = "get")
    <2>1. /\ Goto(p, where, "stat") /\ held' = [held EXCEPT ![p] = existing]
          /\ UNCHANGED <<req, script>>
      BY <1>4 DEF ReadExisting
    <2>2. /\ request \in Requests /\ request.op # "create" /\ request.id \in Ids
          /\ request.op = "update" => HasRequired(request.body)
      BY <1>1, <1>2, <1>4, RequestFields DEF ProcessInv, Serving, Refused
    <2>3. existing \in Record
      BY <1>1, <1>4, <2>2 DEF TypeOK, Snapshot, Refused
    <2>4. where = "checking" => request.op = "publish"
      BY DEF ChecksDependency
    <2>5. where \in {"checking", "writing"}
      OBVIOUS
    <2> HIDE DEF existing, where, request
    <2>6. /\ pc'[p] = where /\ io'[p] = "stat" /\ OthersStay(p)
          /\ req'[p] = request /\ held'[p] = existing
      BY <1>1, <1>2, <2>1, GotoMoves DEF OthersStay, TypeOK, request
    <2>7. TypeOK'
      BY <1>1, <1>2, <2>1, <2>3, <2>5, GotoMoves DEF TypeOK
    <2>8. ProcessInv(p)'
      BY <1>4, <2>2, <2>3, <2>4, <2>5, <2>6 DEF ProcessInv, Serving
    <2>9. ASSUME ~disturbed  PROVE Knows(p)'
      <3>1. Knows(p) /\ cache[p] = written
        BY <1>2, <2>9, KnowsWhenUp DEF Knows, Follows, UpToDate
      <3>2. Saved' /\ Follows(p)'
        BY <1>2, <2>6, <3>1 DEF Knows, Saved, OnDisk, Follows, UpToDate
      <3>3. Based(p)'
        BY <1>2, <2>6, <3>1 DEF Based, existing
      <3>4. StoredCalls(p)' = StoredCalls(p)
        BY <1>2, <2>1, <2>6 DEF StoredCalls, Answered
      <3>5. Seeding(p)'
        BY <1>2, <2>1, <2>6, <3>1, <3>4, SeedingGoesOn DEF Knows, Serving
      <3> QED  BY <3>2, <3>3, <3>5 DEF Knows
    <2> QED  BY <1>1, <1>2, <2>5, <2>6, <2>7, <2>8, <2>9, UpStep
  <1> QED  BY <1>3, <1>4

LEMMA CheckDependencyKeepsInv ==
    ASSUME Inv, NEW p \in Processes, CheckDependency(p)
    PROVE  Inv'
  <1>1. TypeOK /\ ProcessInv(p) /\ (file.content # NoFile => file.modTime > 0)
    BY DEF Inv, DemoInv
  <1>2. /\ pc[p] = "checking" /\ io[p] = "ready"
        /\ UNCHANGED <<file, cache, lastModTime, seen, written, writes, unsaved, disturbed>>
    BY DEF CheckDependency, history, stored
  <1>3. CASE Answer(p)
    BY <1>2, <1>3, AnswerKeepsInv
  <1>4. CASE ~Answer(p)
    <2>1. Goto(p, "writing", "stat") /\ UNCHANGED <<req, held, script>>
      BY <1>4 DEF CheckDependency
    <2>2. pc'[p] = "writing" /\ io'[p] = "stat" /\ OthersStay(p)
      BY <1>1, <1>2, <2>1, GotoMoves DEF OthersStay
    <2>3. TypeOK'
      BY <1>1, <1>2, <2>1, GotoMoves DEF TypeOK
    <2>4. ProcessInv(p)'
      BY <1>1, <1>2, <2>1, <2>2 DEF ProcessInv, Serving
    <2>5. ASSUME ~disturbed  PROVE Knows(p)'
      <3>1. Knows(p)
        BY <1>2, <2>5, KnowsWhenUp
      <3>2. Saved' /\ Follows(p)' /\ Based(p)'
        BY <1>2, <2>1, <2>2, <3>1 DEF Knows, Saved, OnDisk, Follows, UpToDate, Based
      <3>3. StoredCalls(p)' = StoredCalls(p)
        BY <1>2, <2>1, <2>2 DEF StoredCalls, Answered
      <3>4. Seeding(p)'
        BY <1>2, <2>1, <2>2, <3>1, <3>3, SeedingGoesOn DEF Knows, Serving
      <3> QED  BY <3>2, <3>4 DEF Knows
    <2> QED  BY <1>1, <1>2, <2>2, <2>3, <2>4, <2>5, UpStep
  <1> QED  BY <1>3, <1>4

\* A request that is about to store works on what was stored last, and only a
\* create adds a record.
LEMMA StoreRowKeepsInv ==
    ASSUME Inv, NEW p \in Processes, StoreRow(p)
    PROVE  Inv'
  <1> DEFINE id == req[p].id
             record == IF req[p].op = "delete" THEN NoRow ELSE Proposal(req[p], held[p])
  <1>1. TypeOK /\ ProcessInv(p) /\ (file.content # NoFile => file.modTime > 0)
    BY DEF Inv, DemoInv
  <1>2. /\ pc[p] = "writing" /\ io[p] = "ready"
        /\ cache' = [cache EXCEPT ![p][id] = record]
        /\ \/ Put(HalfFile) /\ Goto(p, "writing", "truncated") /\ UNCHANGED unsaved
           \/ UNCHANGED file /\ Goto(p, "writing", "written") /\ unsaved' = TRUE
        /\ written' = [written EXCEPT ![id] = record] /\ writes' = writes + 1
        /\ UNCHANGED <<req, held, script, lastModTime, seen, disturbed>>
    BY DEF StoreRow
  <1>3. req[p] \in Requests /\ id \in Ids /\ record \in Record \cup {NoRow}
    BY <1>1, <1>2, RequestFields, ProposalType DEF ProcessInv, Serving
  <1> HIDE DEF record
  <1>4. /\ file' \in [content : Snapshot \cup {NoFile, HalfFile}, modTime : Nat]
        /\ file'.modTime >= file.modTime
        /\ file'.content # NoFile => file'.modTime > 0
    <2>1. CASE Put(HalfFile)
      BY <1>1, <2>1, PutMoves
    <2>2. CASE UNCHANGED file
      BY <1>1, <2>2 DEF TypeOK
    <2> QED  BY <1>2, <2>1, <2>2
  <1>5. /\ pc'[p] = "writing" /\ io'[p] \in {"truncated", "written"} /\ OthersStay(p)
        /\ io'[p] = "truncated" => file'.content = HalfFile
        /\ io'[p] = "written" => unsaved' = TRUE
        /\ cache'[p] = [cache[p] EXCEPT ![id] = record]
    BY <1>1, <1>2, GotoMoves, PutMoves DEF OthersStay, TypeOK
  <1>6. TypeOK'
    <2>1. [cache[p] EXCEPT ![id] = record] \in Snapshot /\ written' \in Snapshot
      BY <1>1, <1>2, <1>3 DEF TypeOK, Snapshot
    <2>2. cache' = [cache EXCEPT ![p] = [cache[p] EXCEPT ![id] = record]]
      BY <1>2
    <2>3. cache' \in [Processes -> Snapshot]
      BY <1>1, <2>1, <2>2 DEF TypeOK
    <2>4. unsaved' \in BOOLEAN
      BY <1>1, <1>2 DEF TypeOK
    <2> QED  BY <1>1, <1>2, <1>4, <2>1, <2>3, <2>4, GotoMoves DEF TypeOK
  <1>7. ProcessInv(p)'
    BY <1>1, <1>2, <1>5 DEF ProcessInv, Serving
  <1>8. ASSUME ~disturbed  PROVE Knows(p)'
    <2>1. Knows(p) /\ Follows(p) /\ Based(p) /\ Seeding(p) /\ cache[p] = written
      BY <1>2, <1>8, KnowsWhenUp DEF Knows, Follows, UpToDate
    <2>2. Follows(p)'
      <3>1. lastModTime[p] \in Nat /\ file.modTime \in Nat /\ file'.modTime \in Nat
        BY <1>1, <1>4 DEF TypeOK
      <3>2. cache'[p] = written'
        BY <1>2, <1>5, <2>1
      <3> QED  BY <1>2, <1>4, <1>5, <2>1, <3>1, <3>2 DEF Follows
    <2>3. Based(p)'
      BY <1>5 DEF Based
    <2>4. Seeding(p)'
      <3>1. SUFFICES ASSUME script[p] # << >>  PROVE Seeding(p)'
        BY <1>2 DEF Seeding
      <3>2. /\ Len(script[p]) <= Len(SeedCalls) /\ req[p] = Head(script[p])
            /\ \A i \in DOMAIN script[p] : script[p][i] = SeedCalls[Answered(p) + i]
            /\ \A k \in Ids : written[k] # NoRow =>
                  \E i \in StoredCalls(p) : SeedCalls[i].op = "create" /\ SeedCalls[i].id = k
        BY <1>2, <2>1, <3>1 DEF Seeding, Serving
      <3>3. /\ Len(script[p]) \in Nat \ {0} /\ DOMAIN script[p] = 1 .. Len(script[p])
            /\ Head(script[p]) = script[p][1] /\ Len(SeedCalls) \in Nat
        BY <1>1, <3>1, SeedAssumption DEF TypeOK
      <3>4. Answered(p) \in Nat /\ Answered(p)' = Answered(p)
        BY <1>2, <3>2, <3>3 DEF Answered
      <3>5. req[p] = SeedCalls[Answered(p) + 1]
        BY <3>2, <3>3
      <3>6. StoredCalls(p) = 1 .. Answered(p) /\ StoredCalls(p)' = 1 .. (Answered(p) + 1)
        BY <1>2, <1>5, <3>4 DEF StoredCalls
      <3>7. StoredCalls(p) \subseteq StoredCalls(p)' /\ Answered(p) + 1 \in StoredCalls(p)'
        BY <3>4, <3>6
      <3>8. ASSUME NEW k \in Ids, written'[k] # NoRow
            PROVE  \E i \in StoredCalls(p)' : SeedCalls[i].op = "create" /\ SeedCalls[i].id = k
        <4>1. CASE written[k] # NoRow
          BY <3>2, <3>7, <4>1
        <4>2. CASE written[k] = NoRow
          <5>1. k = id /\ record # NoRow
            BY <1>1, <1>2, <1>3, <3>8, <4>2 DEF TypeOK, Snapshot
          <5>2. req[p].op # "create" => held[p] \in Record /\ held[p] = written[id]
            BY <1>1, <1>2, <2>1 DEF ProcessInv, Based
          <5>3. req[p].op = "create"
            BY <4>2, <5>1, <5>2, SentinelAssumption
          <5> QED  BY <3>5, <3>7, <5>1, <5>3
        <4> QED  BY <4>1, <4>2
      <3>9. \A i \in DOMAIN script'[p] : script'[p][i] = SeedCalls[Answered(p)' + i]
        BY <1>2, <3>2, <3>4
      <3> QED  BY <1>2, <3>2, <3>8, <3>9 DEF Seeding
    <2>5. io'[p] # "truncated" => Saved'
      BY <1>5 DEF Saved
    <2> QED  BY <2>2, <2>3, <2>4, <2>5 DEF Knows
  <1>9. pc[p] # "down"
    BY <1>2
  <1> QED  BY <1>2, <1>4, <1>5, <1>6, <1>7, <1>8, <1>9, UpStep

----------------------------------------------------------------------------
(* The specification.                                                      *)

LEMMA InitInv == Init => Inv
  <1> SUFFICES ASSUME Init  PROVE Inv
    OBVIOUS
  <1>1. TypeOK
    <2>1. NoRecords \in Snapshot
      BY DEF NoRecords, Snapshot
    <2>2. << >> \in Seq(Requests)
      OBVIOUS
    <2> QED  BY <2>1, <2>2 DEF Init, TypeOK
  <1>2. DemoInv
    BY <1>1 DEF Init, DemoInv, ProcessInv, Serving
  <1>3. AloneInv
    BY DemoAssumption DEF Init, AloneInv, OneUp, Saved, OnDisk, NobodySaves
  <1> QED  BY <1>2, <1>3 DEF Inv

LEMMA NextKeepsInv == Inv /\ [Next]_vars => Inv'
  <1> SUFFICES ASSUME Inv, [Next]_vars  PROVE Inv'
    OBVIOUS
  <1>1. CASE UNCHANGED vars
    BY <1>1 DEF vars, history, stored, Inv, DemoInv, TypeOK, ProcessInv, AloneInv, OneUp,
                NobodySaves, Saved, OnDisk, Follows, UpToDate, Based, Seeding, StoredCalls, Answered
  <1>2. ASSUME NEW p \in Processes, Start(p) \/ ListToSeed(p) \/ Seed(p) \/ Stop(p)
        PROVE  Inv'
    BY <1>2, StartKeepsInv, ListToSeedKeepsInv, SeedKeepsInv, StopKeepsInv
  <1>3. ASSUME NEW p \in Processes, Stat(p) \/ ReadFile(p) \/ WriteFile(p) \/ RememberModTime(p)
        PROVE  Inv'
    BY <1>3, StatKeepsInv, ReadFileKeepsInv, WriteFileKeepsInv, RememberModTimeKeepsInv
  <1>4. ASSUME NEW p \in Processes, NEW request \in Requests, Accept(p, request)
        PROVE  Inv'
    BY <1>4, AcceptKeepsInv
  <1>5. ASSUME NEW p \in Processes, ReadExisting(p) \/ CheckDependency(p) \/ StoreRow(p)
        PROVE  Inv'
    BY <1>5, ReadExistingKeepsInv, CheckDependencyKeepsInv, StoreRowKeepsInv
  <1> QED  BY <1>1, <1>2, <1>3, <1>4, <1>5 DEF Next

\* The invariant holds throughout.
THEOREM InvAlways == Spec => []Inv
  BY InitInv, NextKeepsInv, PTL DEF Spec

\* Types.
THEOREM DemoTypes == Spec => []TypeOK
  <1>1. Inv => TypeOK
    BY DEF Inv, DemoInv
  <1> QED  BY <1>1, InvAlways, PTL

\* Every acknowledged write is in the file, from one process to the next, or in
\* the memory of the process whose save failed, as long as one process is up at a
\* time, ends with its last save done, and reads the file it finds (filestore.go:22,
\* :73).
THEOREM DemoWritesSurvive == Spec => []AloneWritesSurvive
  <1>1. Inv => AloneWritesSurvive
    <2>1. SUFFICES ASSUME Inv, ~disturbed, NobodySaves, OnDisk # written
                   PROVE  unsaved /\ \E p \in Processes : pc[p] # "down" /\ cache[p] = written
      BY DEF AloneWritesSurvive
    <2>2. unsaved
      BY <2>1 DEF Inv, AloneInv, Saved
    <2>3. PICK p \in Processes : pc[p] # "down"
      BY <2>1, <2>2 DEF Inv, AloneInv
    <2> QED  BY <2>1, <2>2, <2>3 DEF Inv, AloneInv, Follows, UpToDate
  <1> QED  BY <1>1, InvAlways, PTL

\* A process on its own that reads the file it finds decides every request, and
\* stores, on the records stored last, by whichever process that was, also when
\* saves failed and however coarse the clock (filestore.go:50, :80, :135).
THEOREM DemoAloneWorksOnLatest == Spec => []AloneWorksOnLatest
  <1>1. Inv => AloneWorksOnLatest
    BY DEF Inv, AloneInv, AloneWorksOnLatest, Follows, UpToDate
  <1> QED  BY <1>1, InvAlways, PTL

\* Only a read of the file, a store, or the end of the process changes what it has
\* in memory.
LEMMA CacheChanges ==
    ASSUME Inv, [Next]_vars, NEW p \in Processes, cache'[p] # cache[p]
    PROVE  \/ Stop(p) \/ StoreRow(p)
           \/ ReadFile(p) /\ cache'[p] = file.content
  <1>1. cache \in [Processes -> Snapshot]
    BY DEF Inv, DemoInv, TypeOK
  <1>2. PICK q \in Processes :
           \/ Start(q) \/ ListToSeed(q) \/ Seed(q) \/ Stop(q)
           \/ Stat(q) \/ ReadFile(q) \/ WriteFile(q) \/ RememberModTime(q)
           \/ \E request \in Requests : Accept(q, request)
           \/ ReadExisting(q) \/ CheckDependency(q) \/ StoreRow(q)
    BY DEF Next, vars
  <1>3. ~UNCHANGED cache
    OBVIOUS
  <1>4. Stop(q) \/ ReadFile(q) \/ StoreRow(q)
    BY <1>2, <1>3 DEF Start, ListToSeed, Seed, Stat, WriteFile, RememberModTime, Accept,
                      ReadExisting, CheckDependency, Overlook
  <1>5. q = p
    BY <1>1, <1>4 DEF Stop, ReadFile, StoreRow, Overlook
  <1>6. ReadFile(p) => cache'[p] = file.content
    BY <1>1, <1>3 DEF ReadFile, Overlook
  <1> QED  BY <1>4, <1>5, <1>6

\* No process takes half a file for an empty store, whatever others do to the file
\* between its look at the modification time and its read (filestore.go:54).
THEOREM DemoReadingNeverBlanks == Spec => ReadingNeverBlanks
  <1>1. ASSUME Inv, [Next]_vars, NEW p \in Processes,
               io[p] = "read", pc'[p] # "down", cache[p] # NoRecords, cache'[p] = NoRecords
        PROVE  file.content = NoRecords
    <2>1. ~StoreRow(p)
      BY <1>1 DEF StoreRow
    <2>2. ~Stop(p)
      BY <1>1 DEF Stop, Goto, Inv, DemoInv, TypeOK
    <2>3. ReadFile(p) /\ cache'[p] = file.content
      BY <1>1, <2>1, <2>2, CacheChanges
    <2> QED  BY <1>1, <2>3
  <1>2. Inv /\ [Next]_vars =>
           [\A p \in Processes :
               /\ io[p] = "read" /\ pc'[p] # "down"
               /\ cache[p] # NoRecords /\ cache'[p] = NoRecords
               => file.content = NoRecords]_vars
    BY <1>1
  <1> QED  BY <1>2, InvAlways, PTL DEF Spec, ReadingNeverBlanks

\* The seeder on its own, able to read the file it finds, stores over nothing,
\* however often and however early the process that ran it before was killed, and
\* whatever it could not save (demo_seeder.go:19).
THEOREM DemoSeedingReplacesNothing == Spec => AloneSeedingReplacesNothing
  <1>1. ASSUME Inv, [Next]_vars, NEW p \in Processes, ~disturbed,
               io[p] = "ready", io'[p] \in {"truncated", "written"}, req[p].op = "create", script[p] # << >>
        PROVE  written[req[p].id] = NoRow
    <2>1. TypeOK /\ ProcessInv(p)
      BY <1>1 DEF Inv, DemoInv
    <2>2. pc[p] = "writing"
      <3>1. ASSUME NEW q \in Processes,
                   \/ Start(q) \/ ListToSeed(q) \/ Seed(q) \/ Stop(q)
                   \/ Stat(q) \/ ReadFile(q) \/ WriteFile(q) \/ RememberModTime(q)
                   \/ \E request \in Requests : Accept(q, request)
                   \/ ReadExisting(q) \/ CheckDependency(q)
            PROVE  io'[p] \notin {"truncated", "written"}
        BY <1>1, <2>1, <3>1
           DEF Start, ListToSeed, Seed, Stop, Stat, ReadFile, WriteFile, RememberModTime,
               Accept, ReadExisting, CheckDependency, Answer, Goto, TypeOK
      <3>2. PICK q \in Processes : StoreRow(q)
        BY <1>1, <3>1 DEF Next, vars
      <3> QED  BY <1>1, <2>1, <3>2 DEF StoreRow, Goto, TypeOK
    <2>3. Seeding(p) /\ req[p].id \in Ids
      BY <1>1, <2>1, <2>2, KnowsWhenUp, RequestFields DEF Knows, ProcessInv, Serving
    <2>4. /\ Len(script[p]) \in Nat \ {0} /\ DOMAIN script[p] = 1 .. Len(script[p])
          /\ Head(script[p]) = script[p][1]
          /\ Len(SeedCalls) \in Nat /\ DOMAIN SeedCalls = 1 .. Len(SeedCalls)
          /\ Len(script[p]) <= Len(SeedCalls)
      BY <1>1, <2>1, <2>3, SeedAssumption DEF TypeOK, Seeding
    <2>5. Answered(p) \in Nat /\ Answered(p) + 1 \in DOMAIN SeedCalls
      BY <2>4 DEF Answered
    <2>6. req[p] = SeedCalls[Answered(p) + 1]
      BY <1>1, <2>2, <2>3, <2>4 DEF Seeding, Serving
    <2>7. SUFFICES ASSUME written[req[p].id] # NoRow  PROVE FALSE
      OBVIOUS
    <2>8. PICK i \in 1 .. Answered(p) : SeedCalls[i].op = "create" /\ SeedCalls[i].id = req[p].id
      BY <1>1, <2>3, <2>5, <2>7 DEF Seeding, StoredCalls
    <2>9. i \in DOMAIN SeedCalls /\ i # Answered(p) + 1
      BY <2>4, <2>5, <2>8
    <2> QED  BY <1>1, <2>5, <2>6, <2>8, <2>9, SeedAssumption
  <1>2. Inv /\ [Next]_vars =>
           [\A p \in Processes :
               /\ ~disturbed /\ io[p] = "ready" /\ io'[p] \in {"truncated", "written"}
               /\ req[p].op = "create" /\ script[p] # << >>
               => written[req[p].id] = NoRow]_vars
    BY <1>1
  <1> QED  BY <1>2, InvAlways, PTL DEF Spec, AloneSeedingReplacesNothing

============================================================================
