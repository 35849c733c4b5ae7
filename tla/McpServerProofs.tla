-------------------------- MODULE McpServerProofs --------------------------
(**************************************************************************)
(* What the operators of SchemaValidator promise each other, for every    *)
(* definition and every table:                                            *)
(*   - the schema of demo mode passes the validator;                      *)
(*   - `cms validate`, which reads the tables of its definitions only,    *)
(*     says what it would say of the whole database;                      *)
(*   - on a table that passed and has what the statements need besides,   *)
(*     no statement is refused, and a row reads back as it was written.   *)
(*                                                                        *)
(* And what McpServer promises, proved for any definition, any schemas,   *)
(* any lines of an agent, any number of failures and of changes by        *)
(* others:                                                                *)
(*   - answers come in the order of the lines, and none is missing;       *)
(*   - answers and audit log tell the same;                               *)
(*   - a change leaves the fields it does not name as they were;          *)
(*   - a table that is valid and adequate takes every proper change.      *)
(**************************************************************************)
EXTENDS McpServer, TLAPS, FiniteSetTheorems, SequenceTheorems

----------------------------------------------------------------------------
(* Demo mode.                                                              *)

\* The column demo mode makes for a field takes the field (schema_loader.go).
LEMMA MockTypesFit ==
    \A t \in FieldTypes : IsTypeCompatible(t, MockType(t))
  <1>1. FieldTypes = {"uuid", "string", "text", "integer", "float", "boolean",
                      "datetime", "json", "enum", "reference", "media"}
    BY DEF FieldTypes, CompatibleTypes
  <1>2. MockType("uuid") \in CompatibleTypes["uuid"]
    <2>1. MockType("uuid") = "uuid"
      BY DEF MockType
    <2> QED  BY <2>1 DEF CompatibleTypes
  <1>3. MockType("string") \in CompatibleTypes["string"]
    <2>1. MockType("string") = "character varying"
      BY DEF MockType
    <2> QED  BY <2>1 DEF CompatibleTypes
  <1>4. MockType("text") \in CompatibleTypes["text"]
    <2>1. MockType("text") = "text"
      BY DEF MockType
    <2> QED  BY <2>1 DEF CompatibleTypes
  <1>5. MockType("integer") \in CompatibleTypes["integer"]
    <2>1. MockType("integer") = "bigint"
      BY DEF MockType
    <2> QED  BY <2>1 DEF CompatibleTypes
  <1>6. MockType("float") \in CompatibleTypes["float"]
    <2>1. MockType("float") = "double precision"
      BY DEF MockType
    <2> QED  BY <2>1 DEF CompatibleTypes
  <1>7. MockType("boolean") \in CompatibleTypes["boolean"]
    <2>1. MockType("boolean") = "boolean"
      BY DEF MockType
    <2> QED  BY <2>1 DEF CompatibleTypes
  <1>8. MockType("datetime") \in CompatibleTypes["datetime"]
    <2>1. MockType("datetime") = "timestamp with time zone"
      BY DEF MockType
    <2> QED  BY <2>1 DEF CompatibleTypes
  <1>9. MockType("json") \in CompatibleTypes["json"]
    <2>1. MockType("json") = "jsonb"
      BY DEF MockType
    <2> QED  BY <2>1 DEF CompatibleTypes
  <1>10. MockType("enum") \in CompatibleTypes["enum"]
    <2>1. MockType("enum") = "text"
      BY DEF MockType
    <2> QED  BY <2>1 DEF CompatibleTypes
  <1>11. MockType("reference") \in CompatibleTypes["reference"]
    <2>1. MockType("reference") = "uuid"
      BY DEF MockType
    <2> QED  BY <2>1 DEF CompatibleTypes
  <1>12. MockType("media") \in CompatibleTypes["media"]
    <2>1. MockType("media") = "uuid"
      BY DEF MockType
    <2> QED  BY <2>1 DEF CompatibleTypes
  <1> QED  BY <1>1, <1>2, <1>3, <1>4, <1>5, <1>6, <1>7, <1>8, <1>9, <1>10, <1>11, <1>12
           DEF IsTypeCompatible

\* The table of demo mode passes the validator, when its fields have known types
\* and every column one owner (cmd/cms/serve.go, validator.go:39-125).
THEOREM MockTablesValidate ==
    ASSUME NEW def, NEW table, NEW database, IsMockTable(table, def),
           def.table \in DOMAIN database, database[def.table] = table,
           \A n \in DOMAIN def.fields : def.fields[n].type \in FieldTypes,
           NoneTwice(def, DOMAIN def.fields, {})
    PROVE  IsValid(def, database)
  <1>1. FieldErrors(def, table) = {}
    <2>1. SUFFICES ASSUME NEW n \in DOMAIN def.fields
                   PROVE  /\ def.fields[n].column \in DOMAIN table
                          /\ IsTypeCompatible(def.fields[n].type, table[def.fields[n].column].type)
      BY DEF FieldErrors
    <2>2. /\ def.fields[n].column \in DOMAIN table
          /\ def.fields[n].column \notin LifecycleColumns(def)
      BY DEF IsMockTable, NoneTwice, ColumnsOf
    <2>3. PICK m \in DOMAIN def.fields :
             /\ def.fields[m].column = def.fields[n].column
             /\ table[def.fields[n].column].type = MockType(def.fields[m].type)
      BY <2>2 DEF IsMockTable
    <2>4. m = n
      BY <2>3 DEF NoneTwice
    <2> QED  BY <2>2, <2>3, <2>4, MockTypesFit
  <1>2. LifecycleErrors(def, table) = {}
    <2>1. CASE ~def.managed
      BY <2>1 DEF LifecycleErrors
    <2>2. CASE def.managed
      <3>1. {def.statusColumn, def.versionColumn} \subseteq DOMAIN table
        BY <2>2 DEF IsMockTable, LifecycleColumns
      <3>2. table[def.versionColumn].type = "bigint" /\ table[def.statusColumn].type = "text"
        BY <2>2 DEF IsMockTable, NoneTwice
      <3>3. IsTypeCompatible("string", "text") /\ IsTypeCompatible("integer", "bigint")
        BY DEF IsTypeCompatible, FieldTypes, CompatibleTypes
      <3>4. \A e \in {<<def.statusColumn, "string">>, <<def.versionColumn, "integer">>} :
               e[1] \in DOMAIN table /\ IsTypeCompatible(e[2], table[e[1]].type)
        BY <3>1, <3>2, <3>3
      <3> QED  BY <2>2, <3>4 DEF LifecycleErrors
    <2> QED  BY <2>1, <2>2
  <1> QED  BY <1>1, <1>2 DEF IsValid

----------------------------------------------------------------------------
(* cms validate.                                                           *)

\* Reading only the tables of the definitions hides nothing, and adds nothing
\* (cmd/cms/main.go, inspector.go, validator.go:127-138).
THEOREM ReadTablesSuffice ==
    ASSUME NEW definitions, NEW database
    PROVE  ValidateSucceeds(definitions, database) <=> ValidateAll(definitions, database)
  <1> DEFINE names == {def.table : def \in definitions}
             read == ReadSchema(database, names)
  <1>1. ASSUME NEW def \in definitions
        PROVE  IsValid(def, read) <=> IsValid(def, database)
    <2>1. def.table \in names
      OBVIOUS
    <2>2. DOMAIN read = DOMAIN database \cap names
      BY <2>1 DEF ReadSchema
    <2>3. def.table \in DOMAIN read <=> def.table \in DOMAIN database
      BY <2>1, <2>2
    <2>4. def.table \in DOMAIN read => read[def.table] = database[def.table]
      BY DEF ReadSchema
    <2> HIDE DEF read, names
    <2> QED  BY <2>3, <2>4 DEF IsValid
  <1> HIDE DEF read, names
  <1>2. ValidateAll(definitions, read) <=> ValidateAll(definitions, database)
    BY <1>1 DEF ValidateAll
  <1> QED  BY <1>2 DEF ValidateSucceeds, read, names

----------------------------------------------------------------------------
(* Statements.                                                             *)

LEMMA NoneTwiceShrinks ==
    ASSUME NEW def, NEW names, NEW fewer, NEW own, NEW less,
           NoneTwice(def, names, own), fewer \subseteq names, less \subseteq own
    PROVE  NoneTwice(def, fewer, less)
  <1>1. ColumnsOf(def, fewer) \subseteq ColumnsOf(def, names)
    BY DEF ColumnsOf
  <1> QED  BY <1>1 DEF NoneTwice

LEMMA ValidColumns ==
    ASSUME NEW def, NEW table, FieldErrors(def, table) = {}, LifecycleErrors(def, table) = {}
    PROVE  /\ \A n \in DOMAIN def.fields : def.fields[n].column \in DOMAIN table
           /\ LifecycleColumns(def) \subseteq DOMAIN table
           /\ \A own \in {InsertOwn, UpdateOwn} : Adequate(def, table) => ~Doubtful(def, table, own)
  <1>1. \A n \in DOMAIN def.fields :
           /\ def.fields[n].column \in DOMAIN table
           /\ IsTypeCompatible(def.fields[n].type, table[def.fields[n].column].type)
    BY DEF FieldErrors
  <1>2. LifecycleColumns(def) \subseteq DOMAIN table
    <2>1. CASE def.managed
      <3>1. \A e \in {<<def.statusColumn, "string">>, <<def.versionColumn, "integer">>} :
               e[1] \in DOMAIN table
        BY <2>1 DEF LifecycleErrors
      <3>2. def.statusColumn \in DOMAIN table /\ def.versionColumn \in DOMAIN table
        BY <3>1
      <3> QED  BY <2>1, <3>2 DEF LifecycleColumns
    <2>2. CASE ~def.managed
      BY <2>2 DEF LifecycleColumns
    <2> QED  BY <2>1, <2>2
  <1>3. ASSUME Adequate(def, table), NEW c \in UpdateOwn
        PROVE  table[c].type \notin PossibleTypes[c]
    <2>1. table[c].type \in CertainTypes[c]
      BY <1>3 DEF Adequate
    <2>2. CASE c = "id"
      BY <2>1, <2>2 DEF CertainTypes, PossibleTypes
    <2>3. CASE c = "updated_at"
      BY <2>1, <2>3 DEF CertainTypes, PossibleTypes
    <2> QED  BY <1>3, <2>2, <2>3 DEF UpdateOwn
  <1>4. ASSUME NEW own \in {InsertOwn, UpdateOwn}, Adequate(def, table)
        PROVE  ~Doubtful(def, table, own)
    <2>1. own \subseteq UpdateOwn
      BY DEF InsertOwn, UpdateOwn
    <2> QED  BY <1>1, <1>3, <1>4, <2>1 DEF Doubtful
  <1> QED  BY <1>1, <1>2, <1>4

\* An adequate table suits what the adapter fills on its own.
LEMMA AdequateSuits ==
    ASSUME NEW def, NEW table, Adequate(def, table)
    PROVE  Suits(table, InsertOwn) /\ Suits(table, UpdateOwn) /\ Suits(table, {"id"})
  <1>1. \A c \in UpdateOwn : c \in DOMAIN table /\ table[c].type \in CertainTypes[c]
    BY DEF Adequate, UpdateOwn
  <1>2. InsertOwn \subseteq UpdateOwn /\ {"id"} \subseteq UpdateOwn
    BY DEF InsertOwn, UpdateOwn
  <1> QED  BY <1>1, <1>2 DEF Suits

\* A creation with every required field and values that fit is not refused by a
\* table that is valid and adequate, its id taking a UUID and giving it back as a
\* string (content_repository.go:104-156).
THEOREM ValidTablesTakeInserts ==
    ASSUME NEW def, NEW table, NEW data,
           FieldErrors(def, table) = {}, LifecycleErrors(def, table) = {},
           Adequate(def, table), HasRequired(def, data),
           \A n \in Inserted(def, data) : Fits(table[def.fields[n].column], data[n])
    PROVE  InsertTaken(def, table, data)
  <1> DEFINE names == Inserted(def, data)
  <1>1. names \subseteq DOMAIN def.fields \ {"id"}
    BY DEF Inserted
  <1>2. "id" \in DOMAIN table
    BY DEF Adequate
  <1>3. Takes(def, table, data, names, {"id"})
    <2>1. NoneTwice(def, names, {"id"})
      BY <1>1, NoneTwiceShrinks DEF Adequate
    <2>2. ColumnsOf(def, names) \cup {"id"} \cup LifecycleColumns(def) \subseteq DOMAIN table
      BY <1>1, <1>2, ValidColumns DEF ColumnsOf
    <2> QED  BY <2>1, <2>2 DEF Takes
  <1>4. Required(def) \ {"id"} \subseteq names
    BY DEF HasRequired, Inserted, Required
  <1>5. ColumnsOf(def, Required(def) \ {"id"}) \subseteq ColumnsOf(def, names)
    BY <1>4 DEF ColumnsOf
  <1>6. \A c \in DOMAIN table \ (ColumnsOf(def, names) \cup {"id"} \cup LifecycleColumns(def)) :
           table[c].nullable \/ table[c].default
    BY <1>5 DEF Adequate
  <1> QED  BY <1>3, <1>6, AdequateSuits DEF InsertTaken

\* Nor is a change of a record, updated_at taking NOW() (content_repository.go:158-199).
THEOREM ValidTablesTakeUpdates ==
    ASSUME NEW def, NEW table, NEW data,
           FieldErrors(def, table) = {}, LifecycleErrors(def, table) = {},
           Adequate(def, table),
           \A n \in Assigned(def, data) : Fits(table[def.fields[n].column], data[n])
    PROVE  UpdateTaken(def, table, data)
  <1> DEFINE names == Assigned(def, data)
  <1>1. names \subseteq DOMAIN def.fields \ {"id"}
    BY DEF Assigned, Inserted
  <1>2. "updated_at" \in DOMAIN table
    BY DEF Adequate
  <1>3. NoneTwice(def, names, {"updated_at"})
    BY <1>1, NoneTwiceShrinks DEF Adequate
  <1>4. ColumnsOf(def, names) \cup {"updated_at"} \cup LifecycleColumns(def) \subseteq DOMAIN table
    BY <1>1, <1>2, ValidColumns DEF ColumnsOf
  <1>5. Takes(def, table, data, names, {"updated_at"})
    BY <1>3, <1>4 DEF Takes
  <1> QED  BY <1>5, AdequateSuits DEF UpdateTaken

\* Without shadowing, a field is read from its own column (content_repository.go,
\* scanRecord).
THEOREM FieldsReadTheirColumns ==
    ASSUME NEW def, NEW table, NEW row, NEW n \in DOMAIN def.fields,
           NoShadowing(def, table), def.fields[n].column \in DOMAIN table,
           table[def.fields[n].column].position \in Nat
    PROVE  /\ n \in DOMAIN Scan(def, table, row)
           /\ Scan(def, table, row)[n] = row[def.fields[n].column]
  <1> DEFINE c == def.fields[n].column
  <1>1. Writers(def, table, n) = {c}
    BY DEF Writers, NoShadowing
  <1>2. (CHOOSE d \in Writers(def, table, n) :
           \A e \in Writers(def, table, n) : table[e].position <= table[d].position) = c
    BY <1>1
  <1>3. n \in {m \in DOMAIN table \cup DOMAIN def.fields : Writers(def, table, m) # {}}
    BY <1>1
  <1> QED  BY <1>2, <1>3 DEF Scan

----------------------------------------------------------------------------
(* Rows.                                                                   *)

\* A row holds what its columns take.
RowFits(row, table) ==
    \A c \in DOMAIN table : row[c] # Misfit /\ (row[c] = Null => table[c].nullable)

LEMMA FieldInColumn ==
    ASSUME NEW def, NEW names, NEW c \in ColumnsOf(def, names)
    PROVE  FieldIn(def, names, c) \in names /\ def.fields[FieldIn(def, names, c)].column = c
  BY DEF FieldIn, ColumnsOf

\* What a statement the table took leaves in the row fits.
THEOREM InsertedRowsFit ==
    ASSUME NEW def, NEW table, NEW data, InsertTaken(def, table, data)
    PROVE  RowFits(InsertedRow(def, table, data), table)
  <1> DEFINE names == Inserted(def, data)
             row == InsertedRow(def, table, data)
  <1>1. SUFFICES ASSUME NEW c \in DOMAIN table
                 PROVE  row[c] # Misfit /\ (row[c] = Null => table[c].nullable)
    BY DEF RowFits
  <1>2. CASE c \in ColumnsOf(def, names)
    <2>1. row[c] = data[FieldIn(def, names, c)]
      BY <1>2 DEF InsertedRow
    <2>2. Fits(table[c], data[FieldIn(def, names, c)])
      BY <1>2, FieldInColumn DEF InsertTaken, Takes
    <2> QED  BY <2>1, <2>2 DEF Fits
  <1>3. CASE c \notin ColumnsOf(def, names)
             /\ (c \in {"id"} \cup LifecycleColumns(def) \/ table[c].default)
    <2>1. row[c] = Opaque
      BY <1>3 DEF InsertedRow
    <2> QED  BY <2>1, ValueAssumption
  <1>4. CASE c \notin ColumnsOf(def, names)
             /\ ~(c \in {"id"} \cup LifecycleColumns(def) \/ table[c].default)
    <2>1. row[c] = Null
      BY <1>4 DEF InsertedRow
    <2>2. table[c].nullable
      BY <1>4 DEF InsertTaken
    <2> QED  BY <2>1, <2>2, ValueAssumption
  <1> QED  BY <1>2, <1>3, <1>4

THEOREM UpdatedRowsFit ==
    ASSUME NEW def, NEW table, NEW row, NEW data, UpdateTaken(def, table, data),
           DOMAIN row = DOMAIN table, RowFits(row, table)
    PROVE  RowFits(UpdatedRow(def, row, data), table)
  <1> DEFINE names == Assigned(def, data)
             new == UpdatedRow(def, row, data)
  <1>1. SUFFICES ASSUME NEW c \in DOMAIN table
                 PROVE  new[c] # Misfit /\ (new[c] = Null => table[c].nullable)
    BY DEF RowFits
  <1>2. CASE c \in ColumnsOf(def, names)
    <2>1. new[c] = data[FieldIn(def, names, c)]
      BY <1>2 DEF UpdatedRow
    <2>2. Fits(table[c], data[FieldIn(def, names, c)])
      BY <1>2, FieldInColumn DEF UpdateTaken, Takes
    <2> QED  BY <2>1, <2>2 DEF Fits
  <1>3. CASE c \notin ColumnsOf(def, names)
    <2>1. new[c] = row[c]
      BY <1>3 DEF UpdatedRow
    <2> QED  BY <2>1 DEF RowFits
  <1> QED  BY <1>2, <1>3

----------------------------------------------------------------------------
(* The server: the invariant.                                              *)

Kinds == {"result", "error", "toolError"}

Entry == [call : Nat, id : Ids]

Ranges ==
    /\ line \in Nat /\ since \in Nat
    /\ DOMAIN rows = Ids
    /\ audit \in Seq(Entry)
    /\ answers \in Seq([to : Nat, kind : Kinds, found : Nat])

\* Every row has what its columns take.
RowsFit == \A i \in Ids : rows[i] # NoRow => RowFits(rows[i], Table(db))

\* A change is under way: it is to be written, or its outcome to be answered.
Busy == pc \in {"writing", "result", "toolError"}

\* What is held while a change is under way.
Begun ==
    /\ Busy => since < line /\ Mutates(Current)
    /\ pc = "writing" =>
        /\ held.db \in Databases
        /\ Creates => held.data = Current.data /\ HasRequired(Definition, Current.data)
        /\ ~Creates => /\ Current.target \in Ids
                       /\ DOMAIN held.row = DOMAIN Table(held.db)
                       /\ RowFits(held.row, Table(held.db))
                       /\ held.data = Changed(Current, Scan(Definition, Table(held.db), held.row))

\* Answers and entries are about lines that were handled.
Behind ==
    /\ \A j \in DOMAIN answers : answers[j].to \in 1..line /\ (Busy => answers[j].to # line)
    /\ \A e \in DOMAIN audit : audit[e].call \in 0..line /\ (pc = "writing" => audit[e].call # line)

\* Two entries are not about one line, and only changes have any.
Once ==
    /\ \A e, f \in DOMAIN audit : audit[e].call = audit[f].call /\ audit[e].call # 0 => e = f
    /\ \A e \in DOMAIN audit : audit[e].call # 0 => Mutates(sent[audit[e].call])

Told ==
    \A j \in DOMAIN answers : Mutates(sent[answers[j].to]) =>
        /\ answers[j].kind = "result" => \E e \in DOMAIN audit : audit[e].call = answers[j].to
        /\ answers[j].kind # "result" /\ failures = 0 =>
              \A e \in DOMAIN audit : audit[e].call # answers[j].to

\* The outcome still to be answered is what the audit log knows.
Owed ==
    /\ pc = "result" => \E e \in DOMAIN audit : audit[e].call = line
    /\ pc = "toolError" /\ failures = 0 => \A e \in DOMAIN audit : audit[e].call # line

Logs == Behind /\ AnswersInOrder /\ Once /\ Told /\ Owed

Inv == TypeOK /\ Ranges /\ RowsFit /\ Begun /\ Logs

----------------------------------------------------------------------------
(* Four kinds of steps.  The next line is handled; the transaction of a    *)
(* change ends; its outcome is answered; or none of these, and no answer   *)
(* is written.                                                             *)

Responded(m, n, kinds) ==
    \E kind \in kinds, found \in Nat :
        answers' = IF m.hasId \/ kind = "error"
                   THEN Append(answers, [to |-> n, kind |-> kind, found |-> found])
                   ELSE answers

Handled(m) ==
    /\ pc = "ready" /\ line < Len(sent) /\ sent[line + 1] = m
    /\ line' = line + 1
    /\ UNCHANGED <<db, rows, audit, since, snapshot>>
    /\ changes' \in Nat /\ failures' \in Nat /\ failures <= failures'
    /\ sent' \in Seq(Messages) /\ line + 1 <= Len(sent')
    /\ \A n \in 1..(line + 1) : sent'[n] = sent[n]
    /\ \/ pc' = "ready"
          /\ Responded(m, line + 1, IF Mutates(m) THEN {"error", "toolError"} ELSE Kinds)
       \/ pc' = "down" /\ UNCHANGED answers
       \/ pc' = "writing" /\ UNCHANGED answers /\ Mutates(m)
    /\ Begun'

Ended ==
    /\ pc = "writing"
    /\ UNCHANGED <<db, sent, line, since, snapshot, answers>>
    /\ changes' \in Nat /\ failures' \in Nat /\ failures <= failures'
    /\ \/ UNCHANGED <<audit, rows>> /\ pc' = "toolError"
       \/ \E i \in Ids :
             /\ audit' = Append(audit, [call |-> line, id |-> i])
             /\ \E row : /\ rows' = [rows EXCEPT ![i] = row]
                         /\ DOMAIN row = DOMAIN Table(db) /\ RowFits(row, Table(db))
             /\ pc' = "result" \/ (pc' = "toolError" /\ failures' # 0)

Answered ==
    /\ pc \in Outcomes /\ pc' = "ready"
    /\ UNCHANGED <<db, rows, audit, sent, line, since, snapshot, failures, changes>>
    /\ Responded(Current, line, {pc})

Elsewhere ==
    /\ UNCHANGED <<line, answers>>
    /\ changes' \in Nat /\ failures' \in Nat /\ failures <= failures'
    /\ sent' \in Seq(Messages) /\ line <= Len(sent')
    /\ \A n \in 1..line : sent'[n] = sent[n]
    /\ \/ UNCHANGED audit
       \/ \E i \in Ids : audit' = Append(audit, [call |-> 0, id |-> i])
    /\ \/ pc' = pc /\ since' = since /\ snapshot' = snapshot /\ held' = held
       \/ pc' = "down" /\ since' = since
       \/ pc' = "ready" /\ since' = line /\ snapshot' \in Databases

----------------------------------------------------------------------------
(* What the steps do to answers and entries.                               *)

\* A sequence with one more element.
LEMMA Appending ==
    ASSUME NEW S, NEW q \in Seq(S), NEW x \in S, NEW r, r = Append(q, x)
    PROVE  /\ r \in Seq(S) /\ Len(r) = Len(q) + 1
           /\ DOMAIN r = DOMAIN q \cup {Len(q) + 1}
           /\ Len(q) + 1 \notin DOMAIN q
           /\ \A j \in DOMAIN q : r[j] = q[j]
           /\ r[Len(q) + 1] = x
  BY AppendProperties

LEMMA RespondedAppends ==
    ASSUME Ranges, NEW m, NEW n \in Nat, NEW kinds, kinds \subseteq Kinds, Responded(m, n, kinds)
    PROVE  /\ answers' \in Seq([to : Nat, kind : Kinds, found : Nat])
           /\ \A j \in DOMAIN answers : j \in DOMAIN answers' /\ answers'[j] = answers[j]
           /\ m.hasId => \E j \in DOMAIN answers' : answers'[j].to = n
           /\ \A j \in DOMAIN answers' \ DOMAIN answers :
                 /\ answers'[j].to = n /\ answers'[j].kind \in kinds
                 /\ m.hasId \/ answers'[j].kind = "error"
                 /\ j = Len(answers) + 1
  <1> DEFINE Answers == [to : Nat, kind : Kinds, found : Nat]
  <1>1. answers \in Seq(Answers)
    BY DEF Ranges
  <1>2. PICK kind \in kinds, found \in Nat :
           answers' = IF m.hasId \/ kind = "error"
                      THEN Append(answers, [to |-> n, kind |-> kind, found |-> found])
                      ELSE answers
    BY DEF Responded
  <1>3. CASE m.hasId \/ kind = "error"
    <2> DEFINE new == [to |-> n, kind |-> kind, found |-> found]
    <2>1. new \in Answers /\ new.to = n /\ new.kind = kind
      OBVIOUS
    <2>2. answers' = Append(answers, new)
      BY <1>2, <1>3
    <2> HIDE DEF new, Answers
    <2>3. /\ answers' \in Seq(Answers)
          /\ DOMAIN answers' = DOMAIN answers \cup {Len(answers) + 1}
          /\ \A j \in DOMAIN answers : answers'[j] = answers[j]
          /\ answers'[Len(answers) + 1] = new
      BY <1>1, <2>1, <2>2, Appending
    <2> QED  BY <1>3, <2>1, <2>3 DEF Answers
  <1>4. CASE ~(m.hasId \/ kind = "error")
    BY <1>1, <1>2, <1>4
  <1> QED  BY <1>3, <1>4

\* A line is handled.
LEMMA HandledKeepsLogs ==
    ASSUME Inv, NEW m \in Messages, Handled(m)
    PROVE  Inv'
  <1> USE DEF Inv, Logs
  <1>1. /\ pc = "ready" /\ line' = line + 1 /\ sent[line + 1] = m /\ Begun'
        /\ UNCHANGED <<db, rows, audit, since, snapshot>>
        /\ changes' \in Nat /\ failures' \in Nat /\ failures <= failures'
        /\ sent' \in Seq(Messages) /\ line + 1 <= Len(sent')
        /\ \A n \in 1..(line + 1) : sent'[n] = sent[n]
    BY DEF Handled
  <1>2. line \in Nat /\ since \in Nat /\ since <= line /\ failures \in Nat
    BY DEF Ranges, TypeOK
  <1>3. \/ pc' = "ready" /\ Responded(m, line + 1, IF Mutates(m) THEN {"error", "toolError"} ELSE Kinds)
        \/ pc' \in {"down", "writing"} /\ UNCHANGED answers
    BY DEF Handled
  <1>4. /\ answers' \in Seq([to : Nat, kind : Kinds, found : Nat])
        /\ \A j \in DOMAIN answers : j \in DOMAIN answers' /\ answers'[j] = answers[j]
        /\ pc' = "ready" /\ m.hasId => \E j \in DOMAIN answers' : answers'[j].to = line + 1
        /\ \A j \in DOMAIN answers' \ DOMAIN answers :
              /\ pc' = "ready"
              /\ answers'[j].to = line + 1
              /\ Mutates(m) => answers'[j].kind # "result"
              /\ m.hasId \/ answers'[j].kind = "error"
              /\ j = Len(answers) + 1
    <2>1. CASE pc' \in {"down", "writing"} /\ UNCHANGED answers
      BY <2>1 DEF Ranges
    <2>2. CASE pc' = "ready" /\ Responded(m, line + 1, IF Mutates(m) THEN {"error", "toolError"} ELSE Kinds)
      <3> DEFINE kinds == IF Mutates(m) THEN {"error", "toolError"} ELSE Kinds
      <3>1. kinds \subseteq Kinds /\ (Mutates(m) => "result" \notin kinds)
        BY DEF Kinds
      <3>2. line + 1 \in Nat /\ Responded(m, line + 1, kinds)
        BY <1>2, <2>2
      <3> HIDE DEF kinds
      <3>3. Ranges
        OBVIOUS
      <3>4. /\ answers' \in Seq([to : Nat, kind : Kinds, found : Nat])
            /\ \A j \in DOMAIN answers : j \in DOMAIN answers' /\ answers'[j] = answers[j]
            /\ m.hasId => \E j \in DOMAIN answers' : answers'[j].to = line + 1
            /\ \A j \in DOMAIN answers' \ DOMAIN answers :
                  /\ answers'[j].to = line + 1 /\ answers'[j].kind \in kinds
                  /\ m.hasId \/ answers'[j].kind = "error"
                  /\ j = Len(answers) + 1
        BY ONLY <3>1, <3>2, <3>3, RespondedAppends
      <3> QED  BY <2>2, <3>1, <3>4
    <2> QED  BY <1>3, <2>1, <2>2
  <1>5. /\ \A j \in DOMAIN answers : answers[j].to \in 1..line
        /\ \A e \in DOMAIN audit : audit[e].call \in 0..line
    BY DEF Behind
  <1>6. DOMAIN answers = 1..Len(answers) /\ Len(answers) \in Nat
    BY DEF Ranges
  <1>7. \A j \in DOMAIN answers : sent'[answers'[j].to] = sent[answers[j].to]
    BY <1>1, <1>2, <1>4, <1>5
  <1>8. Behind'
    <2>1. ASSUME NEW j \in DOMAIN answers'
          PROVE  answers'[j].to \in 1..line' /\ (Busy' => answers'[j].to # line')
      <3>1. CASE j \in DOMAIN answers
        BY <1>1, <1>2, <1>4, <1>5, <3>1
      <3>2. CASE j \notin DOMAIN answers
        BY <1>1, <1>2, <1>4, <3>2 DEF Busy
      <3> QED  BY <3>1, <3>2
    <2>2. \A e \in DOMAIN audit : audit[e].call \in 0..(line + 1) /\ audit[e].call # line + 1
      BY <1>2, <1>5
    <2> QED  BY <1>1, <2>1, <2>2 DEF Behind
  <1>9. AnswersInOrder'
    <2>1. ASSUME NEW j \in DOMAIN answers', NEW k \in DOMAIN answers', j < k
          PROVE  answers'[j].to < answers'[k].to
      <3>1. j \in DOMAIN answers
        BY <1>4, <1>6, <2>1
      <3>2. CASE k \in DOMAIN answers
        BY <1>4, <2>1, <3>1, <3>2 DEF AnswersInOrder
      <3>3. CASE k \notin DOMAIN answers
        BY <1>2, <1>4, <1>5, <3>1, <3>3
      <3> QED  BY <3>2, <3>3
    <2>2. ASSUME pc' # "down",
                 NEW n \in (since + 1)..(IF pc' = "ready" THEN line + 1 ELSE line), sent'[n].hasId
          PROVE  \E j \in DOMAIN answers' : answers'[j].to = n
      <3>1. CASE n = line + 1
        <4>1. pc' = "ready"
          BY <1>2, <1>3, <2>2, <3>1
        <4> QED  BY <1>1, <1>2, <1>4, <2>2, <3>1, <4>1
      <3>2. CASE n # line + 1
        <4>1. n \in (since + 1)..line /\ sent[n].hasId
          BY <1>1, <1>2, <2>2, <3>2
        <4>2. PICK j \in DOMAIN answers : answers[j].to = n
          BY <1>1, <4>1 DEF AnswersInOrder
        <4> QED  BY <1>4, <4>2
      <3> QED  BY <3>1, <3>2
    <2>3. ASSUME NEW j \in DOMAIN answers', ~sent'[answers'[j].to].hasId
          PROVE  answers'[j].kind = "error"
      <3>1. CASE j \in DOMAIN answers
        BY <1>4, <1>7, <2>3, <3>1 DEF AnswersInOrder
      <3>2. CASE j \notin DOMAIN answers
        BY <1>1, <1>2, <1>4, <2>3, <3>2
      <3> QED  BY <3>1, <3>2
    <2>4. /\ since' = since /\ line' - 1 = line /\ line' = line + 1
      BY <1>1, <1>2
    <2> QED  BY <2>1, <2>2, <2>3, <2>4 DEF AnswersInOrder
  <1>10. Once'
    BY <1>1, <1>2, <1>5 DEF Once
  <1>11. Told'
    <2>1. SUFFICES ASSUME NEW j \in DOMAIN answers', Mutates(sent'[answers'[j].to])
                   PROVE  /\ answers'[j].kind = "result" =>
                                \E e \in DOMAIN audit : audit[e].call = answers'[j].to
                          /\ answers'[j].kind # "result" /\ failures' = 0 =>
                                \A e \in DOMAIN audit : audit[e].call # answers'[j].to
      BY <1>1 DEF Told
    <2>2. CASE j \in DOMAIN answers
      <3>1. answers'[j] = answers[j] /\ Mutates(sent[answers[j].to])
        BY <1>4, <1>7, <2>1, <2>2
      <3>2. failures' = 0 => failures = 0
        BY <1>1, <1>2
      <3> QED  BY <2>2, <3>1, <3>2 DEF Told
    <2>3. CASE j \notin DOMAIN answers
      <3>1. answers'[j].to = line + 1 /\ sent'[line + 1] = m
        <4>1. j \in DOMAIN answers' \ DOMAIN answers
          BY <2>1, <2>3
        <4>2. answers'[j].to = line + 1
          BY <1>4, <4>1
        <4>3. line + 1 \in 1..(line + 1)
          BY <1>2
        <4> QED  BY <1>1, <4>2, <4>3
      <3>2. answers'[j].kind # "result"
        BY <1>4, <2>1, <2>3, <3>1
      <3>3. \A e \in DOMAIN audit : audit[e].call # line + 1
        BY <1>2, <1>5
      <3> QED  BY <3>1, <3>2, <3>3
    <2> QED  BY <2>2, <2>3
  <1>12. Ranges' /\ RowsFit'
    BY <1>1, <1>2, <1>4 DEF Ranges, RowsFit
  <1>13. TypeOK'
    <2>1. snapshot \in Databases /\ db \in Databases
      BY <1>1 DEF TypeOK
    <2>2. \A i \in Ids : rows'[i] # NoRow => DOMAIN rows'[i] = DOMAIN Table(db')
      BY <1>1 DEF TypeOK
    <2>3. pc' = "writing" => sent'[line'].tool \in {"mutate", "publish"} /\ held'.db \in Databases
      BY <1>1 DEF Begun, Busy, Mutates, Current
    <2>4. \A n \in 1..Len(answers') : answers'[n].to \in 1..line'
      BY <1>4, <1>8 DEF Behind
    <2>5. since' <= line' /\ line' <= Len(sent')
      BY <1>1, <1>2
    <2> QED  BY <1>1, <1>3, <2>1, <2>2, <2>3, <2>4, <2>5 DEF TypeOK
  <1>14. Owed'
    BY <1>3 DEF Owed
  <1> QED  BY <1>1, <1>8, <1>9, <1>10, <1>11, <1>12, <1>13, <1>14

\* The transaction of a change ends.
LEMMA EndedKeepsInv ==
    ASSUME Inv, Ended
    PROVE  Inv'
  <1> USE DEF Inv, Logs
  <1>1. /\ pc = "writing" /\ line' = line /\ sent' = sent /\ since' = since
        /\ db' = db /\ snapshot' = snapshot /\ answers' = answers
        /\ pc' \in {"result", "toolError"}
        /\ changes' \in Nat /\ failures' \in Nat /\ failures <= failures'
    BY DEF Ended
  <1>2. line \in Nat /\ since \in Nat /\ since < line /\ line <= Len(sent) /\ failures \in Nat
    BY <1>1 DEF Ranges, TypeOK, Begun, Busy
  <1>3. Mutates(sent[line]) /\ Current' = Current
    BY <1>1 DEF Begun, Busy, Current
  <1>4. /\ audit' \in Seq(Entry)
        /\ \A e \in DOMAIN audit : e \in DOMAIN audit' /\ audit'[e] = audit[e]
        /\ \A e \in DOMAIN audit' \ DOMAIN audit :
              audit'[e].call = line /\ e = Len(audit) + 1
        /\ \/ UNCHANGED audit /\ pc' = "toolError"
           \/ /\ \E e \in DOMAIN audit' : audit'[e].call = line
              /\ pc' = "toolError" => failures' # 0
    <2>1. CASE UNCHANGED audit /\ pc' = "toolError"
      BY <2>1 DEF Ranges
    <2>2. ASSUME NEW i \in Ids, audit' = Append(audit, [call |-> line, id |-> i]),
                 pc' = "toolError" => failures' # 0
          PROVE  /\ audit' \in Seq(Entry)
                 /\ \A e \in DOMAIN audit : e \in DOMAIN audit' /\ audit'[e] = audit[e]
                 /\ \A e \in DOMAIN audit' \ DOMAIN audit :
                       audit'[e].call = line /\ e = Len(audit) + 1
                 /\ \E e \in DOMAIN audit' : audit'[e].call = line
      <3>1. audit \in Seq(Entry) /\ [call |-> line, id |-> i] \in Entry
        BY <1>2 DEF Ranges, Entry
      <3>2. /\ audit' \in Seq(Entry)
            /\ DOMAIN audit' = DOMAIN audit \cup {Len(audit) + 1}
            /\ \A e \in DOMAIN audit : audit'[e] = audit[e]
            /\ audit'[Len(audit) + 1] = [call |-> line, id |-> i]
        BY ONLY <2>2, <3>1, Appending
      <3> QED  BY <2>2, <3>2
    <2> QED  BY <2>1, <2>2 DEF Ended
  <1>5. \A j \in DOMAIN answers : answers[j].to \in 1..line /\ answers[j].to # line
    BY <1>1 DEF Behind, Busy
  <1>6. \A e \in DOMAIN audit : audit[e].call \in 0..line /\ audit[e].call # line
    BY <1>1 DEF Behind
  <1>7. Behind'
    <2>1. \A e \in DOMAIN audit' : audit'[e].call \in 0..line
      BY <1>2, <1>4, <1>6
    <2> QED  BY <1>1, <1>5, <2>1 DEF Behind
  <1>8. AnswersInOrder'
    BY <1>1 DEF AnswersInOrder
  <1>9. Once'
    <2>1. ASSUME NEW e \in DOMAIN audit', NEW f \in DOMAIN audit',
                 audit'[e].call = audit'[f].call, audit'[e].call # 0
          PROVE  e = f
      BY <1>4, <1>6, <2>1 DEF Once
    <2>2. ASSUME NEW e \in DOMAIN audit', audit'[e].call # 0
          PROVE  Mutates(sent[audit'[e].call])
      BY <1>3, <1>4, <2>2 DEF Once
    <2> QED  BY <1>1, <2>1, <2>2 DEF Once
  <1>10. Told'
    <2>1. SUFFICES ASSUME NEW j \in DOMAIN answers, Mutates(sent[answers[j].to])
                   PROVE  /\ answers[j].kind = "result" =>
                                \E e \in DOMAIN audit' : audit'[e].call = answers[j].to
                          /\ answers[j].kind # "result" /\ failures' = 0 =>
                                \A e \in DOMAIN audit' : audit'[e].call # answers[j].to
      BY <1>1 DEF Told
    <2>2. failures' = 0 => failures = 0
      BY <1>1, <1>2
    <2> QED  BY <1>4, <1>5, <2>1, <2>2 DEF Told
  <1>11. Owed'
    BY <1>1, <1>4, <1>6 DEF Owed
  <1>12. /\ DOMAIN rows' = Ids
         /\ \A i \in Ids : rows'[i] # NoRow =>
               DOMAIN rows'[i] = DOMAIN Table(db) /\ RowFits(rows'[i], Table(db))
    <2>1. CASE UNCHANGED rows
      BY <2>1 DEF Ranges, TypeOK, RowsFit
    <2>2. ASSUME NEW i \in Ids, NEW row, rows' = [rows EXCEPT ![i] = row],
                 DOMAIN row = DOMAIN Table(db), RowFits(row, Table(db))
          PROVE  /\ DOMAIN rows' = Ids
                 /\ \A j \in Ids : rows'[j] # NoRow =>
                       DOMAIN rows'[j] = DOMAIN Table(db) /\ RowFits(rows'[j], Table(db))
      <3>1. rows'[i] = row /\ DOMAIN rows' = Ids /\ \A k \in Ids \ {i} : rows'[k] = rows[k]
        BY <2>2 DEF Ranges
      <3> QED  BY <2>2, <3>1 DEF TypeOK, RowsFit
    <2> QED  BY <2>1, <2>2 DEF Ended
  <1>13. Ranges' /\ RowsFit' /\ Begun'
    BY <1>1, <1>2, <1>3, <1>4, <1>12 DEF Ranges, RowsFit, Begun, Current
  <1>14. TypeOK'
    BY <1>1, <1>2, <1>12 DEF TypeOK, Outcomes
  <1> QED  BY <1>7, <1>8, <1>9, <1>10, <1>11, <1>13, <1>14

\* The outcome of a change is answered.
LEMMA AnsweredKeepsInv ==
    ASSUME Inv, Answered
    PROVE  Inv'
  <1> DEFINE m == sent[line]
  <1> USE DEF Inv, Logs
  <1>1. /\ pc \in {"result", "toolError"} /\ Busy /\ pc' = "ready"
        /\ line' = line /\ sent' = sent /\ since' = since
        /\ UNCHANGED <<db, rows, audit, snapshot, failures, changes>>
    BY DEF Answered, Outcomes, Busy
  <1>2. line \in Nat /\ since \in Nat /\ since < line /\ line <= Len(sent) /\ failures \in Nat
    BY <1>1 DEF Ranges, TypeOK, Begun
  <1>3. /\ answers' \in Seq([to : Nat, kind : Kinds, found : Nat])
        /\ \A j \in DOMAIN answers : j \in DOMAIN answers' /\ answers'[j] = answers[j]
        /\ m.hasId => \E j \in DOMAIN answers' : answers'[j].to = line
        /\ \A j \in DOMAIN answers' \ DOMAIN answers :
              /\ answers'[j].to = line /\ answers'[j].kind \in {pc}
              /\ m.hasId \/ answers'[j].kind = "error"
              /\ j = Len(answers) + 1
    <2>1. {pc} \subseteq Kinds
      BY <1>1 DEF Kinds
    <2>2. Ranges /\ line \in Nat /\ Responded(m, line, {pc})
      BY <1>2 DEF Answered, Current
    <2> HIDE DEF m
    <2> QED  BY ONLY <2>1, <2>2, RespondedAppends
  <1>4. \A j \in DOMAIN answers : answers[j].to \in 1..line /\ answers[j].to # line
    BY <1>1 DEF Behind
  <1>5. DOMAIN answers = 1..Len(answers) /\ Len(answers) \in Nat
    BY DEF Ranges
  <1>6. Behind'
    <2>1. \A j \in DOMAIN answers' : answers'[j].to \in 1..line
      BY <1>2, <1>3, <1>4
    <2>2. ~Busy'
      BY <1>1 DEF Busy
    <2> QED  BY <1>1, <2>1, <2>2 DEF Behind
  <1>7. AnswersInOrder'
    <2>1. ASSUME NEW j \in DOMAIN answers', NEW k \in DOMAIN answers', j < k
          PROVE  answers'[j].to < answers'[k].to
      <3>1. j \in DOMAIN answers
        <4>1. k \in DOMAIN answers => k <= Len(answers)
          BY <1>5
        <4>2. \A l \in DOMAIN answers' \ DOMAIN answers : l = Len(answers) + 1
          BY <1>3
        <4> QED  BY ONLY <1>5, <2>1, <4>1, <4>2
      <3>2. CASE k \in DOMAIN answers
        BY <1>3, <2>1, <3>1, <3>2 DEF AnswersInOrder
      <3>3. CASE k \notin DOMAIN answers
        BY <1>2, <1>3, <1>4, <3>1, <3>3
      <3> QED  BY <3>2, <3>3
    <2>2. ASSUME NEW n \in (since + 1)..line, sent[n].hasId
          PROVE  \E j \in DOMAIN answers' : answers'[j].to = n
      <3>1. CASE n = line
        BY <1>3, <2>2, <3>1
      <3>2. CASE n # line
        <4>1. n \in (since + 1)..(line - 1)
          BY <1>2, <3>2
        <4>2. PICK j \in DOMAIN answers : answers[j].to = n
          BY <1>1, <2>2, <4>1 DEF AnswersInOrder
        <4> QED  BY <1>3, <4>2
      <3> QED  BY <3>1, <3>2
    <2>3. ASSUME NEW j \in DOMAIN answers', ~sent[answers'[j].to].hasId
          PROVE  answers'[j].kind = "error"
      <3>1. CASE j \in DOMAIN answers
        BY <1>3, <2>3, <3>1 DEF AnswersInOrder
      <3>2. CASE j \notin DOMAIN answers
        BY <1>3, <2>3, <3>2
      <3> QED  BY <3>1, <3>2
    <2> QED  BY <1>1, <2>1, <2>2, <2>3 DEF AnswersInOrder
  <1>8. Once'
    BY <1>1 DEF Once
  <1>9. Told'
    <2>1. SUFFICES ASSUME NEW j \in DOMAIN answers', Mutates(sent[answers'[j].to])
                   PROVE  /\ answers'[j].kind = "result" =>
                                \E e \in DOMAIN audit : audit[e].call = answers'[j].to
                          /\ answers'[j].kind # "result" /\ failures = 0 =>
                                \A e \in DOMAIN audit : audit[e].call # answers'[j].to
      BY <1>1 DEF Told
    <2>2. CASE j \in DOMAIN answers
      BY <1>3, <2>1, <2>2 DEF Told
    <2>3. CASE j \notin DOMAIN answers
      <3>1. answers'[j].to = line /\ answers'[j].kind = pc
        BY <1>3, <2>3
      <3> QED  BY <1>1, <3>1 DEF Owed
    <2> QED  BY <2>2, <2>3
  <1>10. Owed' /\ Ranges' /\ RowsFit' /\ Begun'
    BY <1>1, <1>3 DEF Owed, Ranges, RowsFit, Begun, Busy
  <1>11. TypeOK'
    <2>1. snapshot \in Databases /\ db \in Databases /\ sent \in Seq(Messages) /\ since <= line
      BY <1>1, <1>2 DEF TypeOK
    <2>2. \A n \in 1..Len(answers') : answers'[n].to \in 1..line
      BY <1>1, <1>3, <1>6 DEF Behind
    <2> QED  BY <1>1, <1>2, <2>1, <2>2 DEF TypeOK
  <1> QED  BY <1>6, <1>7, <1>8, <1>9, <1>10, <1>11

\* Nothing is answered, and an entry is at most another one's.
LEMMA ElsewhereKeepsLogs ==
    ASSUME Inv, Elsewhere
    PROVE  /\ Logs'
           /\ audit' \in Seq(Entry) /\ answers' = answers /\ since' \in Nat /\ line' = line
           /\ since' <= line' /\ line' <= Len(sent') /\ sent' \in Seq(Messages)
           /\ changes' \in Nat /\ failures' \in Nat
           /\ \A n \in 1..Len(answers') : answers'[n].to \in 1..line'
           /\ pc' \in {"down", "ready", "writing"} \cup Outcomes
           /\ pc' # "down" => snapshot' \in Databases
  <1> USE DEF Inv, Logs
  <1>1. /\ line' = line /\ answers' = answers
        /\ changes' \in Nat /\ failures' \in Nat /\ failures <= failures'
        /\ sent' \in Seq(Messages) /\ line <= Len(sent')
        /\ \A n \in 1..line : sent'[n] = sent[n]
    BY DEF Elsewhere
  <1>2. line \in Nat /\ since \in Nat /\ since <= line /\ failures \in Nat
    BY DEF Ranges, TypeOK
  <1>3. \/ pc' = pc /\ since' = since /\ snapshot' = snapshot
        \/ pc' = "down" /\ since' = since
        \/ pc' = "ready" /\ since' = line /\ snapshot' \in Databases
    BY DEF Elsewhere
  <1>4. /\ audit' \in Seq(Entry)
        /\ \A e \in DOMAIN audit : e \in DOMAIN audit' /\ audit'[e] = audit[e]
        /\ \A e \in DOMAIN audit' \ DOMAIN audit : audit'[e].call = 0
    <2>1. CASE UNCHANGED audit
      BY <2>1 DEF Ranges
    <2>2. ASSUME NEW i \in Ids, audit' = Append(audit, [call |-> 0, id |-> i])  
          PROVE  /\ audit' \in Seq(Entry)
                 /\ \A e \in DOMAIN audit : e \in DOMAIN audit' /\ audit'[e] = audit[e]
                 /\ \A e \in DOMAIN audit' \ DOMAIN audit : audit'[e].call = 0
      <3>1. audit \in Seq(Entry) /\ [call |-> 0, id |-> i] \in Entry
        BY DEF Ranges, Entry
      <3>2. /\ audit' \in Seq(Entry)
            /\ DOMAIN audit' = DOMAIN audit \cup {Len(audit) + 1}
            /\ \A e \in DOMAIN audit : audit'[e] = audit[e]
            /\ audit'[Len(audit) + 1] = [call |-> 0, id |-> i]
        BY ONLY <2>2, <3>1, Appending
      <3> QED  BY <3>2
    <2> QED  BY <2>1, <2>2 DEF Elsewhere
  <1>5. \A j \in DOMAIN answers : /\ answers[j].to \in 1..line
                                  /\ sent'[answers[j].to] = sent[answers[j].to]
    BY <1>1 DEF Behind
  <1>6. \A e \in DOMAIN audit : audit[e].call \in 0..line
    BY DEF Behind
  <1>7. Behind'
    <2>1. \A j \in DOMAIN answers : Busy' => answers[j].to # line
      BY <1>3 DEF Behind, Busy
    <2>2. ASSUME NEW e \in DOMAIN audit'
          PROVE  audit'[e].call \in 0..line /\ (pc' = "writing" => audit'[e].call # line)
      <3>1. CASE e \in DOMAIN audit
        BY <1>3, <1>4, <1>6, <3>1 DEF Behind
      <3>2. CASE e \notin DOMAIN audit
        <4>1. pc' = "writing" => line # 0
          BY <1>2, <1>3 DEF Begun, Busy
        <4> QED  BY <1>2, <1>4, <3>2, <4>1
      <3> QED  BY <3>1, <3>2
    <2> QED  BY <1>1, <1>5, <2>1, <2>2 DEF Behind
  <1>8. AnswersInOrder'
    <2>1. ASSUME pc' # "down",
                 NEW n \in (since' + 1)..(IF pc' = "ready" THEN line ELSE line - 1), sent'[n].hasId
          PROVE  \E j \in DOMAIN answers : answers[j].to = n
      <3>1. pc' = pc /\ since' = since
        BY <1>2, <1>3, <2>1
      <3>2. n \in 1..line /\ sent'[n] = sent[n]
        BY <1>1, <1>2, <2>1, <3>1
      <3> QED  BY <2>1, <3>1, <3>2 DEF AnswersInOrder
    <2>2. \A j \in DOMAIN answers : ~sent'[answers[j].to].hasId => answers[j].kind = "error"
      BY <1>5 DEF AnswersInOrder
    <2>3. \A j, k \in DOMAIN answers : j < k => answers[j].to < answers[k].to
      BY DEF AnswersInOrder
    <2> QED  BY <1>1, <2>1, <2>2, <2>3 DEF AnswersInOrder
  <1>9. Once'
    <2>1. ASSUME NEW e \in DOMAIN audit', audit'[e].call # 0
          PROVE  e \in DOMAIN audit /\ audit'[e] = audit[e] /\ Mutates(sent'[audit'[e].call])
      <3>1. e \in DOMAIN audit /\ audit'[e] = audit[e]
        BY <1>4, <2>1
      <3>2. sent'[audit[e].call] = sent[audit[e].call]
        BY <1>1, <1>2, <1>6, <2>1, <3>1
      <3> QED  BY <2>1, <3>1, <3>2 DEF Once
    <2> QED  BY <2>1 DEF Once
  <1>10. Told'
    <2>1. SUFFICES ASSUME NEW j \in DOMAIN answers, Mutates(sent[answers[j].to])
                   PROVE  /\ answers[j].kind = "result" =>
                                \E e \in DOMAIN audit' : audit'[e].call = answers[j].to
                          /\ answers[j].kind # "result" /\ failures' = 0 =>
                                \A e \in DOMAIN audit' : audit'[e].call # answers[j].to
      BY <1>1, <1>5 DEF Told
    <2>2. answers[j].to # 0
      BY <1>2, <1>5
    <2>3. failures' = 0 => failures = 0
      BY <1>1, <1>2
    <2> QED  BY <1>4, <2>1, <2>2, <2>3 DEF Told
  <1>11. \A n \in 1..Len(answers') : answers'[n].to \in 1..line'
    BY <1>1 DEF TypeOK
  <1>12. /\ pc' \in {"down", "ready", "writing"} \cup Outcomes
         /\ pc' # "down" => snapshot' \in Databases
    BY <1>3 DEF TypeOK
  <1>13. Owed'
    <2>1. ASSUME pc' \in {"result", "toolError"}
          PROVE  pc' = pc /\ line # 0 /\ (failures' = 0 => failures = 0)
      BY <1>1, <1>2, <1>3, <2>1 DEF Begun, Busy
    <2> QED  BY <1>1, <1>4, <2>1 DEF Owed
  <1> QED  BY <1>1, <1>2, <1>3, <1>4, <1>7, <1>8, <1>9, <1>10, <1>11, <1>12, <1>13

LEMMA ElsewhereKeepsInv ==
    ASSUME Inv, Elsewhere, db' \in Databases, DOMAIN rows' = Ids,
           \A i \in Ids : rows'[i] # NoRow =>
              DOMAIN rows'[i] = DOMAIN Table(db') /\ RowFits(rows'[i], Table(db'))
    PROVE  Inv'
  <1>1. Begun'
    <2>1. SUFFICES ASSUME Busy'  PROVE Begun'
      BY DEF Begun, Busy
    <2>2. /\ pc' = pc /\ Busy /\ line' = line /\ since' = since /\ held' = held
          /\ \A n \in 1..line : sent'[n] = sent[n]
      BY <2>1 DEF Elsewhere, Busy
    <2>3. line \in Nat /\ since \in Nat /\ since < line
      BY <2>2 DEF Inv, Begun, Ranges
    <2>4. Current' = Current /\ Creates' = Creates
      BY <2>2, <2>3 DEF Current, Creates
    <2> QED  BY <2>2, <2>4 DEF Inv, Begun
  <1>2. RowsFit'
    BY DEF RowsFit
  <1>3. Logs' /\ Ranges'
    BY ElsewhereKeepsLogs DEF Inv, Ranges
  <1>4. TypeOK'
    <2>1. pc' = "writing" => sent'[line'].tool \in {"mutate", "publish"} /\ held'.db \in Databases
      BY <1>1 DEF Begun, Busy, Mutates, Current
    <2> QED  BY <2>1, ElsewhereKeepsLogs DEF TypeOK
  <1> QED  BY <1>1, <1>2, <1>3, <1>4 DEF Inv

----------------------------------------------------------------------------
(* The actions, by kind.                                                   *)

LEMMA RespondIs ==
    ASSUME NEW m, NEW kinds, NEW kind \in kinds, NEW found \in Nat, NEW n, line' = n,
           Respond(m, kind, found)
    PROVE  Responded(m, n, kinds)
  BY DEF Respond, Reply, Responded

\* A line that ends where it began, with an answer.
LEMMA AnsweredIsHandled ==
    ASSUME Inv, NEW m \in Messages, Take(m), UNCHANGED <<outside, store, pc, held>>,
           failures' = failures \/ failures' = failures + 1,
           NEW kind \in Kinds, Mutates(m) => kind \in {"error", "toolError"},
           NEW found \in Nat, Respond(m, kind, found)
    PROVE  Handled(m)
  <1>1. /\ pc = "ready" /\ line < Len(sent) /\ sent[line + 1] = m /\ line' = line + 1
        /\ pc' = pc /\ UNCHANGED <<db, rows, audit, since, snapshot, sent, changes>>
    BY DEF Take, Handles, outside, store
  <1>2. /\ sent \in Seq(Messages) /\ line \in Nat /\ failures \in Nat /\ changes \in Nat
    BY DEF Inv, TypeOK, Ranges
  <1>3. Len(sent) \in Nat
    BY <1>2
  <1>4. Responded(m, line + 1, IF Mutates(m) THEN {"error", "toolError"} ELSE Kinds)
    BY <1>1, RespondIs
  <1>5. Begun'
    BY <1>1 DEF Begun, Busy
  <1>6. failures' \in Nat /\ failures <= failures'
    BY <1>2
  <1>7. line + 1 <= Len(sent)
    BY <1>1, <1>2, <1>3
  <1> QED  BY <1>1, <1>2, <1>4, <1>5, <1>6, <1>7 DEF Handled

\* A line that begins a change.
LEMMA HeldIsHandled ==
    ASSUME Inv, NEW m \in Messages, Take(m), Mutates(m),
           UNCHANGED <<outside, store, failures>>, NEW data, NEW row, Hold(m, data, row),
           IsCreate(m) => data = m.data /\ HasRequired(Definition, m.data),
           ~IsCreate(m) => /\ m.target \in Ids /\ rows[m.target] # NoRow /\ row = rows[m.target]
                           /\ data = Changed(m, Scan(Definition, Table(db), row))
    PROVE  Handled(m)
  <1>1. /\ pc = "ready" /\ line < Len(sent) /\ sent[line + 1] = m /\ line' = line + 1
        /\ UNCHANGED <<db, rows, audit, since, snapshot, sent, changes, failures>>
    BY DEF Take, Handles, outside, store
  <1>2. /\ sent \in Seq(Messages) /\ line \in Nat /\ since \in Nat /\ since <= line
        /\ failures \in Nat /\ changes \in Nat /\ db \in Databases
    BY DEF Inv, TypeOK, Ranges
  <1>3. Len(sent) \in Nat
    BY <1>2
  <1>4. /\ pc' = "writing" /\ UNCHANGED answers
        /\ held'.data = data /\ held'.row = row /\ held'.db = db
    BY DEF Hold
  <1>5. Current' = m /\ Creates' = IsCreate(m)
    BY <1>1 DEF Current, Creates
  <1>6. ~IsCreate(m) => DOMAIN row = DOMAIN Table(db) /\ RowFits(row, Table(db))
    BY DEF Inv, TypeOK, RowsFit
  <1>7. since' < line'
    BY <1>1, <1>2
  <1>8. Begun'
    BY <1>2, <1>4, <1>5, <1>6, <1>7 DEF Begun, Busy
  <1>9. line + 1 <= Len(sent) /\ failures <= failures
    BY <1>1, <1>2, <1>3
  <1> QED  BY <1>1, <1>2, <1>4, <1>8, <1>9 DEF Handled

LEMMA HandleIsHandled ==
    ASSUME Inv, NEW m \in Messages, Handle(m)
    PROVE  Handled(m)
  <1>1. CASE Control(m)
    <2>1. ~Mutates(m)
      BY <1>1 DEF Control, Mutates, IsCall
    <2>2. PICK kind \in {"error", "result"} : Respond(m, kind, 0)
      BY <1>1 DEF Control
    <2> QED  BY <1>1, <2>1, <2>2, AnsweredIsHandled DEF Control, Kinds
  <1>2. CASE Oversized(m)
    <2>1. /\ pc = "ready" /\ line < Len(sent) /\ sent[line + 1] = m /\ line' = line + 1
          /\ pc' = "down" /\ sent' = SubSeq(sent, 1, line + 1)
          /\ UNCHANGED <<db, rows, audit, since, snapshot, changes, failures, answers>>
      BY <1>2 DEF Oversized, Take, Handles, store
    <2>2. sent \in Seq(Messages) /\ line \in Nat /\ failures \in Nat /\ changes \in Nat
      BY DEF Inv, TypeOK, Ranges
    <2>3. /\ sent' \in Seq(Messages) /\ Len(sent') = line + 1
          /\ \A n \in 1..(line + 1) : sent'[n] = sent[n]
      <3>1. 1 \in 1..(Len(sent) + 1) /\ line + 1 \in 0..Len(sent)
        BY <2>1, <2>2
      <3> QED  BY <2>1, <2>2, <3>1, SubSeqProperties
    <2>4. Begun'
      BY <2>1 DEF Begun, Busy
    <2> QED  BY <2>1, <2>2, <2>3, <2>4 DEF Handled
  <1>3. CASE RefuseArguments(m)
    BY <1>3, AnsweredIsHandled DEF RefuseArguments, Kinds
  <1>4. CASE SchemaDrift(m)
    <2>1. ~Mutates(m) /\ Take(m)
      BY <1>4 DEF SchemaDrift, Calls, Mutates
    <2>2. PICK kind \in {"toolError", "result"} : Respond(m, kind, 0)
      BY <1>4 DEF SchemaDrift
    <2> QED  BY <1>4, <2>1, <2>2, AnsweredIsHandled DEF SchemaDrift, Kinds
  <1>5. CASE AuditSearch(m)
    <2> DEFINE found == Cardinality(AuditsFound(m.target))
    <2>1. ~Mutates(m) /\ Take(m)
      BY <1>5 DEF AuditSearch, Calls, Mutates
    <2>2. found \in Nat
      <3>1. Len(audit) \in Nat
        BY DEF Inv, Ranges
      <3>2. IsFiniteSet(1..Len(audit))
        BY <3>1, FS_Interval
      <3>3. IsFiniteSet(AuditsFound(m.target))
        BY <3>2, FS_Subset DEF AuditsFound
      <3> QED  BY <3>3, FS_CardinalityType
    <2>3. Respond(m, "result", found)
      BY <1>5 DEF AuditSearch
    <2> HIDE DEF found
    <2> QED  BY <1>5, <2>1, <2>2, <2>3, AnsweredIsHandled DEF AuditSearch, Kinds
  <1>6. CASE ListOrGet(m)
    <2>1. ~Mutates(m) /\ Take(m)
      BY <1>6 DEF ListOrGet, Calls, Mutates
    <2>2. PICK kind \in {"toolError", "result"} : Respond(m, kind, 0)
      BY <1>6 DEF ListOrGet
    <2> QED  BY <1>6, <2>1, <2>2, AnsweredIsHandled DEF ListOrGet, Kinds
  <1>7. CASE ReadFails(m)
    BY <1>7, AnsweredIsHandled DEF ReadFails, Kinds
  <1>8. CASE Take(m) /\ UNCHANGED <<outside, store, failures>> /\ Refused(m)
    BY <1>8, AnsweredIsHandled DEF Refused, Kinds
  <1>9. CASE BeginCreate(m) /\ ~Refused(m)
    <2>1. /\ Take(m) /\ Mutates(m) /\ IsCreate(m) /\ UNCHANGED <<outside, store, failures>>
          /\ HasRequired(Definition, m.data) /\ Hold(m, m.data, NoRow)
      BY <1>9 DEF BeginCreate, Calls, Mutates
    <2> QED  BY <2>1, HeldIsHandled
  <1>10. CASE BeginUpdate(m) /\ ~Refused(m)
    <2> DEFINE row == rows[m.target]
               data == Changed(m, Scan(Definition, Table(db), row))
    <2>1. /\ Take(m) /\ Mutates(m) /\ ~IsCreate(m) /\ UNCHANGED <<outside, store, failures>>
          /\ GetTaken(m.target) /\ Hold(m, data, row)
      BY <1>10 DEF BeginUpdate, Calls, Mutates, IsCreate
    <2>2. m.target \in Ids /\ rows[m.target] # NoRow
      BY <2>1 DEF GetTaken
    <2> HIDE DEF data
    <2> QED  BY <2>1, <2>2, HeldIsHandled DEF data
  <1>11. CASE BeginTransition(m) /\ ~Refused(m)
    <2> DEFINE row == rows[m.target]
               data == Changed(m, Scan(Definition, Table(db), row))
    <2>1. /\ Take(m) /\ Mutates(m) /\ ~IsCreate(m) /\ UNCHANGED <<outside, store, failures>>
          /\ GetTaken(m.target) /\ Hold(m, data, row)
      BY <1>11 DEF BeginTransition, Calls, Mutates, IsCreate
    <2>2. m.target \in Ids /\ rows[m.target] # NoRow
      BY <2>1 DEF GetTaken
    <2> HIDE DEF data
    <2> QED  BY <2>1, <2>2, HeldIsHandled DEF data
  <1>12. BeginCreate(m) \/ BeginUpdate(m) \/ BeginTransition(m) =>
            Take(m) /\ UNCHANGED <<outside, store, failures>>
    BY DEF BeginCreate, BeginUpdate, BeginTransition, Calls
  <1> QED  BY <1>1, <1>2, <1>3, <1>4, <1>5, <1>6, <1>7, <1>8, <1>9, <1>10, <1>11, <1>12
           DEF Handle

\* What a change writes when the table takes it.
LEMMA TakenRow ==
    ASSUME Inv, pc = "writing", Taken, NEW i \in Written
    PROVE  /\ i \in Ids
           /\ Creates => DOMAIN InsertedRow(Definition, Table(db), held.data) = DOMAIN Table(db)
                         /\ RowFits(InsertedRow(Definition, Table(db), held.data), Table(db))
           /\ ~Creates => /\ i = Current.target /\ rows[i] # NoRow
                          /\ UpdateTaken(Definition, Table(db), held.data)
                          /\ DOMAIN UpdatedRow(Definition, rows[i], held.data) = DOMAIN Table(db)
                          /\ RowFits(UpdatedRow(Definition, rows[i], held.data), Table(db))
  <1>1. CASE Creates
    <2>1. InsertTaken(Definition, Table(db), held.data)
      BY <1>1 DEF Taken
    <2>2. RowFits(InsertedRow(Definition, Table(db), held.data), Table(db))
      BY <2>1, InsertedRowsFit
    <2>3. i \in Ids
      BY <1>1 DEF Written, FreeIds
    <2>4. DOMAIN InsertedRow(Definition, Table(db), held.data) = DOMAIN Table(db)
      BY DEF InsertedRow
    <2> QED  BY <1>1, <2>2, <2>3, <2>4
  <1>2. CASE ~Creates
    <2>1. UpdateTaken(Definition, Table(db), held.data) /\ i = Current.target /\ rows[i] # NoRow
      BY <1>2 DEF Taken, Written
    <2>2. i \in Ids
      BY <1>2, <2>1 DEF Inv, Begun
    <2>3. DOMAIN rows[i] = DOMAIN Table(db) /\ RowFits(rows[i], Table(db))
      BY <2>1, <2>2 DEF Inv, TypeOK, RowsFit
    <2>4. RowFits(UpdatedRow(Definition, rows[i], held.data), Table(db))
      BY <2>1, <2>3, UpdatedRowsFit
    <2>5. DOMAIN UpdatedRow(Definition, rows[i], held.data) = DOMAIN Table(db)
      BY <2>3 DEF UpdatedRow
    <2> QED  BY <1>2, <2>1, <2>2, <2>4, <2>5
  <1> QED  BY <1>1, <1>2

LEMMA WriteIsEnded ==
    ASSUME Inv, Write \/ WriteRefused \/ WriteFails
    PROVE  Ended
  <1>1. pc = "writing" /\ UNCHANGED <<db, sent, line, since, snapshot, changes, answers>>
    BY DEF Write, WriteRefused, WriteFails, Finish, outside
  <1>2. failures \in Nat /\ changes \in Nat
    BY DEF Inv, TypeOK
  <1>3. changes' \in Nat /\ failures' \in Nat /\ failures <= failures'
    BY <1>1, <1>2 DEF Write, WriteRefused, WriteFails
  <1>4. ASSUME Taken, NEW i \in Written, Commit(i)
        PROVE  /\ i \in Ids /\ audit' = Append(audit, [call |-> line, id |-> i])
               /\ \E row : /\ rows' = [rows EXCEPT ![i] = row]
                           /\ DOMAIN row = DOMAIN Table(db) /\ RowFits(row, Table(db))
    <2> DEFINE row == IF Creates THEN InsertedRow(Definition, Table(db), held.data)
                      ELSE UpdatedRow(Definition, rows[i], held.data)
    <2>1. rows' = [rows EXCEPT ![i] = row] /\ audit' = Append(audit, [call |-> line, id |-> i])
      BY <1>4 DEF Commit
    <2>2. i \in Ids /\ DOMAIN row = DOMAIN Table(db) /\ RowFits(row, Table(db))
      BY <1>1, <1>4, TakenRow
    <2> HIDE DEF row
    <2> QED  BY <2>1, <2>2
  <1>5. CASE Write
    <2>1. pc' = "result"
      BY <1>5 DEF Write, Finish
    <2> QED  BY <1>1, <1>3, <1>4, <1>5, <2>1 DEF Write, Ended
  <1>6. CASE WriteRefused
    <2>1. pc' = "toolError"
      BY <1>6 DEF WriteRefused, Finish
    <2> QED  BY <1>1, <1>3, <1>6, <2>1 DEF WriteRefused, Ended, store
  <1>7. CASE WriteFails
    <2>1. pc' = "toolError" /\ failures' # 0
      BY <1>2, <1>7 DEF WriteFails, Finish
    <2> QED  BY <1>1, <1>3, <1>4, <1>7, <2>1 DEF WriteFails, Ended, store
  <1> QED  BY <1>5, <1>6, <1>7

LEMMA AnswerIsAnswered ==
    ASSUME Inv, Answer
    PROVE  Answered
  <1>1. Respond(Current, pc, 0) /\ line' = line
    BY DEF Answer
  <1>2. Responded(Current, line, {pc})
    BY <1>1, RespondIs
  <1> QED  BY <1>2 DEF Answer, Answered, outside, store

LEMMA OtherStepsKeepInv ==
    ASSUME Inv, Start \/ EndOfInput \/ Crash \/ (\E m \in Messages : Send(m))
    PROVE  Inv'
  <1>1. /\ UNCHANGED <<db, rows, audit, line, answers, changes>>
    BY DEF Start, EndOfInput, Crash, Send, outside, store
  <1>2. /\ sent \in Seq(Messages) /\ line \in Nat /\ failures \in Nat /\ changes \in Nat
        /\ line <= Len(sent) /\ db \in Databases /\ DOMAIN rows = Ids
    BY DEF Inv, TypeOK, Ranges
  <1>3. failures' \in Nat /\ failures <= failures'
    BY <1>2 DEF Start, EndOfInput, Crash, Send
  <1>4. sent' \in Seq(Messages) /\ line <= Len(sent') /\ \A n \in 1..line : sent'[n] = sent[n]
    <2>1. CASE UNCHANGED sent
      BY <1>2, <2>1
    <2>2. CASE Crash
      <3>1. sent' = SubSeq(sent, 1, line) /\ 1 \in 1..(Len(sent) + 1) /\ line \in 0..Len(sent)
        BY <1>2, <2>2 DEF Crash
      <3> QED  BY <1>2, <3>1, SubSeqProperties
    <2>3. ASSUME NEW m \in Messages, Send(m)
          PROVE  sent' \in Seq(Messages) /\ line <= Len(sent') /\ \A n \in 1..line : sent'[n] = sent[n]
      <3>1. sent' = Append(sent, m)
        BY <2>3 DEF Send
      <3> QED  BY <1>2, <3>1, AppendProperties
    <2> QED  BY <2>1, <2>2, <2>3 DEF Start, EndOfInput, outside
  <1>5. \/ pc' = pc /\ since' = since /\ snapshot' = snapshot /\ held' = held
        \/ pc' = "down" /\ since' = since
        \/ pc' = "ready" /\ since' = line /\ snapshot' \in Databases
    BY <1>2 DEF Start, EndOfInput, Crash, Send, outside
  <1>6. Elsewhere
    BY <1>1, <1>2, <1>3, <1>4, <1>5 DEF Elsewhere
  <1>7. \A i \in Ids : rows'[i] # NoRow =>
           DOMAIN rows'[i] = DOMAIN Table(db') /\ RowFits(rows'[i], Table(db'))
    BY <1>1 DEF Inv, TypeOK, RowsFit
  <1> QED  BY <1>1, <1>2, <1>6, <1>7, ElsewhereKeepsInv

LEMMA MigrateKeepsInv ==
    ASSUME Inv, Migrate
    PROVE  Inv'
  <1>1. PICK d \in Databases \ {db} :
           /\ db' = d
           /\ rows' = [i \in Ids |-> IF rows[i] = NoRow \/ DOMAIN Table(d) = {} THEN NoRow
                                     ELSE Migrated(rows[i], Table(d))]
           /\ \A i \in Ids : rows'[i] # NoRow =>
                 \A c \in DOMAIN rows'[i] : rows'[i][c] = Null => Table(d)[c].nullable
    BY DEF Migrate
  <1>2. /\ UNCHANGED <<audit, sent, line, since, answers, pc, snapshot, held, failures>>
        /\ changes' = changes + 1
    BY DEF Migrate
  <1>3. /\ sent \in Seq(Messages) /\ line \in Nat /\ failures \in Nat /\ changes \in Nat
        /\ line <= Len(sent)
    BY DEF Inv, TypeOK, Ranges
  <1>4. Elsewhere
    BY <1>2, <1>3 DEF Elsewhere
  <1>5. ASSUME NEW i \in Ids, rows'[i] # NoRow
        PROVE  DOMAIN rows'[i] = DOMAIN Table(d) /\ RowFits(rows'[i], Table(d))
    <2>1. rows[i] # NoRow /\ rows'[i] = Migrated(rows[i], Table(d))
      BY <1>1, <1>5
    <2>2. DOMAIN rows'[i] = DOMAIN Table(d)
      BY <2>1 DEF Migrated
    <2>3. ASSUME NEW c \in DOMAIN Table(d)  PROVE rows'[i][c] # Misfit
      <3>1. CASE c \in DOMAIN rows[i]
        <4>1. rows'[i][c] = rows[i][c]
          BY <2>1, <3>1 DEF Migrated
        <4>2. c \in DOMAIN Table(db) /\ RowFits(rows[i], Table(db))
          BY <2>1, <3>1 DEF Inv, TypeOK, RowsFit
        <4> QED  BY <4>1, <4>2 DEF RowFits
      <3>2. CASE c \notin DOMAIN rows[i]
        <4>1. rows'[i][c] \in {Opaque, Null}
          BY <2>1, <3>2 DEF Migrated
        <4> QED  BY <4>1, ValueAssumption
      <3> QED  BY <3>1, <3>2
    <2> QED  BY <1>1, <1>5, <2>2, <2>3 DEF RowFits
  <1>6. DOMAIN rows' = Ids
    BY <1>1
  <1> QED  BY <1>1, <1>4, <1>5, <1>6, ElsewhereKeepsInv

LEMMA EditElsewhereKeepsInv ==
    ASSUME Inv, NEW i \in Ids, EditElsewhere(i)
    PROVE  Inv'
  <1>1. /\ UNCHANGED <<db, sent, line, since, answers, pc, snapshot, held, failures>>
        /\ changes' = changes + 1 /\ audit' = Append(audit, [call |-> 0, id |-> i])
        /\ rows[i] # NoRow
    BY DEF EditElsewhere
  <1>2. /\ sent \in Seq(Messages) /\ line \in Nat /\ failures \in Nat /\ changes \in Nat
        /\ line <= Len(sent) /\ db \in Databases /\ DOMAIN rows = Ids
    BY DEF Inv, TypeOK, Ranges
  <1>3. Elsewhere
    BY <1>1, <1>2 DEF Elsewhere
  <1>4. \A j \in Ids : rows[j] # NoRow =>
           DOMAIN rows[j] = DOMAIN Table(db) /\ RowFits(rows[j], Table(db))
    BY DEF Inv, TypeOK, RowsFit
  <1>5. PICK row : /\ rows' = [rows EXCEPT ![i] = row]
                   /\ row = NoRow \/ \E c \in DOMAIN rows[i] : row = [rows[i] EXCEPT ![c] = Opaque]
    BY DEF EditElsewhere
  <1>6. row # NoRow => DOMAIN row = DOMAIN Table(db) /\ RowFits(row, Table(db))
    <2>1. SUFFICES ASSUME NEW c \in DOMAIN rows[i], row = [rows[i] EXCEPT ![c] = Opaque]
                   PROVE  DOMAIN row = DOMAIN Table(db) /\ RowFits(row, Table(db))
      BY <1>5
    <2> QED  BY <1>1, <1>4, <2>1, ValueAssumption DEF RowFits
  <1>7. DOMAIN rows' = Ids /\ rows'[i] = row /\ \A j \in Ids \ {i} : rows'[j] = rows[j]
    BY <1>2, <1>5
  <1>8. \A j \in Ids : rows'[j] # NoRow =>
           DOMAIN rows'[j] = DOMAIN Table(db) /\ RowFits(rows'[j], Table(db))
    BY <1>4, <1>6, <1>7
  <1> QED  BY <1>1, <1>2, <1>3, <1>7, <1>8, ElsewhereKeepsInv

----------------------------------------------------------------------------
(* The specification.                                                      *)

LEMMA InitInv == Init => Inv
  <1> SUFFICES ASSUME Init  PROVE Inv
    OBVIOUS
  <1>1. PICK some \in SUBSET Ids :
           rows = [i \in Ids |-> IF i \notin some THEN NoRow ELSE
                     [c \in DOMAIN Table(db) |->
                         IF Table(db)[c].nullable THEN Null ELSE Opaque]]
    BY DEF Init
  <1>2. \A i \in Ids : rows[i] # NoRow =>
           /\ DOMAIN rows[i] = DOMAIN Table(db)
           /\ \A c \in DOMAIN Table(db) :
                 rows[i][c] = IF Table(db)[c].nullable THEN Null ELSE Opaque
    BY <1>1
  <1>3. RowsFit
    BY <1>2, ValueAssumption DEF RowsFit, RowFits
  <1>4. Ranges
    BY <1>1 DEF Init, Ranges
  <1>5. TypeOK
    BY <1>2 DEF Init, TypeOK
  <1>6. Begun
    BY DEF Init, Begun, Busy
  <1>7. Logs
    BY DEF Init, Logs, Behind, AnswersInOrder, Once, Told, Owed
  <1> QED  BY <1>3, <1>4, <1>5, <1>6, <1>7 DEF Inv

LEMMA UnchangedKeepsInv ==
    ASSUME Inv, UNCHANGED vars
    PROVE  Inv'
  <1>1. UNCHANGED <<db, rows, audit, sent, line, since, answers, pc, snapshot, held, failures, changes>>
    BY DEF vars
  <1>2. /\ sent \in Seq(Messages) /\ line \in Nat /\ failures \in Nat /\ changes \in Nat
        /\ line <= Len(sent) /\ db \in Databases /\ DOMAIN rows = Ids
    BY DEF Inv, TypeOK, Ranges
  <1>3. Elsewhere
    BY <1>1, <1>2 DEF Elsewhere
  <1>4. \A i \in Ids : rows'[i] # NoRow =>
           DOMAIN rows'[i] = DOMAIN Table(db') /\ RowFits(rows'[i], Table(db'))
    BY <1>1 DEF Inv, TypeOK, RowsFit
  <1> QED  BY <1>1, <1>2, <1>3, <1>4, ElsewhereKeepsInv

LEMMA NextKeepsInv == Inv /\ [Next]_vars => Inv'
  <1> SUFFICES ASSUME Inv, [Next]_vars  PROVE Inv'
    OBVIOUS
  <1>1. CASE UNCHANGED vars
    BY <1>1, UnchangedKeepsInv
  <1>2. CASE Start \/ EndOfInput \/ Crash \/ \E m \in Messages : Send(m)
    BY <1>2, OtherStepsKeepInv
  <1>3. CASE Migrate
    BY <1>3, MigrateKeepsInv
  <1>4. ASSUME NEW i \in Ids, EditElsewhere(i)  PROVE Inv'
    BY <1>4, EditElsewhereKeepsInv
  <1>5. ASSUME NEW m \in Messages, Handle(m)  PROVE Inv'
    BY <1>5, HandleIsHandled, HandledKeepsLogs
  <1>6. CASE Write \/ WriteRefused \/ WriteFails
    BY <1>6, WriteIsEnded, EndedKeepsInv
  <1>7. CASE Answer
    BY <1>7, AnswerIsAnswered, AnsweredKeepsInv
  <1> QED  BY <1>1, <1>2, <1>3, <1>4, <1>5, <1>6, <1>7 DEF Next

LEMMA InvImplies == Inv => TypeOK /\ AnswersInOrder /\ AnswersAgreeWithAudit
  <1> SUFFICES ASSUME Inv  PROVE AnswersAgreeWithAudit
    BY DEF Inv, Logs
  <1> USE DEF Inv, Logs
  <1>1. line \in Nat
    BY DEF Ranges
  <1>2. ASSUME NEW n \in 1..line
        PROVE  Cardinality(Entries(n)) <= 1 /\ (Entries(n) # {} => Mutates(sent[n]))
    <2>1. n # 0
      BY <1>1
    <2>2. \A e, f \in Entries(n) : e = f
      BY <2>1 DEF Entries, Once
    <2>3. CASE Entries(n) = {}
      BY <2>3, FS_EmptySet
    <2>4. CASE Entries(n) # {}
      <3>1. PICK e : e \in Entries(n)
        BY <2>4
      <3>2. Entries(n) = {e}
        BY <2>2, <3>1
      <3>3. Cardinality(Entries(n)) = 1
        BY <3>2, FS_Singleton
      <3>4. Mutates(sent[n])
        BY <2>1, <3>1 DEF Entries, Once
      <3> QED  BY <3>3, <3>4
    <2> QED  BY <2>3, <2>4
  <1>3. \A j \in DOMAIN answers : Mutates(sent[answers[j].to]) =>
           /\ answers[j].kind = "result" => Entries(answers[j].to) # {}
           /\ answers[j].kind # "result" /\ failures = 0 => Entries(answers[j].to) = {}
    BY DEF Told, Entries
  <1> QED  BY <1>2, <1>3 DEF AnswersAgreeWithAudit

\* The invariant holds throughout.
THEOREM InvAlways == Spec => []Inv
  BY InitInv, NextKeepsInv, PTL DEF Spec

\* Types.
THEOREM McpServerTypeOK == Spec => []TypeOK
  BY InvAlways, InvImplies, PTL

\* Every line that wants an answer has one, in its order (server.go:42-80).
THEOREM AnswersKeepTheOrder == Spec => []AnswersInOrder
  BY InvAlways, InvImplies, PTL

\* What the agent was told is what the audit log knows (service.go:164-178).
THEOREM AuditKnowsTheAnswers == Spec => []AnswersAgreeWithAudit
  BY InvAlways, InvImplies, PTL

----------------------------------------------------------------------------
(* Changes.                                                                *)

\* Only the three ends of a transaction lead from writing to an outcome.
LEMMA EndingSteps ==
    ASSUME [Next]_vars, pc = "writing", pc' \in Outcomes
    PROVE  Write \/ WriteRefused \/ WriteFails
  <1>1. ~UNCHANGED vars
    BY DEF vars, Outcomes
  <1>2. /\ ~Start /\ ~EndOfInput /\ ~Crash /\ ~Migrate /\ ~Answer
        /\ \A i \in Ids : ~EditElsewhere(i)
    BY DEF Start, EndOfInput, Crash, Migrate, EditElsewhere, Answer, Outcomes
  <1>3. \A m \in Messages : ~Send(m)
    BY DEF Send, Outcomes
  <1>4. \A m \in Messages : ~Handle(m)
    BY DEF Handle, Control, Oversized, RefuseArguments, SchemaDrift, AuditSearch, ListOrGet,
           ReadFails, BeginCreate, BeginUpdate, BeginTransition, Calls, Take, Handles
  <1> QED  BY <1>1, <1>2, <1>3, <1>4 DEF Next

\* What a change of a record holds of a field it does not name is what the row has.
LEMMA HeldUnnamed ==
    ASSUME Inv, pc = "writing", ~Creates, NoShadowing(Definition, Table(held.db)),
           NEW n \in DOMAIN Definition.fields,
           Definition.fields[n].column \in DOMAIN Table(held.db),
           ~(Current.tool = "mutate" /\ n \in DOMAIN Current.data)
    PROVE  held.data[n] = held.row[Definition.fields[n].column]
  <1> DEFINE c == Definition.fields[n].column
             scanned == Scan(Definition, Table(held.db), held.row)
  <1>1. /\ held.db \in Databases
        /\ held.data = Changed(Current, scanned)
    BY DEF Inv, Begun
  <1>2. Table(held.db)[c].position \in Nat
    BY <1>1, SchemaAssumption DEF Table
  <1>3. n \in DOMAIN scanned /\ scanned[n] = held.row[c]
    BY <1>2, FieldsReadTheirColumns
  <1> HIDE DEF scanned
  <1>4. CASE Current.tool = "mutate"
    BY <1>1, <1>3, <1>4 DEF Changed, Merge
  <1>5. CASE Current.tool # "mutate"
    BY <1>1, <1>3, <1>5 DEF Changed
  <1> QED  BY <1>4, <1>5

LEMMA StepKeepsUnnamed ==
    ASSUME \A m, n \in DOMAIN Definition.fields :
               Definition.fields[m].column = Definition.fields[n].column => m = n,
           Inv, [Next]_vars
    PROVE  UnnamedKept
  <1>1. SUFFICES ASSUME ChangeCommits, held.row = rows[Current.target], held.db = db,
                        NoShadowing(Definition, Table(db)),
                        NEW n \in DOMAIN Definition.fields,
                        ~(/\ Current.tool = "mutate" /\ n \in DOMAIN Current.data
                          /\ ~Definition.fields[n].readonly),
                        Definition.fields[n].column \in DOMAIN Table(db)
                 PROVE  rows'[Current.target][Definition.fields[n].column]
                            = rows[Current.target][Definition.fields[n].column]
    BY DEF UnnamedKept
  <1> DEFINE c == Definition.fields[n].column
             names == Assigned(Definition, held.data)
             row == rows[Current.target]
             new == UpdatedRow(Definition, row, held.data)
  <1>2. Write \/ WriteFails
    <2>1. ~WriteRefused
      BY <1>1 DEF ChangeCommits, WriteRefused, store
    <2> QED  BY <1>1, <2>1, EndingSteps DEF ChangeCommits
  <1>3. Commit(Current.target)
    <2>1. ~Creates /\ audit' # audit
      BY <1>1 DEF ChangeCommits
    <2> QED  BY <1>2, <2>1 DEF Write, WriteFails, Written, store
  <1>4. /\ Current.target \in Ids /\ DOMAIN rows = Ids
        /\ DOMAIN row = DOMAIN Table(db)
    BY <1>1 DEF Inv, Begun, Ranges, ChangeCommits
  <1>5. rows'[Current.target] = new
    BY <1>1, <1>3, <1>4 DEF Commit, ChangeCommits
  <1>6. CASE c \notin ColumnsOf(Definition, names)
    BY <1>1, <1>4, <1>5, <1>6 DEF UpdatedRow
  <1>7. CASE c \in ColumnsOf(Definition, names)
    <2>1. /\ FieldIn(Definition, names, c) \in names
          /\ Definition.fields[FieldIn(Definition, names, c)].column = c
      BY <1>7, FieldInColumn
    <2>2. FieldIn(Definition, names, c) = n /\ n \in names
      BY <2>1 DEF Assigned, Inserted
    <2>3. ~(Current.tool = "mutate" /\ n \in DOMAIN Current.data)
      BY <1>1, <2>2 DEF Assigned
    <2>4. held.data[n] = held.row[c]
      BY <1>1, <2>3, HeldUnnamed DEF ChangeCommits
    <2>5. new[c] = held.data[n]
      BY <1>1, <1>4, <1>7, <2>2 DEF UpdatedRow
    <2> QED  BY <1>1, <1>5, <2>4, <2>5
  <1> QED  BY <1>6, <1>7

\* When no two fields live in one column, a change leaves the fields it does not
\* name, and the readonly ones, as they were (content_repository.go:158-167).
THEOREM ChangesKeepTheRest ==
    ASSUME \A m, n \in DOMAIN Definition.fields :
               Definition.fields[m].column = Definition.fields[n].column => m = n
    PROVE  Spec => UnnamedFieldsStay
  <1>1. Inv /\ [Next]_vars => [UnnamedKept]_vars
    BY StepKeepsUnnamed
  <1> QED  BY <1>1, InvAlways, PTL DEF Spec, UnnamedFieldsStay

\* What a change holds fits the columns it goes to.
LEMMA HeldFits ==
    ASSUME Inv, pc = "writing", held.db = db, NoShadowing(Definition, Table(db)), ArgumentsFit,
           NEW n \in DOMAIN Definition.fields, n \in DOMAIN held.data,
           Definition.fields[n].column \in DOMAIN Table(db)
    PROVE  Fits(Table(db)[Definition.fields[n].column], held.data[n])
  <1> DEFINE c == Definition.fields[n].column
             scanned == Scan(Definition, Table(held.db), held.row)
  <1>1. n \in DOMAIN Current.data => Fits(Table(db)[c], Current.data[n])
    BY DEF ArgumentsFit
  <1>2. CASE Creates
    BY <1>1, <1>2 DEF Inv, Begun
  <1>3. CASE ~Creates /\ Current.tool = "mutate" /\ n \in DOMAIN Current.data
    <2>1. held.data = Merge(scanned, Current.data)
      BY <1>3 DEF Inv, Begun, Changed
    <2>2. held.data[n] = Current.data[n]
      BY <1>3, <2>1 DEF Merge
    <2> QED  BY <1>1, <1>3, <2>2
  <1>4. CASE ~Creates /\ ~(Current.tool = "mutate" /\ n \in DOMAIN Current.data)
    <2>1. held.data[n] = held.row[c]
      BY <1>4, HeldUnnamed
    <2>2. RowFits(held.row, Table(db))
      BY <1>4 DEF Inv, Begun
    <2> QED  BY <2>1, <2>2 DEF RowFits, Fits
  <1> QED  BY <1>2, <1>3, <1>4

LEMMA StepCarriesOut ==
    ASSUME Inv, [Next]_vars
    PROVE  CarriedOut
  <1>1. SUFFICES ASSUME pc = "writing", pc' \in Outcomes, failures' = failures,
                        IsValid(Definition, Schema[db]), Adequate(Definition, Table(db)),
                        NoShadowing(Definition, Table(db)),
                        held.db = db, ArgumentsFit,
                        Creates \/ rows[Current.target] # NoRow
                 PROVE  audit' # audit
    BY DEF CarriedOut
  <1>2. ~WriteFails
    <2>1. failures \in Nat
      BY DEF Inv, TypeOK
    <2> QED  BY <1>1, <2>1 DEF WriteFails
  <1>3. /\ FieldErrors(Definition, Table(db)) = {}
        /\ LifecycleErrors(Definition, Table(db)) = {}
    BY <1>1 DEF IsValid, Table
  <1>4. /\ \A n \in DOMAIN Definition.fields : Definition.fields[n].column \in DOMAIN Table(db)
        /\ ~Unsure
    BY <1>1, <1>3, ValidColumns DEF Unsure
  <1>5. \A n \in DOMAIN Definition.fields \cap DOMAIN held.data :
           Fits(Table(db)[Definition.fields[n].column], held.data[n])
    BY <1>1, <1>4, HeldFits
  <1>6. Taken
    <2>1. CASE Creates
      <3>1. HasRequired(Definition, held.data)
        BY <1>1, <2>1 DEF Inv, Begun
      <3>2. \A n \in Inserted(Definition, held.data) :
               Fits(Table(db)[Definition.fields[n].column], held.data[n])
        BY <1>5 DEF Inserted
      <3> QED  BY <1>1, <1>3, <2>1, <3>1, <3>2, ValidTablesTakeInserts DEF Taken
    <2>2. CASE ~Creates
      <3>1. \A n \in Assigned(Definition, held.data) :
               Fits(Table(db)[Definition.fields[n].column], held.data[n])
        BY <1>5 DEF Assigned, Inserted
      <3>2. Suits(Table(held.db), {"id"})
        BY <1>1, AdequateSuits
      <3> QED  BY <1>1, <1>3, <2>2, <3>1, <3>2, ValidTablesTakeUpdates DEF Taken
    <2> QED  BY <2>1, <2>2
  <1>7. Write
    <2>1. ~WriteRefused
      BY <1>4, <1>6 DEF WriteRefused
    <2> QED  BY <1>1, <1>2, <2>1, EndingSteps
  <1>8. PICK e : audit' = Append(audit, e)
    BY <1>7 DEF Write, Commit
  <1>9. Len(audit') = Len(audit) + 1 /\ Len(audit) \in Nat
    BY <1>8 DEF Inv, Ranges
  <1> QED  BY <1>9

\* A table that passed the validator, and has what the validator does not look at,
\* takes every change with proper arguments (validator.go:39-125).
THEOREM ValidationIsWorth == Spec => AdequateTablesTakeChanges
  <1>1. Inv /\ [Next]_vars => [CarriedOut]_vars
    BY StepCarriesOut
  <1> QED  BY <1>1, InvAlways, PTL DEF Spec, AdequateTablesTakeChanges

=============================================================================
