-------------------------- MODULE SchemaValidator --------------------------
(**************************************************************************)
(* A resource definition and the table it describes: what the parser      *)
(* accepts of a definition (pkg/schema), what introspection reads and     *)
(* what the validator says of it (pkg/introspection, inspector.go,        *)
(* pkg/validator), and what the statements of the PostgreSQL adapter make *)
(* of both (content_repository.go): which the database refuses, what a    *)
(* row becomes, and what a record reads from a row.                       *)
(*                                                                        *)
(* A definition is a record [table, managed, statusColumn, versionColumn, *)
(* fields], its fields by name [type, column, required, readonly].  A     *)
(* table maps its columns to [type, nullable, default, position].         *)
(**************************************************************************)
EXTENDS Naturals

CONSTANTS
    Null,      \* SQL NULL, and a JSON null in the arguments of a call
    Misfit,    \* a value no column of the table takes
    Opaque     \* what a column holds that no field is about

ASSUME ValueAssumption == Null # Misfit /\ Misfit # Opaque /\ Null # Opaque

----------------------------------------------------------------------------
(* Definitions.                                                            *)

\* The types of information_schema.columns a field of each type may be kept in.
\* (varchar, char and decimal are accepted too, names that view never gives.)
CompatibleTypes ==
    [uuid      |-> {"uuid"},
     string    |-> {"character varying", "text", "character"},
     text      |-> {"text", "character varying"},
     integer   |-> {"integer", "bigint", "smallint"},
     float     |-> {"double precision", "real", "numeric"},
     boolean   |-> {"boolean"},
     datetime  |-> {"timestamp with time zone", "timestamp without time zone"},
     json      |-> {"json", "jsonb"},
     enum      |-> {"USER-DEFINED", "text", "character varying"},
     reference |-> {"uuid", "bigint", "integer"},
     media     |-> {"uuid", "character varying", "text"}]

FieldTypes == DOMAIN CompatibleTypes

IsTypeCompatible(fieldType, type) ==
    fieldType \in FieldTypes /\ type \in CompatibleTypes[fieldType]

\* What Validate asks, the name "none" standing for an empty one: a type that is
\* misspelt, or two fields in one column, pass.
ValidDefinition(def) ==
    /\ def.managed => def.statusColumn # "none" /\ def.versionColumn # "none"
    /\ DOMAIN def.fields # {}

LifecycleColumns(def) ==
    IF def.managed THEN {def.statusColumn, def.versionColumn} ELSE {}

Required(def) == {n \in DOMAIN def.fields : def.fields[n].required}

\* validateRequiredFields.
HasRequired(def, data) ==
    \A n \in Required(def) : n \in DOMAIN data /\ data[n] # Null

\* The input the OpenAPI document describes for a creation, and what it asks for.
InputFields(def) == {n \in DOMAIN def.fields : ~def.fields[n].readonly /\ n # "id"}
InputRequired(def) == InputFields(def) \cap Required(def)

----------------------------------------------------------------------------
(* Introspection.  A database maps the names of its tables to tables.      *)

\* An empty list of names asks for every table.
ReadSchema(db, names) ==
    [t \in (IF names = {} THEN DOMAIN db ELSE DOMAIN db \cap names) |-> db[t]]

\* The type the in-memory schema of demo mode gives to a field's column.
MockType(fieldType) ==
    CASE fieldType \in {"uuid", "reference", "media"} -> "uuid"
      [] fieldType = "string"   -> "character varying"
      [] fieldType = "integer"  -> "bigint"
      [] fieldType = "float"    -> "double precision"
      [] fieldType = "boolean"  -> "boolean"
      [] fieldType = "datetime" -> "timestamp with time zone"
      [] fieldType = "json"     -> "jsonb"
      [] OTHER                  -> "text"

\* The table built for def: of two fields in one column either may win, and the
\* lifecycle columns win over both.
IsMockTable(table, def) ==
    /\ DOMAIN table = {def.fields[n].column : n \in DOMAIN def.fields} \cup LifecycleColumns(def)
    /\ \A c \in DOMAIN table \ LifecycleColumns(def) : \E n \in DOMAIN def.fields :
          /\ def.fields[n].column = c
          /\ table[c].type = MockType(def.fields[n].type)
          /\ table[c].nullable = ~def.fields[n].required
    /\ def.managed => /\ table[def.versionColumn].type = "bigint"
                      /\ def.statusColumn # def.versionColumn =>
                            table[def.statusColumn].type = "text"

----------------------------------------------------------------------------
(* The validator.                                                          *)

\* MUTANT of FieldErrors: a column that is there is taken for a fit.
FieldErrorsUntyped(def, table) ==
    {n \in DOMAIN def.fields : def.fields[n].column \notin DOMAIN table}

FieldErrors(def, table) ==
    {n \in DOMAIN def.fields :
        \/ def.fields[n].column \notin DOMAIN table
        \/ ~IsTypeCompatible(def.fields[n].type, table[def.fields[n].column].type)}

\* The column's name and what it should have been.
LifecycleErrors(def, table) ==
    IF ~def.managed THEN {}
    ELSE {e \in {<<def.statusColumn, "string">>, <<def.versionColumn, "integer">>} :
             e[1] \notin DOMAIN table \/ ~IsTypeCompatible(e[2], table[e[1]].type)}

\* Validate(def, db).IsValid(): the result holds no error.
IsValid(def, db) ==
    /\ def.table \in DOMAIN db
    /\ FieldErrors(def, db[def.table]) = {}
    /\ LifecycleErrors(def, db[def.table]) = {}

\* ValidateAll(definitions, db).IsValid().
ValidateAll(definitions, db) == \A def \in definitions : IsValid(def, db)

\* `cms validate` reads the tables of the definitions and exits with 1 unless:
ValidateSucceeds(definitions, db) ==
    ValidateAll(definitions, ReadSchema(db, {def.table : def \in definitions}))

----------------------------------------------------------------------------
(* Statements.  data maps the names of fields, and other names, to values. *)

\* The fields a statement gives a value.
Inserted(def, data) == (DOMAIN def.fields \ {"id"}) \cap DOMAIN data

\* MUTANT of Assigned: a readonly field is assigned as any other.
AssignedReadonlyToo(def, data) == Inserted(def, data)

Assigned(def, data) == {n \in Inserted(def, data) : ~def.fields[n].readonly}

ColumnsOf(def, names) == {def.fields[n].column : n \in names}

\* names and the columns the adapter adds on its own: one column, one value.
NoneTwice(def, names, own) ==
    /\ \A m, n \in names : def.fields[m].column = def.fields[n].column => m = n
    /\ ColumnsOf(def, names) \cap (own \cup LifecycleColumns(def)) = {}
    /\ own \cap LifecycleColumns(def) = {}
    /\ def.managed => def.statusColumn # def.versionColumn

\* The columns the adapter fills on its own, by the types it can: id with a UUID
\* that must come back as a string, updated_at with NOW().  Some types do so for
\* certain; with the others a length or a type of the database's own decides.
CertainTypes ==
    [id         |-> {"uuid", "text"},
     updated_at |-> {"timestamp with time zone", "timestamp without time zone", "date",
                     "time with time zone", "time without time zone", "text"}]

PossibleTypes ==
    [id         |-> {"character varying", "character", "name", "bytea", "USER-DEFINED"},
     updated_at |-> {"character varying", "character", "name", "USER-DEFINED"}]

\* Any other type refuses the value; an id in it is never read into the record.
Suits(table, own) ==
    \A c \in own : c \in DOMAIN table /\ table[c].type \in CertainTypes[c] \cup PossibleTypes[c]

InsertOwn == {"id"}
UpdateOwn == {"id", "updated_at"}

Fits(column, value) == value # Misfit /\ (value = Null => column.nullable)

\* What the database asks of every statement, whatever its fields' columns are of.
\* Unique columns, checks, references, generated columns and lengths are left out.
Takes(def, table, data, names, own) ==
    /\ NoneTwice(def, names, own)
    /\ ColumnsOf(def, names) \cup own \cup LifecycleColumns(def) \subseteq DOMAIN table
    /\ \A n \in names : Fits(table[def.fields[n].column], data[n])

InsertTaken(def, table, data) ==
    /\ Suits(table, InsertOwn)
    /\ Takes(def, table, data, Inserted(def, data), {"id"})
    /\ \A c \in DOMAIN table \ (ColumnsOf(def, Inserted(def, data)) \cup {"id"}
                                    \cup LifecycleColumns(def)) :
          table[c].nullable \/ table[c].default

\* The row is the one whose id is the record's, which was read from the row.
UpdateTaken(def, table, data) ==
    /\ Suits(table, UpdateOwn)
    /\ Takes(def, table, data, Assigned(def, data), {"updated_at"})

\* The list is sorted by created_at, and filtered by the status column if asked.
ListTaken(def, table, filtered) ==
    /\ "created_at" \in DOMAIN table
    /\ filtered /\ def.managed => def.statusColumn \in DOMAIN table

\* Values go to columns of a type they were not meant for: PostgreSQL may
\* refuse or convert them.
Doubtful(def, table, own) ==
    \/ \E n \in DOMAIN def.fields :
          /\ def.fields[n].column \in DOMAIN table
          /\ ~IsTypeCompatible(def.fields[n].type, table[def.fields[n].column].type)
    \/ LifecycleErrors(def, table) # {}
    \/ \E c \in own \cap DOMAIN table : table[c].type \in PossibleTypes[c]

FieldIn(def, names, c) == CHOOSE n \in names : def.fields[n].column = c

InsertedRow(def, table, data) ==
    LET names == Inserted(def, data) IN
    [c \in DOMAIN table |->
        IF c \in ColumnsOf(def, names) THEN data[FieldIn(def, names, c)]
        ELSE IF c \in {"id"} \cup LifecycleColumns(def) \/ table[c].default THEN Opaque
        ELSE Null]

UpdatedRow(def, row, data) ==
    LET names == Assigned(def, data) IN
    [c \in DOMAIN row |->
        IF c \in ColumnsOf(def, names) THEN data[FieldIn(def, names, c)] ELSE row[c]]

\* scanRecord: a column is read into the fields that name it, then under its own
\* name; columns come in the order of their positions, and the last one stays.
Writers(def, table, n) ==
    {c \in DOMAIN table : c = n \/ (n \in DOMAIN def.fields /\ def.fields[n].column = c)}

Scan(def, table, row) ==
    [n \in {m \in DOMAIN table \cup DOMAIN def.fields : Writers(def, table, m) # {}} |->
        row[CHOOSE c \in Writers(def, table, n) :
               \A d \in Writers(def, table, n) : table[d].position <= table[c].position]]

\* Merge of the arguments of a call into the record that was read.
Merge(base, data) ==
    [n \in DOMAIN base \cup DOMAIN data |-> IF n \in DOMAIN data THEN data[n] ELSE base[n]]

----------------------------------------------------------------------------
(* What the validator does not look at and the statements need.            *)

\* No column is named as a field that lives in another one.
NoShadowing(def, table) ==
    \A n \in DOMAIN def.fields : n \in DOMAIN table => n = def.fields[n].column

\* Every column has one owner, the columns the adapter relies on are there and of
\* a type it can fill, and a column nobody is bound to fill can do without.
Adequate(def, table) ==
    LET own == {"id", "created_at", "updated_at"} IN
    /\ NoneTwice(def, DOMAIN def.fields \ {"id"}, own)
    /\ own \subseteq DOMAIN table
    /\ \A c \in UpdateOwn : table[c].type \in CertainTypes[c]
    /\ \A c \in DOMAIN table \ (ColumnsOf(def, Required(def) \ {"id"}) \cup {"id"}
                                    \cup LifecycleColumns(def)) :
          table[c].nullable \/ table[c].default

============================================================================
