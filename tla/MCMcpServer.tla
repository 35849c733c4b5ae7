---------------------------- MODULE MCMcpServer ----------------------------
(* Instances of McpServer for TLC.                                         *)
EXTENDS McpServer, TLC

CONSTANTS a, v

Field(type, column, required, readonly) ==
    [type |-> type, column |-> column, required |-> required, readonly |-> readonly]

\* An article: the note is kept in a column of another name.
Article ==
    [table |-> "articles", managed |-> TRUE,
     statusColumn |-> "cms_status", versionColumn |-> "cms_version",
     fields |-> [id    |-> Field("reference", "id", FALSE, TRUE),
                 title |-> Field("string", "title", TRUE, FALSE),
                 note  |-> Field("text", "content", FALSE, FALSE),
                 slug  |-> Field("string", "slug", FALSE, TRUE)]]

Column(type, nullable, default, position) ==
    [type |-> type, nullable |-> nullable, default |-> default, position |-> position]

Bare ==
    [id |-> Column("uuid", FALSE, FALSE, 1), title |-> Column("text", FALSE, FALSE, 2),
     content |-> Column("text", TRUE, FALSE, 3), slug |-> Column("text", TRUE, FALSE, 4),
     cms_status |-> Column("text", FALSE, TRUE, 5),
     cms_version |-> Column("bigint", FALSE, TRUE, 6)]

Stamped ==
    Bare @@ [created_at |-> Column("timestamp with time zone", FALSE, TRUE, 7),
             updated_at |-> Column("timestamp with time zone", FALSE, TRUE, 8)]

Shadowed == Stamped @@ [note |-> Column("text", TRUE, FALSE, 9)]

Owned == Stamped @@ [owner |-> Column("text", FALSE, FALSE, 9)]

\* The id is a number: a reference for the validator.
Numbered == [Stamped EXCEPT !.id.type = "bigint"]

Mistyped == [Stamped EXCEPT !.content.type = "integer"]

Tables ==
    "stamped"  :> [articles |-> Stamped, others |-> Bare] @@
    "bare"     :> [articles |-> Bare] @@
    "shadowed" :> [articles |-> Shadowed] @@
    "owned"    :> [articles |-> Owned] @@
    "mistyped" :> [articles |-> Mistyped] @@
    "numbered" :> [articles |-> Numbered] @@
    "missing"  :> [others |-> Bare]

Line(method, hasId) ==
    [method |-> method, hasId |-> hasId, tool |-> "none", given |-> {},
     target |-> NoId, data |-> <<>>]

Call(tool, target, data) ==
    [method |-> "tools/call", hasId |-> TRUE, tool |-> tool, target |-> target, data |-> data,
     given |-> {"resource"} \cup (IF target = NoId THEN {} ELSE {"id"})]

Transition(id) == [Call("publish", id, <<>>) EXCEPT !.given = @ \cup {"action"}]

AgentMessages ==
    {Line("ping", TRUE), Line("notifications/initialized", FALSE), Line("unknown", FALSE),
     Line("oversized", FALSE), Call("unparsable", NoId, <<>>),
     Call("drift", NoId, <<>>), Call("search", a, <<>>), Call("list", NoId, <<>>),
     Call("get", a, <<>>), Call("publish", a, <<>>),
     Call("mutate", NoId, [title |-> v]), Call("mutate", NoId, [note |-> v]),
     [Call("mutate", NoId, [title |-> v, note |-> v]) EXCEPT !.hasId = FALSE],
     Call("mutate", a, [title |-> v, slug |-> v]),
     Call("mutate", a, [title |-> v, note |-> Misfit]),
     Transition(a)}

SearchMessages ==
    {Call("mutate", NoId, [title |-> v]), Call("search", NoId, <<>>)}

============================================================================
