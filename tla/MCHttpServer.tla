--------------------------- MODULE MCHttpServer ---------------------------
(* Instances of HttpServer for TLC.                                        *)
EXTENDS HttpServer, TLC

CONSTANTS k1, k2, s1, s2, x, here, localhost, elsewhere

Symmetry == Permutations(Sessions)

OnHost(host) == [scheme |-> "https", host |-> host]

Plain(role, method, shape) ==
    [role |-> role, method |-> method, shape |-> shape, credential |-> NoCredential,
     login |-> TRUE, https |-> TRUE, host |-> here, fetchSite |-> "none",
     origin |-> NoUrl, referer |-> NoUrl, target |-> x, complete |-> TRUE,
     permission |-> "none"]

\* REST requests, each with every credential.
Rest(role, method, shape) ==
    {[Plain(role, method, shape) EXCEPT !.credential = c] :
        c \in Keys \cup {StaticKey, NoCredential}}

\* An Admin UI request as a browser sends it from one of its own pages.
Admin(role, method, shape) ==
    [Plain(role, method, shape) EXCEPT !.origin = OnHost(here)]

AskForKey(permission) ==
    [Admin("admin", "POST", "adminKeys") EXCEPT !.permission = permission]

Revoke(k) == [Admin("all", "POST", "adminRevoke") EXCEPT !.target = k]

\* Where an Admin request may come from.
DeleteFrom(origin, referer, site) ==
    [Plain("all", "DELETE", "adminRecord")
        EXCEPT !.origin = origin, !.referer = referer, !.fetchSite = site]

ServerRequests ==
    Rest("api", "POST", "records") \cup Rest("all", "GET", "record")
    \cup {AskForKey("read"), AskForKey("none"),
          [AskForKey("read") EXCEPT !.complete = FALSE],
          Revoke(k1), Revoke(x),
          Plain("all", "GET", "openapi"), Plain("all", "GET", "adminKeys"),
          [Plain("admin", "GET", "adminPublish") EXCEPT !.login = FALSE],
          DeleteFrom(NoUrl, OnHost(elsewhere), "same-origin"),
          DeleteFrom(NoUrl, OnHost(here), "none"), DeleteFrom(NoUrl, NoUrl, "none"),
          [Plain("api", "PATCH", "record") EXCEPT !.credential = k1],
          Plain("api", "GET", "adminKeys")}

OpenAndClosed == {[static |-> b, basic |-> b] : b \in BOOLEAN}

\* Every documented call and a few others, on a server with a static key.
DocumentedRequests ==
    {[Plain("all", d[2], d[1]) EXCEPT !.credential = StaticKey] :
        d \in {<<"records", "GET">>, <<"records", "POST">>, <<"record", "GET">>,
               <<"record", "PATCH">>, <<"record", "DELETE">>, <<"publish", "POST">>}}

StaticConfig == {[static |-> TRUE, basic |-> TRUE]}

============================================================================
