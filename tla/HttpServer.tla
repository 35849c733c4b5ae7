----------------------------- MODULE HttpServer -----------------------------
(**************************************************************************)
(* The servers started by `cms serve`, in the roles all, admin and api,   *)
(* over one PostgreSQL: requests pass the middleware of pkg/auth, reach   *)
(* a route of Routes, and work on the stored API keys and the content.    *)
(*                                                                        *)
(* What is decided without a store is decided when the request arrives;   *)
(* each statement on cms_api_keys and its audit log is an action.  A call *)
(* of the content service is one step (ContentContract) on a record that  *)
(* is there or is not: which update or transition is refused, and what    *)
(* the media store answers, is left open here.                            *)
(**************************************************************************)
EXTENDS Admission, Routes, FiniteSets

CONSTANTS
    Sessions,     \* requests served at the same time
    Requests,     \* the requests clients send
    Configs,      \* the settings of `cms serve`
    Keys,         \* the keys, with their tokens, GenerateToken makes
    Nobody,       \* no request, no key in hand
    MaxFailures,  \* bound: failing statements and crashes
    MaxRevokes    \* bound: revocations of one key

\* What the servers look at in a request.  target is the record or the key the
\* path names, complete says that the body has what the call requires, and
\* permission is the one a form asks for.
RequestFields == {"role", "method", "shape", "credential", "login", "https", "host",
                  "fetchSite", "origin", "referer", "target", "complete", "permission"}

ASSUME RequestAssumption ==
    \A r \in Requests :
        /\ DOMAIN r = RequestFields
        /\ r.role \in Roles /\ r.method \in Methods /\ r.shape \in Shapes
        /\ r.credential \in Keys \cup {StaticKey, NoCredential}

ASSUME SentinelAssumption ==
    /\ Nobody \notin Requests \cup Keys
    /\ {StaticKey, NoCredential} \cap Keys = {}
    /\ StaticKey # NoCredential

ASSUME ConfigAssumption == Configs \subseteq [static : BOOLEAN, basic : BOOLEAN]

VARIABLES
    config,       \* the settings this deployment runs with
    keys,         \* cms_api_keys, by key
    keyAudit,     \* entries of cms_audit_logs about a key, by operation
    records,      \* the ids that have a row
    shown,        \* keys whose token a client has seen
    retired,      \* keys whose revocation was answered
    failures,     \* failing statements and crashes so far
    pc, request, status, newKey,   \* of each session
    late          \* the session's key was retired when its request arrived

stores == <<keys, keyAudit, records, shown, retired>>
vars == <<config, stores, failures, pc, request, status, newKey, late>>

TypeOK ==
    /\ config \in Configs
    /\ keys \in [Keys -> APIKey \cup {NoKey}]
    /\ keyAudit \in [Keys -> [create : Nat, update : Nat]]
    /\ records \subseteq {r.target : r \in Requests}
    /\ shown \subseteq Keys /\ retired \subseteq Keys
    /\ failures \in Nat
    /\ pc \in [Sessions -> {"idle", "lookup", "serve", "auditKey", "listKeys",
                            "auditRevoke", "answered"}]
    /\ request \in [Sessions -> Requests \cup {Nobody}]
    /\ status \in [Sessions -> Nat]
    /\ newKey \in [Sessions -> Keys \cup {Nobody}]
    /\ late \in [Sessions -> BOOLEAN]

Init ==
    /\ config \in Configs
    /\ keys = [k \in Keys |-> NoKey]
    /\ keyAudit = [k \in Keys |-> [create |-> 0, update |-> 0]]
    /\ records = {}
    /\ shown = {} /\ retired = {}
    /\ failures = 0
    /\ pc = [s \in Sessions |-> "idle"]
    /\ request = [s \in Sessions |-> Nobody]
    /\ status = [s \in Sessions |-> 0]
    /\ newKey = [s \in Sessions |-> Nobody]
    /\ late = [s \in Sessions |-> FALSE]

----------------------------------------------------------------------------
AreaOf(r) == Area(r.role, r.shape)

Go(s, place) ==
    /\ pc' = [pc EXCEPT ![s] = place]
    /\ status' = [status EXCEPT ![s] = 0]

Answer(s, code) ==
    /\ pc' = [pc EXCEPT ![s] = "answered"]
    /\ status' = [status EXCEPT ![s] = code]

Fail == failures < MaxFailures /\ failures' = failures + 1

\* Behind the middleware: the call starts, or there is no route.
Enter(s, r) ==
    IF Matches(r) = {} THEN Answer(s, NoRouteAnswer(r))
    ELSE Go(s, IF TheRoute(r).call = "listKeys" THEN "listKeys" ELSE "serve")

AdmitRest(s, r) ==
    IF PassesWithoutKey(config, r) THEN Enter(s, r)
    ELSE IF r.credential = NoCredential THEN Answer(s, 401)
    ELSE Go(s, "lookup")

AdmitAdmin(s, r) ==
    IF ~BasicAuthAllows(config, r) THEN Answer(s, 401)
    ELSE IF ~CSRFAllows(r) THEN Answer(s, 403)
    ELSE Enter(s, r)

CallOf(r) == IF Matches(r) = {} THEN "none" ELSE TheRoute(r).call

\* A random token that no key has and no request is just storing.
Fresh(k) == keys[k] = NoKey /\ \A s \in Sessions : newKey[s] # k

\* Bounds: there are keys left to make, and a key is not revoked for ever.
InBounds(r) ==
    /\ CallOf(r) = "createKey" =>
          Cardinality({s \in Sessions : pc[s] = "serve" /\ CallOf(request[s]) = "createKey"})
             < Cardinality({k \in Keys : Fresh(k)})
    /\ CallOf(r) = "revokeKey" /\ r.target \in Keys =>
          keyAudit[r.target].update < MaxRevokes

\* A client sends a request; a token it uses was shown to somebody.
Arrive(s, r) ==
    /\ pc[s] \in {"idle", "answered"}
    /\ r.credential \in Keys => r.credential \in shown
    /\ InBounds(r)
    /\ request' = [request EXCEPT ![s] = r]
    /\ late' = [late EXCEPT ![s] = r.credential \in retired]
    /\ CASE AreaOf(r) = "rest"  -> AdmitRest(s, r)
         [] AreaOf(r) = "admin" -> AdmitAdmin(s, r)
         [] OTHER               -> Enter(s, r)
    /\ UNCHANGED <<config, stores, failures, newKey>>

\* GetByHash: the row of the token, if there is one.
KeyFound(credential) == IF credential \in Keys THEN keys[credential] ELSE NoKey

LookupKey(s) ==
    LET r == request[s]
        key == KeyFound(r.credential)
    IN /\ pc[s] = "lookup"
       /\ IF ValidToken(key, r.method) THEN Enter(s, r)
                                       ELSE Answer(s, TokenRefusal(key))
       /\ UNCHANGED <<config, stores, failures, request, newKey, late>>

\* The error of a failing lookup may speak of permission, too (a denied table).
LookupFails(s) ==
    /\ pc[s] = "lookup"
    /\ Fail
    /\ \E code \in {401, 403} : Answer(s, code)
    /\ UNCHANGED <<config, stores, request, newKey, late>>

----------------------------------------------------------------------------
(* Content, media, pages.                                                  *)

ContentCalls == {"list", "create", "get", "update", "delete",
                 "publish", "unpublish", "finish"}
KeyCalls == {"createKey", "revokeKey", "listKeys"}

Serving(s, calls) == pc[s] = "serve" /\ TheRoute(request[s]).call \in calls

\* The records after a call that worked.
After(call, id) ==
    CASE call = "create" -> records \cup {id}
      [] call = "delete" -> records \ {id}
      [] OTHER -> records

Works(call, r) ==
    CASE call = "list" -> TRUE
      [] call = "create" -> r.complete /\ r.target \notin records
      [] call = "update" -> r.complete /\ r.target \in records
      [] OTHER -> r.target \in records

\* The lifecycle, a prerequisite or a row that vanished may speak against it.
MayBeRefused(call, r) ==
    call \in {"update", "publish", "unpublish", "finish"} \/ ~Works(call, r)

ServeContent(s) ==
    LET r == request[s]
        route == TheRoute(r)
    IN /\ Serving(s, ContentCalls)
       /\ \/ /\ Works(route.call, r)
             /\ records' = After(route.call, r.target)
             /\ Answer(s, route.ok)
          \/ /\ MayBeRefused(route.call, r)
             /\ \E code \in route.errors : Answer(s, code)
             /\ UNCHANGED records
       /\ UNCHANGED <<config, keys, keyAudit, shown, retired, failures, request, newKey, late>>

\* A statement fails, or the answer to its COMMIT is lost.
ContentFails(s) ==
    LET r == request[s]
        route == TheRoute(r)
    IN /\ Serving(s, ContentCalls)
       /\ Fail
       /\ \/ UNCHANGED records
          \/ Works(route.call, r) /\ records' = After(route.call, r.target)
       /\ \E code \in route.errors : Answer(s, code)
       /\ UNCHANGED <<config, keys, keyAudit, shown, retired, request, newKey, late>>

\* Pages, the document and the media store (MediaLibrary).
ServeElse(s) ==
    LET route == TheRoute(request[s])
    IN /\ pc[s] = "serve" /\ route.call \notin ContentCalls \cup KeyCalls
       /\ \E code \in {route.ok} \cup route.errors : Answer(s, code)
       /\ UNCHANGED <<config, stores, failures, request, newKey, late>>

----------------------------------------------------------------------------
(* API keys: CreateKey, ListKeys and RevokeKey behind the Admin UI.        *)

RefuseUnnamedKey(s) ==
    /\ Serving(s, {"createKey"}) /\ ~request[s].complete
    /\ Answer(s, 400)
    /\ UNCHANGED <<config, stores, failures, request, newKey, late>>

StoredWith(k, asked) ==
    [keys EXCEPT ![k] = [permission |-> GrantedPermission(asked), active |-> TRUE]]

\* MUTANT of InsertKey: the name is asked for once the key is stored.
InsertKeyUnnamed(s) ==
    /\ Serving(s, {"createKey"})
    /\ \E k \in Keys :
          /\ Fresh(k)
          /\ keys' = StoredWith(k, request[s].permission)
          /\ newKey' = [newKey EXCEPT ![s] = k]
    /\ IF request[s].complete THEN Go(s, "auditKey") ELSE Answer(s, 400)
    /\ UNCHANGED <<config, keyAudit, records, shown, retired, failures, request, late>>

\* MUTANT of InsertKey: the token is shown for a key that is never stored.
InsertKeyForgotten(s) ==
    /\ Serving(s, {"createKey"}) /\ request[s].complete
    /\ \E k \in Keys : Fresh(k) /\ newKey' = [newKey EXCEPT ![s] = k]
    /\ Go(s, "auditKey")
    /\ UNCHANGED <<config, stores, failures, request, late>>

InsertKey(s) ==
    /\ Serving(s, {"createKey"}) /\ request[s].complete
    /\ \E k \in Keys :
          /\ Fresh(k)
          /\ keys' = StoredWith(k, request[s].permission)
          /\ newKey' = [newKey EXCEPT ![s] = k]
    /\ Go(s, "auditKey")
    /\ UNCHANGED <<config, keyAudit, records, shown, retired, failures, request, late>>

\* The insert fails, or only its answer is lost: the token is dropped.
InsertKeyFails(s) ==
    /\ Serving(s, {"createKey"}) /\ request[s].complete
    /\ Fail
    /\ \/ UNCHANGED keys
       \/ \E k \in Keys : Fresh(k) /\ keys' = StoredWith(k, request[s].permission)
    /\ Answer(s, 400)
    /\ UNCHANGED <<config, keyAudit, records, shown, retired, request, newKey, late>>

\* The audit entry of a new key; its error is dropped.
AuditKey(s) ==
    /\ pc[s] = "auditKey"
    /\ \/ keyAudit' = [keyAudit EXCEPT ![newKey[s]].create = @ + 1] /\ UNCHANGED failures
       \/ Fail /\ UNCHANGED keyAudit
    /\ Go(s, "listKeys")
    /\ UNCHANGED <<config, keys, records, shown, retired, request, newKey, late>>

\* The page of keys, with the token of the new one; without the list, no page.
ListKeys(s) ==
    /\ pc[s] = "listKeys"
    /\ \/ /\ shown' = shown \cup ({newKey[s]} \cap Keys)
          /\ Answer(s, 200)
          /\ UNCHANGED failures
       \/ Fail /\ Answer(s, 500) /\ UNCHANGED shown
    /\ newKey' = [newKey EXCEPT ![s] = Nobody]
    /\ UNCHANGED <<config, keys, keyAudit, records, retired, request, late>>

\* MUTANT of RevokeKey: the key keeps its flag, only revoked_at is set.
RevokeKeyByTime(s) ==
    LET k == request[s].target
    IN /\ Serving(s, {"revokeKey"})
       /\ IF k \in Keys /\ keys[k] # NoKey THEN Go(s, "auditRevoke")
                                           ELSE Answer(s, 400)
       /\ UNCHANGED <<config, stores, failures, request, newKey, late>>

\* UPDATE ... WHERE id, whether or not the key was active; 400 for no row.
RevokeKey(s) ==
    LET k == request[s].target
    IN /\ Serving(s, {"revokeKey"})
       /\ IF k \in Keys /\ keys[k] # NoKey
          THEN keys' = [keys EXCEPT ![k].active = FALSE] /\ Go(s, "auditRevoke")
          ELSE UNCHANGED keys /\ Answer(s, 400)
       /\ UNCHANGED <<config, keyAudit, records, shown, retired, failures, request, newKey, late>>

RevokeKeyFails(s) ==
    LET k == request[s].target
    IN /\ Serving(s, {"revokeKey"})
       /\ Fail
       /\ \/ UNCHANGED keys
          \/ /\ k \in Keys /\ keys[k] # NoKey
             /\ keys' = [keys EXCEPT ![k].active = FALSE]
       /\ Answer(s, 400)
       /\ UNCHANGED <<config, keyAudit, records, shown, retired, request, newKey, late>>

\* MUTANT of AuditRevoke: the entry is logged as the creation of a key.
AuditRevokeAsCreate(s) ==
    LET k == request[s].target
    IN /\ pc[s] = "auditRevoke"
       /\ \/ /\ keyAudit' = [keyAudit EXCEPT ![k].create = @ + 1]
             /\ UNCHANGED failures
          \/ Fail /\ UNCHANGED keyAudit
       /\ retired' = retired \cup {k}
       /\ Answer(s, 303)
       /\ UNCHANGED <<config, keys, records, shown, request, newKey, late>>

AuditRevoke(s) ==
    LET k == request[s].target
    IN /\ pc[s] = "auditRevoke"
       /\ \/ /\ keyAudit' = [keyAudit EXCEPT ![k].update = @ + 1]
             /\ UNCHANGED failures
          \/ Fail /\ UNCHANGED keyAudit
       /\ retired' = retired \cup {k}
       /\ Answer(s, 303)
       /\ UNCHANGED <<config, keys, records, shown, request, newKey, late>>

\* The server dies, or the client goes away and the request is cancelled.
Crash(s) ==
    /\ pc[s] \notin {"idle", "answered"}
    /\ Fail
    /\ Go(s, "idle")
    /\ request' = [request EXCEPT ![s] = Nobody]
    /\ newKey' = [newKey EXCEPT ![s] = Nobody]
    /\ UNCHANGED <<config, stores, late>>

Step(s) ==
    \/ LookupKey(s) \/ LookupFails(s)
    \/ ServeContent(s) \/ ContentFails(s) \/ ServeElse(s)
    \/ RefuseUnnamedKey(s) \/ InsertKey(s) \/ InsertKeyFails(s) \/ AuditKey(s)
    \/ ListKeys(s)
    \/ RevokeKey(s) \/ RevokeKeyFails(s) \/ AuditRevoke(s)
    \/ Crash(s)

Next == \E s \in Sessions : Step(s) \/ \E r \in Requests : Arrive(s, r)

Spec == Init /\ [][Next]_vars

----------------------------------------------------------------------------
(* Properties.                                                             *)

\* The request of a session, once it got past the middleware.
Admitted(s) ==
    /\ pc[s] \notin {"idle", "lookup"}
    /\ status[s] \notin {401, 403} \/ pc[s] # "answered"

ReadingCalls == {"none", "document", "list", "get", "listMedia", "getMedia"}

GrantedByKey(s) ==
    LET r == request[s]
    IN /\ r.credential \in Keys /\ ~late[s]
       /\ keys[r.credential] # NoKey
       /\ CallOf(r) \in ReadingCalls \/ keys[r.credential].permission = "read_write"

\* A REST request that got through carries the static key or a stored one that
\* was not revoked when it arrived, and a call that writes carries one with
\* permission to write, whatever was created or revoked while it ran; an Admin
\* request logged in, and if its method writes it names this server
\* (middleware.go:30-105, service.go:98-118, csrf.go:10-68, router.go:55-229).
ServedRequestsWereGranted ==
    \A s \in Sessions : Admitted(s) =>
        LET r == request[s]
        IN /\ AreaOf(r) = "rest" => PassesWithoutKey(config, r) \/ GrantedByKey(s)
           /\ AreaOf(r) = "admin" =>
                 /\ BasicAuthAllows(config, r)
                 /\ r.method \in SafeMethods \/ NamesThisServer(r)

\* As long as no statement failed, a REST request is turned away only for what
\* is wrong with it: no key, the static key where none is set, a key that is
\* revoked by now, or one without permission for the method.  In particular a
\* token that was shown is stored and works.
RefusalsAreDeserved ==
    \A s \in Sessions :
        LET r == request[s]
        IN /\ failures = 0
           /\ pc[s] = "answered" /\ status[s] \in {401, 403} /\ AreaOf(r) = "rest"
           => \/ r.credential = NoCredential
              \/ r.credential = StaticKey /\ ~config.static
              \/ /\ r.credential \in Keys /\ keys[r.credential] # NoKey
                 /\ ~CanAccessMethod(keys[r.credential], r.method)

\* A stored key whose token nobody got to see cost a failure: it is not what a
\* refused form or two creations at once leave behind (service.go:28-64 and
\* server.go:404-418, where a failing list hides the new token).
UnshownKeysComeFromFailures ==
    LET creating == {newKey[s] : s \in Sessions}
    IN Cardinality({k \in Keys \ (shown \cup creating) : keys[k] # NoKey}) <= failures

\* The audit log follows the keys as far as its dropped errors let it: at most
\* one entry tells of a key's creation, an entry of a revocation means the key
\* is dead, and every missing entry cost a failure (service.go:45-61 and 72-87).
KeyAuditFollowsKeys ==
    LET settled == {k \in Keys : \A s \in Sessions :
                       pc[s] = "auditKey" => newKey[s] # k}
    IN /\ \A k \in Keys :
             /\ keyAudit[k].create <= 1
             /\ keyAudit[k].create = 1 => keys[k] # NoKey
             /\ keyAudit[k].update > 0 => keys[k] # NoKey /\ ~keys[k].active
       /\ Cardinality({k \in settled : keys[k] # NoKey /\ keyAudit[k].create = 0})
             <= failures

\* What the OpenAPI document says: a documented call is answered with one of
\* the codes given for it (generator.go:100-197 and 255-424), once it got past
\* the API key.
DocumentedAnswers ==
    \A s \in Sessions :
        LET r == request[s]
        IN pc[s] = "answered" /\ Admitted(s) /\ AreaOf(r) = "rest" =>
              \A d \in Documented :
                  d.shape = r.shape /\ r.method \in d.methods =>
                      status[s] \in {d.ok} \cup d.errors

=============================================================================
