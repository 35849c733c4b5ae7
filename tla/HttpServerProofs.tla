-------------------------- MODULE HttpServerProofs --------------------------
(**************************************************************************)
(* What HttpServer promises, proved for any number of sessions, requests, *)
(* keys, failures and revocations.                                        *)
(*   - who is let through: a request that is served was granted, through  *)
(*     all revocations that run beside it;                                *)
(*   - who is turned away: without a failing statement only for what is   *)
(*     wrong with the request;                                            *)
(*   - what is left of keys nobody saw, and what the audit log knows.     *)
(* The first theorems are about the decisions alone.                      *)
(**************************************************************************)
EXTENDS HttpServer, FiniteSetTheorems, TLAPS

----------------------------------------------------------------------------
(* The decisions.                                                          *)

\* The origin check lets no request through that changes something and does not
\* name this server (csrf.go:10-68).
THEOREM OriginIsChecked ==
    ASSUME NEW r, CSRFAllows(r), r.method \notin SafeMethods
    PROVE  NamesThisServer(r)
  BY DEF CSRFAllows, NamesThisServer

\* A role serves nothing of the other's: the api role has no page of the Admin
\* UI, the admin role no route of the REST API (server.go:178-247).
THEOREM RolesAreApart ==
    /\ \A shape \in AdminShapes : Area("api", shape) = "nowhere"
    /\ RoutesIn("nowhere") = {}
    /\ \A shape \in RestShapes : Area("admin", shape) = "admin"
    /\ \A r : r.role = "admin" /\ r.shape \in RestShapes => Matches(r) = {}
  <1>1. RestShapes \cap AdminShapes = {} /\ "delivery" \notin AdminShapes /\ "static" \notin AdminShapes
    BY DEF RestShapes, AdminShapes
  <1>2. \A shape \in AdminShapes : Area("api", shape) = "nowhere"
    BY <1>1 DEF Area
  <1>3. RoutesIn("nowhere") = {}
    BY DEF RoutesIn
  <1>4. \A shape \in RestShapes : Area("admin", shape) = "admin"
    BY DEF Area
  <1>5. ASSUME NEW r, r.role = "admin", r.shape \in RestShapes  PROVE  Matches(r) = {}
    <2>1. RoutesIn(Area(r.role, r.shape)) = AdminRoutes \cup FileRoutes
      BY <1>4, <1>5 DEF RoutesIn
    <2>2. \A route \in AdminRoutes \cup FileRoutes : route.shape \notin RestShapes
      <3>1. \A route \in StatusPages \cup MediaPages : route.shape \notin RestShapes
        BY DEF StatusPages, MediaPages, Route, RestShapes
      <3>2. \A route \in KeyPages \cup ListPages : route.shape \notin RestShapes
        BY DEF KeyPages, ListPages, Route, RestShapes
      <3>3. \A route \in FormPages \cup RecordPages : route.shape \notin RestShapes
        BY DEF FormPages, RecordPages, Route, RestShapes
      <3>4. \A route \in LifecyclePages \cup FileRoutes : route.shape \notin RestShapes
        BY DEF LifecyclePages, FileRoutes, Route, RestShapes
      <3> QED  BY <3>1, <3>2, <3>3, <3>4 DEF AdminRoutes
    <2> QED  BY <1>5, <2>1, <2>2 DEF Matches
  <1> QED  BY <1>2, <1>3, <1>4, <1>5

\* Every call the OpenAPI document describes has its route (generator.go:99-426,
\* router.go:81-226, handler.go:72-167); with which errors is openapi_answers.
THEOREM DocumentedCallsAreRouted ==
    \A d \in Documented : \E route \in RestRoutes :
        /\ route.shape = d.shape /\ d.methods \subseteq route.methods
        /\ route.call = d.call /\ route.ok = d.ok
  <1> DEFINE With(d, methods, errors) == Route(d.shape, methods, d.call, d.ok, errors)
  <1>1. \A d \in MediaDocumented : \E errors : With(d, d.methods, errors) \in RestRoutes
    <2>1. \A d \in MediaDocumented :
             \/ With(d, d.methods, {500}) \in UploadRoutes
             \/ With(d, d.methods, {400, 500}) \in UploadRoutes
             \/ With(d, d.methods, {404}) \in UploadRoutes
             \/ With(d, d.methods, {400}) \in UploadRoutes
      BY DEF MediaDocumented, UploadRoutes, Route
    <2> QED  BY <2>1 DEF RestRoutes
  <1>2. \A d \in RecordsDocumented \cup LifecycleDocumented :
           \E errors : With(d, d.methods, errors) \in RestRoutes
    <2>1. \A d \in RecordsDocumented \cup LifecycleDocumented :
             \/ With(d, d.methods, {500}) \in ResourceRoutes
             \/ With(d, d.methods, {400}) \in ResourceRoutes
      BY DEF RecordsDocumented, LifecycleDocumented, ResourceRoutes, Route
    <2> QED  BY <2>1 DEF RestRoutes
  <1>3. \A d \in RecordDocumented : \E methods, errors :
           d.methods \subseteq methods /\ With(d, methods, errors) \in RestRoutes
    <2>1. With(Route("record", {"GET"}, "get", 200, {404}), {"GET"}, {404}) \in RestRoutes
      BY DEF RestRoutes, ResourceRoutes, Route
    <2>2. With(Route("record", {"PATCH"}, "update", 200, {404}), {"PATCH", "PUT"}, {400})
             \in RestRoutes
      BY DEF RestRoutes, ResourceRoutes, Route
    <2>3. With(Route("record", {"DELETE"}, "delete", 204, {404}), {"DELETE"}, {400})
             \in RestRoutes
      BY DEF RestRoutes, ResourceRoutes, Route
    <2>4. \A shape, methods, call, ok, errors :
             Route(shape, methods, call, ok, errors).methods = methods
      BY DEF Route
    <2>5. {"PATCH"} \subseteq {"PATCH", "PUT"}
      OBVIOUS
    <2> HIDE DEF With
    <2> QED  BY <2>1, <2>2, <2>3, <2>4, <2>5 DEF RecordDocumented
  <1>4. \A d, methods, errors : LET route == With(d, methods, errors) IN
           /\ route.shape = d.shape /\ route.methods = methods
           /\ route.call = d.call /\ route.ok = d.ok
    BY DEF Route
  <1> HIDE DEF With
  <1> QED  BY <1>1, <1>2, <1>3, <1>4 DEF Documented

\* A reading method reaches reading calls only.
LEMMA ReadingMethodsRead ==
    ASSUME NEW r, AreaOf(r) = "rest", r.method \in {"GET", "HEAD", "OPTIONS"}
    PROVE  CallOf(r) \in ReadingCalls
  <1>1. \A route \in ResourceRoutes :
           route.methods \cap {"GET", "HEAD", "OPTIONS"} # {} => route.call \in ReadingCalls
    BY DEF ResourceRoutes, Route, ReadingCalls
  <1>2. \A route \in UploadRoutes :
           route.methods \cap {"GET", "HEAD", "OPTIONS"} # {} => route.call \in ReadingCalls
    BY DEF UploadRoutes, Route, ReadingCalls
  <1>3. Matches(r) # {} => TheRoute(r) \in Matches(r)
    BY DEF TheRoute
  <1>4. \A route \in Matches(r) : route \in RestRoutes /\ r.method \in route.methods
    BY DEF Matches, RoutesIn, AreaOf
  <1> QED  BY <1>1, <1>2, <1>3, <1>4 DEF CallOf, RestRoutes, ReadingCalls

Codes == Nat \ {401, 403}

\* No route answers with the code of a refusal.
LEMMA RoutesDoNotRefuse ==
    ASSUME NEW area, NEW route \in RoutesIn(area)
    PROVE  route.ok \in Codes /\ route.errors \subseteq Codes
  <1>1. \A x \in RestRoutes : x.ok \in Codes /\ x.errors \subseteq Codes
    BY DEF RestRoutes, ResourceRoutes, UploadRoutes, Route, Codes
  <1>2. \A x \in StatusPages \cup MediaPages : x.ok \in Codes /\ x.errors \subseteq Codes
    BY DEF StatusPages, MediaPages, Route, Codes
  <1>3. \A x \in KeyPages \cup ListPages : x.ok \in Codes /\ x.errors \subseteq Codes
    BY DEF KeyPages, ListPages, Route, Codes
  <1>4. \A x \in FormPages \cup RecordPages : x.ok \in Codes /\ x.errors \subseteq Codes
    BY DEF FormPages, RecordPages, Route, Codes
  <1>5. \A x \in LifecyclePages \cup FileRoutes : x.ok \in Codes /\ x.errors \subseteq Codes
    BY DEF LifecyclePages, FileRoutes, Route, Codes
  <1> QED  BY <1>1, <1>2, <1>3, <1>4, <1>5 DEF RoutesIn, AdminRoutes

----------------------------------------------------------------------------
(* The invariant: what holds of one session, whatever the others do, and   *)
(* what holds of the stores.                                               *)

Busy == {"serve", "auditKey", "listKeys", "auditRevoke"}

\* What a session knows of its request, by the step it has come to.
RequestKnown(s) ==
    /\ pc[s] # "idle" => request[s] \in Requests
    /\ pc[s] \in Busy => Matches(request[s]) # {}
    /\ pc[s] = "lookup" => /\ AreaOf(request[s]) = "rest"
                           /\ ~PassesWithoutKey(config, request[s])
    /\ pc[s] = "lookup" /\ late[s] => request[s].credential \in retired
    /\ pc[s] # "idle" /\ request[s].credential \in Keys => request[s].credential \in shown

\* What it knows of the key it makes or revokes.
KeyKnown(s) ==
    /\ pc[s] = "auditRevoke" => /\ request[s].target \in Keys
                                /\ keys[request[s].target] # NoKey
                                /\ ~keys[request[s].target].active
    /\ newKey[s] # Nobody => /\ pc[s] \in {"auditKey", "listKeys"}
                             /\ newKey[s] \in Keys
                             /\ keys[newKey[s]] # NoKey
    /\ pc[s] = "auditKey" => newKey[s] # Nobody /\ keyAudit[newKey[s]].create = 0

\* The two properties, of one session.
Granted(s) ==
    Admitted(s) =>
        /\ AreaOf(request[s]) = "rest" =>
              PassesWithoutKey(config, request[s]) \/ GrantedByKey(s)
        /\ AreaOf(request[s]) = "admin" =>
              /\ BasicAuthAllows(config, request[s])
              /\ request[s].method \in SafeMethods \/ NamesThisServer(request[s])

Deserved(s) ==
    LET r == request[s]
    IN /\ failures = 0
       /\ pc[s] = "answered" /\ status[s] \in {401, 403} /\ AreaOf(r) = "rest"
       => \/ r.credential = NoCredential
          \/ r.credential = StaticKey /\ ~config.static
          \/ /\ r.credential \in Keys /\ keys[r.credential] # NoKey
             /\ ~CanAccessMethod(keys[r.credential], r.method)

SessionInv(s) == RequestKnown(s) /\ KeyKnown(s) /\ Granted(s) /\ Deserved(s)

\* No two sessions make the same key.
Apart ==
    \A s, t \in Sessions : newKey[s] = newKey[t] /\ newKey[s] # Nobody => s = t

\* A retired key is dead, a shown one is stored.
KeysKnown ==
    /\ \A k \in retired : keys[k] # NoKey /\ ~keys[k].active
    /\ \A k \in shown : keys[k] # NoKey

EntriesKnown ==
    \A k \in Keys :
        /\ keyAudit[k].create <= 1
        /\ keyAudit[k].create = 1 => keys[k] # NoKey
        /\ keyAudit[k].update > 0 => keys[k] # NoKey /\ ~keys[k].active

Unshown == {k \in Keys \ (shown \cup {newKey[s] : s \in Sessions}) : keys[k] # NoKey}

Settled == {k \in Keys : \A s \in Sessions : pc[s] = "auditKey" => newKey[s] # k}

Unlogged == {k \in Settled : keys[k] # NoKey /\ keyAudit[k].create = 0}

\* What the failures have to answer for.
Counted ==
    /\ IsFiniteSet(Unshown) /\ Cardinality(Unshown) <= failures
    /\ IsFiniteSet(Unlogged) /\ Cardinality(Unlogged) <= failures

StoresInv == Apart /\ KeysKnown /\ EntriesKnown /\ Counted

Inv == TypeOK /\ (\A s \in Sessions : SessionInv(s)) /\ StoresInv

----------------------------------------------------------------------------
(* Steps of one session, as the others see them.                           *)

\* Keys come, lose their activity, and nothing else.
KeysGrow ==
    \A k \in Keys : keys[k] # NoKey =>
        /\ keys'[k] # NoKey
        /\ keys'[k].permission = keys[k].permission
        /\ ~keys[k].active => ~keys'[k].active

OthersStay(s) ==
    /\ config' = config
    /\ \A t \in Sessions \ {s} :
          /\ pc'[t] = pc[t] /\ request'[t] = request[t] /\ status'[t] = status[t]
          /\ newKey'[t] = newKey[t] /\ late'[t] = late[t]
    /\ failures <= failures' /\ shown \subseteq shown' /\ retired \subseteq retired'
    /\ \A k \in Keys : keyAudit'[k].create = keyAudit[k].create \/ k = newKey[s]

\* A key that cannot be used for a method never can again.
LEMMA RefusalLasts ==
    ASSUME TypeOK, KeysGrow, NEW k \in Keys, NEW method, keys[k] # NoKey,
           ~CanAccessMethod(keys[k], method)
    PROVE  ~CanAccessMethod(keys'[k], method)
  BY DEF KeysGrow, CanAccessMethod, TypeOK, APIKey, Permissions

\* What a session knows stays true while another one takes a step.
LEMMA OthersKeep ==
    ASSUME TypeOK, TypeOK', Apart, NEW s \in Sessions, KeysGrow, OthersStay(s),
           NEW t \in Sessions, t # s, SessionInv(t)
    PROVE  SessionInv(t)'
  <1> USE DEF SessionInv, OthersStay
  <1>1. /\ pc'[t] = pc[t] /\ request'[t] = request[t] /\ status'[t] = status[t]
        /\ newKey'[t] = newKey[t] /\ late'[t] = late[t] /\ config' = config
    OBVIOUS
  <1>2. RequestKnown(t)'
    BY <1>1 DEF RequestKnown
  <1>3. KeyKnown(t)'
    <2>1. pc[t] = "auditKey" => newKey[t] # newKey[s]
      BY DEF KeyKnown, Apart
    <2> QED  BY <1>1, <2>1 DEF KeyKnown, KeysGrow
  <1>4. Granted(t)'
    <2>1. Admitted(t)' = Admitted(t)
      BY <1>1 DEF Admitted
    <2>2. GrantedByKey(t) => GrantedByKey(t)'
      BY <1>1 DEF GrantedByKey, KeysGrow
    <2> QED  BY <1>1, <2>1, <2>2 DEF Granted
  <1>5. Deserved(t)'
    <2>1. failures' = 0 => failures = 0
      BY DEF TypeOK
    <2>2. SUFFICES ASSUME failures' = 0, pc'[t] = "answered", status'[t] \in {401, 403},
                          AreaOf(request[t]) = "rest", request[t].credential \in Keys,
                          keys[request[t].credential] # NoKey,
                          ~CanAccessMethod(keys[request[t].credential], request[t].method)
                   PROVE  /\ keys'[request[t].credential] # NoKey
                          /\ ~CanAccessMethod(keys'[request[t].credential], request[t].method)
      BY <1>1, <2>1 DEF Deserved
    <2> QED  BY <2>2, RefusalLasts DEF KeysGrow
  <1> QED  BY <1>2, <1>3, <1>4, <1>5

LEMMA StepKeepsInv ==
    ASSUME Inv, TypeOK', NEW s \in Sessions, KeysGrow, OthersStay(s), SessionInv(s)', StoresInv'
    PROVE  Inv'
  <1>1. \A t \in Sessions : t # s => SessionInv(t)'
    BY OthersKeep DEF Inv, StoresInv
  <1> QED  BY <1>1 DEF Inv

\* A set that stays as it is, and one that grows by a failure.
LEMMA SetShrinks ==
    ASSUME NEW S, NEW T, NEW n \in Nat, IsFiniteSet(S), Cardinality(S) <= n, T \subseteq S
    PROVE  IsFiniteSet(T) /\ Cardinality(T) <= n
  <1>1. IsFiniteSet(T) /\ Cardinality(T) <= Cardinality(S)
    BY FS_Subset
  <1>2. Cardinality(T) \in Nat /\ Cardinality(S) \in Nat
    BY <1>1, FS_CardinalityType
  <1> QED  BY <1>1, <1>2

LEMMA SetGrows ==
    ASSUME NEW S, NEW T, NEW n \in Nat, IsFiniteSet(S), Cardinality(S) <= n,
           NEW x, T \subseteq S \cup {x}
    PROVE  IsFiniteSet(T) /\ Cardinality(T) <= n + 1
  <1>1. IsFiniteSet(S \cup {x}) /\ Cardinality(S \cup {x}) <= n + 1
    <2>1. IsFiniteSet(S \cup {x})
      BY FS_AddElement
    <2>2. Cardinality(S \cup {x}) = Cardinality(S) \/ Cardinality(S \cup {x}) = Cardinality(S) + 1
      BY FS_AddElement
    <2>3. Cardinality(S) \in Nat
      BY FS_CardinalityType
    <2> QED  BY <2>1, <2>2, <2>3
  <1> QED  BY <1>1, SetShrinks

\* The steps that leave the keys, their entries and everybody's key in hand alone.
LEMMA StoresStay ==
    ASSUME StoresInv, TypeOK, TypeOK', UNCHANGED <<keys, keyAudit, shown, newKey, retired>>,
           failures <= failures',
           \A s \in Sessions : pc[s] = "auditKey" <=> pc'[s] = "auditKey"
    PROVE  StoresInv'
  <1>1. Apart' /\ KeysKnown' /\ EntriesKnown'
    BY DEF StoresInv, Apart, KeysKnown, EntriesKnown
  <1>2. Unshown' = Unshown
    BY DEF Unshown
  <1>3. Settled' = Settled
    BY DEF Settled
  <1>4. Unlogged' = Unlogged
    BY <1>3 DEF Unlogged
  <1>5. failures \in Nat /\ failures' \in Nat
    BY DEF TypeOK
  <1>6. IsFiniteSet(Unshown) /\ IsFiniteSet(Unlogged)
    BY DEF StoresInv, Counted
  <1>7. Cardinality(Unshown) \in Nat /\ Cardinality(Unlogged) \in Nat
    BY <1>6, FS_CardinalityType
  <1>8. Counted'
    BY <1>2, <1>4, <1>5, <1>6, <1>7 DEF StoresInv, Counted
  <1> QED  BY <1>1, <1>8 DEF StoresInv

----------------------------------------------------------------------------
(* One lemma for the steps that touch no key, one for the session that     *)
(* goes on with its request.                                               *)

LEMMA QuietStep ==
    ASSUME Inv, TypeOK', NEW s \in Sessions,
           UNCHANGED <<config, keys, keyAudit, shown, retired, newKey>>,
           failures <= failures',
           \A t \in Sessions \ {s} : /\ pc'[t] = pc[t] /\ request'[t] = request[t]
                                     /\ status'[t] = status[t] /\ late'[t] = late[t],
           pc[s] # "auditKey", pc'[s] # "auditKey", SessionInv(s)'
    PROVE  Inv'
  <1>1. KeysGrow
    BY DEF KeysGrow
  <1>2. OthersStay(s)
    BY DEF OthersStay
  <1>3. StoresInv'
    BY StoresStay DEF Inv
  <1> QED  BY <1>1, <1>2, <1>3, StepKeepsInv

\* A session that was admitted stays so, and what it answers is no refusal.
LEMMA GoesOn ==
    ASSUME Inv, NEW s \in Sessions, KeysGrow, config' = config,
           pc[s] \in Busy, request'[s] = request[s], late'[s] = late[s],
           pc'[s] = "answered" => status'[s] \in Codes
    PROVE  Granted(s)' /\ Deserved(s)'
  <1> USE DEF Inv, SessionInv
  <1>1. Granted(s)'
    <2>1. Admitted(s)
      BY DEF Admitted, Busy
    <2>2. GrantedByKey(s) => GrantedByKey(s)'
      BY DEF GrantedByKey, KeysGrow
    <2> QED  BY <2>1, <2>2 DEF Granted
  <1>2. Deserved(s)'
    BY DEF Deserved, Codes
  <1> QED  BY <1>1, <1>2

LEMMA AnsweredBusy ==
    ASSUME Inv, TypeOK', NEW s \in Sessions, NEW code \in Codes, pc[s] = "serve",
           Answer(s, code), failures <= failures',
           UNCHANGED <<config, keys, keyAudit, shown, retired, request, newKey, late>>
    PROVE  Inv'
  <1>1. pc'[s] = "answered" /\ status'[s] = code
    BY DEF Answer, Inv, TypeOK
  <1>2. \A t \in Sessions \ {s} : pc'[t] = pc[t] /\ status'[t] = status[t]
    BY DEF Answer, Inv, TypeOK
  <1>3. KeysGrow
    BY DEF KeysGrow
  <1>4. Granted(s)' /\ Deserved(s)'
    BY <1>1, <1>3, GoesOn DEF Busy
  <1>5. RequestKnown(s)' /\ KeyKnown(s)'
    BY <1>1 DEF Inv, SessionInv, RequestKnown, KeyKnown, Busy
  <1>6. SessionInv(s)'
    BY <1>4, <1>5 DEF SessionInv
  <1> QED  BY <1>1, <1>2, <1>6, QuietStep

----------------------------------------------------------------------------
(* Arriving, and the middleware.                                           *)

\* Where a request goes that was let through.
LEMMA EnterGoes ==
    ASSUME TypeOK, NEW s \in Sessions, NEW r, Enter(s, r)
    PROVE  /\ pc'[s] \in {"listKeys", "serve", "answered"}
           /\ pc'[s] = "answered" => status'[s] \in Codes
           /\ pc'[s] # "answered" => Matches(r) # {}
           /\ status'[s] \in Nat
           /\ pc' = [pc EXCEPT ![s] = pc'[s]] /\ status' = [status EXCEPT ![s] = status'[s]]
  <1>1. CASE Matches(r) = {}
    <2>1. NoRouteAnswer(r) \in Codes
      BY DEF NoRouteAnswer, RestRefusal, Codes
    <2>2. Answer(s, NoRouteAnswer(r))
      BY <1>1 DEF Enter
    <2> HIDE DEF Enter
    <2> QED  BY <2>1, <2>2 DEF Answer, TypeOK, Codes
  <1>2. CASE Matches(r) # {}
    <2>1. Go(s, "listKeys") \/ Go(s, "serve")
      BY <1>2 DEF Enter
    <2> QED  BY <1>2, <2>1 DEF Go, TypeOK
  <1> QED  BY <1>1, <1>2

LEMMA ArriveKeepsInv ==
    ASSUME Inv, NEW s \in Sessions, NEW r \in Requests, Arrive(s, r)
    PROVE  Inv'
  <1> USE DEF Inv
  <1>1. /\ request'[s] = r /\ late'[s] = (r.credential \in retired)
        /\ \A t \in Sessions \ {s} : request'[t] = request[t] /\ late'[t] = late[t]
        /\ request' \in [Sessions -> Requests \cup {Nobody}] /\ late' \in [Sessions -> BOOLEAN]
    BY DEF Arrive, TypeOK
  <1>2. UNCHANGED <<config, keys, keyAudit, records, shown, retired, failures, newKey>>
    BY DEF Arrive, stores
  <1>3. newKey[s] = Nobody /\ pc[s] # "auditKey"
    BY DEF Arrive, SessionInv, KeyKnown
  <1>4. r.credential \in Keys => r.credential \in shown
    BY DEF Arrive
  <1>5. /\ pc'[s] \in {"lookup", "listKeys", "serve", "answered"}
        /\ pc'[s] \in {"listKeys", "serve"} => Matches(r) # {}
        /\ status'[s] \in Nat
        /\ pc' = [pc EXCEPT ![s] = pc'[s]] /\ status' = [status EXCEPT ![s] = status'[s]]
        /\ pc'[s] = "lookup" => AreaOf(r) = "rest" /\ ~PassesWithoutKey(config, r)
        /\ AreaOf(r) = "rest" /\ pc'[s] # "lookup" =>
              \/ PassesWithoutKey(config, r)
                 /\ (pc'[s] = "answered" => status'[s] \in Codes)
              \/ pc'[s] = "answered" /\ status'[s] = 401 /\ r.credential = NoCredential
        /\ AreaOf(r) = "admin" =>
              \/ pc'[s] = "answered" /\ status'[s] \in {401, 403}
              \/ BasicAuthAllows(config, r) /\ CSRFAllows(r)
    <2>1. CASE AreaOf(r) = "rest"
      <3>1. AdmitRest(s, r)
        BY <2>1 DEF Arrive
      <3>2. CASE PassesWithoutKey(config, r)
        <4>1. Enter(s, r)
          BY <3>1, <3>2 DEF AdmitRest
        <4> QED  BY <2>1, <3>2, <4>1, EnterGoes
      <3>3. CASE ~PassesWithoutKey(config, r) /\ r.credential = NoCredential
        <4>1. Answer(s, 401)
          BY <3>1, <3>3 DEF AdmitRest
        <4> QED  BY <2>1, <3>3, <4>1 DEF Answer, TypeOK
      <3>4. CASE ~PassesWithoutKey(config, r) /\ r.credential # NoCredential
        <4>1. Go(s, "lookup")
          BY <3>1, <3>4 DEF AdmitRest
        <4> QED  BY <2>1, <3>4, <4>1 DEF Go, TypeOK
      <3> QED  BY <3>2, <3>3, <3>4
    <2>2. CASE AreaOf(r) = "admin"
      <3>1. AdmitAdmin(s, r)
        BY <2>2 DEF Arrive
      <3>2. CASE BasicAuthAllows(config, r) /\ CSRFAllows(r)
        <4>1. Enter(s, r)
          BY <3>1, <3>2 DEF AdmitAdmin
        <4> QED  BY <2>2, <3>2, <4>1, EnterGoes
      <3>3. CASE ~(BasicAuthAllows(config, r) /\ CSRFAllows(r))
        <4>1. \E code \in {401, 403} : Answer(s, code)
          BY <3>1, <3>3 DEF AdmitAdmin
        <4> QED  BY <2>2, <4>1 DEF Answer, TypeOK
      <3> QED  BY <3>2, <3>3
    <2>3. CASE AreaOf(r) \notin {"rest", "admin"}
      <3>1. Enter(s, r)
        BY <2>3 DEF Arrive
      <3> QED  BY <2>3, <3>1, EnterGoes
    <2> QED  BY <2>1, <2>2, <2>3
  <1>6. TypeOK'
    BY <1>1, <1>2, <1>5 DEF TypeOK
  <1>7. RequestKnown(s)' /\ KeyKnown(s)'
    BY <1>1, <1>2, <1>3, <1>4, <1>5 DEF RequestKnown, KeyKnown, Busy
  <1>8. Granted(s)'
    <2>1. AreaOf(r) = "admin" /\ Admitted(s)' => BasicAuthAllows(config, r) /\ CSRFAllows(r)
      BY <1>5 DEF Admitted
    <2>2. AreaOf(r) = "rest" /\ Admitted(s)' => PassesWithoutKey(config, r)
      BY <1>5 DEF Admitted
    <2> QED  BY <1>1, <1>2, <2>1, <2>2, OriginIsChecked DEF Granted
  <1>9. Deserved(s)'
    BY <1>1, <1>2, <1>5 DEF Deserved, Codes
  <1>10. \A t \in Sessions \ {s} : pc'[t] = pc[t] /\ status'[t] = status[t]
    BY <1>5 DEF TypeOK
  <1>11. failures <= failures'
    BY <1>2 DEF TypeOK
  <1>12. SessionInv(s)'
    BY <1>7, <1>8, <1>9 DEF SessionInv
  <1> QED  BY <1>1, <1>2, <1>3, <1>5, <1>6, <1>10, <1>11, <1>12, QuietStep

LEMMA LookupKeyKeepsInv ==
    ASSUME Inv, NEW s \in Sessions, LookupKey(s)
    PROVE  Inv'
  <1> DEFINE r == request[s]
             key == KeyFound(r.credential)
  <1> USE DEF Inv
  <1>1. /\ pc[s] = "lookup" /\ r \in Requests /\ AreaOf(r) = "rest"
        /\ ~PassesWithoutKey(config, r)
        /\ newKey[s] = Nobody
    BY DEF LookupKey, SessionInv, RequestKnown, KeyKnown
  <1>2. UNCHANGED <<config, keys, keyAudit, records, shown, retired, failures, request, newKey, late>>
    BY DEF LookupKey, stores
  <1>3. /\ pc'[s] \in {"listKeys", "serve", "answered"}
        /\ pc'[s] # "answered" => Matches(r) # {}
        /\ status'[s] \in Nat
        /\ pc' = [pc EXCEPT ![s] = pc'[s]] /\ status' = [status EXCEPT ![s] = status'[s]]
        /\ \/ ValidToken(key, r.method) /\ (pc'[s] = "answered" => status'[s] \in Codes)
           \/ ~ValidToken(key, r.method) /\ pc'[s] = "answered" /\ status'[s] \in {401, 403}
    <2>1. CASE ValidToken(key, r.method)
      <3>1. Enter(s, r)
        BY <2>1 DEF LookupKey
      <3> QED  BY <2>1, <3>1, EnterGoes
    <2>2. CASE ~ValidToken(key, r.method)
      <3>1. Answer(s, TokenRefusal(key))
        BY <2>2 DEF LookupKey
      <3>2. TokenRefusal(key) \in {401, 403}
        BY DEF TokenRefusal
      <3> HIDE DEF key, r
      <3> QED  BY <2>2, <3>1, <3>2 DEF Answer, TypeOK
    <2> QED  BY <2>1, <2>2
  <1>4. TypeOK'
    BY <1>2, <1>3 DEF TypeOK
  <1>5. RequestKnown(s)' /\ KeyKnown(s)'
    BY <1>1, <1>2, <1>3 DEF SessionInv, RequestKnown, KeyKnown, Busy
  <1>6. Granted(s)'
    <2>1. Admitted(s)' => ValidToken(key, r.method)
      BY <1>3 DEF Admitted
    <2>2. ASSUME ValidToken(key, r.method)  PROVE GrantedByKey(s)
      <3>1. r.credential \in Keys /\ key = keys[r.credential]
        BY <2>2 DEF ValidToken, KeyFound
      <3>2. keys[r.credential] # NoKey /\ keys[r.credential].active
        BY <2>2, <3>1 DEF ValidToken, CanAccessMethod
      <3>3. ~late[s]
        BY <1>1, <3>2 DEF SessionInv, RequestKnown, StoresInv, KeysKnown, TypeOK
      <3>4. CallOf(r) \in ReadingCalls \/ keys[r.credential].permission = "read_write"
        BY <1>1, <2>2, <3>1, ReadingMethodsRead DEF ValidToken, CanAccessMethod
      <3> QED  BY <3>1, <3>2, <3>3, <3>4 DEF GrantedByKey
    <2>3. GrantedByKey(s)' = GrantedByKey(s)
      BY <1>2 DEF GrantedByKey
    <2>4. AreaOf(r') = "rest" /\ r' = r
      BY <1>1, <1>2
    <2> QED  BY <2>1, <2>2, <2>3, <2>4 DEF Granted
  <1>7. Deserved(s)'
    <2>1. SUFFICES ASSUME ~ValidToken(key, r.method)
                   PROVE  \/ r.credential = NoCredential
                          \/ r.credential = StaticKey /\ ~config.static
                          \/ /\ r.credential \in Keys /\ keys[r.credential] # NoKey
                             /\ ~CanAccessMethod(keys[r.credential], r.method)
      BY <1>2, <1>3 DEF Deserved, Codes
    <2>2. r.credential \in Keys \cup {StaticKey, NoCredential}
      BY <1>1, RequestAssumption
    <2>3. r.credential = StaticKey => ~config.static
      BY <1>1 DEF PassesWithoutKey
    <2>4. r.credential \in Keys => keys[r.credential] # NoKey /\ key = keys[r.credential]
      BY <1>1 DEF SessionInv, RequestKnown, StoresInv, KeysKnown, KeyFound
    <2> QED  BY <2>1, <2>2, <2>3, <2>4 DEF ValidToken
  <1>8. \A t \in Sessions \ {s} : pc'[t] = pc[t] /\ status'[t] = status[t]
    BY <1>3 DEF TypeOK
  <1>9. failures <= failures'
    BY <1>2 DEF TypeOK
  <1>10. SessionInv(s)'
    BY <1>5, <1>6, <1>7 DEF SessionInv
  <1> QED  BY <1>1, <1>2, <1>3, <1>4, <1>8, <1>9, <1>10, QuietStep

LEMMA FailCounts ==
    ASSUME TypeOK, Fail
    PROVE  failures' \in Nat /\ failures' = failures + 1 /\ failures <= failures'
  BY DEF TypeOK, Fail

LEMMA LookupFailsKeepsInv ==
    ASSUME Inv, NEW s \in Sessions, LookupFails(s)
    PROVE  Inv'
  <1> USE DEF Inv
  <1>1. pc[s] = "lookup" /\ request[s] \in Requests /\ newKey[s] = Nobody
    BY DEF LookupFails, SessionInv, RequestKnown, KeyKnown
  <1>2. UNCHANGED <<config, keys, keyAudit, records, shown, retired, request, newKey, late>>
    BY DEF LookupFails, stores
  <1>3. failures' \in Nat /\ failures' = failures + 1 /\ failures <= failures'
    BY FailCounts DEF LookupFails
  <1>4. /\ pc'[s] = "answered" /\ status'[s] \in {401, 403}
        /\ pc' = [pc EXCEPT ![s] = pc'[s]] /\ status' = [status EXCEPT ![s] = status'[s]]
    BY DEF LookupFails, Answer, TypeOK
  <1>5. TypeOK'
    BY <1>2, <1>3, <1>4 DEF TypeOK
  <1>6. RequestKnown(s)' /\ KeyKnown(s)'
    BY <1>1, <1>2, <1>4 DEF SessionInv, RequestKnown, KeyKnown, Busy
  <1>7. Granted(s)'
    BY <1>4 DEF Granted, Admitted
  <1>8. Deserved(s)'
    BY <1>3 DEF Deserved, TypeOK
  <1>9. \A t \in Sessions \ {s} : pc'[t] = pc[t] /\ status'[t] = status[t]
    BY <1>4 DEF TypeOK
  <1>10. SessionInv(s)'
    BY <1>6, <1>7, <1>8 DEF SessionInv
  <1> QED  BY <1>1, <1>2, <1>3, <1>4, <1>5, <1>9, <1>10, QuietStep

----------------------------------------------------------------------------
(* Content, media, pages.                                                  *)

\* The route of a session that serves, and its answers.
LEMMA ServedRoute ==
    ASSUME Inv, NEW s \in Sessions, pc[s] = "serve"
    PROVE  /\ TheRoute(request[s]).ok \in Codes
           /\ TheRoute(request[s]).errors \subseteq Codes
  <1>1. Matches(request[s]) # {}
    BY DEF Inv, SessionInv, RequestKnown, Busy
  <1>2. TheRoute(request[s]) \in Matches(request[s])
    BY <1>1 DEF TheRoute
  <1>3. TheRoute(request[s]) \in RoutesIn(Area(request[s].role, request[s].shape))
    BY <1>2 DEF Matches
  <1> QED  BY <1>3, RoutesDoNotRefuse

LEMMA AnswerType ==
    ASSUME TypeOK, NEW s \in Sessions, NEW code \in Codes, Answer(s, code)
    PROVE  /\ pc' \in [Sessions -> {"idle", "lookup", "serve", "auditKey", "listKeys",
                                    "auditRevoke", "answered"}]
           /\ status' \in [Sessions -> Nat]
  BY DEF TypeOK, Answer, Codes

LEMMA ServeContentKeepsInv ==
    ASSUME Inv, NEW s \in Sessions, ServeContent(s) \/ ContentFails(s)
    PROVE  Inv'
  <1> DEFINE route == TheRoute(request[s])
  <1> USE DEF Inv
  <1>1. pc[s] = "serve"
    BY DEF ServeContent, ContentFails, Serving
  <1>2. PICK code \in Codes : Answer(s, code)
    BY <1>1, ServedRoute DEF ServeContent, ContentFails
  <1>3. UNCHANGED <<config, keys, keyAudit, shown, retired, request, newKey, late>>
    BY DEF ServeContent, ContentFails
  <1>4. failures' \in Nat /\ failures <= failures'
    BY FailCounts DEF ServeContent, ContentFails, TypeOK
  <1>5. records' \subseteq {r.target : r \in Requests}
    <2>1. request[s] \in Requests
      BY <1>1 DEF SessionInv, RequestKnown
    <2> QED  BY <2>1 DEF ServeContent, ContentFails, After, TypeOK
  <1>6. TypeOK'
    BY <1>2, <1>3, <1>4, <1>5, AnswerType DEF TypeOK
  <1> QED  BY <1>1, <1>2, <1>3, <1>4, <1>6, AnsweredBusy

LEMMA ServeElseKeepsInv ==
    ASSUME Inv, NEW s \in Sessions, ServeElse(s) \/ RefuseUnnamedKey(s)
    PROVE  Inv'
  <1> USE DEF Inv
  <1>1. pc[s] = "serve"
    BY DEF ServeElse, RefuseUnnamedKey, Serving
  <1>2. PICK code \in Codes : Answer(s, code)
    <2>1. 400 \in Codes
      BY DEF Codes
    <2> QED  BY <1>1, <2>1, ServedRoute DEF ServeElse, RefuseUnnamedKey
  <1>3. UNCHANGED <<config, keys, keyAudit, records, shown, retired, failures, request, newKey, late>>
    BY DEF ServeElse, RefuseUnnamedKey, stores
  <1>4. TypeOK' /\ failures <= failures'
    BY <1>2, <1>3, AnswerType DEF TypeOK
  <1> QED  BY <1>1, <1>2, <1>3, <1>4, AnsweredBusy

----------------------------------------------------------------------------
(* Keys: what a statement does to the table, and to what is counted.       *)

LEMMA StoredKey ==
    ASSUME TypeOK, NEW k \in Keys, NEW asked, keys[k] = NoKey, keys' = StoredWith(k, asked)
    PROVE  /\ keys' \in [Keys -> APIKey \cup {NoKey}]
           /\ KeysGrow
           /\ keys'[k] # NoKey
           /\ \A j \in Keys \ {k} : keys'[j] = keys[j]
  <1> DEFINE new == [permission |-> GrantedPermission(asked), active |-> TRUE]
  <1>1. new \in APIKey
    BY DEF APIKey, GrantedPermission, Permissions
  <1>2. new # NoKey
    BY <1>1, NoKeyAssumption
  <1>3. keys' = [keys EXCEPT ![k] = new]
    BY DEF StoredWith
  <1> HIDE DEF new
  <1> QED  BY <1>1, <1>2, <1>3 DEF TypeOK, KeysGrow

LEMMA RevokedKey ==
    ASSUME TypeOK, NEW k \in Keys, keys[k] # NoKey, keys' = [keys EXCEPT ![k].active = FALSE]
    PROVE  /\ keys' \in [Keys -> APIKey \cup {NoKey}]
           /\ KeysGrow
           /\ ~keys'[k].active
           /\ \A j \in Keys : keys'[j] = NoKey <=> keys[j] = NoKey
  <1> DEFINE dead == [keys[k] EXCEPT !.active = FALSE]
  <1>1. keys[k] \in APIKey
    BY DEF TypeOK
  <1>2. dead \in APIKey /\ dead.permission = keys[k].permission /\ ~dead.active
    BY <1>1 DEF APIKey
  <1>3. dead # NoKey
    BY <1>2, NoKeyAssumption
  <1>4. keys' = [keys EXCEPT ![k] = dead]
    OBVIOUS
  <1> HIDE DEF dead
  <1> QED  BY <1>2, <1>3, <1>4 DEF TypeOK, KeysGrow

LEMMA EntryCounts ==
    ASSUME TypeOK, NEW k \in Keys
    PROVE  keyAudit[k].create \in Nat /\ keyAudit[k].update \in Nat
  <1>1. keyAudit[k] \in [create : Nat, update : Nat]
    BY DEF TypeOK
  <1> QED  BY <1>1

LEMMA KeysKnownStays ==
    ASSUME TypeOK, TypeOK', KeysKnown, EntriesKnown, KeysGrow
    PROVE  /\ UNCHANGED <<shown, retired>> => KeysKnown'
           /\ UNCHANGED keyAudit => EntriesKnown'
  <1>1. ASSUME UNCHANGED <<shown, retired>>  PROVE KeysKnown'
    BY <1>1 DEF KeysKnown, KeysGrow, TypeOK
  <1>2. ASSUME UNCHANGED keyAudit  PROVE EntriesKnown'
    BY <1>2 DEF EntriesKnown, KeysGrow
  <1> QED  BY <1>1, <1>2

\* A step after which no key is missing that was not missing before.
LEMMA CountsStay ==
    ASSUME TypeOK, TypeOK', Counted, failures' = failures,
           Unshown' \subseteq Unshown, Unlogged' \subseteq Unlogged
    PROVE  Counted'
  <1>1. failures \in Nat
    BY DEF TypeOK
  <1>2. IsFiniteSet(Unshown') /\ Cardinality(Unshown') <= failures
    BY <1>1, SetShrinks DEF Counted
  <1>3. IsFiniteSet(Unlogged') /\ Cardinality(Unlogged') <= failures
    BY <1>1, SetShrinks DEF Counted
  <1> QED  BY <1>2, <1>3 DEF Counted

\* A failing one may leave one key without its client, and without its entry.
LEMMA CountsGrow ==
    ASSUME TypeOK, TypeOK', Counted, failures' = failures + 1, NEW x, NEW y,
           Unshown' \subseteq Unshown \cup {x}, Unlogged' \subseteq Unlogged \cup {y}
    PROVE  Counted'
  <1>1. failures \in Nat
    BY DEF TypeOK
  <1>2. IsFiniteSet(Unshown') /\ Cardinality(Unshown') <= failures + 1
    BY <1>1, SetGrows DEF Counted
  <1>3. IsFiniteSet(Unlogged') /\ Cardinality(Unlogged') <= failures + 1
    BY <1>1, SetGrows DEF Counted
  <1> QED  BY <1>2, <1>3 DEF Counted

----------------------------------------------------------------------------
(* API keys.                                                               *)

LEMMA InsertKeyKeepsInv ==
    ASSUME Inv, NEW s \in Sessions, InsertKey(s)
    PROVE  Inv'
  <1> USE DEF Inv, StoresInv
  <1>1. pc[s] = "serve" /\ newKey[s] = Nobody /\ request[s] \in Requests
    BY DEF InsertKey, Serving, SessionInv, KeyKnown, RequestKnown
  <1>2. PICK k \in Keys : /\ Fresh(k)
                          /\ keys' = StoredWith(k, request[s].permission)
                          /\ newKey' = [newKey EXCEPT ![s] = k]
    BY DEF InsertKey
  <1>3. /\ keys' \in [Keys -> APIKey \cup {NoKey}] /\ KeysGrow /\ keys'[k] # NoKey
        /\ \A j \in Keys \ {k} : keys'[j] = keys[j]
    BY <1>2, StoredKey DEF Fresh
  <1>4. UNCHANGED <<config, keyAudit, records, shown, retired, failures, request, late>>
    BY DEF InsertKey
  <1>5. /\ pc' = [pc EXCEPT ![s] = "auditKey"] /\ status' = [status EXCEPT ![s] = 0]
        /\ pc'[s] = "auditKey" /\ status'[s] = 0 /\ newKey'[s] = k
        /\ \A t \in Sessions \ {s} : /\ pc'[t] = pc[t] /\ status'[t] = status[t]
                                     /\ newKey'[t] = newKey[t]
    BY <1>2 DEF InsertKey, Go, TypeOK
  <1>6. TypeOK'
    BY <1>2, <1>3, <1>4, <1>5 DEF TypeOK
  <1>7. k # Nobody /\ (\A t \in Sessions : newKey[t] # k) /\ keys[k] = NoKey
    BY <1>2, SentinelAssumption DEF Fresh
  <1>8. keyAudit[k].create = 0
    <2>1. keyAudit[k].create \in Nat
      BY EntryCounts
    <2>2. keyAudit[k].create <= 1 /\ keyAudit[k].create # 1
      BY <1>7 DEF EntriesKnown
    <2> QED  BY <2>1, <2>2
  <1>9. SessionInv(s)'
    <2>1. Granted(s)' /\ Deserved(s)'
      BY <1>1, <1>3, <1>4, <1>5, GoesOn DEF Busy
    <2>2. RequestKnown(s)'
      BY <1>1, <1>4, <1>5 DEF SessionInv, RequestKnown, Busy
    <2>3. KeyKnown(s)'
      BY <1>3, <1>4, <1>5, <1>7, <1>8 DEF KeyKnown
    <2> QED  BY <2>1, <2>2, <2>3 DEF SessionInv
  <1>10. Apart'
    BY <1>5, <1>7 DEF Apart
  <1>11. KeysKnown' /\ EntriesKnown'
    BY <1>3, <1>4, <1>6, KeysKnownStays
  <1>12. Counted'
    <2>1. Unshown' \subseteq Unshown
      BY <1>1, <1>3, <1>4, <1>5, SentinelAssumption DEF Unshown
    <2>2. Unlogged' \subseteq Unlogged
      BY <1>1, <1>3, <1>4, <1>5 DEF Unlogged, Settled
    <2> QED  BY <1>4, <1>6, <2>1, <2>2, CountsStay
  <1>13. OthersStay(s)
    BY <1>4, <1>5 DEF OthersStay, TypeOK
  <1> QED  BY <1>3, <1>6, <1>9, <1>10, <1>11, <1>12, <1>13, StepKeepsInv

LEMMA InsertKeyFailsKeepsInv ==
    ASSUME Inv, NEW s \in Sessions, InsertKeyFails(s)
    PROVE  Inv'
  <1> USE DEF Inv, StoresInv
  <1>1. pc[s] = "serve" /\ newKey[s] = Nobody /\ request[s] \in Requests
    BY DEF InsertKeyFails, Serving, SessionInv, KeyKnown, RequestKnown
  <1>2. UNCHANGED <<config, keyAudit, records, shown, retired, request, newKey, late>>
    BY DEF InsertKeyFails
  <1>3. failures' \in Nat /\ failures' = failures + 1 /\ failures <= failures'
    BY FailCounts DEF InsertKeyFails
  <1>4. 400 \in Codes /\ Answer(s, 400)
    BY DEF InsertKeyFails, Codes
  <1>5. /\ pc'[s] = "answered" /\ status'[s] \in Codes
        /\ \A t \in Sessions \ {s} : pc'[t] = pc[t] /\ status'[t] = status[t]
    BY <1>4 DEF Answer, TypeOK
  <1>6. CASE UNCHANGED keys
    <2>1. TypeOK'
      BY <1>2, <1>3, <1>4, <1>6, AnswerType DEF TypeOK
    <2> QED  BY <1>1, <1>2, <1>3, <1>4, <1>6, <2>1, AnsweredBusy
  <1>7. ASSUME NEW k \in Keys, Fresh(k), keys' = StoredWith(k, request[s].permission)
        PROVE  Inv'
    <2>1. /\ keys' \in [Keys -> APIKey \cup {NoKey}] /\ KeysGrow /\ keys'[k] # NoKey
          /\ \A j \in Keys \ {k} : keys'[j] = keys[j]
      BY <1>7, StoredKey DEF Fresh
    <2>2. TypeOK'
      BY <1>2, <1>3, <1>4, <2>1, AnswerType DEF TypeOK
    <2>3. SessionInv(s)'
      <3>1. Granted(s)' /\ Deserved(s)'
        BY <1>1, <1>2, <1>5, <2>1, GoesOn DEF Busy
      <3>2. RequestKnown(s)' /\ KeyKnown(s)'
        BY <1>1, <1>2, <1>5 DEF SessionInv, RequestKnown, KeyKnown, Busy
      <3> QED  BY <3>1, <3>2 DEF SessionInv
    <2>4. Apart'
      BY <1>2 DEF Apart
    <2>5. KeysKnown' /\ EntriesKnown'
      BY <1>2, <2>1, <2>2, KeysKnownStays
    <2>6. Counted'
      <3>1. Unshown' \subseteq Unshown \cup {k}
        BY <1>2, <2>1 DEF Unshown
      <3>2. Unlogged' \subseteq Unlogged \cup {k}
        BY <1>1, <1>2, <1>5, <2>1 DEF Unlogged, Settled
      <3> QED  BY <1>3, <2>2, <3>1, <3>2, CountsGrow
    <2>7. OthersStay(s)
      BY <1>2, <1>3, <1>5 DEF OthersStay, TypeOK
    <2> QED  BY <2>1, <2>2, <2>3, <2>4, <2>5, <2>6, <2>7, StepKeepsInv
  <1> QED  BY <1>6, <1>7 DEF InsertKeyFails

LEMMA AuditKeyKeepsInv ==
    ASSUME Inv, NEW s \in Sessions, AuditKey(s)
    PROVE  Inv'
  <1> DEFINE k == newKey[s]
  <1> USE DEF Inv, StoresInv
  <1>1. /\ pc[s] = "auditKey" /\ request[s] \in Requests
        /\ k \in Keys /\ k # Nobody /\ keys[k] # NoKey /\ keyAudit[k].create = 0
    BY DEF AuditKey, SessionInv, KeyKnown, RequestKnown
  <1>2. UNCHANGED <<config, keys, records, shown, retired, request, newKey, late>>
    BY DEF AuditKey
  <1>3. /\ pc' = [pc EXCEPT ![s] = "listKeys"] /\ status' = [status EXCEPT ![s] = 0]
        /\ pc'[s] = "listKeys"
        /\ \A t \in Sessions \ {s} : pc'[t] = pc[t] /\ status'[t] = status[t]
    BY DEF AuditKey, Go, TypeOK
  <1>4. \/ /\ keyAudit' = [keyAudit EXCEPT ![k].create = @ + 1]
           /\ failures' = failures
        \/ failures' \in Nat /\ failures' = failures + 1 /\ UNCHANGED keyAudit
    BY FailCounts DEF AuditKey
  <1>5. KeysGrow
    BY <1>2 DEF KeysGrow
  <1>6. /\ keyAudit' \in [Keys -> [create : Nat, update : Nat]]
        /\ \A j \in Keys : keyAudit'[j].update = keyAudit[j].update
        /\ \A j \in Keys \ {k} : keyAudit'[j].create = keyAudit[j].create
        /\ UNCHANGED keyAudit \/ keyAudit'[k].create = 1
    <2>1. CASE UNCHANGED keyAudit
      BY <2>1 DEF TypeOK
    <2>2. CASE keyAudit' = [keyAudit EXCEPT ![k].create = @ + 1]
      <3> DEFINE entry == [keyAudit[k] EXCEPT !.create = @ + 1]
      <3>1. keyAudit[k] \in [create : Nat, update : Nat]
        BY <1>1 DEF TypeOK
      <3>2. /\ entry \in [create : Nat, update : Nat]
            /\ entry.create = 1 /\ entry.update = keyAudit[k].update
        BY <1>1, <3>1
      <3>3. keyAudit' = [keyAudit EXCEPT ![k] = entry]
        BY <2>2
      <3> HIDE DEF entry
      <3> QED  BY <1>1, <3>2, <3>3 DEF TypeOK
    <2> QED  BY <1>4, <2>1, <2>2
  <1>7. TypeOK'
    BY <1>2, <1>3, <1>4, <1>6 DEF TypeOK
  <1>8. SessionInv(s)'
    <2>1. Granted(s)' /\ Deserved(s)'
      BY <1>1, <1>2, <1>3, <1>5, GoesOn DEF Busy
    <2>2. RequestKnown(s)' /\ KeyKnown(s)'
      BY <1>1, <1>2, <1>3 DEF SessionInv, RequestKnown, KeyKnown, Busy
    <2> QED  BY <2>1, <2>2 DEF SessionInv
  <1>9. Apart' /\ KeysKnown'
    BY <1>2 DEF Apart, KeysKnown
  <1>10. EntriesKnown'
    BY <1>1, <1>2, <1>6 DEF EntriesKnown
  <1>11. Counted'
    <2>1. Unshown' \subseteq Unshown
      BY <1>2 DEF Unshown
    <2>2. CASE failures' = failures /\ keyAudit' = [keyAudit EXCEPT ![k].create = @ + 1]
      <3>1. keyAudit'[k].create # 0
        BY <1>1, <2>2 DEF TypeOK
      <3>2. Unlogged' \subseteq Unlogged
        BY <1>2, <1>3, <1>6, <3>1 DEF Unlogged, Settled
      <3> QED  BY <1>7, <2>1, <2>2, <3>2, CountsStay
    <2>3. CASE failures' = failures + 1 /\ UNCHANGED keyAudit
      <3>1. Unlogged' \subseteq Unlogged \cup {k}
        BY <1>2, <1>3, <2>3 DEF Unlogged, Settled
      <3> HIDE DEF k
      <3> QED  BY <1>7, <2>1, <2>3, <3>1, CountsGrow
    <2> QED  BY <1>4, <2>2, <2>3
  <1>12. OthersStay(s)
    <2>1. failures <= failures'
      BY <1>4 DEF TypeOK
    <2> QED  BY <1>2, <1>3, <1>6, <2>1 DEF OthersStay
  <1> QED  BY <1>5, <1>7, <1>8, <1>9, <1>10, <1>11, <1>12, StepKeepsInv

LEMMA ListKeysKeepsInv ==
    ASSUME Inv, NEW s \in Sessions, ListKeys(s)
    PROVE  Inv'
  <1> USE DEF Inv, StoresInv
  <1>1. /\ pc[s] = "listKeys" /\ request[s] \in Requests
        /\ newKey[s] \in Keys => keys[newKey[s]] # NoKey
    BY SentinelAssumption DEF ListKeys, SessionInv, KeyKnown, RequestKnown
  <1>2. UNCHANGED <<config, keys, keyAudit, records, retired, request, late>>
    BY DEF ListKeys
  <1>3. /\ newKey' = [newKey EXCEPT ![s] = Nobody] /\ newKey'[s] = Nobody
        /\ \A t \in Sessions \ {s} : newKey'[t] = newKey[t]
    BY DEF ListKeys, TypeOK
  <1>4. \/ /\ shown' = shown \cup ({newKey[s]} \cap Keys)
           /\ Answer(s, 200) /\ failures' = failures
        \/ /\ failures' \in Nat /\ failures' = failures + 1
           /\ Answer(s, 500) /\ UNCHANGED shown
    BY FailCounts DEF ListKeys
  <1>5. PICK code \in Codes : Answer(s, code)
    <2>1. 200 \in Codes /\ 500 \in Codes
      BY DEF Codes
    <2> QED  BY <1>4, <2>1
  <1>6. /\ pc'[s] = "answered" /\ status'[s] \in Codes
        /\ \A t \in Sessions \ {s} : pc'[t] = pc[t] /\ status'[t] = status[t]
    BY <1>5 DEF Answer, TypeOK
  <1>7. shown \subseteq shown' /\ shown' \subseteq shown \cup ({newKey[s]} \cap Keys)
    BY <1>4
  <1>8. TypeOK'
    BY <1>2, <1>3, <1>4, <1>5, <1>7, AnswerType DEF TypeOK
  <1>9. KeysGrow
    BY <1>2 DEF KeysGrow
  <1>10. SessionInv(s)'
    <2>1. Granted(s)' /\ Deserved(s)'
      BY <1>1, <1>2, <1>6, <1>9, GoesOn DEF Busy
    <2>2. RequestKnown(s)' /\ KeyKnown(s)'
      BY <1>1, <1>2, <1>3, <1>6, <1>7 DEF SessionInv, RequestKnown, KeyKnown, Busy
    <2> QED  BY <2>1, <2>2 DEF SessionInv
  <1>11. Apart'
    BY <1>3 DEF Apart
  <1>12. KeysKnown'
    BY <1>1, <1>2, <1>7 DEF KeysKnown
  <1>13. EntriesKnown'
    BY <1>2 DEF EntriesKnown
  <1>14. Counted'
    <2>1. Unlogged' \subseteq Unlogged
      BY <1>1, <1>2, <1>3, <1>6 DEF Unlogged, Settled
    <2>2. CASE shown' = shown \cup ({newKey[s]} \cap Keys) /\ failures' = failures
      <3>1. Unshown' \subseteq Unshown
        BY <1>2, <1>3, <2>2 DEF Unshown
      <3> QED  BY <1>8, <2>1, <2>2, <3>1, CountsStay
    <2>3. CASE UNCHANGED shown /\ failures' = failures + 1
      <3>1. Unshown' \subseteq Unshown \cup {newKey[s]}
        BY <1>2, <1>3, <2>3 DEF Unshown
      <3> QED  BY <1>8, <2>1, <2>3, <3>1, CountsGrow
    <2> QED  BY <1>4, <2>2, <2>3
  <1>15. OthersStay(s)
    <2>1. failures <= failures'
      BY <1>4 DEF TypeOK
    <2> QED  BY <1>2, <1>3, <1>6, <1>7, <2>1 DEF OthersStay
  <1> QED  BY <1>8, <1>9, <1>10, <1>11, <1>12, <1>13, <1>14, <1>15, StepKeepsInv

LEMMA RevokeKeyKeepsInv ==
    ASSUME Inv, NEW s \in Sessions, RevokeKey(s) \/ RevokeKeyFails(s)
    PROVE  Inv'
  <1> DEFINE k == request[s].target
             revoked == k \in Keys /\ keys[k] # NoKey /\ keys' = [keys EXCEPT ![k].active = FALSE]
  <1> USE DEF Inv, StoresInv
  <1>1. pc[s] = "serve" /\ newKey[s] = Nobody /\ request[s] \in Requests
    BY DEF RevokeKey, RevokeKeyFails, Serving, SessionInv, KeyKnown, RequestKnown
  <1>2. UNCHANGED <<config, keyAudit, records, shown, retired, request, newKey, late>>
    BY DEF RevokeKey, RevokeKeyFails
  <1>3. /\ failures' \in Nat /\ failures <= failures'
        /\ failures' = failures \/ failures' = failures + 1
    BY FailCounts DEF RevokeKey, RevokeKeyFails, TypeOK
  <1>4. /\ UNCHANGED keys \/ revoked
        /\ \/ Go(s, "auditRevoke") /\ revoked
           \/ Answer(s, 400)
    BY DEF RevokeKey, RevokeKeyFails
  <1>5. /\ pc' \in [Sessions -> {"idle", "lookup", "serve", "auditKey", "listKeys",
                                  "auditRevoke", "answered"}]
        /\ status' \in [Sessions -> Nat]
        /\ pc'[s] \in {"auditRevoke", "answered"}
        /\ pc'[s] = "answered" => status'[s] = 400
        /\ pc'[s] = "auditRevoke" => revoked
        /\ \A t \in Sessions \ {s} : pc'[t] = pc[t] /\ status'[t] = status[t]
    <2> HIDE DEF revoked
    <2> QED  BY <1>4 DEF Go, Answer, TypeOK
  <1>6. /\ keys' \in [Keys -> APIKey \cup {NoKey}] /\ KeysGrow
        /\ \A j \in Keys : keys'[j] = NoKey <=> keys[j] = NoKey
        /\ revoked => keys'[k] # NoKey /\ ~keys'[k].active
    <2>1. CASE revoked
      BY <2>1, RevokedKey
    <2>2. CASE ~revoked
      BY <1>4, <2>2 DEF KeysGrow, TypeOK
    <2> QED  BY <2>1, <2>2
  <1>7. TypeOK'
    BY <1>2, <1>3, <1>5, <1>6 DEF TypeOK
  <1>8. SessionInv(s)'
    <2>1. Granted(s)' /\ Deserved(s)'
      BY <1>1, <1>2, <1>5, <1>6, GoesOn DEF Busy, Codes
    <2>2. RequestKnown(s)'
      BY <1>1, <1>2, <1>5 DEF SessionInv, RequestKnown, Busy
    <2>3. KeyKnown(s)'
      BY <1>1, <1>2, <1>5, <1>6 DEF SessionInv, KeyKnown
    <2> QED  BY <2>1, <2>2, <2>3 DEF SessionInv
  <1>9. Apart'
    BY <1>2 DEF Apart
  <1>10. KeysKnown' /\ EntriesKnown'
    BY <1>2, <1>6, <1>7, KeysKnownStays
  <1>11. Counted'
    <2>1. Unshown' \subseteq Unshown
      BY <1>2, <1>6 DEF Unshown
    <2>2. Unlogged' \subseteq Unlogged
      BY <1>1, <1>2, <1>5, <1>6 DEF Unlogged, Settled
    <2>3. CASE failures' = failures
      BY <1>7, <2>1, <2>2, <2>3, CountsStay
    <2>4. CASE failures' = failures + 1
      BY <1>7, <2>1, <2>2, <2>4, CountsGrow
    <2> QED  BY <1>3, <2>3, <2>4
  <1>12. OthersStay(s)
    BY <1>2, <1>3, <1>5 DEF OthersStay
  <1> QED  BY <1>6, <1>7, <1>8, <1>9, <1>10, <1>11, <1>12, StepKeepsInv

LEMMA AuditRevokeKeepsInv ==
    ASSUME Inv, NEW s \in Sessions, AuditRevoke(s)
    PROVE  Inv'
  <1> DEFINE k == request[s].target
  <1> USE DEF Inv, StoresInv
  <1>1. /\ pc[s] = "auditRevoke" /\ request[s] \in Requests /\ newKey[s] = Nobody
        /\ k \in Keys /\ keys[k] # NoKey /\ ~keys[k].active
    BY DEF AuditRevoke, SessionInv, KeyKnown, RequestKnown
  <1>2. UNCHANGED <<config, keys, records, shown, request, newKey, late>>
    BY DEF AuditRevoke
  <1>3. /\ failures' \in Nat /\ failures <= failures'
        /\ failures' = failures \/ failures' = failures + 1
    BY FailCounts DEF AuditRevoke, TypeOK
  <1>4. 303 \in Codes /\ Answer(s, 303)
    BY DEF AuditRevoke, Codes
  <1>5. /\ pc'[s] = "answered" /\ status'[s] = 303
        /\ \A t \in Sessions \ {s} : pc'[t] = pc[t] /\ status'[t] = status[t]
    BY <1>4 DEF Answer, TypeOK
  <1>6. retired' = retired \cup {k}
    BY DEF AuditRevoke
  <1>7. /\ keyAudit' \in [Keys -> [create : Nat, update : Nat]]
        /\ \A j \in Keys : keyAudit'[j].create = keyAudit[j].create
        /\ \A j \in Keys \ {k} : keyAudit'[j].update = keyAudit[j].update
    <2>1. CASE UNCHANGED keyAudit
      BY <2>1 DEF TypeOK
    <2>2. CASE keyAudit' = [keyAudit EXCEPT ![k].update = @ + 1]
      <3> DEFINE entry == [keyAudit[k] EXCEPT !.update = @ + 1]
      <3>1. keyAudit[k] \in [create : Nat, update : Nat]
        BY <1>1 DEF TypeOK
      <3>2. entry \in [create : Nat, update : Nat] /\ entry.create = keyAudit[k].create
        BY <3>1
      <3>3. keyAudit' = [keyAudit EXCEPT ![k] = entry]
        BY <2>2
      <3> HIDE DEF entry
      <3> QED  BY <1>1, <3>2, <3>3 DEF TypeOK
    <2> QED  BY <2>1, <2>2 DEF AuditRevoke
  <1>8. TypeOK'
    BY <1>1, <1>2, <1>3, <1>4, <1>6, <1>7, AnswerType DEF TypeOK
  <1>9. KeysGrow
    BY <1>2 DEF KeysGrow
  <1>10. SessionInv(s)'
    <2>1. Granted(s)' /\ Deserved(s)'
      BY <1>1, <1>2, <1>4, <1>5, <1>9, GoesOn DEF Busy
    <2>2. RequestKnown(s)' /\ KeyKnown(s)'
      BY <1>1, <1>2, <1>5 DEF SessionInv, RequestKnown, KeyKnown, Busy
    <2> QED  BY <2>1, <2>2 DEF SessionInv
  <1>11. Apart' /\ KeysKnown'
    BY <1>1, <1>2, <1>6 DEF Apart, KeysKnown
  <1>12. EntriesKnown'
    BY <1>1, <1>2, <1>7 DEF EntriesKnown
  <1>13. Counted'
    <2>1. Unshown' \subseteq Unshown
      BY <1>2 DEF Unshown
    <2>2. Unlogged' \subseteq Unlogged
      BY <1>1, <1>2, <1>5, <1>7 DEF Unlogged, Settled
    <2>3. CASE failures' = failures
      BY <1>8, <2>1, <2>2, <2>3, CountsStay
    <2>4. CASE failures' = failures + 1
      BY <1>8, <2>1, <2>2, <2>4, CountsGrow
    <2> QED  BY <1>3, <2>3, <2>4
  <1>14. OthersStay(s)
    BY <1>2, <1>3, <1>5, <1>6, <1>7 DEF OthersStay
  <1> QED  BY <1>8, <1>9, <1>10, <1>11, <1>12, <1>13, <1>14, StepKeepsInv

LEMMA CrashKeepsInv ==
    ASSUME Inv, NEW s \in Sessions, Crash(s)
    PROVE  Inv'
  <1> USE DEF Inv, StoresInv
  <1>1. UNCHANGED <<config, keys, keyAudit, records, shown, retired, late>>
    BY DEF Crash, stores
  <1>2. failures' \in Nat /\ failures' = failures + 1 /\ failures <= failures'
    BY FailCounts DEF Crash
  <1>3. /\ pc' = [pc EXCEPT ![s] = "idle"] /\ status' = [status EXCEPT ![s] = 0]
        /\ request' = [request EXCEPT ![s] = Nobody]
        /\ newKey' = [newKey EXCEPT ![s] = Nobody]
    BY DEF Crash, Go
  <1>4. /\ pc'[s] = "idle" /\ newKey'[s] = Nobody
        /\ \A t \in Sessions \ {s} : /\ pc'[t] = pc[t] /\ status'[t] = status[t]
                                     /\ request'[t] = request[t] /\ newKey'[t] = newKey[t]
    BY <1>3 DEF TypeOK
  <1>5. TypeOK'
    BY <1>1, <1>2, <1>3 DEF TypeOK
  <1>6. KeysGrow
    BY <1>1 DEF KeysGrow
  <1>7. SessionInv(s)'
    BY <1>4 DEF SessionInv, RequestKnown, KeyKnown, Granted, Admitted, Deserved, Busy
  <1>8. Apart' /\ KeysKnown' /\ EntriesKnown'
    BY <1>1, <1>4 DEF Apart, KeysKnown, EntriesKnown
  <1>9. Counted'
    <2>1. Unshown' \subseteq Unshown \cup {newKey[s]}
      BY <1>1, <1>4 DEF Unshown
    <2>2. Unlogged' \subseteq Unlogged \cup {newKey[s]}
      BY <1>1, <1>4 DEF Unlogged, Settled
    <2> QED  BY <1>2, <1>5, <2>1, <2>2, CountsGrow
  <1>10. OthersStay(s)
    BY <1>1, <1>2, <1>4 DEF OthersStay
  <1> QED  BY <1>5, <1>6, <1>7, <1>8, <1>9, <1>10, StepKeepsInv

----------------------------------------------------------------------------
(* The specification.                                                      *)

LEMMA InitInv == Init => Inv
  <1> SUFFICES ASSUME Init  PROVE Inv
    OBVIOUS
  <1>1. TypeOK
    BY DEF Init, TypeOK
  <1>2. \A s \in Sessions : SessionInv(s)
    BY DEF Init, SessionInv, RequestKnown, KeyKnown, Granted, Admitted, Deserved, Busy
  <1>3. Apart /\ KeysKnown /\ EntriesKnown
    BY DEF Init, Apart, KeysKnown, EntriesKnown
  <1>4. Unshown = {} /\ Unlogged = {}
    BY DEF Init, Unshown, Unlogged, Settled
  <1>5. Counted
    BY <1>4, FS_EmptySet DEF Init, Counted
  <1> QED  BY <1>1, <1>2, <1>3, <1>5 DEF Inv, StoresInv

LEMMA UnchangedKeepsInv ==
    ASSUME Inv, UNCHANGED vars
    PROVE  Inv'
  <1>1. UNCHANGED <<config, keys, keyAudit, records, shown, retired, failures,
                    pc, request, status, newKey, late>>
    BY DEF vars, stores
  <1>2. TypeOK'
    BY <1>1 DEF Inv, TypeOK
  <1>3. failures <= failures'
    BY <1>1 DEF Inv, TypeOK
  <1>4. StoresInv'
    BY <1>1, <1>2, <1>3, StoresStay DEF Inv
  <1>5. ASSUME NEW s \in Sessions  PROVE SessionInv(s)'
    BY <1>1 DEF Inv, SessionInv, RequestKnown, KeyKnown, Granted, GrantedByKey,
                Admitted, Deserved
  <1> QED  BY <1>2, <1>4, <1>5 DEF Inv

LEMMA NextKeepsInv == Inv /\ [Next]_vars => Inv'
  <1> SUFFICES ASSUME Inv, [Next]_vars  PROVE Inv'
    OBVIOUS
  <1>1. CASE UNCHANGED vars
    BY <1>1, UnchangedKeepsInv
  <1>2. ASSUME NEW s \in Sessions, NEW r \in Requests, Arrive(s, r)  PROVE Inv'
    BY <1>2, ArriveKeepsInv
  <1>3. ASSUME NEW s \in Sessions, Step(s)  PROVE Inv'
    <2>1. CASE LookupKey(s)
      BY <2>1, LookupKeyKeepsInv
    <2>2. CASE LookupFails(s)
      BY <2>2, LookupFailsKeepsInv
    <2>3. CASE ServeContent(s) \/ ContentFails(s)
      BY <2>3, ServeContentKeepsInv
    <2>4. CASE ServeElse(s) \/ RefuseUnnamedKey(s)
      BY <2>4, ServeElseKeepsInv
    <2>5. CASE InsertKey(s)
      BY <2>5, InsertKeyKeepsInv
    <2>6. CASE InsertKeyFails(s)
      BY <2>6, InsertKeyFailsKeepsInv
    <2>7. CASE AuditKey(s)
      BY <2>7, AuditKeyKeepsInv
    <2>8. CASE ListKeys(s)
      BY <2>8, ListKeysKeepsInv
    <2>9. CASE RevokeKey(s) \/ RevokeKeyFails(s)
      BY <2>9, RevokeKeyKeepsInv
    <2>10. CASE AuditRevoke(s)
      BY <2>10, AuditRevokeKeepsInv
    <2>11. CASE Crash(s)
      BY <2>11, CrashKeepsInv
    <2> QED  BY <1>3, <2>1, <2>2, <2>3, <2>4, <2>5, <2>6, <2>7, <2>8, <2>9, <2>10, <2>11
             DEF Step
  <1> QED  BY <1>1, <1>2, <1>3 DEF Next

LEMMA InvImplies ==
    Inv => /\ TypeOK /\ ServedRequestsWereGranted /\ RefusalsAreDeserved
           /\ UnshownKeysComeFromFailures /\ KeyAuditFollowsKeys
  <1> SUFFICES ASSUME Inv
               PROVE  /\ TypeOK /\ ServedRequestsWereGranted /\ RefusalsAreDeserved
                      /\ UnshownKeysComeFromFailures /\ KeyAuditFollowsKeys
    OBVIOUS
  <1>1. ServedRequestsWereGranted
    BY DEF Inv, SessionInv, Granted, ServedRequestsWereGranted
  <1>2. RefusalsAreDeserved
    BY DEF Inv, SessionInv, Deserved, RefusalsAreDeserved
  <1>3. UnshownKeysComeFromFailures
    BY DEF Inv, StoresInv, Counted, Unshown, UnshownKeysComeFromFailures
  <1>4. KeyAuditFollowsKeys
    BY DEF Inv, StoresInv, EntriesKnown, Counted, Unlogged, Settled, KeyAuditFollowsKeys
  <1> QED  BY <1>1, <1>2, <1>3, <1>4 DEF Inv

\* The invariant holds throughout.
THEOREM InvAlways == Spec => []Inv
  BY InitInv, NextKeepsInv, PTL DEF Spec

\* Types.
THEOREM HttpServerTypeOK == Spec => []TypeOK
  BY InvAlways, InvImplies, PTL

\* Whoever is served was granted it: by a key that was alive when the request
\* arrived, however many are revoked while it runs (middleware.go, csrf.go).
THEOREM ServedAreGranted == Spec => []ServedRequestsWereGranted
  BY InvAlways, InvImplies, PTL

\* Whoever is turned away is so for what is wrong with the request
\* (service.go:98-118).
THEOREM RefusedDeserveIt == Spec => []RefusalsAreDeserved
  BY InvAlways, InvImplies, PTL

\* Every key without its client cost a failure (service.go:28-64).
THEOREM UnshownCostFailures == Spec => []UnshownKeysComeFromFailures
  BY InvAlways, InvImplies, PTL

\* The audit log follows the keys up to the failures (service.go:45-87).
THEOREM AuditFollowsKeys == Spec => []KeyAuditFollowsKeys
  BY InvAlways, InvImplies, PTL

=============================================================================
