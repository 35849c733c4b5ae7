----------------------------- MODULE Admission -----------------------------
(**************************************************************************)
(* Who may do what over HTTP: the decisions of pkg/auth on one request.   *)
(*   - a stored API key and a method (model.go, service.go);              *)
(*   - the credential of a REST request (middleware.go);                  *)
(*   - Basic authentication and the origin of an Admin UI request         *)
(*     (middleware.go, csrf.go).                                          *)
(* A request is a record; its headers are model values, hosts are taken   *)
(* without their port and up to letter case.                              *)
(**************************************************************************)
EXTENDS Naturals

CONSTANTS
    Loopbacks,   \* the hosts that name this machine: localhost, 127.0.0.1, ::1, 0.0.0.0
    NoHost,      \* an empty host
    NoUrl,       \* the Origin or Referer header is missing
    NoKey,       \* no row of cms_api_keys
    NoCredential,  \* neither X-API-Key nor a Bearer token
    StaticKey    \* the key given by --api-key

----------------------------------------------------------------------------
(* API keys.                                                               *)

Permissions == {"read", "read_write"}

APIKey == [permission : Permissions, active : BOOLEAN]

ASSUME NoKeyAssumption == NoKey \notin APIKey

CanAccessMethod(key, method) ==
    /\ key.active
    /\ \/ key.permission = "read_write"
       \/ key.permission = "read" /\ method \in {"GET", "HEAD", "OPTIONS"}

\* What GetByHash found, and the method: is the request let through?
ValidToken(key, method) == key # NoKey /\ CanAccessMethod(key, method)

\* The answer to a refused token: 403 for an error that speaks of permission.
TokenRefusal(key) ==
    IF key # NoKey /\ key.active THEN 403 ELSE 401

\* MUTANT of GrantedPermission: the form's word is stored as it is.
GrantedPermissionAsked(asked) == asked

\* CreateKey takes an unknown permission for read_write.
GrantedPermission(asked) ==
    IF asked \in Permissions THEN asked ELSE "read_write"

----------------------------------------------------------------------------
(* REST requests.  The server always has an auth.Service, so the public    *)
(* mode of the middleware is never entered.                                *)

\* Passed without a look at the stored keys.
PassesWithoutKey(config, request) ==
    \/ request.shape = "openapi"
    \/ config.static /\ request.credential = StaticKey

----------------------------------------------------------------------------
(* Admin UI requests.                                                      *)

BasicAuthAllows(config, request) == config.basic => request.login

SafeMethods == {"GET", "HEAD", "OPTIONS", "TRACE"}

\* url: the parsed Origin or Referer, a host of NoHost when it did not parse.
HostAndSchemeMatch(url, request) ==
    /\ request.https => url.scheme = "https"
    /\ url.host # NoHost
    /\ request.host # NoHost
    /\ \/ url.host = request.host
       \/ {url.host, request.host} \subseteq Loopbacks

\* Origin decides when it is there, else Referer, else Sec-Fetch-Site.
CSRFAllows(request) ==
    \/ request.method \in SafeMethods
    \/ /\ request.fetchSite # "cross-site"
       /\ \/ request.origin # NoUrl /\ HostAndSchemeMatch(request.origin, request)
          \/ /\ request.origin = NoUrl
             /\ request.referer # NoUrl
             /\ HostAndSchemeMatch(request.referer, request)
          \/ /\ request.origin = NoUrl
             /\ request.referer = NoUrl
             /\ request.fetchSite \in {"same-origin", "same-site"}

\* The rule as the head of csrf.go states it: at least one indicator that
\* names this server, and never an explicit cross-site one.
NamesThisServer(request) ==
    /\ request.fetchSite # "cross-site"
    /\ \/ \E url \in {request.origin, request.referer} \ {NoUrl} :
             HostAndSchemeMatch(url, request)
       \/ request.fetchSite \in {"same-origin", "same-site"}

============================================================================
