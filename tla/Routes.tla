------------------------------- MODULE Routes -------------------------------
(**************************************************************************)
(* Which request reaches which operation, and what it may be answered:    *)
(* the REST router (pkg/api/router.go), the media handlers                *)
(* (pkg/media/handler.go), the Admin UI (internal/admin/server.go), the   *)
(* split of the three by role, and the answers the generated OpenAPI      *)
(* document announces (pkg/openapi/generator.go).                         *)
(*                                                                        *)
(* A path is known by its shape: "record" stands for /api/{resource}/{id} *)
(* with a registered resource, "publish" for that with /publish behind.   *)
(* A route carries the answer of a call that worked and those of one that *)
(* did not.                                                               *)
(**************************************************************************)
EXTENDS Naturals

Roles == {"all", "api", "admin"}

Methods == {"GET", "HEAD", "OPTIONS", "TRACE", "POST", "PUT", "PATCH", "DELETE"}

Route(shape, methods, call, ok, errors) ==
    [shape |-> shape, methods |-> methods, call |-> call, ok |-> ok,
     errors |-> errors]

----------------------------------------------------------------------------
(* The REST API.                                                           *)

RestShapes == {"openapi", "records", "record", "publish", "unpublish", "finish",
               "otherAction", "deeper", "noResource", "uploads", "upload", "noUpload"}

ResourceRoutes ==
    {Route("openapi",   Methods,          "document",    200, {}),
     Route("records",   {"GET"},          "list",        200, {500}),
     Route("records",   {"POST"},         "create",      201, {400}),
     Route("record",    {"GET"},          "get",         200, {404}),
     Route("record",    {"PATCH", "PUT"}, "update",      200, {400}),
     Route("record",    {"DELETE"},       "delete",      204, {400}),
     Route("publish",   {"POST"},         "publish",     200, {400}),
     Route("unpublish", {"POST"},         "unpublish",   200, {400}),
     Route("finish",    {"POST"},         "finish",      200, {400})}

UploadRoutes ==
    {Route("uploads",   {"GET"},          "listMedia",   200, {500}),
     Route("uploads",   {"POST"},         "uploadMedia", 201, {400, 500}),
     Route("upload",    {"GET"},          "getMedia",    200, {404}),
     Route("upload",    {"DELETE"},       "deleteMedia", 204, {400})}

RestRoutes == ResourceRoutes \cup UploadRoutes

\* No route: an unknown resource, action or upload is not found, and every
\* other method or path is not allowed.
RestRefusal(request) ==
    IF \/ request.shape \in {"noResource", "noUpload"}
       \/ request.shape = "otherAction" /\ request.method = "POST"
    THEN 404 ELSE 405

----------------------------------------------------------------------------
(* The Admin UI.                                                           *)

AdminShapes == {"root", "status", "adminUploads", "adminPicker", "adminInline",
                "adminUpload", "adminKeys", "adminRevoke", "adminRecords",
                "adminNew", "adminRecord", "adminEdit", "adminHistory",
                "adminPublish", "adminUnpublish", "adminFinish", "adminElse"}

StatusPages ==
    {Route("root",           Methods,    "page",        302, {}),
     Route("status",         Methods,    "page",        200, {})}

MediaPages ==
    {Route("adminUploads",   {"POST"},   "uploadMedia", 303, {400, 500}),
     Route("adminUploads",   Methods \ {"POST"}, "listMedia", 200, {500}),
     Route("adminPicker",    Methods,    "page",        200, {}),
     Route("adminInline",    {"POST"},   "uploadMedia", 200, {400}),
     Route("adminInline",    {"DELETE"}, "deleteMedia", 200, {400}),
     Route("adminUpload",    {"DELETE"}, "deleteMedia", 200, {400})}

KeyPages ==
    {Route("adminKeys",      {"POST"},   "createKey",   200, {400, 500}),
     Route("adminKeys",      Methods \ {"POST"}, "listKeys", 200, {500}),
     Route("adminRevoke",    {"POST"},   "revokeKey",   303, {400})}

\* A form that was refused is shown again, with 200.
FormPages ==
    {Route("adminNew",       Methods,    "page",        200, {}),
     Route("adminRecords",   {"POST"},   "create",      303, {200, 400}),
     Route("adminEdit",      Methods,    "get",         200, {404}),
     Route("adminRecord",    {"POST"},   "update",      303, {200, 400})}

RecordPages ==
    {Route("adminRecord",    {"DELETE"}, "delete",      200, {400}),
     Route("adminHistory",   Methods,    "get",         200, {404})}

\* The lifecycle actions, as edit and history, take any method.
LifecyclePages ==
    {Route("adminPublish",   Methods,    "publish",     200, {400}),
     Route("adminUnpublish", Methods,    "unpublish",   200, {400}),
     Route("adminFinish",    Methods,    "finish",      200, {400})}

ListPages == {Route("adminRecords",  {"GET"},    "list",        200, {500})}

AdminRoutes ==
    StatusPages \cup MediaPages \cup KeyPages
        \cup ListPages \cup FormPages \cup RecordPages \cup LifecyclePages

\* Files: the uploads themselves and the assets of the Admin UI.
FileRoutes ==
    {Route("delivery", Methods,   "deliver", 200, {404}),
     Route("static",   Methods,   "page",    200, {404})}

Shapes == RestShapes \cup AdminShapes \cup {"delivery", "static"}

----------------------------------------------------------------------------
(* The handler of a role.                                                  *)

\* Behind which middleware a path is served: "rest" the API key, "admin"
\* Basic authentication and the origin check, "open" none; "nowhere" if the
\* role does not serve it.
Area(role, shape) ==
    CASE shape \in RestShapes -> IF role = "admin" THEN "admin" ELSE "rest"
      [] shape = "delivery" -> IF role = "admin" THEN "admin" ELSE "open"
      [] shape = "static" -> IF role = "all" THEN "open"
                             ELSE IF role = "admin" THEN "admin" ELSE "nowhere"
      [] OTHER -> IF role = "api" THEN "nowhere" ELSE "admin"

\* The routes of a role, by area.
RoutesIn(area) ==
    CASE area = "rest"  -> RestRoutes
      [] area = "admin" -> AdminRoutes \cup FileRoutes
      [] area = "open"  -> FileRoutes
      [] OTHER          -> {}

Matches(request) ==
    {route \in RoutesIn(Area(request.role, request.shape)) :
        route.shape = request.shape /\ request.method \in route.methods}

\* There is at most one.
TheRoute(request) == CHOOSE route \in Matches(request) : TRUE

\* The answer when there is none.
NoRouteAnswer(request) ==
    IF Area(request.role, request.shape) = "rest" THEN RestRefusal(request) ELSE 404

----------------------------------------------------------------------------
(* The OpenAPI document, for a resource with a managed lifecycle.          *)

MediaDocumented ==
    {Route("uploads",   {"GET"},    "listMedia",   200, {}),
     Route("uploads",   {"POST"},   "uploadMedia", 201, {400}),
     Route("upload",    {"GET"},    "getMedia",    200, {404}),
     Route("upload",    {"DELETE"}, "deleteMedia", 204, {404})}

RecordsDocumented ==
    {Route("records",   {"GET"},    "list",        200, {}),
     Route("records",   {"POST"},   "create",      201, {400})}

RecordDocumented ==
    {Route("record",    {"GET"},    "get",         200, {404}),
     Route("record",    {"PATCH"},  "update",      200, {404}),
     Route("record",    {"DELETE"}, "delete",      204, {404})}

LifecycleDocumented ==
    {Route("publish",   {"POST"},   "publish",     200, {400}),
     Route("unpublish", {"POST"},   "unpublish",   200, {400}),
     Route("finish",    {"POST"},   "finish",      200, {400})}

Documented ==
    MediaDocumented \cup RecordsDocumented \cup RecordDocumented \cup LifecycleDocumented

=============================================================================
