------------------------------ MODULE HttpRoutes ------------------------------
(***************************************************************************)
(* The routes of the HTTP server (src/internal/server/*/*_service.go), the *)
(* scopes of the API keys (src/internal/auth) and the description the      *)
(* server publishes of itself (src/api/paths.go).                          *)
(*                                                                         *)
(* A route says which method it insists on, which checks its handler makes *)
(* in which order before it calls its service, the status of success, the  *)
(* statuses that report a failure of the service, and whether the service  *)
(* writes.                                                                 *)
(***************************************************************************)
EXTENDS Integers

CONSTANT Profiling   \* HERMEM_PPROF_ENABLED is "1"

ASSUME HttpRoutesAssumption == Profiling \in BOOLEAN

Both == {"GET", "POST"}

Route(path, methods, checks, ok, failed, writes) ==
    [path |-> path, methods |-> methods, checks |-> checks,
     ok |-> ok, failed |-> failed, writes |-> writes]

\* The row of a path.
ByPath(table) == [p \in {r.path : r \in table} |-> CHOOSE r \in table : r.path = p]

\* mapStatus, with the detail DecodeJSON gives to a body it refuses.
MapStatus(err) ==
    IF err \in {"invalid_input", "invalid_schema"} THEN 422
    ELSE IF err = "schema_conflict" THEN 409
    ELSE IF err = "not_found" THEN 400
    ELSE IF err = "unauthorized" THEN 401 ELSE 500

Errors == {"invalid_input", "invalid_schema", "schema_conflict", "not_found", "internal"}

\* Handlers that return their errors to Wrap.
Wrapped == {MapStatus(e) : e \in Errors}

TaskRoutes ==
    LET T(path, checks, writes) == Route(path, {"POST"}, checks, 200, Wrapped, writes) IN
    {Route("/task/status", {"POST"}, <<"body", "fields">>, 204, {400, 422}, TRUE),
     Route("/task/executable", Both, <<>>, 200, Wrapped, FALSE),
     Route("/task/next", Both, <<>>, 200, Wrapped, FALSE),
     T("/task/claim-next", <<"body">>, TRUE),
     T("/task/list", <<"body", "word">>, FALSE),
     T("/task/show", <<"body", "fields">>, FALSE),
     T("/task/dep", <<"body", "fields", "word">>, TRUE),
     T("/task/tree", <<"body">>, FALSE),
     T("/task/create", <<"body", "fields">>, TRUE),
     T("/task/rollback", <<"body", "fields">>, FALSE),
     Route("/recovery-plan", Both, <<"fields">>, 200, Wrapped, FALSE)}

RetrievalRoutes ==
    LET Q(path, checks) == Route(path, {"POST"}, checks, 200, Wrapped, FALSE) IN
    {Q("/search", <<"body", "fields">>),
     Q("/retrieve", <<"body", "fields">>),
     Q("/query", <<"body", "fields">>),
     Q("/query/temporal", <<"body", "fields">>),
     Q("/response", <<"body", "fields">>),
     Q("/query/explain", <<"body">>),
     Route("/provenance", Both, <<>>, 200, {400}, FALSE)}

StoreRoutes ==
    {Route("/store", {"POST"}, <<"body", "fields", "word", "stale">>, 200, Wrapped, TRUE)}

EdgeRoutes ==
    {Route("/edge", {"POST"}, <<"body", "fields", "word", "stale">>, 200, Wrapped, TRUE)}

IngestRoutes ==
    {Route("/ingest", {"POST"}, <<"body", "fields">>, 200, Wrapped, TRUE),
     Route("/ingest/jobs", {"GET"}, <<>>, 200, {}, FALSE)}

GraphRoutes ==
    {Route("/connected-components", Both, <<>>, 200, Wrapped, FALSE),
     Route("/communities", Both, <<>>, 200, Wrapped, FALSE),
     Route("/graph/verify", Both, <<>>, 200, Wrapped, FALSE)}

TimelineRoutes ==
    {Route("/timeline", Both, <<>>, 200, Wrapped, FALSE)}

ContradictionRoutes ==
    {Route("/contradictions", {"GET"}, <<>>, 200, Wrapped, FALSE)}

MigrationRoutes ==
    {Route("/db/migrate", {"GET"}, <<>>, 200, Wrapped, FALSE),
     Route("/db/rollback", {"POST"}, <<>>, 200, Wrapped, TRUE),
     Route("/db/verify", {"GET"}, <<>>, 200, Wrapped, FALSE),
     Route("/db/schema", {"GET"}, <<>>, 200, Wrapped, FALSE)}

RetentionRoutes ==
    {Route("/admin/retention/run", {"POST"}, <<>>, 200, {500}, TRUE)}

ConsolidationRoutes ==
    {Route("/admin/consolidate", {"POST"}, <<>>, 200, {500}, TRUE)}

ReembedRoutes ==
    {Route("/admin/re-embed", {"POST"}, <<"body", "fields">>, 200, Wrapped, TRUE)}

HealthRoutes ==
    LET H(path, failed) == Route(path, Both, <<>>, 200, failed, FALSE) IN
    {H("/health", {}),
     H("/health/live", {}),
     H("/health/ready", {503}),
     H("/health/startup", {})}

\* The metrics and the description itself.
OwnRoutes ==
    {Route("/metrics", Both, <<>>, 200, {}, FALSE),
     Route("/openapi.json", {"GET"}, <<>>, 200, {500}, FALSE),
     Route("/openapi.yaml", {"GET"}, <<>>, 200, {500}, FALSE)}

\* RegisterPprof: of the runtime, answered by the library.
PprofRoutes ==
    {Route(p, Both, <<>>, 200, {400, 404, 500}, FALSE) :
        p \in IF Profiling
              THEN {"/debug/pprof/", "/debug/pprof/cmdline", "/debug/pprof/profile",
                    "/debug/pprof/symbol", "/debug/pprof/trace"}
              ELSE {}}

\* mount
Mounted ==
    TaskRoutes \cup RetrievalRoutes \cup StoreRoutes \cup EdgeRoutes \cup IngestRoutes
    \cup GraphRoutes \cup TimelineRoutes \cup ContradictionRoutes \cup MigrationRoutes
    \cup RetentionRoutes \cup ConsolidationRoutes \cup ReembedRoutes \cup HealthRoutes
    \cup OwnRoutes \cup PprofRoutes

Routes == ByPath(Mounted)

-----------------------------------------------------------------------------
\* ScopeForPath: the first of the prefixes that matches, else "write".
ReadPaths == {"/search", "/retrieve", "/query", "/query/temporal", "/query/explain"}
AdminPaths == {"/admin/retention/run", "/admin/consolidate", "/admin/re-embed"}

\* Mutant of ScopeForPath: an unknown path asks for the read scope.
ScopeDefaultsToRead(p) == IF p \in AdminPaths THEN "admin" ELSE "read"

ScopeForPath(p) ==
    IF p \in ReadPaths THEN "read" ELSE IF p \in AdminPaths THEN "admin" ELSE "write"

CanAccess(scope, required) ==
    \/ scope = "admin"
    \/ scope = "write" /\ required # "admin"
    \/ scope = "read" /\ required = "read"

\* No key is asked for: the paths that begin with "health".
OpenPaths == {r.path : r \in HealthRoutes}

\* BypassHealthAndMetrics
Unlimited == OpenPaths \cup {"/metrics"}
-----------------------------------------------------------------------------
(* paths.go: the method and the statuses documented for a path.            *)

Op(path, method, statuses) == [path |-> path, method |-> method, statuses |-> statuses]

DocumentedMemory ==
    {Op("/health", "GET", {200}),
     Op("/health/live", "GET", {200}),
     Op("/health/ready", "GET", {200, 503}),
     Op("/health/startup", "GET", {200}),
     Op("/metrics", "GET", {200}),
     Op("/store", "POST", {200, 400, 401, 422}),
     Op("/search", "POST", {200, 400, 401}),
     Op("/retrieve", "POST", {200, 400, 401}),
     Op("/query", "POST", {200, 400, 401}),
     Op("/query/explain", "POST", {200, 400, 401})}

DocumentedPipeline ==
    {Op("/query/temporal", "POST", {200, 400, 401, 422}),
     Op("/response", "POST", {200, 400, 401}),
     Op("/edge", "POST", {200, 400, 401, 422}),
     Op("/ingest", "POST", {200, 400, 401}),
     Op("/task/status", "POST", {204, 400, 401, 422}),
     Op("/task/executable", "POST", {200, 401}),
     Op("/task/next", "POST", {200}),
     Op("/task/list", "POST", {200}),
     Op("/task/show", "POST", {200, 400})}

DocumentedTasks ==
    {Op("/task/dep", "POST", {200, 400, 401}),
     Op("/task/tree", "POST", {200}),
     Op("/task/create", "POST", {200, 400, 401}),
     Op("/task/rollback", "POST", {200, 400}),
     Op("/timeline", "GET", {200}),
     Op("/contradictions", "GET", {200}),
     Op("/connected-components", "GET", {200}),
     Op("/communities", "GET", {200}),
     Op("/graph/verify", "GET", {200})}

DocumentedAdmin ==
    {Op("/provenance", "GET", {200}),
     Op("/recovery-plan", "GET", {200}),
     Op("/admin/re-embed", "POST", {200, 401}),
     Op("/db/migrate", "GET", {200}),
     Op("/db/rollback", "POST", {200}),
     Op("/db/verify", "GET", {200}),
     Op("/db/schema", "GET", {200}),
     Op("/task/claim-next", "POST", {200, 404}),
     Op("/ingest/jobs", "GET", {200}),
     Op("/admin/retention/run", "POST", {200})}

Operations == DocumentedMemory \cup DocumentedPipeline \cup DocumentedTasks \cup DocumentedAdmin

Documented == ByPath(Operations)
-----------------------------------------------------------------------------
\* Everything the server describes can be called as it is described: the path
\* is mounted, takes the method, and succeeds with a documented status; the
\* only routes left out are the description itself, consolidation and, where they
\* are on, the profiles of the runtime (server.go:104-134, api/paths.go).
DescribedIsServed ==
    /\ \A p \in DOMAIN Documented :
         /\ p \in DOMAIN Routes
         /\ Documented[p].method \in Routes[p].methods
         /\ Routes[p].ok \in Documented[p].statuses
    /\ DOMAIN Routes \ DOMAIN Documented =
         {"/openapi.json", "/openapi.yaml", "/admin/consolidate"} \cup {r.path : r \in PprofRoutes}
===============================================================================
