-------------------------- MODULE ApiServerProofs --------------------------
(***************************************************************************)
(* Proofs about ApiServer, for every set of clients, requests, keys and    *)
(* vocabularies and any number of reloads.                                 *)
(*                                                                         *)
(* What a request has passed stays true of it: its key and method are its  *)
(* own, and the snapshot it was checked against is a generation that was   *)
(* current while it ran; a reload only adds a generation behind it.  The   *)
(* tables of the routes are gone over row by row for what they say of the  *)
(* scopes and of the published description, and a limiter is judged by     *)
(* what each of its buckets has given out.                                 *)
(***************************************************************************)
EXTENDS ApiServer, TLAPS

Statuses == Nat \cup UNION {{Routes[r.path].ok} \cup Routes[r.path].failed : r \in Requests}

Call == [pc : {"auth", "limit", "allow", "check", "stale", "serve", "done"}, r : Requests,
         since : Nat, gen : Nat, asof : Nat, lim : Nat, status : Statuses, served : BOOLEAN]

Types ==
    /\ vocab \in Seq(Vocabularies)
    /\ limiter \in Nat
    /\ req \in [Clients -> {Free} \cup Call]

Entitled(r) ==
    AuthEnabled /\ r.path \notin OpenPaths => CanAccess(Scope[r.key], ScopeForPath(r.path))

Looks(r) == \E i \in DOMAIN Routes[r.path].checks : Routes[r.path].checks[i] = "stale"

Names(r) == \E i \in DOMAIN Routes[r.path].checks : Routes[r.path].checks[i] = "word"

\* The handler's checks have been passed, against the generation x.gen.
Checked(x) ==
    /\ x.r.method \in Routes[x.r.path].methods
    /\ x.gen \in x.since..Gen
    /\ Names(x.r) => x.r.word \in vocab[x.gen]

\* The second look, where the handler has one, found the same generation.
Looked(x) == Looks(x.r) => x.asof = x.gen

Passed(x) ==
    x # Free =>
      /\ x.since \in 1..Gen
      /\ x.pc \in {"limit", "allow", "check", "stale", "serve"} \/ x.served => Entitled(x.r)
      /\ x.pc \in {"stale", "serve"} \/ x.served => Checked(x)
      /\ x.pc = "serve" \/ x.served => Looked(x)
      /\ x.pc = "done" /\ x.status = 409 /\ ~x.served => x.gen < Gen
      /\ x.pc = "done" /\ x.status = 405 /\ ~x.served => x.r.method \notin Routes[x.r.path].methods
      /\ x.served => x.pc = "done" /\ x.status \in {Routes[x.r.path].ok} \cup Routes[x.r.path].failed

Started == Gen \in 1..Gen

Inv == Types /\ Started /\ \A c \in Clients : Passed(req[c])

LEMMA InitInv == Init => Inv
<1> SUFFICES ASSUME Init PROVE Inv
  OBVIOUS
<1>1. PICK v \in Vocabularies : vocab = <<v>> /\ limiter = 1
  BY DEF Init
<1>2. req = [c \in Clients |-> Free]
  BY DEF Init
<1> QED BY <1>1, <1>2 DEF Inv, Types, Started, Gen, Passed

\* A step of one request: it is enough to look at that one.
LEMMA OneMoves ==
  ASSUME Inv, NEW c \in Clients, NEW x \in Call, UNCHANGED <<vocab, limiter>>,
         req' = [req EXCEPT ![c] = x], Passed(x)
  PROVE  Inv'
<1>1. /\ req'[c] = x /\ req' \in [Clients -> {Free} \cup Call]
      /\ \A d \in Clients : d # c => req'[d] = req[d]
  BY DEF Inv, Types
<1>2. \A d \in Clients : Passed(req'[d])
  BY <1>1 DEF Inv
<1>3. \A d \in Clients : Passed(req[d])'
  BY <1>2 DEF Passed, Checked, Gen
<1> QED BY <1>1, <1>3 DEF Inv, Types, Started, Gen

\* The record of a request that is running.
LEMMA Running ==
  ASSUME Inv, NEW c \in Clients, req[c].pc # "free"
  PROVE  /\ req[c] \in Call /\ req[c] # Free /\ Passed(req[c])
         /\ Gen \in Nat
<1>1. req[c] # Free
  BY DEF Free
<1> QED BY <1>1 DEF Inv, Types, Gen

\* A request that has been answered without its service.
LEMMA Replied ==
  ASSUME Inv, NEW c \in Clients, req[c].pc \in {"auth", "allow", "check", "stale"},
         NEW status \in Nat, status = 409 => req[c].pc = "stale" /\ req[c].gen # Gen,
         status = 405 => req[c].r.method \notin Routes[req[c].r.path].methods,
         UNCHANGED <<vocab, limiter>>, Reply(c, status)
  PROVE  Inv'
<1> DEFINE x == [req[c] EXCEPT !.pc = "done", !.status = status]
<1>1. req[c] \in Call /\ req[c] # Free /\ Passed(req[c]) /\ Gen \in Nat
  BY Running
<1>2. /\ x \in Call /\ x.pc = "done" /\ x.status = status /\ x.r = req[c].r
      /\ x.since = req[c].since /\ x.gen = req[c].gen /\ x.served = req[c].served
  BY <1>1 DEF Call, Statuses
<1>3. ~req[c].served /\ req[c].since \in 1..Gen
  BY <1>1 DEF Passed
<1>4. status = 409 => req[c].gen < Gen
  BY <1>1 DEF Passed, Checked, Call
<1>5. Passed(x)
  <2> HIDE DEF x
  <2> QED BY <1>2, <1>3, <1>4 DEF Passed
<1>6. req' = [req EXCEPT ![c] = x]
  BY DEF Reply
<1> QED BY <1>2, <1>5, <1>6, OneMoves

\* A request that goes on: another place, and what it has learnt there.
LEMMA GoesOn ==
  ASSUME Inv, NEW c \in Clients, req[c].pc # "free", UNCHANGED <<vocab, limiter>>,
         NEW pc \in {"limit", "allow", "check"}, To(c, pc), ~req[c].served, Entitled(req[c].r)
  PROVE  Inv'
<1> DEFINE x == [req[c] EXCEPT !.pc = pc]
<1>1. req[c] \in Call /\ req[c] # Free /\ Passed(req[c]) /\ Gen \in Nat
  BY Running
<1>2. /\ x \in Call /\ x.pc = pc /\ x.r = req[c].r /\ x.status = req[c].status
      /\ x.since = req[c].since /\ x.gen = req[c].gen /\ x.served = req[c].served
  BY <1>1 DEF Call
<1>3. Passed(x)
  <2> HIDE DEF x
  <2> QED BY <1>1, <1>2 DEF Passed, Checked
<1>4. req' = [req EXCEPT ![c] = x]
  BY DEF To
<1> QED BY <1>2, <1>3, <1>4, OneMoves

LEMMA AuthenticateInv ==
  ASSUME Inv, NEW c \in Clients, Authenticate(c)
  PROVE  Inv'
<1> DEFINE r == req[c].r
           pass == ~AuthEnabled \/ r.path \in OpenPaths \/ CanAccess(Scope[r.key], ScopeForPath(r.path))
<1>1. req[c].pc = "auth" /\ UNCHANGED <<vocab, limiter>>
  BY DEF Authenticate
<1>2. CASE pass
  <2>1. Entitled(r)
    BY <1>2 DEF Entitled
  <2>2. ~req[c].served
    BY <1>1, Running DEF Passed, Call
  <2>3. CASE r.path \in Unlimited
    <3>1. To(c, "check")
      BY <1>2, <2>3 DEF Authenticate
    <3> QED BY <1>1, <2>1, <2>2, <3>1, GoesOn
  <2>4. CASE r.path \notin Unlimited
    <3>1. To(c, "limit")
      BY <1>2, <2>4 DEF Authenticate
    <3> QED BY <1>1, <2>1, <2>2, <3>1, GoesOn
  <2> QED BY <2>3, <2>4
<1>3. CASE ~pass
  <2>1. CASE Scope[r.key] = "none"
    <3>1. Reply(c, 401)
      BY <1>3, <2>1 DEF Authenticate
    <3> QED BY <1>1, <3>1, Replied
  <2>2. CASE Scope[r.key] # "none"
    <3>1. Reply(c, 403)
      BY <1>3, <2>2 DEF Authenticate
    <3> QED BY <1>1, <3>1, Replied
  <2> QED BY <2>1, <2>2
<1> QED BY <1>2, <1>3

LEMMA LoadLimiterInv ==
  ASSUME Inv, NEW c \in Clients, LoadLimiter(c)
  PROVE  Inv'
<1> DEFINE x == [req[c] EXCEPT !.lim = limiter, !.pc = "allow"]
<1>1. req[c].pc = "limit" /\ UNCHANGED <<vocab, limiter>> /\ req' = [req EXCEPT ![c] = x]
  BY DEF LoadLimiter
<1>2. req[c] \in Call /\ req[c] # Free /\ Passed(req[c]) /\ limiter \in Nat
  BY <1>1, Running DEF Inv, Types
<1>3. /\ x \in Call /\ x.pc = "allow" /\ x.r = req[c].r /\ x.status = req[c].status
      /\ x.since = req[c].since /\ x.gen = req[c].gen /\ x.served = req[c].served
  BY <1>2 DEF Call
<1>4. Passed(x)
  <2> HIDE DEF x
  <2> QED BY <1>1, <1>2, <1>3 DEF Passed, Checked
<1> QED BY <1>1, <1>3, <1>4, OneMoves

LEMMA AllowInv ==
  ASSUME Inv, NEW c \in Clients, Allow(c)
  PROVE  Inv'
<1>1. req[c].pc = "allow" /\ UNCHANGED <<vocab, limiter>>
  BY DEF Allow
<1>2. Entitled(req[c].r) /\ ~req[c].served
  BY <1>1, Running DEF Passed
<1>3. CASE To(c, "check")
  BY <1>1, <1>2, <1>3, GoesOn
<1>4. CASE Reply(c, 429)
  BY <1>1, <1>4, Replied
<1> QED BY <1>3, <1>4 DEF Allow

LEMMA CheckInv ==
  ASSUME Inv, NEW c \in Clients, Check(c)
  PROVE  Inv'
<1> DEFINE r == req[c].r
           pc == IF Has(c, "stale") THEN "stale" ELSE "serve"
           x == [req[c] EXCEPT !.gen = Gen, !.pc = pc]
<1>1. req[c].pc = "check" /\ UNCHANGED <<vocab, limiter>>
  BY DEF Check
<1>2. /\ req[c] \in Call /\ req[c] # Free /\ Passed(req[c]) /\ Gen \in Nat
      /\ Entitled(r) /\ ~req[c].served /\ req[c].since \in 1..Gen
  BY <1>1, Running DEF Passed
<1>3. \/ Reply(c, 405) /\ r.method \notin Routes[r.path].methods
      \/ Reply(c, 422)
      \/ /\ req' = [req EXCEPT ![c] = x]
         /\ r.method \in Routes[r.path].methods
         /\ Has(c, "word") => r.word \in vocab[Gen]
  BY DEF Check
<1>4. CASE Reply(c, 405) /\ r.method \notin Routes[r.path].methods
  BY <1>1, <1>4, Replied
<1>5. CASE Reply(c, 422)
  BY <1>1, <1>5, Replied
<1>6. CASE /\ req' = [req EXCEPT ![c] = x]
           /\ r.method \in Routes[r.path].methods
           /\ Has(c, "word") => r.word \in vocab[Gen]
  <2>1. /\ x \in Call /\ x.pc = pc /\ pc \in {"stale", "serve"} /\ x.r = r
        /\ x.since = req[c].since /\ x.gen = Gen /\ x.served = req[c].served
    BY <1>2 DEF Call
  <2>2. Names(r) => r.word \in vocab[Gen]
    BY <1>6 DEF Names, Has
  <2>3. pc = "serve" => ~Looks(r)
    BY DEF Looks, Has
  <2>4. Passed(x)
    <3> HIDE DEF x, pc, r
    <3>1. Checked(x)
      BY <1>2, <1>6, <2>1, <2>2 DEF Checked
    <3>2. x.pc = "serve" => Looked(x)
      BY <2>1, <2>3 DEF Looked
    <3> QED BY <1>2, <2>1, <3>1, <3>2 DEF Passed
  <2> QED BY <1>1, <1>6, <2>1, <2>4, OneMoves
<1> QED BY <1>3, <1>4, <1>5, <1>6

LEMMA CheckStaleInv ==
  ASSUME Inv, NEW c \in Clients, CheckStale(c)
  PROVE  Inv'
<1>1. req[c].pc = "stale" /\ UNCHANGED <<vocab, limiter>>
  BY DEF CheckStale
<1>2. CASE req[c].gen # Gen
  BY <1>1, <1>2, Replied DEF CheckStale
<1>3. CASE req[c].gen = Gen
  <2> DEFINE x == [req[c] EXCEPT !.asof = Gen, !.pc = "serve"]
  <2>1. req' = [req EXCEPT ![c] = x]
    BY <1>3 DEF CheckStale
  <2>2. /\ req[c] \in Call /\ req[c] # Free /\ Gen \in Nat /\ Checked(req[c]) /\ Entitled(req[c].r)
        /\ ~req[c].served /\ req[c].since \in 1..Gen
    BY <1>1, Running DEF Passed
  <2>3. /\ x \in Call /\ x.pc = "serve" /\ x.r = req[c].r /\ x.served = req[c].served
        /\ x.since = req[c].since /\ x.gen = req[c].gen /\ x.asof = Gen
    BY <2>2 DEF Call
  <2>4. Passed(x)
    <3> HIDE DEF x
    <3> QED BY <1>3, <2>2, <2>3 DEF Passed, Checked, Looked
  <2> QED BY <1>1, <2>1, <2>3, <2>4, OneMoves
<1> QED BY <1>2, <1>3

LEMMA ServeInv ==
  ASSUME Inv, NEW c \in Clients, Serve(c)
  PROVE  Inv'
<1>1. req[c].pc = "serve" /\ UNCHANGED <<vocab, limiter>>
  BY DEF Serve
<1>2. /\ req[c] \in Call /\ req[c] # Free /\ Passed(req[c])
      /\ Entitled(req[c].r) /\ Checked(req[c]) /\ Looked(req[c]) /\ req[c].since \in 1..Gen
  BY <1>1, Running DEF Passed
<1>3. PICK status \in {Routes[req[c].r.path].ok} \cup Routes[req[c].r.path].failed :
        req' = [req EXCEPT ![c] = [req[c] EXCEPT !.pc = "done", !.status = status, !.served = TRUE]]
  BY DEF Serve
<1> DEFINE x == [req[c] EXCEPT !.pc = "done", !.status = status, !.served = TRUE]
<1>4. status \in Statuses
  BY <1>2, <1>3 DEF Statuses, Call
<1>5. /\ x \in Call /\ x.pc = "done" /\ x.r = req[c].r /\ x.served
      /\ x.since = req[c].since /\ x.gen = req[c].gen /\ x.asof = req[c].asof /\ x.status = status
  BY <1>2, <1>4 DEF Call
<1>6. Passed(x)
  <2> HIDE DEF x
  <2> QED BY <1>2, <1>3, <1>5 DEF Passed, Checked, Looked
<1> QED BY <1>1, <1>3, <1>5, <1>6, OneMoves

LEMMA SendInv ==
  ASSUME Inv, NEW c \in Clients, NEW r \in Requests, Send(c, r)
  PROVE  Inv'
<1> DEFINE x == [pc |-> "auth", r |-> r, since |-> Gen, gen |-> 0,
                 asof |-> 0, lim |-> 0, status |-> 0, served |-> FALSE]
<1>1. UNCHANGED <<vocab, limiter>> /\ req' = [req EXCEPT ![c] = x]
  BY DEF Send
<1>2. Gen \in 1..Gen
  BY DEF Inv, Started, Gen
<1>3. x \in Call /\ x.pc = "auth" /\ ~x.served /\ x.since = Gen
  BY <1>2 DEF Call, Statuses
<1>4. Passed(x)
  <2> HIDE DEF x
  <2> QED BY <1>2, <1>3 DEF Passed
<1> QED BY <1>1, <1>3, <1>4, OneMoves

\* A reload: every snapshot stays a generation of its request's time.
LEMMA StoreStateInv ==
  ASSUME Inv, NEW v \in Vocabularies, StoreState(v)
  PROVE  Inv'
<1>1. vocab' = Append(vocab, v) /\ UNCHANGED <<limiter, req>>
  BY DEF StoreState
<1>2. /\ vocab' \in Seq(Vocabularies) /\ Gen \in Nat /\ Gen' = Gen + 1 /\ Gen' \in 1..Gen'
      /\ \A i \in 1..Gen : vocab'[i] = vocab[i]
  BY <1>1 DEF Inv, Types, Gen
<1>3. \A c \in Clients : Passed(req[c])'
  <2> SUFFICES ASSUME NEW c \in Clients, req[c] # Free PROVE Passed(req[c])'
    BY <1>1 DEF Passed, Free
  <2>1. req[c] \in Call /\ Passed(req[c]) /\ req'[c] = req[c]
    BY <1>1 DEF Inv, Types
  <2>2. req[c].since \in Nat /\ req[c].gen \in Nat
    BY <2>1 DEF Call
  <2>3. req[c].since \in 1..Gen /\ req[c].since \in 1..Gen'
    BY <1>2, <2>1 DEF Passed
  <2>4. Checked(req[c]) => Checked(req[c])'
    BY <1>2, <2>1, <2>3 DEF Checked
  <2> QED BY <1>2, <2>1, <2>2, <2>3, <2>4 DEF Passed
<1> QED BY <1>1, <1>2, <1>3 DEF Inv, Types, Started

LEMMA OthersInv ==
  ASSUME Inv, vocab' = vocab, limiter' \in Nat, req' = req
  PROVE  Inv'
BY DEF Inv, Types, Started, Passed, Checked, Gen

LEMMA StepInv == Inv /\ [Next]_vars => Inv'
<1> SUFFICES ASSUME Inv, [Next]_vars PROVE Inv'
  OBVIOUS
<1>1. ASSUME NEW c \in Clients, Step(c) PROVE Inv'
  BY <1>1, AuthenticateInv, LoadLimiterInv, AllowInv, CheckInv, CheckStaleInv, ServeInv DEF Step
<1>2. CASE SwapLimiter
  BY <1>2, OthersInv DEF SwapLimiter, Inv, Types
<1>3. CASE Time
  BY <1>3, OthersInv DEF Time, serverVars, Inv, Types
<1>4. ASSUME NEW l \in Limiters, NEW k \in Keys, Sweep(l, k) PROVE Inv'
  BY <1>4, OthersInv DEF Sweep, serverVars, Inv, Types
<1>5. CASE UNCHANGED vars
  BY <1>5, OthersInv DEF vars, serverVars, Inv, Types
<1> QED BY <1>1, <1>2, <1>3, <1>4, <1>5, SendInv, StoreStateInv DEF Next

\* However requests, reloads, the clock and the sweepers interleave, a request
\* that reached its service was entitled to it and was checked against one
\* generation of its own time (serverstate.go:81-88, server/shared/reject.go).
THEOREM OneGeneration == Spec => []ServedInItsTime
<1>1. Inv => ServedInItsTime
  <2> SUFFICES ASSUME Inv, NEW c \in Clients, req[c].pc = "done"
               PROVE  /\ req[c].served =>
                           /\ Entitled(req[c].r)
                           /\ Checked(req[c]) /\ Looked(req[c])
                      /\ req[c].status = 409 /\ ~req[c].served => req[c].gen # Gen
    BY DEF ServedInItsTime, Served, Entitled, Checked, Looked, Looks, Names, Has
  <2>1. req[c] \in Call /\ req[c] # Free /\ Passed(req[c]) /\ Gen \in Nat
    BY Running
  <2> QED BY <2>1 DEF Passed, Call
<1> QED BY <1>1, InitInv, StepInv, PTL DEF Spec
-----------------------------------------------------------------------------
(* The tables.                                                               *)

Paths ==
    {"/task/status", "/task/executable", "/task/next", "/task/claim-next", "/task/list", "/task/show",
     "/task/dep", "/task/tree", "/task/create", "/task/rollback", "/recovery-plan", "/search",
     "/retrieve", "/query", "/query/temporal", "/response", "/query/explain", "/provenance", "/store",
     "/edge", "/ingest", "/ingest/jobs", "/connected-components", "/communities", "/graph/verify",
     "/timeline", "/contradictions", "/db/migrate", "/db/rollback", "/db/verify", "/db/schema",
     "/admin/retention/run", "/admin/re-embed", "/health", "/health/live", "/health/ready",
     "/health/startup", "/metrics"}
Profiles == {r.path : r \in PprofRoutes}
Unlisted == {"/openapi.json", "/openapi.yaml", "/admin/consolidate"} \cup Profiles
OnlyGet ==
    {"/ingest/jobs", "/contradictions", "/db/migrate", "/db/verify", "/db/schema",
     "/openapi.json", "/openapi.yaml"}
TakesGet ==
    OnlyGet \cup {"/task/executable", "/task/next", "/recovery-plan", "/provenance", "/connected-components",
                 "/communities", "/graph/verify", "/timeline", "/health", "/health/live", "/health/ready",
                 "/health/startup", "/metrics"}

\* What every row of the mounted routes keeps.
Kept(r) ==
    /\ r.path \in Paths \cup Unlisted
    /\ r.ok = (IF r.path = "/task/status" THEN 204 ELSE 200) /\ 405 \notin r.failed
    /\ r.path \in ReadPaths => ~r.writes
    /\ r.path \in TakesGet => "GET" \in r.methods
    /\ r.path \notin OnlyGet => "POST" \in r.methods

LEMMA NotWrapped == 405 \notin Wrapped
BY DEF Wrapped, MapStatus, Errors

LEMMA MountedKept == \A r \in Mounted : Kept(r)
<1>1. \A r \in TaskRoutes : Kept(r)
  BY NotWrapped DEF TaskRoutes, Route, Both, Kept, Paths, Unlisted, OnlyGet, TakesGet, ReadPaths
<1>2. \A r \in RetrievalRoutes : Kept(r)
  BY NotWrapped DEF RetrievalRoutes, Route, Both, Kept, Paths, Unlisted, OnlyGet, TakesGet, ReadPaths
<1>3. \A r \in StoreRoutes \cup EdgeRoutes \cup IngestRoutes \cup GraphRoutes : Kept(r)
  BY NotWrapped DEF StoreRoutes, EdgeRoutes, IngestRoutes, GraphRoutes, Route, Both, Kept, Paths, Unlisted,
                    OnlyGet, TakesGet, ReadPaths
<1>4. \A r \in TimelineRoutes \cup ContradictionRoutes \cup MigrationRoutes \cup RetentionRoutes : Kept(r)
  BY NotWrapped DEF TimelineRoutes, ContradictionRoutes, MigrationRoutes, RetentionRoutes, Route, Both, Kept,
                    Paths, Unlisted, OnlyGet, TakesGet, ReadPaths
<1>5. \A r \in ConsolidationRoutes \cup ReembedRoutes \cup HealthRoutes : Kept(r)
  BY NotWrapped DEF ConsolidationRoutes, ReembedRoutes, HealthRoutes, Route, Both, Kept, Paths, Unlisted,
                    OnlyGet, TakesGet, ReadPaths
<1>6. \A r \in OwnRoutes : Kept(r)
  BY DEF OwnRoutes, Route, Both, Kept, Paths, Unlisted, OnlyGet, TakesGet, ReadPaths
<1>7. \A r \in PprofRoutes : Kept(r)
  <2> SUFFICES ASSUME NEW r \in PprofRoutes PROVE Kept(r)
    OBVIOUS
  <2>1. r.path \in Unlisted
    BY DEF Unlisted, Profiles
  <2>2. PICK p \in {"/debug/pprof/", "/debug/pprof/cmdline", "/debug/pprof/profile", "/debug/pprof/symbol",
                    "/debug/pprof/trace"} : r = Route(p, Both, <<>>, 200, {400, 404, 500}, FALSE)
    <3> DEFINE five == {"/debug/pprof/", "/debug/pprof/cmdline", "/debug/pprof/profile",
                        "/debug/pprof/symbol", "/debug/pprof/trace"}
    <3> HIDE DEF five
    <3>1. PprofRoutes = {Route(p, Both, <<>>, 200, {400, 404, 500}, FALSE) : p \in IF Profiling THEN five ELSE {}}
      BY DEF PprofRoutes, five
    <3>2. \E p \in five : r = Route(p, Both, <<>>, 200, {400, 404, 500}, FALSE)
      BY <3>1, Zenon
    <3> QED BY <3>2 DEF five
  <2> QED BY <2>1, <2>2 DEF Route, Both, Kept, OnlyGet, TakesGet, ReadPaths
<1> QED BY <1>1, <1>2, <1>3, <1>4, <1>5, <1>6, <1>7 DEF Mounted

\* The row of a path is one of its rows.
LEMMA RowsOfPaths ==
  ASSUME NEW table
  PROVE  /\ DOMAIN ByPath(table) = {r.path : r \in table}
         /\ \A p \in DOMAIN ByPath(table) : ByPath(table)[p] \in table /\ ByPath(table)[p].path = p
BY DEF ByPath

LEMMA RoutesKept ==
  \A p \in DOMAIN Routes : Kept(Routes[p]) /\ Routes[p].path = p
BY MountedKept, RowsOfPaths DEF Routes

\* Every path of the lists is mounted.
LEMMA PathsMounted == DOMAIN Routes = Paths \cup Unlisted
<1>1. DOMAIN Routes = {r.path : r \in Mounted}
  BY RowsOfPaths DEF Routes
<1>3. {r.path : r \in TaskRoutes} =
        {"/task/status", "/task/executable", "/task/next", "/task/claim-next", "/task/list", "/task/show",
         "/task/dep", "/task/tree", "/task/create", "/task/rollback", "/recovery-plan"}
  BY DEF TaskRoutes, Route
<1>4. {r.path : r \in RetrievalRoutes} =
        {"/search", "/retrieve", "/query", "/query/temporal", "/response", "/query/explain", "/provenance"}
  BY DEF RetrievalRoutes, Route
<1>5. {r.path : r \in StoreRoutes \cup EdgeRoutes \cup IngestRoutes \cup GraphRoutes} =
        {"/store", "/edge", "/ingest", "/ingest/jobs", "/connected-components", "/communities", "/graph/verify"}
  BY DEF StoreRoutes, EdgeRoutes, IngestRoutes, GraphRoutes, Route
<1>6. {r.path : r \in TimelineRoutes \cup ContradictionRoutes \cup MigrationRoutes \cup RetentionRoutes} =
        {"/timeline", "/contradictions", "/db/migrate", "/db/rollback", "/db/verify", "/db/schema",
         "/admin/retention/run"}
  BY DEF TimelineRoutes, ContradictionRoutes, MigrationRoutes, RetentionRoutes, Route
<1>7. {r.path : r \in ConsolidationRoutes \cup ReembedRoutes \cup HealthRoutes} =
        {"/admin/consolidate", "/admin/re-embed", "/health", "/health/live", "/health/ready", "/health/startup"}
  BY DEF ConsolidationRoutes, ReembedRoutes, HealthRoutes, Route
<1>8. {r.path : r \in OwnRoutes} = {"/metrics", "/openapi.json", "/openapi.yaml"}
  BY DEF OwnRoutes, Route
<1>9. {r.path : r \in Mounted} =
        {r.path : r \in TaskRoutes} \cup {r.path : r \in RetrievalRoutes}
        \cup {r.path : r \in StoreRoutes \cup EdgeRoutes \cup IngestRoutes \cup GraphRoutes}
        \cup {r.path : r \in TimelineRoutes \cup ContradictionRoutes \cup MigrationRoutes \cup RetentionRoutes}
        \cup {r.path : r \in ConsolidationRoutes \cup ReembedRoutes \cup HealthRoutes}
        \cup {r.path : r \in OwnRoutes}
        \cup Profiles
  BY DEF Mounted, Profiles
<1> QED BY <1>1, <1>3, <1>4, <1>5, <1>6, <1>7, <1>8, <1>9 DEF Paths, Unlisted

\* The same of what is documented.
Told(d) ==
    /\ d.path \in Paths
    /\ (IF d.path = "/task/status" THEN 204 ELSE 200) \in d.statuses
    /\ \/ d.method = "GET" /\ d.path \in TakesGet
       \/ d.method = "POST" /\ d.path \notin OnlyGet

LEMMA DocumentedTold == DOMAIN Documented = Paths /\ \A p \in Paths : Told(Documented[p]) /\ Documented[p].path = p
<1>1. \A d \in DocumentedMemory : Told(d)
  BY DEF DocumentedMemory, Op, Told, Paths, OnlyGet, TakesGet
<1>2. \A d \in DocumentedPipeline : Told(d)
  BY DEF DocumentedPipeline, Op, Told, Paths, OnlyGet, TakesGet
<1>3. \A d \in DocumentedTasks : Told(d)
  BY DEF DocumentedTasks, Op, Told, Paths, OnlyGet, TakesGet
<1>4. \A d \in DocumentedAdmin : Told(d)
  BY DEF DocumentedAdmin, Op, Told, Paths, OnlyGet, TakesGet
<1>5. \A d \in Operations : Told(d)
  BY <1>1, <1>2, <1>3, <1>4 DEF Operations
<1>6. {d.path : d \in DocumentedMemory} =
        {"/health", "/health/live", "/health/ready", "/health/startup", "/metrics", "/store", "/search",
         "/retrieve", "/query", "/query/explain"}
  BY DEF DocumentedMemory, Op
<1>7. {d.path : d \in DocumentedPipeline} =
        {"/query/temporal", "/response", "/edge", "/ingest", "/task/status", "/task/executable", "/task/next",
         "/task/list", "/task/show"}
  BY DEF DocumentedPipeline, Op
<1>8. {d.path : d \in DocumentedTasks} =
        {"/task/dep", "/task/tree", "/task/create", "/task/rollback", "/timeline", "/contradictions",
         "/connected-components", "/communities", "/graph/verify"}
  BY DEF DocumentedTasks, Op
<1>9. {d.path : d \in DocumentedAdmin} =
        {"/provenance", "/recovery-plan", "/admin/re-embed", "/db/migrate", "/db/rollback", "/db/verify",
         "/db/schema", "/task/claim-next", "/ingest/jobs", "/admin/retention/run"}
  BY DEF DocumentedAdmin, Op
<1>10. DOMAIN Documented = {d.path : d \in Operations}
  BY RowsOfPaths DEF Documented
<1>11. DOMAIN Documented = Paths
  <2>1. {d.path : d \in Operations} = {d.path : d \in DocumentedMemory} \cup {d.path : d \in DocumentedPipeline}
           \cup {d.path : d \in DocumentedTasks} \cup {d.path : d \in DocumentedAdmin}
    BY DEF Operations
  <2> QED BY <1>6, <1>7, <1>8, <1>9, <1>10, <2>1 DEF Paths
<1> QED BY <1>5, <1>11, RowsOfPaths DEF Documented

LEMMA Described == DescribedIsServed
<1>1. Unlisted \cap Paths = {}
  <2>1. Profiles \cap Paths = {}
    BY DEF Profiles, PprofRoutes, Route, Paths
  <2> QED BY <2>1 DEF Unlisted, Paths
<1>2. ASSUME NEW p \in Paths
      PROVE  p \in DOMAIN Routes /\ Documented[p].method \in Routes[p].methods /\ Routes[p].ok \in Documented[p].statuses
  <2>1. p \in DOMAIN Routes
    BY PathsMounted
  <2> QED BY <2>1, RoutesKept, DocumentedTold DEF Kept, Told
<1> QED BY <1>1, <1>2, PathsMounted, DocumentedTold DEF DescribedIsServed, Unlisted, Profiles

\* A key of the read scope reaches no service that writes, a request that is
\* made as it is described is not refused for its method, and what is described
\* is served (auth/scope.go, server.go:104-134, api/paths.go).  For all clients,
\* requests, keys and reloads.
THEOREM RoutesAreSound == Spec => []RoutesSound
<1>1. Inv => RoutesSound
  <2> SUFFICES ASSUME Inv, NEW c \in Clients, req[c].pc = "done"
               PROVE  LET r == req[c].r
                      IN  /\ AuthEnabled /\ Scope[r.key] = "read" /\ r.path \notin OpenPaths /\ req[c].served =>
                               ~Routes[r.path].writes
                          /\ req[c].status = 405 /\ r.path \in DOMAIN Documented =>
                               r.method # Documented[r.path].method
    BY Described DEF RoutesSound
  <2> DEFINE r == req[c].r
  <2>1. req[c] \in Call /\ Passed(req[c]) /\ r \in Requests /\ req[c] # Free
    BY Running DEF Call
  <2>2. r.path \in DOMAIN Routes
    BY <2>1, ApiServerAssumption
  <2>3. Kept(Routes[r.path]) /\ Routes[r.path].path = r.path
    BY <2>2, RoutesKept
  <2>4. AuthEnabled /\ Scope[r.key] = "read" /\ r.path \notin OpenPaths /\ req[c].served => r.path \in ReadPaths
    BY <2>1 DEF Passed, Entitled, CanAccess, ScopeForPath
  <2>5. req[c].status = 405 => r.method \notin Routes[r.path].methods
    BY <2>1, <2>3 DEF Passed, Kept, Call
  <2>6. r.path \in DOMAIN Documented => Documented[r.path].method \in Routes[r.path].methods
    BY Described DEF DescribedIsServed
  <2> HIDE DEF r
  <2>7. \A m : m \notin Routes[r.path].methods /\ r.path \in DOMAIN Documented => m # Documented[r.path].method
    BY <2>6
  <2> QED BY <2>3, <2>4, <2>5, <2>7 DEF Kept, r
<1> QED BY <1>1, InitInv, StepInv, PTL DEF Spec
-----------------------------------------------------------------------------
(***************************************************************************)
(* The limiters, for every setting their assumption admits.                *)
(*                                                                         *)
(* What a key has been admitted and what its bucket still holds never come *)
(* to more than the burst, the refill up to the last use and what earlier  *)
(* evictions gave away.  When a bucket is thrown away it has been idle for *)
(* more than IdleTTL: what the refill since then lacks of a burst is what  *)
(* this eviction gives away, and a new bucket starts with a burst that is  *)
(* accounted for.                                                          *)
(***************************************************************************)
Given(l, k) == evicted[l][k] * Unearned

Paid(l, k) ==
    LET b == buckets[l][k] IN
    /\ b.made => /\ b.last <= clock /\ b.tokens <= Burst
                 /\ admitted[l][k] + b.tokens <= Burst + Rps * b.last + Given(l, k)
    /\ ~b.made => admitted[l][k] <= Rps * clock + Given(l, k)

AllPaid == \A l \in Limiters, k \in Keys : Paid(l, k)

\* Products are named before arithmetic is asked for.
LEMMA Grows ==
  ASSUME NEW m \in Nat, NEW n \in Nat, m <= n
  PROVE  /\ Rps * m \in Nat /\ Rps * n \in Nat /\ Rps * m <= Rps * n
         /\ (n - m) * Rps = Rps * n - Rps * m
BY RateLimiterAssumption

LEMMA Spread ==
  ASSUME NEW m \in Nat, NEW n \in Nat
  PROVE  /\ Rps * m \in Nat /\ Rps * n \in Nat
         /\ Rps * (m + n) = Rps * m + Rps * n
BY RateLimiterAssumption

LEMMA UnearnedIs ==
  /\ Unearned \in Nat /\ Rps * (IdleTTL + 1) \in Nat /\ Burst <= Rps * (IdleTTL + 1) + Unearned
BY RateLimiterAssumption, Grows DEF Unearned

LEMMA GivenIs ==
  ASSUME NEW n \in Nat
  PROVE  n * Unearned \in Nat /\ (n + 1) * Unearned = n * Unearned + Unearned
<1> DEFINE u == Unearned
<1>1. u \in Nat
  BY UnearnedIs
<1> HIDE DEF u
<1>2. n * u \in Nat /\ (n + 1) * u = n * u + u
  BY <1>1
<1> QED BY <1>2 DEF u

\* The refill of a bucket that has been made.
LEMMA RefilledIsPaid ==
  ASSUME LimTypeOK, AllPaid, NEW l \in Limiters, NEW k \in Keys
  PROVE  /\ Refilled(l, k) \in Nat /\ Refilled(l, k) <= Burst
         /\ Given(l, k) \in Nat
         /\ admitted[l][k] + Refilled(l, k) <= Burst + Rps * clock + Given(l, k)
<1>0. Given(l, k) \in Nat
  BY GivenIs DEF Given, LimTypeOK
<1> DEFINE b == buckets[l][k]
<1>1. /\ clock \in Nat /\ b.tokens \in Nat /\ b.last \in Nat
      /\ b.made \in BOOLEAN /\ admitted[l][k] \in Nat
  BY DEF LimTypeOK
<1>2. Burst \in Nat /\ Rps \in Nat
  BY RateLimiterAssumption
<1>3. Rps * clock \in Nat
  BY <1>1, <1>2, Grows
<1>4. CASE ~b.made
  <2>1. Refilled(l, k) = Burst
    BY <1>4 DEF Refilled
  <2>2. admitted[l][k] <= Rps * clock + Given(l, k)
    BY <1>4 DEF AllPaid, Paid
  <2> QED BY <1>0, <1>1, <1>2, <1>3, <2>1, <2>2
<1>5. CASE b.made
  <2>1. b.last <= clock /\ b.tokens <= Burst /\ admitted[l][k] + b.tokens <= Burst + Rps * b.last + Given(l, k)
    BY <1>5 DEF AllPaid, Paid
  <2>2. /\ Rps * b.last \in Nat /\ Rps * b.last <= Rps * clock
        /\ (clock - b.last) * Rps = Rps * clock - Rps * b.last
    BY <1>1, <2>1, Grows
  <2> DEFINE more == b.tokens + (clock - b.last) * Rps
  <2>3. more = b.tokens + (Rps * clock - Rps * b.last)
    BY <2>2
  <2>4. Refilled(l, k) = IF more > Burst THEN Burst ELSE more
    BY <1>5 DEF Refilled
  <2> QED BY <1>0, <1>1, <1>2, <1>3, <2>1, <2>2, <2>3, <2>4
<1> QED BY <1>0, <1>1, <1>4, <1>5

\* A bucket never made has never been used.
LimInv ==
    /\ LimTypeOK /\ AllPaid
    /\ \A l \in Limiters, k \in Keys : buckets[l][k].last <= clock

LEMMA LimInitInv == LimInit => LimInv
<1> SUFFICES ASSUME LimInit PROVE LimInv
  OBVIOUS
<1>1. LimTypeOK
  BY DEF LimInit, LimTypeOK, NoBucket
<1>2. \A l \in Limiters, k \in Keys :
        buckets[l][k] = NoBucket /\ admitted[l][k] = 0 /\ clock = 0
  BY DEF LimInit
<1>3. Rps * clock \in Nat /\ \A l \in Limiters, k \in Keys : Given(l, k) \in Nat
  BY <1>1, Grows, GivenIs DEF LimTypeOK, Given
<1> QED BY <1>1, <1>2, <1>3 DEF LimInv, AllPaid, Paid, NoBucket

LEMMA LimStepInv == LimInv /\ [LimNext]_limVars => LimInv'
<1> SUFFICES ASSUME LimInv, [LimNext]_limVars PROVE LimInv'
  OBVIOUS
<1> USE DEF LimInv
<1>1. CASE UNCHANGED limVars
  BY <1>1 DEF limVars, LimTypeOK, AllPaid, Paid, Given
<1>2. CASE Tick
  <2>1. clock' = clock + 1 /\ buckets' = buckets /\ admitted' = admitted /\ evicted' = evicted
    BY <1>2 DEF Tick
  <2>2. LimTypeOK'
    BY <2>1 DEF LimTypeOK
  <2>3. Rps * clock <= Rps * clock' /\ Rps * clock \in Nat /\ Rps * clock' \in Nat
    BY <2>1, Grows DEF LimTypeOK
  <2>4. \A l \in Limiters, k \in Keys : Paid(l, k)'
    <3> SUFFICES ASSUME NEW l \in Limiters, NEW k \in Keys PROVE Paid(l, k)'
      OBVIOUS
    <3>1. Paid(l, k) /\ buckets[l][k].last \in Nat /\ clock \in Nat /\ admitted[l][k] \in Nat
      BY DEF AllPaid, LimTypeOK
    <3>2. Given(l, k) \in Nat /\ Given(l, k)' = Given(l, k)
      BY <2>1, RefilledIsPaid DEF Given
    <3> QED BY <2>1, <2>3, <3>1, <3>2 DEF Paid
  <2>5. \A l \in Limiters, k \in Keys : (buckets[l][k].last <= clock)'
    BY <2>1 DEF LimTypeOK
  <2> QED BY <2>2, <2>4, <2>5 DEF AllPaid
<1>3. ASSUME NEW l \in Limiters, NEW k \in Keys, Admit(l, k) PROVE LimInv'
  <2>1. /\ Refilled(l, k) \in Nat /\ Refilled(l, k) >= 1 /\ Refilled(l, k) <= Burst
        /\ Given(l, k) \in Nat
        /\ admitted[l][k] + Refilled(l, k) <= Burst + Rps * clock + Given(l, k)
    BY <1>3, RefilledIsPaid DEF Admit
  <2> DEFINE new == [made |-> TRUE, tokens |-> Refilled(l, k) - 1, last |-> clock]
  <2>2. /\ buckets' = [buckets EXCEPT ![l][k] = new]
        /\ admitted' = [admitted EXCEPT ![l][k] = @ + 1]
        /\ clock' = clock /\ evicted' = evicted
        /\ \A m \in Limiters, h \in Keys : Given(m, h)' = Given(m, h)
    BY <1>3 DEF Admit, Given
  <2>3. new \in [made : BOOLEAN, tokens : Nat, last : Nat]
    BY <2>1 DEF LimTypeOK
  <2>4. LimTypeOK'
    BY <2>2, <2>3 DEF LimTypeOK
  <2>5. /\ buckets'[l][k] = new /\ admitted'[l][k] = admitted[l][k] + 1
        /\ \A m \in Limiters, h \in Keys : m # l \/ h # k =>
             buckets'[m][h] = buckets[m][h] /\ admitted'[m][h] = admitted[m][h]
    BY <2>2 DEF LimTypeOK
  <2>6. Paid(l, k)'
    <3>1. Rps * clock \in Nat /\ Burst \in Nat /\ admitted[l][k] \in Nat /\ clock \in Nat
      BY Grows, RateLimiterAssumption DEF LimTypeOK
    <3> HIDE DEF LimInv
    <3> QED BY <2>1, <2>2, <2>5, <3>1 DEF Paid
  <2>7. \A m \in Limiters, h \in Keys : Paid(m, h)' /\ buckets'[m][h].last <= clock
    BY <2>2, <2>5, <2>6 DEF Paid, AllPaid, LimTypeOK
  <2> QED BY <2>2, <2>4, <2>7 DEF AllPaid
<1>4. ASSUME NEW l \in Limiters, NEW k \in Keys, Reject(l, k) PROVE LimInv'
  <2>1. /\ Refilled(l, k) \in Nat /\ Refilled(l, k) <= Burst
        /\ Given(l, k) \in Nat
        /\ admitted[l][k] + Refilled(l, k) <= Burst + Rps * clock + Given(l, k)
    BY RefilledIsPaid
  <2> DEFINE new == [made |-> TRUE, tokens |-> Refilled(l, k), last |-> clock]
  <2>2. /\ buckets' = [buckets EXCEPT ![l][k] = new]
        /\ admitted' = admitted /\ clock' = clock /\ evicted' = evicted
        /\ \A m \in Limiters, h \in Keys : Given(m, h)' = Given(m, h)
    BY <1>4 DEF Reject, Given
  <2>3. new \in [made : BOOLEAN, tokens : Nat, last : Nat]
    BY <2>1 DEF LimTypeOK
  <2>4. LimTypeOK'
    BY <2>2, <2>3 DEF LimTypeOK
  <2>5. /\ buckets'[l][k] = new
        /\ \A m \in Limiters, h \in Keys : m # l \/ h # k => buckets'[m][h] = buckets[m][h]
    BY <2>2 DEF LimTypeOK
  <2>6. Paid(l, k)'
    BY <2>1, <2>2, <2>5 DEF Paid, LimTypeOK
  <2>7. \A m \in Limiters, h \in Keys : Paid(m, h)' /\ buckets'[m][h].last <= clock
    BY <2>2, <2>5, <2>6 DEF Paid, AllPaid, LimTypeOK
  <2> QED BY <2>2, <2>4, <2>7 DEF AllPaid
<1>5. ASSUME NEW l \in Limiters, NEW k \in Keys, Evict(l, k) PROVE LimInv'
  <2> DEFINE b == buckets[l][k]
  <2>1. /\ b.made /\ b.last < clock - IdleTTL
        /\ buckets' = [buckets EXCEPT ![l][k] = NoBucket]
        /\ evicted' = [evicted EXCEPT ![l][k] = @ + 1]
        /\ admitted' = admitted /\ clock' = clock
    BY <1>5 DEF Evict
  <2>2. NoBucket \in [made : BOOLEAN, tokens : Nat, last : Nat]
    BY DEF NoBucket
  <2>3. LimTypeOK'
    BY <2>1, <2>2 DEF LimTypeOK
  <2>4. /\ buckets'[l][k] = NoBucket /\ evicted'[l][k] = evicted[l][k] + 1
        /\ \A m \in Limiters, h \in Keys : m # l \/ h # k =>
             buckets'[m][h] = buckets[m][h] /\ evicted'[m][h] = evicted[m][h]
    BY <2>1 DEF LimTypeOK
  <2>5. admitted[l][k] <= Rps * clock + Given(l, k)'
    <3>1. /\ b.tokens \in Nat /\ b.last \in Nat /\ clock \in Nat /\ IdleTTL \in Nat
          /\ admitted[l][k] \in Nat /\ Burst \in Nat /\ Rps \in Nat /\ evicted[l][k] \in Nat
      BY RateLimiterAssumption DEF LimTypeOK
    <3>2. admitted[l][k] + b.tokens <= Burst + Rps * b.last + Given(l, k)
      BY <2>1 DEF AllPaid, Paid
    <3>3. b.last + (IdleTTL + 1) <= clock /\ b.last + (IdleTTL + 1) \in Nat /\ IdleTTL + 1 \in Nat
      BY <2>1, <3>1
    <3>4. Rps * (b.last + (IdleTTL + 1)) <= Rps * clock
      BY <3>1, <3>3, Grows
    <3>5. Rps * (b.last + (IdleTTL + 1)) = Rps * b.last + Rps * (IdleTTL + 1)
      BY <3>1, <3>3, Spread
    <3>6. Rps * b.last \in Nat /\ Rps * (IdleTTL + 1) \in Nat /\ Rps * clock \in Nat
      BY ONLY <3>1, <3>3, Spread
    <3>7. /\ Given(l, k)' = Given(l, k) + Unearned /\ Given(l, k) \in Nat /\ Unearned \in Nat
          /\ Burst <= Rps * (IdleTTL + 1) + Unearned
      BY <2>4, <3>1, GivenIs, UnearnedIs DEF Given
    <3> DEFINE idle == Rps * (IdleTTL + 1)
    <3> HIDE DEF LimInv, b, idle
    <3>8. admitted[l][k] <= Rps * clock + (Given(l, k) + Unearned)
      <4>1. Rps * b.last + idle <= Rps * clock /\ idle \in Nat /\ Burst <= idle + Unearned
        BY <3>4, <3>5, <3>6, <3>7 DEF idle
      <4> QED BY <3>1, <3>2, <3>6, <3>7, <4>1
    <3> QED BY <3>7, <3>8
  <2>6. Paid(l, k)'
    BY <2>1, <2>4, <2>5 DEF Paid, NoBucket
  <2>7. \A m \in Limiters, h \in Keys : Paid(m, h)' /\ buckets'[m][h].last <= clock
    BY <2>1, <2>4, <2>6 DEF Paid, AllPaid, LimTypeOK, NoBucket, Given
  <2> QED BY <2>1, <2>3, <2>7 DEF AllPaid
<1> QED BY <1>1, <1>2, <1>3, <1>4, <1>5 DEF LimNext

\* However a key's requests, the clock and the sweeper interleave, it never
\* has more than the burst, the refill since the start and what evictions of
\* buckets that were not full gave away; for every burst, rate and idle time
\* (limiter.go:1-20, 145).
THEOREM NeverOverRate == LimSpec => []AdmittedBounded
<1>1. LimInv => AdmittedBounded
  <2> SUFFICES ASSUME LimInv, NEW l \in Limiters, NEW k \in Keys
               PROVE  admitted[l][k] <= Burst + Rps * clock + Given(l, k)
    BY DEF AdmittedBounded, Given
  <2>1. /\ Refilled(l, k) \in Nat /\ Given(l, k) \in Nat
        /\ admitted[l][k] + Refilled(l, k) <= Burst + Rps * clock + Given(l, k)
    BY RefilledIsPaid DEF LimInv
  <2>2. admitted[l][k] \in Nat /\ Rps * clock \in Nat /\ Burst \in Nat
    BY Grows, RateLimiterAssumption DEF LimInv, LimTypeOK
  <2> QED BY <2>1, <2>2
<1> QED BY <1>1, LimInitInv, LimStepInv, PTL DEF LimSpec
-----------------------------------------------------------------------------
(* The server uses its limiters as RateLimiter says.                       *)

\* The reference points to the limiter of the current generation, or to the
\* one before while a reload is under way; a request that is about to ask for
\* a token has loaded one of them.
Limited ==
    /\ reload \in {"none", "swap"}
    /\ Gen <= MaxReloads + 1
    /\ limiter = IF reload = "none" THEN Gen ELSE Gen - 1
    /\ limiter >= 1
    /\ \A c \in Clients : req[c].pc = "allow" => req[c].lim \in Limiters

LEMMA StepLimited ==
  ASSUME Inv, Limited, [Next]_vars
  PROVE  Limited'
<1> USE ApiServerAssumption
<1>0. Gen \in Nat /\ vocab \in Seq(Vocabularies) /\ limiter \in Nat
  BY DEF Inv, Types, Gen
<1>1. ASSUME NEW c \in Clients, NEW pc, req'[c].pc = pc, pc # "allow",
             \A d \in Clients : d # c => req'[d] = req[d],
             UNCHANGED <<vocab, limiter, reload>>
      PROVE  Limited'
  BY <1>1 DEF Limited, Gen
<1>2. ASSUME NEW c \in Clients, NEW r \in Requests, Send(c, r) PROVE Limited'
  BY <1>1, <1>2 DEF Send, Inv, Types
<1>3. ASSUME NEW c \in Clients, LoadLimiter(c) PROVE Limited'
  <2>1. limiter \in Limiters
    BY <1>0 DEF Limited
  <2>2. /\ req[c] \in Call /\ UNCHANGED <<vocab, limiter, reload>>
        /\ req' = [req EXCEPT ![c] = [req[c] EXCEPT !.lim = limiter, !.pc = "allow"]]
    BY <1>3, Running DEF LoadLimiter
  <2>3. req'[c].lim = limiter /\ \A d \in Clients : d # c => req'[d] = req[d]
    BY <2>2 DEF Inv, Types, Call
  <2> QED BY <2>1, <2>2, <2>3 DEF Limited, Gen
<1>4. ASSUME NEW c \in Clients,
             Authenticate(c) \/ Allow(c) \/ Check(c) \/ CheckStale(c) \/ Serve(c)
      PROVE  Limited'
  <2>1. req[c] \in Call /\ UNCHANGED <<vocab, limiter, reload>>
    BY <1>4, Running DEF Authenticate, Allow, Check, CheckStale, Serve
  <2>2. req'[c].pc # "allow" /\ \A d \in Clients : d # c => req'[d] = req[d]
    <3>0. \A x : req' = [req EXCEPT ![c] = x] =>
                  req'[c] = x /\ \A d \in Clients : d # c => req'[d] = req[d]
      BY DEF Inv, Types
    <3>6. /\ \A pc : [req[c] EXCEPT !.pc = pc].pc = pc
          /\ \A pc, n : [req[c] EXCEPT !.pc = pc, !.status = n].pc = pc
          /\ \A pc, n : [req[c] EXCEPT !.gen = n, !.pc = pc].pc = pc
          /\ \A pc, n : [req[c] EXCEPT !.pc = pc, !.status = n, !.served = TRUE].pc = pc
      BY <2>1 DEF Call
    <3>7. \A pc : To(c, pc) =>
                   req'[c].pc = pc /\ \A d \in Clients : d # c => req'[d] = req[d]
      BY <3>0, <3>6 DEF To
    <3>8. ASSUME NEW n, Reply(c, n)
          PROVE  req'[c].pc = "done" /\ \A d \in Clients : d # c => req'[d] = req[d]
      <4> DEFINE x == [req[c] EXCEPT !.pc = "done", !.status = n]
      <4>1. x.pc = "done"
        BY <2>1 DEF Call
      <4>2. req' = [req EXCEPT ![c] = x]
        BY <3>8 DEF Reply
      <4> HIDE DEF x
      <4> QED BY <3>0, <4>1, <4>2
    <3>1. CASE Authenticate(c)
      BY <3>1, <3>7, <3>8 DEF Authenticate
    <3>2. CASE Allow(c)
      BY <3>2, <3>7, <3>8 DEF Allow
    <3>3. CASE Check(c)
      <4>1. \/ Reply(c, 405) \/ Reply(c, 422)
            \/ \E pc \in {"stale", "serve"} :
                 req' = [req EXCEPT ![c] = [req[c] EXCEPT !.gen = Gen, !.pc = pc]]
        BY <3>3 DEF Check
      <4>2. ASSUME NEW pc \in {"stale", "serve"},
                   req' = [req EXCEPT ![c] = [req[c] EXCEPT !.gen = Gen, !.pc = pc]]
            PROVE  req'[c].pc # "allow" /\ \A d \in Clients : d # c => req'[d] = req[d]
        <5> DEFINE x == [req[c] EXCEPT !.gen = Gen, !.pc = pc]
        <5>1. x.pc = pc
          BY <2>1 DEF Call
        <5>2. req' = [req EXCEPT ![c] = x]
          BY <4>2
        <5> HIDE DEF x
        <5> QED BY <3>0, <5>1, <5>2
      <4> QED BY <3>8, <4>1, <4>2
    <3>4. CASE CheckStale(c)
      <4> DEFINE x == [req[c] EXCEPT !.asof = Gen, !.pc = "serve"]
      <4>1. x.pc = "serve"
        BY <2>1 DEF Call
      <4>2. Reply(c, 409) \/ req' = [req EXCEPT ![c] = x]
        BY <3>4 DEF CheckStale
      <4> HIDE DEF x
      <4>3. CASE req' = [req EXCEPT ![c] = x]
        BY <3>0, <4>1, <4>3
      <4> QED BY <3>8, <4>2, <4>3
    <3>5. CASE Serve(c)
      BY <3>0, <3>5, <3>6 DEF Serve
    <3> QED BY <1>4, <3>1, <3>2, <3>3, <3>4, <3>5
  <2>3. \A d \in Clients : req'[d].pc = "allow" => req'[d].lim \in Limiters
    BY <2>2 DEF Limited
  <2> QED BY <2>1, <2>3 DEF Limited, Gen
<1>5. ASSUME NEW v \in Vocabularies, StoreState(v) PROVE Limited'
  <2>1. reload = "none" /\ Gen <= MaxReloads /\ Gen' = Gen + 1 /\ reload' = "swap"
        /\ UNCHANGED <<limiter, req>>
    BY <1>0, <1>5 DEF StoreState, Gen
  <2> QED BY <1>0, <2>1 DEF Limited
<1>6. CASE SwapLimiter
  BY <1>0, <1>6 DEF SwapLimiter, Limited, Gen
<1>7. CASE Time \/ (\E l \in Limiters, k \in Keys : Sweep(l, k)) \/ UNCHANGED vars
  BY <1>7 DEF Time, Sweep, vars, serverVars, Limited, Gen
<1> QED BY <1>2, <1>3, <1>4, <1>5, <1>6, <1>7 DEF Next, Step

\* Requests, reloads and sweeps use and replace the limiters only as
\* RateLimiter allows.
LEMMA StepRefines ==
  ASSUME Inv, Limited, [Next]_vars
  PROVE  [LimNext]_limVars
<1>1. ASSUME NEW c \in Clients, Allow(c) PROVE LimNext
  <2>1. req[c].lim \in Limiters /\ req[c].r.key \in Keys
    BY <1>1, Running, ApiServerAssumption DEF Allow, Limited, Call
  <2> QED BY <1>1, <2>1 DEF Allow, LimNext
<1>2. ASSUME NEW c \in Clients, Step(c), ~Allow(c) PROVE UNCHANGED limVars
  BY <1>2 DEF Step, Authenticate, LoadLimiter, Check, CheckStale, Serve
<1>3. ASSUME NEW c \in Clients, NEW r \in Requests, Send(c, r) PROVE UNCHANGED limVars
  BY <1>3 DEF Send
<1>4. ASSUME NEW v \in Vocabularies, StoreState(v) PROVE UNCHANGED limVars
  BY <1>4 DEF StoreState
<1>5. CASE SwapLimiter
  BY <1>5 DEF SwapLimiter
<1>6. CASE Time \/ \E l \in Limiters, k \in Keys : Sweep(l, k)
  BY <1>6 DEF Time, Sweep, LimNext
<1>7. CASE UNCHANGED vars
  BY <1>7 DEF vars
<1> QED BY <1>1, <1>2, <1>3, <1>4, <1>5, <1>6, <1>7 DEF Next

\* The server, through reloads, implements the limiters' specification
\* (middleware.go with limiter.go).
THEOREM UsesLimiters == Spec => LimSpec
<1>1. Init => LimInit /\ Inv /\ Limited
  <2> SUFFICES ASSUME Init PROVE Limited
    BY InitInv DEF Init
  <2>1. Gen = 1 /\ limiter = 1 /\ reload = "none"
    BY DEF Init, Gen
  <2>2. \A c \in Clients : req[c].pc = "free"
    BY DEF Init, Free
  <2> QED BY <2>1, <2>2, ApiServerAssumption DEF Limited
<1>2. Inv /\ Limited /\ [Next]_vars => Inv' /\ Limited' /\ [LimNext]_limVars
  BY StepInv, StepLimited, StepRefines
<1> QED BY <1>1, <1>2, PTL DEF Spec, LimSpec

\* So no key is admitted above its rate, whichever limiter its requests have
\* loaded when a reload replaces it.
THEOREM RateHolds == Spec => []AdmittedBounded
BY UsesLimiters, NeverOverRate, PTL
=============================================================================
