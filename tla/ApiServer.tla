------------------------------ MODULE ApiServer ------------------------------
(***************************************************************************)
(* A request through the HTTP server (src/internal/server), together with  *)
(* the reload by SIGHUP (cli/serve.go, serverstate).                       *)
(* The middleware, from the outside: runtime, authentication, rate limit;  *)
(* then the handler: its checks, the snapshot of the state, the check that *)
(* the snapshot is still the current one, and the service.                 *)
(***************************************************************************)
EXTENDS HttpRoutes, RateLimiter, Sequences

CONSTANTS Clients,
          Requests,     \* [path, method, key, body, fields, word]
          Scope,        \* scope of a key, "none" for an unknown one
          AuthEnabled,
          Vocabularies, \* the sets of words a configuration may allow
          MaxReloads,   \* bounds
          MaxClock,
          MaxRequests

ASSUME ApiServerAssumption ==
    /\ MaxReloads \in Nat
    /\ Limiters = 1..(MaxReloads + 1)
    /\ \A r \in Requests : r.key \in Keys /\ r.path \in DOMAIN Routes

VARIABLES vocab,     \* the vocabularies of the generations, the last is current
          limiter,   \* the limiter the reference points to
          sweeping,  \* limiters whose eviction goroutine runs
          stopSlot,  \* the limiter whose stop function the server keeps
          stopUsed,  \* stopOnce has fired
          reload,    \* where ReloadState is
          req,       \* client -> its request
          sent

serverVars == <<vocab, limiter, sweeping, stopSlot, stopUsed, reload, req, sent>>
vars == <<limVars, serverVars>>

Free == [pc |-> "free"]

Init ==
    /\ LimInit
    /\ vocab \in {<<v>> : v \in Vocabularies}
    /\ limiter = 1 /\ sweeping = {1} /\ stopSlot = 1 /\ stopUsed = FALSE
    /\ reload = "none"
    /\ req = [c \in Clients |-> Free]
    /\ sent = 0

Gen == Len(vocab)

To(c, pc) == req' = [req EXCEPT ![c].pc = pc]

Reply(c, status) == req' = [req EXCEPT ![c] = [@ EXCEPT !.pc = "done", !.status = status]]
-----------------------------------------------------------------------------
Send(c, r) ==
    /\ sent < MaxRequests
    /\ req[c].pc \in {"free", "done"}
    /\ req' = [req EXCEPT ![c] = [pc |-> "auth", r |-> r, since |-> Gen, gen |-> 0,
                                  asof |-> 0, lim |-> 0, status |-> 0, served |-> FALSE]]
    /\ sent' = sent + 1
    /\ UNCHANGED <<limVars, vocab, limiter, sweeping, stopSlot, stopUsed, reload>>

\* AuthMiddleware, outside the rate limit.
Authenticate(c) ==
    LET r == req[c].r IN
    /\ req[c].pc = "auth"
    /\ IF ~AuthEnabled \/ r.path \in OpenPaths \/ CanAccess(Scope[r.key], ScopeForPath(r.path))
       THEN To(c, IF r.path \in Unlimited THEN "check" ELSE "limit")
       ELSE Reply(c, IF Scope[r.key] = "none" THEN 401 ELSE 403)
    /\ UNCHANGED <<limVars, vocab, limiter, sweeping, stopSlot, stopUsed, reload, sent>>

\* LimiterRef.Load, then Allow on whatever it returned.
LoadLimiter(c) ==
    /\ req[c].pc = "limit"
    /\ req' = [req EXCEPT ![c] = [@ EXCEPT !.lim = limiter, !.pc = "allow"]]
    /\ UNCHANGED <<limVars, vocab, limiter, sweeping, stopSlot, stopUsed, reload, sent>>

Allow(c) ==
    /\ req[c].pc = "allow"
    /\ \/ Admit(req[c].lim, req[c].r.key) /\ To(c, "check")
       \/ Reject(req[c].lim, req[c].r.key) /\ Reply(c, 429)
    /\ UNCHANGED <<vocab, limiter, sweeping, stopSlot, stopUsed, reload, sent>>

Has(c, check) ==
    LET checks == Routes[req[c].r.path].checks IN \E i \in DOMAIN checks : checks[i] = check

\* The handler up to its service: method, body, required fields, then one
\* snapshot of the state for everything that follows.
Check(c) ==
    LET r == req[c].r IN
    /\ req[c].pc = "check"
    /\ IF r.method \notin Routes[r.path].methods THEN Reply(c, 405)
       ELSE IF (Has(c, "body") /\ ~r.body) \/ (Has(c, "fields") /\ ~r.fields) THEN Reply(c, 422)
       ELSE IF Has(c, "word") /\ r.word \notin vocab[Gen] THEN Reply(c, 422)
       ELSE req' = [req EXCEPT ![c] =
                      [@ EXCEPT !.gen = Gen, !.pc = IF Has(c, "stale") THEN "stale" ELSE "serve"]]
    /\ UNCHANGED <<limVars, vocab, limiter, sweeping, stopSlot, stopUsed, reload, sent>>

\* Mutant of CheckStale: the generation is not compared.
CheckStaleNever(c) ==
    /\ req[c].pc = "stale"
    /\ req' = [req EXCEPT ![c] = [@ EXCEPT !.asof = Gen, !.pc = "serve"]]
    /\ UNCHANGED <<limVars, vocab, limiter, sweeping, stopSlot, stopUsed, reload, sent>>

\* RejectSchemaConflict; asof is a history: the generation it has found.
CheckStale(c) ==
    /\ req[c].pc = "stale"
    /\ IF req[c].gen # Gen THEN Reply(c, 409)
       ELSE req' = [req EXCEPT ![c] = [@ EXCEPT !.asof = Gen, !.pc = "serve"]]
    /\ UNCHANGED <<limVars, vocab, limiter, sweeping, stopSlot, stopUsed, reload, sent>>

\* The service, and what Wrap makes of its error.
Serve(c) ==
    LET route == Routes[req[c].r.path] IN
    /\ req[c].pc = "serve"
    /\ \E status \in {route.ok} \cup route.failed :
         req' = [req EXCEPT ![c] =
                      [@ EXCEPT !.pc = "done", !.status = status, !.served = TRUE]]
    /\ UNCHANGED <<limVars, vocab, limiter, sweeping, stopSlot, stopUsed, reload, sent>>
-----------------------------------------------------------------------------
\* ReloadState, first half: Ref.Store of a state built from the new file.
StoreState(v) ==
    /\ reload = "none" /\ Gen <= MaxReloads
    /\ vocab' = Append(vocab, v)
    /\ reload' = "swap"
    /\ UNCHANGED <<limVars, limiter, sweeping, stopSlot, stopUsed, req, sent>>

\* Second half: a new limiter is started and swapped in; the stop function
\* that is kept is called the first time only.
SwapLimiter ==
    /\ reload = "swap"
    /\ reload' = "none"
    /\ limiter' = limiter + 1
    /\ sweeping' = (IF stopUsed THEN sweeping ELSE sweeping \ {stopSlot}) \cup {limiter + 1}
    /\ stopUsed' = TRUE
    /\ stopSlot' = limiter + 1
    /\ UNCHANGED <<limVars, vocab, req, sent>>

Sweep(l, k) == l \in sweeping /\ Evict(l, k) /\ UNCHANGED serverVars

Time == clock < MaxClock /\ Tick /\ UNCHANGED serverVars

Step(c) ==
    Authenticate(c) \/ LoadLimiter(c) \/ Allow(c) \/ Check(c) \/ CheckStale(c) \/ Serve(c)

Next ==
    \/ \E c \in Clients : Step(c) \/ \E r \in Requests : Send(c, r)
    \/ \E v \in Vocabularies : StoreState(v)
    \/ SwapLimiter \/ Time
    \/ \E l \in Limiters, k \in Keys : Sweep(l, k)

Spec == Init /\ [][Next]_vars
-----------------------------------------------------------------------------
Served(c) == req[c].pc = "done" /\ req[c].served

\* A request that reached its service had the right method and a sufficient
\* key, and the word it names was allowed in ONE generation that was current
\* at some moment while the request ran, whatever was reloaded meanwhile; where
\* the handler looks twice, that generation was still the current one when it
\* looked for the second time, after all of its checks; 409 is answered only
\* when there was a reload (serverstate.go:78-84, server/shared/reject.go).  A
\* reload after the second look is not seen: see SnapshotCurrent.
ServedInItsTime ==
    \A c \in Clients :
        /\ Served(c) =>
             /\ req[c].r.method \in Routes[req[c].r.path].methods
             /\ AuthEnabled /\ req[c].r.path \notin OpenPaths =>
                    CanAccess(Scope[req[c].r.key], ScopeForPath(req[c].r.path))
             /\ req[c].gen \in req[c].since..Gen
             /\ Has(c, "word") => req[c].r.word \in vocab[req[c].gen]
             /\ Has(c, "stale") => req[c].asof = req[c].gen
        /\ req[c].pc = "done" /\ req[c].status = 409 /\ ~req[c].served => req[c].gen # Gen

\* "a mismatch means the schema swapped out from under them and they must
\* return 409" (serverstate.go:11-14): no write is about to be made with a
\* snapshot that has been replaced.  The code does not keep this: nothing holds
\* the state between the second look and the service.
SnapshotCurrent ==
    \A c \in Clients : req[c].pc = "serve" /\ Has(c, "stale") => req[c].gen = Gen

\* A request with a key of the read scope reaches no service that writes
\* (auth/scope.go), one that is made as the server describes it is not refused
\* for its method, and the routes are those described (server.go:104-134).
RoutesSound ==
    /\ \A c \in Clients :
         LET r == req[c].r
         IN  req[c].pc = "done" =>
               /\ AuthEnabled /\ Scope[r.key] = "read" /\ r.path \notin OpenPaths /\ req[c].served =>
                      ~Routes[r.path].writes
               /\ req[c].status = 405 /\ r.path \in DOMAIN Documented =>
                      r.method # Documented[r.path].method
    /\ DescribedIsServed

\* "stops the old one's background eviction goroutine" (limiter.go, Swap):
\* only the limiter in use has a sweeper.
OneSweeper == reload = "none" => sweeping = {limiter}
==============================================================================
