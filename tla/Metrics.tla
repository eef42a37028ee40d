------------------------------- MODULE Metrics -------------------------------
(***************************************************************************)
(* The counters of the daemon (src/internal/metrics/metrics.go): each is   *)
(* kept twice, as an atomic and as a Prometheus counter, and is read while *)
(* requests count.  A handler counts its endpoint when it has succeeded,   *)
(* the graph handlers before they begin; an error that a handler returns   *)
(* is counted by Wrap (server/shared/base.go).  A request refused with a   *)
(* 4xx written by the handler itself counts nothing and is left out, but   *)
(* for the conflict with a reloaded schema.                                *)
(***************************************************************************)
EXTENDS Integers, Sequences, FiniteSets

CONSTANTS Callers,
          Endpoints,    \* those a request may be for, named after their counter
          First,        \* the endpoints counted before the work
          Timed,        \* those of First with a histogram
          Guarded,      \* endpoints that check the generation of the schema
          Readers,      \* reader -> "legacy" (/metrics, /health) or "prom"
          MaxRequests, MaxReads

Order == <<"store", "edge", "errors", "schema_conflict", "graph_communities">>
Counters == {Order[i] : i \in DOMAIN Order}

VARIABLES legacy,    \* the atomics
          prom,      \* the registry
          observed,  \* observations of the histogram of a timed endpoint
          req,       \* of a caller
          reading,   \* of a reader
          seen,      \* what a reader was last shown, complete or not
          outcomes,  \* history: the answers given, see Ending
          made       \* bound: requests and reads begun

vars == <<legacy, prom, observed, req, reading, seen, outcomes, made>>

Idle == [at |-> "idle", endpoint |-> "store", counter |-> "store", outcome |-> "none"]
Zero == [n \in Counters |-> 0]
Outcomes == {"ok", "error", "conflict"}
\* What is told apart of an answer: a success of an endpoint, or a failure.
Ending(e, outcome) == IF outcome = "ok" THEN e ELSE outcome

\* New registers every counter at zero; a family is there before its first use.
Init ==
    /\ legacy = Zero /\ prom = Zero
    /\ observed = [e \in Timed |-> 0]
    /\ req = [c \in Callers |-> Idle]
    /\ reading = [r \in DOMAIN Readers |-> 0]
    /\ seen = [r \in DOMAIN Readers |-> Zero]
    /\ outcomes = [n \in Endpoints \cup {"error", "conflict"} |-> 0]
    /\ made = [requests |-> 0, reads |-> 0]
-----------------------------------------------------------------------------
Begin(c) ==
    /\ req[c].at = "idle" /\ made.requests < MaxRequests
    /\ \E e \in Endpoints :
        req' = [req EXCEPT ![c] = [Idle EXCEPT !.endpoint = e, !.counter = e,
                                     !.at = IF e \in First THEN "add" ELSE "work"]]
    /\ made' = [made EXCEPT !.requests = @ + 1]
    /\ UNCHANGED <<legacy, prom, observed, reading, seen, outcomes>>

\* Mutant of CounterOf: an endpoint counts whatever its outcome was.
CounterOfEndpoint(e, outcome) == IF e \in First THEN "none" ELSE e

\* What is counted when the handler is done with the request.
CounterOf(e, outcome) ==
    CASE outcome = "error" -> "errors"
      [] outcome = "conflict" -> "schema_conflict"
      [] OTHER -> IF e \in First THEN "none" ELSE e

Count(c, n) ==
    IF n = "none" THEN [req[c] EXCEPT !.at = "answer"]
    ELSE [req[c] EXCEPT !.at = "add", !.counter = n]

Work(c) ==
    /\ req[c].at = "work"
    /\ \E o \in Outcomes :
        /\ o = "conflict" => req[c].endpoint \in Guarded
        /\ req' = [req EXCEPT ![c] =
             IF req[c].endpoint \in Timed
             THEN [req[c] EXCEPT !.outcome = o, !.at = "observe"]
             ELSE [Count(c, CounterOf(req[c].endpoint, o)) EXCEPT !.outcome = o]]
    /\ UNCHANGED <<legacy, prom, observed, reading, seen, outcomes, made>>

\* The deferred observation runs before Wrap sees the error.
Observe(c) ==
    /\ req[c].at = "observe"
    /\ observed' = [observed EXCEPT ![req[c].endpoint] = @ + 1]
    /\ req' = [req EXCEPT ![c] = Count(c, CounterOf(req[c].endpoint, req[c].outcome))]
    /\ UNCHANGED <<legacy, prom, reading, seen, outcomes, made>>

\* IncXxx: two additions.
Add(c) ==
    /\ req[c].at = "add"
    /\ legacy' = [legacy EXCEPT ![req[c].counter] = @ + 1]
    /\ req' = [req EXCEPT ![c].at = "inc"]
    /\ UNCHANGED <<prom, observed, reading, seen, outcomes, made>>

Inc(c) ==
    /\ req[c].at = "inc"
    /\ prom' = [prom EXCEPT ![req[c].counter] = @ + 1]
    /\ req' = [req EXCEPT ![c].at = IF req[c].outcome = "none" THEN "work" ELSE "answer"]
    /\ UNCHANGED <<legacy, observed, reading, seen, outcomes, made>>

Answer(c) ==
    /\ req[c].at = "answer"
    /\ outcomes' = [outcomes EXCEPT ![Ending(req[c].endpoint, req[c].outcome)] = @ + 1]
    /\ req' = [req EXCEPT ![c] = Idle]
    /\ UNCHANGED <<legacy, prom, observed, reading, seen, made>>
-----------------------------------------------------------------------------
View(r) == IF Readers[r] = "legacy" THEN legacy ELSE prom

ReadBegin(r) ==
    /\ reading[r] = 0 /\ made.reads < MaxReads
    /\ reading' = [reading EXCEPT ![r] = 1]
    /\ made' = [made EXCEPT !.reads = @ + 1]
    /\ UNCHANGED <<legacy, prom, observed, req, seen, outcomes>>

\* WriteExposition, Snapshot and Gather load one counter after the other.
Read(r) ==
    /\ reading[r] # 0
    /\ seen' = [seen EXCEPT ![r][Order[reading[r]]] = View(r)[Order[reading[r]]]]
    /\ reading' = [reading EXCEPT ![r] = IF @ = Len(Order) THEN 0 ELSE @ + 1]
    /\ UNCHANGED <<legacy, prom, observed, req, outcomes, made>>

\* The client of /metrics is gone: the rest is not written.
ReadErr(r) ==
    /\ reading[r] # 0
    /\ reading' = [reading EXCEPT ![r] = 0]
    /\ UNCHANGED <<legacy, prom, observed, req, seen, outcomes, made>>

Next ==
    \/ \E c \in Callers :
        Begin(c) \/ Work(c) \/ Observe(c) \/ Add(c) \/ Inc(c) \/ Answer(c)
    \/ \E r \in DOMAIN Readers : ReadBegin(r) \/ Read(r) \/ ReadErr(r)

Spec == Init /\ [][Next]_vars
-----------------------------------------------------------------------------
\* Callers that have added to the atomic of n and not to its Prometheus twin.
Between(n) == Cardinality({c \in Callers : req[c].at = "inc" /\ req[c].counter = n})

\* Requests counted, in one view or both, and not answered.
Counted(n) ==
    Cardinality({c \in Callers : /\ req[c].at \in {"inc", "answer"}
                                 /\ req[c].counter = n /\ req[c].outcome # "none"})

\* The two views agree but for the calls between the two additions.
Lockstep == \A n \in Counters : legacy[n] = prom[n] + Between(n)

\* A counter of an endpoint that counts last is the number of its successes,
\* errors and schema_conflict are those of all endpoints, and a duration is
\* recorded for no request that was not counted.  This is about the counters
\* themselves: what one reader is shown is loaded one counter after the other
\* and not for arithmetic across counters (metrics.go:516-519).
AddsUp ==
    /\ \A e \in Endpoints \ First : legacy[e] = outcomes[e] + Counted(e)
    /\ legacy["errors"] = outcomes["error"] + Counted("errors")
    /\ legacy["schema_conflict"] = outcomes["conflict"] + Counted("schema_conflict")
    /\ \A e \in Timed : observed[e] <= prom[e]

\* What a reader was shown is never ahead of the counter it reads.
ShownIsReached ==
    \A r \in DOMAIN Readers : \A n \in Counters : seen[r][n] <= View(r)[n]

CountersAddUp == Lockstep /\ AddsUp /\ ShownIsReached
-----------------------------------------------------------------------------
\* Why the counters add up: a request is counted where its outcome belongs,
\* or, of an endpoint counted first, before its work.
MetricsTypes ==
    /\ legacy \in [Counters -> Nat] /\ prom \in [Counters -> Nat]
    /\ observed \in [Timed -> Nat]
    /\ outcomes \in [Endpoints \cup {"error", "conflict"} -> Nat]
    /\ req \in [Callers -> [at : {"idle", "work", "observe", "add", "inc", "answer"},
                            endpoint : Endpoints \cup {"store"}, counter : Counters,
                            outcome : Outcomes \cup {"none"}]]
    /\ reading \in [DOMAIN Readers -> 0..Len(Order)]
    /\ seen \in [DOMAIN Readers -> [Counters -> Nat]]

\* Where a request r stands.
Fits(r) ==
    LET n == CounterOf(r.endpoint, r.outcome) IN
    /\ r.at # "idle" => r.endpoint \in Endpoints
    /\ r.at \in {"add", "inc"} /\ r.outcome = "none" => r.endpoint \in First /\ r.counter = r.endpoint
    /\ r.at \in {"add", "inc"} /\ r.outcome # "none" => r.counter = n
    /\ r.at = "work" => r.outcome = "none" /\ r.counter = r.endpoint
    /\ r.at = "observe" => r.outcome # "none" /\ r.counter = r.endpoint /\ r.endpoint \in Timed
    /\ r.at = "answer" => r.outcome # "none" /\ r.counter = (IF n = "none" THEN r.endpoint ELSE n)

\* Requests for a timed endpoint that have been counted and not observed.
Unobserved(e) == Cardinality({c \in Callers : req[c].at \in {"work", "observe"} /\ req[c].endpoint = e})

MetricsInv ==
    /\ MetricsTypes
    /\ \A c \in Callers : Fits(req[c])
    /\ Lockstep /\ AddsUp /\ ShownIsReached
    /\ \A e \in Timed : prom[e] = observed[e] + Unobserved(e)
=============================================================================
