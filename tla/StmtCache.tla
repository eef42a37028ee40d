----------------------------- MODULE StmtCache -----------------------------
(***************************************************************************)
(* queryCached (src/internal/retrieval/stmt_cache.go): the prepared        *)
(* statements of the graph walk, shared by all requests.  The lock covers  *)
(* the look-ups and changes of the map, never the work of the database.    *)
(***************************************************************************)
EXTENDS Naturals, FiniteSets

CONSTANTS Requests,
          Queries,         \* the query texts
          MaxCachedStmts,
          MaxStmts,        \* bound on the statements ever prepared
          NoStmt

VARIABLES cache,     \* query -> statement
          open,      \* the statements that are prepared and not closed
          prepared,  \* how many there have been
          asking     \* the call of each request

stmtVars == <<cache, open, prepared, asking>>

NoCall == [pc |-> "idle", query |-> NoStmt, stmt |-> NoStmt]

Init ==
    /\ cache = [q \in Queries |-> NoStmt]
    /\ open = {} /\ prepared = 0
    /\ asking = [r \in Requests |-> NoCall]

Cached == {cache[q] : q \in Queries} \ {NoStmt}
At(r, pc) == asking[r].pc = pc
-----------------------------------------------------------------------------
LookUp(r, q) ==
    /\ At(r, "idle")
    /\ asking' = [asking EXCEPT ![r] = [pc |-> IF cache[q] = NoStmt THEN "prepare" ELSE "query",
                                    query |-> q, stmt |-> cache[q]]]
    /\ UNCHANGED <<cache, open, prepared>>

\* Outside the lock; an error ends the call.
Prepare(r) ==
    /\ At(r, "prepare")
    /\ \/ /\ prepared < MaxStmts
          /\ prepared' = prepared + 1
          /\ open' = open \cup {prepared'}
          /\ asking' = [asking EXCEPT ![r] = [@ EXCEPT !.pc = "insert", !.stmt = prepared']]
       \/ asking' = [asking EXCEPT ![r] = NoCall] /\ UNCHANGED <<open, prepared>>
    /\ UNCHANGED cache

\* Somebody was faster: his statement is used.  A full cache is emptied, and
\* everything in it closed.
Insert(r) ==
    LET q == asking[r].query
        mine == asking[r].stmt
    IN  /\ At(r, "insert")
        /\ IF cache[q] # NoStmt
           THEN /\ open' = open \ {mine}
                /\ asking' = [asking EXCEPT ![r] = [@ EXCEPT !.pc = "query", !.stmt = cache[q]]]
                /\ UNCHANGED cache
           ELSE /\ IF Cardinality(Cached) >= MaxCachedStmts
                   THEN /\ open' = open \ Cached
                        /\ cache' = [k \in Queries |-> IF k = q THEN mine ELSE NoStmt]
                   ELSE cache' = [cache EXCEPT ![q] = mine] /\ UNCHANGED open
                /\ asking' = [asking EXCEPT ![r].pc = "query"]
        /\ UNCHANGED prepared

\* A closed statement fails; an open one may fail, and does once the handle
\* is closed or the schema has changed.
Query(r) ==
    /\ At(r, "query")
    /\ \/ asking[r].stmt \in open /\ asking' = [asking EXCEPT ![r] = NoCall]
       \/ asking' = [asking EXCEPT ![r].pc = "drop"]
    /\ UNCHANGED <<cache, open, prepared>>

\* Mutant of Drop: whatever is cached for the query is forgotten.
DropAny(r) ==
    /\ At(r, "drop")
    /\ cache' = [cache EXCEPT ![asking[r].query] = NoStmt]
    /\ open' = open \ {asking[r].stmt}
    /\ asking' = [asking EXCEPT ![r] = NoCall]
    /\ UNCHANGED prepared

Drop(r) ==
    /\ At(r, "drop")
    /\ IF cache[asking[r].query] = asking[r].stmt
       THEN /\ cache' = [cache EXCEPT ![asking[r].query] = NoStmt]
            /\ open' = open \ {asking[r].stmt}
       ELSE UNCHANGED <<cache, open>>
    /\ asking' = [asking EXCEPT ![r] = NoCall]
    /\ UNCHANGED prepared

Next ==
    \E r \in Requests :
      \/ \E q \in Queries : LookUp(r, q)
      \/ Prepare(r) \/ Insert(r) \/ Query(r) \/ Drop(r)

Spec == Init /\ [][Next]_stmtVars
-----------------------------------------------------------------------------
\* However the requests interleave, what is cached is open, within the limit,
\* and nothing that is open is forgotten: it is cached, or a request is about
\* to insert it (stmt_cache.go:52-67, 75-80).
StatementsAccounted ==
    /\ Cached \subseteq open
    /\ Cardinality(Cached) <= MaxCachedStmts
    /\ open \subseteq Cached \cup {asking[r].stmt : r \in {q \in Requests : At(q, "insert")}}

\* What every step keeps.  A statement has one owner: a query of the cache, or
\* the request that has prepared it and not yet inserted it.
Stmts == Nat \cup {NoStmt}

StmtTypes ==
    /\ cache \in [Queries -> Stmts]
    /\ open \subseteq Nat /\ prepared \in Nat
    /\ \A n \in open : n <= prepared
    /\ asking \in [Requests -> [pc : {"idle", "prepare", "insert", "query", "drop"},
                                query : Queries \cup {NoStmt}, stmt : Stmts]]
    /\ \A r \in Requests : ~At(r, "idle") => asking[r].query \in Queries

OneOwner ==
    /\ \A p, q \in Queries : cache[p] = cache[q] /\ cache[p] # NoStmt => p = q
    /\ \A r \in Requests : At(r, "insert") => asking[r].stmt \in open /\ asking[r].stmt \notin Cached
    /\ \A r, t \in Requests :
         At(r, "insert") /\ At(t, "insert") /\ asking[r].stmt = asking[t].stmt => r = t

StmtInv == StmtTypes /\ OneOwner /\ IsFiniteSet(Cached) /\ StatementsAccounted
=============================================================================
