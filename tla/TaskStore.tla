----------------------------- MODULE TaskStore -----------------------------
(***************************************************************************)
(* The task graph as the store keeps it (src/internal/store: task.go,      *)
(* task_executable.go, edge.go, entity.go): a status per task and the      *)
(* blocking edges.  An edge <<u, t>> says that t is blocked by u.  Every   *)
(* operator below is one statement, or one transaction, on the single      *)
(* database connection and hence atomic.                                   *)
(*                                                                         *)
(* A task is its rank in the lexical order of the ids.                     *)
(***************************************************************************)
EXTENDS Integers, FiniteSets

CONSTANTS Tasks, Prio, NoGoal

ASSUME TaskStoreAssumption ==
    /\ Tasks \subseteq Nat
    /\ Prio \in [Tasks -> Int]
    /\ NoGoal \notin Tasks

VARIABLES status,
          edges,
          hung    \* a statement that does not end has the only connection

storeVars == <<status, edges, hung>>

\* valid_states of the shipped configuration; the first is the initial one,
\* the second the one a claim sets, "completed" unblocks.
States == {"pending", "running", "completed", "failed"}

StoreTypeOK ==
    /\ status \in [Tasks -> States]
    /\ edges \subseteq Tasks \X Tasks
    /\ hung \in BOOLEAN
-----------------------------------------------------------------------------
(* Walking the graph.                                                      *)

Children(t) == {d \in Tasks : <<t, d>> \in edges}

Closed(S) == \A t \in S : Children(t) \subseteq S

\* Mutant of Downstream: only the direct dependents.
DirectDependents(t) == Children(t)

\* The recursive CTEs: everything reached from t by one edge or more.
Downstream(t) ==
    {d \in Tasks : \A S \in SUBSET Tasks : Children(t) \subseteq S /\ Closed(S) => d \in S}

\* A finite graph is acyclic iff every non-empty set of nodes has a node
\* without a predecessor in the set.
Acyclic(E) ==
    \A S \in SUBSET Tasks :
        S # {} => \E t \in S : \A u \in S : <<u, t>> \notin E
-----------------------------------------------------------------------------
(* Queries.                                                                *)

\* Mutant of Unblocked: a blocker counts as soon as it is not pending.
UnblockedByStart(t) == \A u \in Tasks : <<u, t>> \in edges => status[u] # "pending"

\* NOT EXISTS a blocker whose status is not the unblocking one.
Unblocked(t) == \A u \in Tasks : <<u, t>> \in edges => status[u] = "completed"

Executable == {t \in Tasks : status[t] = "pending" /\ Unblocked(t)}

\* The subquery dt of the goal variant of ClaimNextTask.
ClaimScope(g) ==
    IF g = NoGoal THEN Tasks ELSE {g} \cup {u \in Tasks : Children(u) # {}}

\* ORDER BY priority DESC, id LIMIT 1
IsBest(t, S) ==
    /\ t \in S
    /\ \A u \in S : Prio[u] < Prio[t] \/ (Prio[u] = Prio[t] /\ t <= u)
-----------------------------------------------------------------------------
(* Updates.                                                                *)

\* SetStatus; the caller's status is valid.
SetStatus(t, s) == status' = [status EXCEPT ![t] = s]

\* Mutant of AbortDependents: every dependent, whatever its status.
AbortAllDependents(t) ==
    status' = [d \in Tasks |-> IF d \in Downstream(t) THEN "failed" ELSE status[d]]

\* AbortDependents: only what is still pending.
AbortDependents(t) ==
    status' = [d \in Tasks |->
        IF d \in Downstream(t) /\ status[d] = "pending" THEN "failed" ELSE status[d]]

\* Mutant of AddEdge: the check does not look at the target itself.
AddEdgeFromChildren(u, t) ==
    /\ \/ /\ \E d \in Downstream(t) : d \in Downstream(d)
          /\ hung' = TRUE
          /\ UNCHANGED edges
       \/ /\ u \notin Downstream(t)
          /\ edges' = edges \cup {<<u, t>>}
          /\ UNCHANGED hung
    /\ UNCHANGED status

\* The transaction of AddEdge.  An edge that closes a cycle is refused.  The
\* check is a recursion with UNION ALL: it does not end when there is a cycle
\* already in what t reaches.
AddEdge(u, t) ==
    /\ LET reached == {t} \cup Downstream(t)
       IN  \/ /\ \E d \in reached : d \in Downstream(d)
              /\ hung' = TRUE
              /\ UNCHANGED edges
           \/ /\ \A d \in reached : d \notin Downstream(d)
              /\ u \notin reached
              /\ edges' = edges \cup {<<u, t>>}
              /\ UNCHANGED hung
    /\ UNCHANGED status

DeleteEdge(u, t) ==
    /\ <<u, t>> \in edges
    /\ edges' = edges \ {<<u, t>>}
    /\ UNCHANGED <<status, hung>>

\* createEdgesInTx of the ingestion pipeline: INSERT OR IGNORE without the
\* cycle check, for every relation the schema allows.
IngestEdge(u, t) ==
    /\ edges' = edges \cup {<<u, t>>}
    /\ UNCHANGED <<status, hung>>

\* StoreEntityWithEmbedding of an id that exists: status = excluded.status,
\* and WithInitialStatus has made that the first state.
Restore(t) == SetStatus(t, "pending") /\ UNCHANGED <<edges, hung>>
=============================================================================
