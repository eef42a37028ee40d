---------------------------- MODULE TaskWorkers ----------------------------
(***************************************************************************)
(* Workers that take tasks with ClaimNextTask (POST /task/claim-next), do  *)
(* them, and report with Service.Status (POST /task/status), next to       *)
(* clients that edit the graph, and that set the status of any task: the   *)
(* code asks neither who holds it nor what its status was.  A client also  *)
(* calls CascadeRollback (POST of the tool task_rollback), here without    *)
(* its limit and in any order of the queue: TaskRollback has both.         *)
(***************************************************************************)
EXTENDS TaskStore

CONSTANTS Workers, Clients,
          None,      \* no task
          Goals,     \* goals the workers claim for, or NoGoal
          MaxEdits,  \* bound: calls of clients and of ingestion
          CanFail    \* the answer to a claim is lost; a later statement fails

ASSUME TaskWorkersAssumption ==
    /\ None \notin Tasks
    /\ Goals \subseteq Tasks \cup {NoGoal}
    /\ MaxEdits \in Nat
    /\ CanFail \in BOOLEAN

VARIABLES owner,     \* the task every worker has in hand
          wpc,       \* "idle", "working", or "aborting": the status of the
                     \* failed task is set, its dependents are not aborted yet
          broken,    \* history: tasks reported as failed
          edits,     \* number of edits so far
          ingested,  \* history: edges that ingestion inserted
          reopened,  \* history: tasks set back to "pending" while a worker had them
          client     \* the unfinished call of every client

workerVars == <<owner, wpc, broken>>
editVars == <<edits, ingested, reopened, client>>
vars == <<status, edges, hung, owner, wpc, broken, edits, ingested, reopened, client>>

\* "abort": the cascade of a reported failure is due; "visit" and "roll": the two
\* halves of an iteration of CascadeRollback.
Calls == [pc : {"idle", "abort", "visit", "roll"}, cur : Tasks \cup {None},
          queue : SUBSET Tasks, visited : SUBSET Tasks]
NoCall == [pc |-> "idle", cur |-> None, queue |-> {}, visited |-> {}]

TypeOK ==
    /\ StoreTypeOK
    /\ owner \in [Workers -> Tasks \cup {None}]
    /\ wpc \in [Workers -> {"idle", "working", "aborting"}]
    /\ broken \subseteq Tasks
    /\ edits \in 0..MaxEdits
    /\ ingested \subseteq Tasks \X Tasks
    /\ reopened \subseteq Tasks
    /\ client \in [Clients -> Calls]

\* The tasks have been created and linked.
Init ==
    /\ status = [t \in Tasks |-> "pending"]
    /\ edges \in SUBSET {e \in Tasks \X Tasks : e[1] # e[2]} /\ Acyclic(edges)
    /\ hung = FALSE
    /\ owner = [w \in Workers |-> None]
    /\ wpc = [w \in Workers |-> "idle"]
    /\ broken = {}
    /\ edits = 0 /\ ingested = {} /\ reopened = {}
    /\ client = [c \in Clients |-> NoCall]

InHand == {owner[w] : w \in {v \in Workers : wpc[v] = "working"}}
-----------------------------------------------------------------------------
\* Mutant of Claim: the row is selected and not updated.
ClaimReadOnly(w, g) ==
    /\ wpc[w] = "idle"
    /\ \E t \in Tasks :
         /\ IsBest(t, Executable \cap ClaimScope(g))
         /\ owner' = [owner EXCEPT ![w] = t]
    /\ wpc' = [wpc EXCEPT ![w] = "working"]
    /\ UNCHANGED <<storeVars, broken, editVars>>

\* UPDATE ... RETURNING; without an executable task nothing happens.
Claim(w, g) ==
    /\ wpc[w] = "idle"
    /\ \E t \in Tasks :
         /\ IsBest(t, Executable \cap ClaimScope(g))
         /\ SetStatus(t, "running")
         /\ owner' = [owner EXCEPT ![w] = t]
    /\ wpc' = [wpc EXCEPT ![w] = "working"]
    /\ UNCHANGED <<edges, hung, broken, editVars>>

\* The context is cancelled after the UPDATE has committed and before its row
\* is read (task_executable.go:37-42).
ClaimLost(w, g) ==
    /\ CanFail
    /\ wpc[w] = "idle"
    /\ \E t \in Tasks :
         /\ IsBest(t, Executable \cap ClaimScope(g))
         /\ SetStatus(t, "running")
    /\ UNCHANGED <<edges, hung, workerVars, editVars>>

\* Mutant of Complete: a status outside valid_states is accepted.
CompleteAny(w) ==
    /\ wpc[w] = "working"
    /\ SetStatus(owner[w], "done")
    /\ owner' = [owner EXCEPT ![w] = None]
    /\ wpc' = [wpc EXCEPT ![w] = "idle"]
    /\ UNCHANGED <<edges, hung, broken, editVars>>

\* Status(t, "completed")
Complete(w) ==
    /\ wpc[w] = "working"
    /\ SetStatus(owner[w], "completed")
    /\ owner' = [owner EXCEPT ![w] = None]
    /\ wpc' = [wpc EXCEPT ![w] = "idle"]
    /\ UNCHANGED <<edges, hung, broken, editVars>>

\* Status(t, "failed"), first statement.
Fail(w) ==
    /\ wpc[w] = "working"
    /\ SetStatus(owner[w], "failed")
    /\ wpc' = [wpc EXCEPT ![w] = "aborting"]
    /\ broken' = broken \cup {owner[w]}
    /\ UNCHANGED <<edges, hung, owner, editVars>>

\* Mutant of Abort: the cascade starts at the blockers, source and target
\* being swapped.
AbortBlockers(w) ==
    /\ wpc[w] = "aborting"
    /\ status' = [d \in Tasks |->
          IF owner[w] \in Downstream(d) /\ status[d] # "running" THEN "failed" ELSE status[d]]
    /\ owner' = [owner EXCEPT ![w] = None]
    /\ wpc' = [wpc EXCEPT ![w] = "idle"]
    /\ UNCHANGED <<edges, hung, broken, editVars>>

\* Status(t, "failed"), second statement; a failure is only logged.
Abort(w) ==
    /\ wpc[w] = "aborting"
    /\ \/ AbortDependents(owner[w])
       \/ CanFail /\ UNCHANGED status
    /\ owner' = [owner EXCEPT ![w] = None]
    /\ wpc' = [wpc EXCEPT ![w] = "idle"]
    /\ UNCHANGED <<edges, hung, broken, editVars>>

WorkerStep(w) == Complete(w) \/ Fail(w) \/ Abort(w)

\* POST /task/dep
EditEdge ==
    /\ \E u, t \in Tasks : AddEdge(u, t) \/ DeleteEdge(u, t)
    /\ UNCHANGED <<broken, ingested, reopened, client>>

Ingest ==
    /\ \E u, t \in Tasks :
         /\ IngestEdge(u, t)
         /\ ingested' = ingested \cup {<<u, t>>}
    /\ UNCHANGED <<broken, reopened, client>>

\* A client stores a task under an id that exists.
StoreAgain(t) ==
    /\ Restore(t)
    /\ reopened' = reopened \cup ({t} \cap InHand)
    /\ UNCHANGED <<broken, ingested, client>>

\* Status(t, s), first statement, by whoever calls: no owner and no previous
\* status is asked for.
Post(c, t, s) ==
    /\ client[c].pc = "idle"
    /\ SetStatus(t, s)
    /\ client' = IF s = "failed" THEN [client EXCEPT ![c] = [NoCall EXCEPT !.pc = "abort", !.cur = t]]
                 ELSE client
    /\ broken' = IF s = "failed" THEN broken \cup {t} ELSE broken
    /\ reopened' = IF s = "pending" THEN reopened \cup ({t} \cap InHand) ELSE reopened
    /\ UNCHANGED <<edges, hung, ingested>>

RollbackStart(c, t) ==
    /\ client[c].pc = "idle"
    /\ client' = [client EXCEPT ![c] = [NoCall EXCEPT !.pc = "visit", !.queue = {t}]]
    /\ UNCHANGED <<storeVars, broken, ingested, reopened>>

Edit ==
    /\ edits < MaxEdits
    /\ edits' = edits + 1
    /\ \/ EditEdge \/ Ingest
       \/ \E t \in Tasks : StoreAgain(t)
       \/ \E c \in Clients, t \in Tasks, s \in States : Post(c, t, s)
       \/ \E c \in Clients, t \in Tasks : RollbackStart(c, t)
    /\ UNCHANGED <<owner, wpc>>

\* Status(t, "failed"), second statement; a failure is only logged.
ClientAbort(c) ==
    /\ client[c].pc = "abort"
    /\ \/ AbortDependents(client[c].cur)
       \/ CanFail /\ UNCHANGED status
    /\ client' = [client EXCEPT ![c] = NoCall]
    /\ UNCHANGED <<edges, hung>>

\* The task is read; what is completed is passed over, with all behind it, and
\* so is what cannot be read.
RollbackVisit(c) ==
    /\ client[c].pc = "visit"
    /\ \E t \in client[c].queue :
         \E pc \in {"visit", "roll"} :
           /\ pc = "visit" => status[t] = "completed" \/ CanFail
           /\ pc = "roll" => status[t] # "completed"
           /\ client' = [client EXCEPT ![c] =
                            [client[c] EXCEPT !.pc = pc, !.cur = t, !.queue = @ \ {t},
                                              !.visited = @ \cup {t}]]
    /\ UNCHANGED storeVars

\* UPDATE, whatever the status has become since it was read, and the read of
\* the dependents; a failure skips what is left of the iteration.
RollbackRoll(c) ==
    LET t == client[c].cur
    IN  /\ client[c].pc = "roll"
        /\ \/ /\ SetStatus(t, "completed")
              /\ \E next \in {Children(t) \ client[c].visited} \cup (IF CanFail THEN {{}} ELSE {}) :
                    client' = [client EXCEPT ![c].pc = "visit", ![c].queue = @ \cup next]
           \/ /\ CanFail
              /\ client' = [client EXCEPT ![c].pc = "visit"]
              /\ UNCHANGED status
        /\ UNCHANGED <<edges, hung>>

RollbackEnd(c) ==
    /\ client[c].pc = "visit" /\ client[c].queue = {}
    /\ client' = [client EXCEPT ![c] = NoCall]
    /\ UNCHANGED storeVars

ClientStep(c) ==
    /\ ClientAbort(c) \/ RollbackVisit(c) \/ RollbackRoll(c) \/ RollbackEnd(c)
    /\ UNCHANGED <<workerVars, edits, ingested, reopened>>

Next ==
    /\ ~hung
    /\ \/ \E w \in Workers, g \in Goals : Claim(w, g) \/ ClaimLost(w, g)
       \/ \E w \in Workers : WorkerStep(w)
       \/ \E c \in Clients : ClientStep(c)
       \/ Edit

Spec == Init /\ [][Next]_vars

\* Idle workers go on claiming, and a claimed task ends: a worker that gives
\* up reports a failure.
FairSpec ==
    /\ Spec
    /\ \A w \in Workers :
          WF_vars(~hung /\ Claim(w, NoGoal)) /\ WF_vars(~hung /\ WorkerStep(w))
-----------------------------------------------------------------------------
\* Exactly one worker has a claimed task (task/service.go:88).  A client that
\* stores the task again, or posts "pending" for it, breaks this.
OneWorkerPerTask ==
    \A v, w \in Workers : v # w /\ wpc[v] = "working" /\ wpc[w] = "working"
        => owner[v] # owner[w]

\* Only a task that somebody set back to "pending" while a worker had it may
\* have two workers: whatever becomes of the edges and of the other tasks, and
\* whatever is posted for this one, a claim never selects a task that is held
\* (task_executable.go:26-30).
ClaimExclusive ==
    \A v, w \in Workers : v # w /\ wpc[v] = "working" /\ wpc[w] = "working"
        => owner[v] # owner[w] \/ owner[w] \in reopened

\* A call that names the task, or a rollback that has come to it.
Named(t) ==
    \/ StoreAgain(t)
    \/ \E c \in Clients : \E s \in States : Post(c, t, s)
    \/ \E c \in Clients : client[c].cur = t /\ RollbackRoll(c)

\* While a worker has a task, a step that changes its status is a call about
\* this very task, until such a call has set it back to "pending" and others may
\* claim it: no cascade of another failure, a client's or a worker's, touches
\* it, however the graph is rewired (task.go:132-135).
HeldTaskStands ==
    [][\A w \in Workers :
          wpc[w] = "working" /\ wpc'[w] = "working"
              => \/ status'[owner[w]] = status[owner[w]]
                 \/ owner[w] \in reopened \/ Named(owner[w])]_vars

\* While nobody edits (MaxEdits = 0), a task is started only when everything
\* upstream of it is completed, and it stays so (SERVER.md:231), although a
\* claim looks at the direct blockers only.
InOrder ==
    \A u, t \in Tasks :
        t \in Downstream(u) /\ status[t] \in {"running", "completed"} => status[u] = "completed"

\* A task fails because its worker failed or because something upstream did.
FailureHasCause ==
    \A t \in Tasks :
        status[t] = "failed" => t \in broken \/ \E u \in broken : t \in Downstream(u)

\* The graph of a run nobody edits is worked off in its order, failures too
\* (task_executable.go:113-120, task.go:110-149).
OrderHolds == InOrder /\ FailureHasCause

\* Whatever is added and deleted, and in whatever order, the edges that went
\* through AddEdge never form a cycle among themselves (edge.go:44-55).
AcyclicBlocking == Acyclic(edges \ ingested)

\* The cycle check of AddEdge always ends, unless ingestion inserted edges.
StoreAnswers == hung => ingested # {}

\* Blocking edges stay a partial order as far as AddEdge has made them, and
\* its recursion ends as long as nobody else made some.
GraphStaysAcyclic == AcyclicBlocking /\ StoreAnswers

\* Every task is completed or failed in the end; none waits for ever for a
\* blocker that failed.
EveryTaskEnds == \A t \in Tasks : <>[](status[t] \in {"completed", "failed"})

BoardState ==
    [t \in Tasks |-> CASE status[t] = "pending" -> "open"
                       [] status[t] = "running" -> "taken"
                       [] status[t] = "completed" -> "done"
                       [] status[t] = "failed" -> "dropped"]

Board == INSTANCE TaskBoard
    WITH before <- [t \in Tasks |-> {u \in Tasks : t \in Downstream(u)}],
         state <- BoardState,
         holder <- [w \in Workers |-> IF wpc[w] = "working" THEN owner[w] ELSE None]

\* The task service keeps the promise of TaskBoard to workers that claim.
BoardKept == Board!Spec
=============================================================================
