---------------------------- MODULE TaskRollback ----------------------------
(***************************************************************************)
(* CascadeRollback (src/internal/store/recovery.go) and the AgentLoop      *)
(* (src/internal/orchestrator/service.go) on one task graph.  The status   *)
(* that CascadeRollback gives a task is schema.StateUnblocking, which the  *)
(* shipped configuration sets to "completed".                              *)
(***************************************************************************)
EXTENDS TaskStore, Sequences, Functions

CONSTANTS Goal,          \* the goal the AgentLoop works on
          CascadeLimit,
          Graphs,        \* the graphs of blocking edges to look at
          MaxCascades,   \* bound: calls of the MCP tool task_rollback
          CanFail

VARIABLES cascade,  \* the running CascadeRollback
          agent,    \* the AgentLoop: the tasks it has listed, with multiplicity
          runs,     \* history: how often the loop has executed a task
          cascades

loopVars == <<agent, runs>>
vars == <<storeVars, cascade, loopVars, cascades>>

Quiet == [pc |-> "ended", queue |-> <<>>, cur |-> NoGoal, visited |-> {}, result |-> <<>>,
          err |-> FALSE, shield |-> {}]

\* The graph is acyclic; the tasks are numbered along it.
Init ==
    /\ status = [t \in Tasks |-> "pending"]
    /\ edges \in {G \in Graphs : \A e \in G : e[1] < e[2]}
    /\ hung = FALSE
    /\ cascade = Quiet
    /\ agent = [pc |-> "list", todo |-> [t \in Tasks |-> 0], cur |-> NoGoal]
    /\ runs = [t \in Tasks |-> 0]
    /\ cascades = 0
-----------------------------------------------------------------------------
(* CascadeRollback, one iteration of the loop in two statements.           *)

CascadeStart(t) ==
    /\ cascade.pc = "ended" /\ cascades < MaxCascades
    /\ cascade' = [Quiet EXCEPT !.pc = "visit", !.queue = <<t>>]
    /\ cascades' = cascades + 1
    /\ UNCHANGED <<storeVars, loopVars>>

\* Dequeue and read.  What has the unblocking status is taken to be rolled
\* back already, and so is everything behind it; an error skips the task.
Visit ==
    LET t == Head(cascade.queue)
        read == [cascade EXCEPT !.queue = Tail(@), !.visited = @ \cup {t}]
    IN  /\ cascade.pc = "visit" /\ cascade.queue # <<>>
        /\ Len(cascade.result) < CascadeLimit
        /\ cascade' \in
             IF t \in cascade.visited THEN {[cascade EXCEPT !.queue = Tail(@)]}
             ELSE {IF status[t] = "completed" THEN [read EXCEPT !.shield = @ \cup {t}]
                   ELSE [read EXCEPT !.pc = "roll", !.cur = t]}
                  \cup (IF CanFail THEN {[read EXCEPT !.err = TRUE]} ELSE {})
        /\ UNCHANGED <<storeVars, loopVars, cascades>>

\* The rows of a set come in any order.
Listings(S) == Bijection(1..Cardinality(S), S)

\* UPDATE, whatever the status has become since it was read, and the read of
\* the dependents; a failure skips what is left of the iteration.
Roll ==
    LET t == cascade.cur
        next == [cascade EXCEPT !.pc = "visit", !.cur = NoGoal]
        rolled == [next EXCEPT !.result = Append(@, t)]
    IN  /\ cascade.pc = "roll"
        /\ \/ /\ SetStatus(t, "completed")
              /\ \/ \E s \in Listings(Children(t) \ cascade.visited) :
                       cascade' = [rolled EXCEPT !.queue = @ \o s]
                 \/ CanFail /\ cascade' = [rolled EXCEPT !.err = TRUE]
           \/ /\ CanFail
              /\ cascade' = [next EXCEPT !.err = TRUE]
              /\ UNCHANGED status
        /\ UNCHANGED <<edges, hung, loopVars, cascades>>

\* The queue is empty, or the limit is reached: the partial result is
\* returned with ErrCascadeLimit.
CascadeEnd ==
    /\ cascade.pc = "visit"
    /\ cascade.queue = <<>> \/ Len(cascade.result) >= CascadeLimit
    /\ cascade' = [cascade EXCEPT !.pc = "ended", !.err = @ \/ cascade.queue # <<>>]
    /\ UNCHANGED <<storeVars, loopVars, cascades>>
-----------------------------------------------------------------------------
(* AgentLoop.                                                              *)

\* dep_tree is built with UNION ALL: a task is in it once for every path.
\* The tasks on a path are numbered along it, so that they tell which it is.
IsPath(P) ==
    \A u, v \in P : u < v /\ (\A w \in P : w <= u \/ v <= w) => <<u, v>> \in edges
Paths(g) ==
    [t \in Tasks |-> Cardinality({P \in SUBSET {u \in Tasks : g <= u /\ u <= t} :
                                    g \in P /\ t \in P /\ IsPath(P)})]

\* getExecutableForGoal
List ==
    /\ agent.pc = "list"
    /\ agent' = [agent EXCEPT !.todo = [t \in Tasks |-> IF t \in Executable THEN Paths(Goal)[t] ELSE 0],
                              !.pc = IF \E t \in Executable : Paths(Goal)[t] > 0
                                     THEN "next" ELSE "ended"]
    /\ UNCHANGED <<storeVars, runs, cascade, cascades>>

Listed == {t \in Tasks : agent.todo[t] > 0}

\* execFunc: it may fail or panic, and it runs as long as it likes.
Execute(t) ==
    /\ agent.pc = "next"
    /\ IsBest(t, Listed)
    /\ runs' = [runs EXCEPT ![t] = @ + 1]
    /\ agent' = [agent EXCEPT !.pc = "report", !.cur = t, !.todo[t] = @ - 1]
    /\ UNCHANGED <<storeVars, cascade, cascades>>

\* Mutant of Report: a failure leaves the task pending.
ReportSuccessOnly ==
    /\ agent.pc = "report"
    /\ \/ SetStatus(agent.cur, "completed") /\ agent' = [agent EXCEPT !.pc = "more"]
       \/ UNCHANGED status /\ agent' = [agent EXCEPT !.pc = "more"]
    /\ UNCHANGED <<edges, hung, runs, cascade, cascades>>

\* Service.Status; its error ends the loop.
Report ==
    /\ agent.pc = "report"
    /\ \/ SetStatus(agent.cur, "completed") /\ agent' = [agent EXCEPT !.pc = "more"]
       \/ SetStatus(agent.cur, "failed") /\ agent' = [agent EXCEPT !.pc = "abort"]
       \/ CanFail /\ UNCHANGED status /\ agent' = [agent EXCEPT !.pc = "ended"]
    /\ UNCHANGED <<edges, hung, runs, cascade, cascades>>

Abort ==
    /\ agent.pc = "abort"
    /\ AbortDependents(agent.cur)
    /\ agent' = [agent EXCEPT !.pc = "more"]
    /\ UNCHANGED <<edges, hung, runs, cascade, cascades>>

\* The next task of the list, or the back-off and a new list; a done context
\* ends the loop between two lists.
More ==
    /\ agent.pc = "more"
    /\ agent' \in IF Listed # {} THEN {[agent EXCEPT !.pc = "next"]}
                  ELSE {[agent EXCEPT !.pc = "list"], [agent EXCEPT !.pc = "ended"]}
    /\ UNCHANGED <<storeVars, runs, cascade, cascades>>

(* A cascade is a loop of one goroutine, the agent another; both run on.   *)
CascadeStep == Visit \/ Roll \/ CascadeEnd
AgentStep == List \/ (\E t \in Tasks : Execute(t)) \/ Report \/ Abort \/ More

Next == (\E t \in Tasks : CascadeStart(t)) \/ CascadeStep \/ AgentStep

Spec == Init /\ [][Next]_vars

FairSpec == Spec /\ WF_vars(CascadeStep) /\ WF_vars(AgentStep)
-----------------------------------------------------------------------------
\* A cascade rolls no task back twice, respects the limit, and, unless it
\* reports an error, leaves nothing behind that depends on what it rolled
\* back without having looked at it, whatever the AgentLoop did meanwhile
\* (recovery.go:71-80).
CascadeSettles ==
    LET rolled == {cascade.result[i] : i \in DOMAIN cascade.result} IN
    /\ Cardinality(rolled) = Len(cascade.result)
    /\ Len(cascade.result) <= CascadeLimit
    /\ cascade.pc = "ended" /\ ~cascade.err =>
         /\ \A t \in rolled : Children(t) \subseteq rolled \cup cascade.shield
         /\ rolled \cap cascade.shield = {}

\* The loop executes a task at most once for every path from its goal: the
\* list is stale and has duplicates, but no second list has what the first
\* one had (orchestrator/service.go:46-57).
OncePerPath == \A t \in Tasks : runs[t] <= Paths(Goal)[t]

RollbackKeepsGraph == CascadeSettles /\ OncePerPath

BothEnded == cascade.pc = "ended" /\ agent.pc = "ended"

\* Both end: the loop because every pass leaves less that is pending, the
\* cascade because it visits a task once.
LoopAndCascadeEnd == <>[]BothEnded
-----------------------------------------------------------------------------
\* Why a cascade settles: what it has looked at it has rolled back, left as it
\* was, or has at hand; and why the agent executes no task again: a task that
\* has run is not pending when the next list is made.
RollbackTypes ==
    /\ StoreTypeOK
    /\ cascade \in [pc : {"visit", "roll", "ended"}, queue : Seq(Tasks), cur : Tasks \cup {NoGoal},
                    visited : SUBSET Tasks, result : Seq(Tasks), err : BOOLEAN, shield : SUBSET Tasks]
    /\ agent \in [pc : {"list", "next", "report", "abort", "more", "ended"},
                  todo : [Tasks -> Nat], cur : Tasks \cup {NoGoal}]
    /\ runs \in [Tasks -> Nat]

Rolled == {cascade.result[i] : i \in DOMAIN cascade.result}
AtHand == IF cascade.pc = "roll" THEN {cascade.cur} ELSE {}

CascadeInv ==
    /\ Cardinality(Rolled) = Len(cascade.result)
    /\ Len(cascade.result) <= CascadeLimit
    /\ cascade.pc = "roll" => cascade.cur \in Tasks /\ Len(cascade.result) < CascadeLimit
    /\ Rolled \cup cascade.shield \cup AtHand \subseteq cascade.visited
    /\ Rolled \cap cascade.shield = {} /\ AtHand \cap (Rolled \cup cascade.shield) = {}
    /\ ~cascade.err =>
          /\ cascade.visited \subseteq Rolled \cup cascade.shield \cup AtHand
          /\ \A t \in Rolled : Children(t) \subseteq
                cascade.visited \cup {cascade.queue[i] : i \in DOMAIN cascade.queue}
          /\ cascade.pc = "ended" => cascade.queue = <<>>

AgentInv ==
    /\ \A t \in Tasks : runs[t] + agent.todo[t] <= Paths(Goal)[t]
    /\ \A t \in Tasks : runs[t] > 0 /\ status[t] = "pending" =>
          agent.pc = "ended" \/ (agent.pc = "report" /\ agent.cur = t)
    /\ agent.pc \in {"report", "abort"} => agent.cur \in Tasks
    /\ agent.pc = "list" => Listed = {}

RollbackInv == RollbackTypes /\ CascadeInv /\ AgentInv
=============================================================================
