------------------------- MODULE TaskWorkersProofs -------------------------
(***************************************************************************)
(* Proofs about TaskWorkers: type correctness; exclusive claims, whatever  *)
(* the clients and the ingestion pipeline do to the graph; the acyclicity  *)
(* that AddEdge keeps up, hence that its check ends; and, while the graph  *)
(* is left alone, the order of the tasks and the refinement of TaskBoard.  *)
(***************************************************************************)
EXTENDS TaskWorkers, TLAPS

(* Facts about the graph.                                                  *)

\* Downstream(t) contains the children of t and is closed under edges.
LEMMA DownstreamClosed ==
    ASSUME NEW t \in Tasks
    PROVE  /\ Children(t) \subseteq Downstream(t)
           /\ Closed(Downstream(t))
           /\ Downstream(t) \subseteq Tasks
<1>1. Children(t) \subseteq Downstream(t)
    BY DEF Children, Downstream
<1>2. ASSUME NEW x \in Downstream(t), NEW y \in Children(x)
      PROVE  y \in Downstream(t)
    <2>1. ASSUME NEW S \in SUBSET Tasks, Children(t) \subseteq S, Closed(S)
          PROVE  y \in S
        <3>1. x \in S
            BY <2>1 DEF Downstream
        <3> QED
            BY <2>1, <3>1, <1>2 DEF Closed
    <2> QED
        BY <2>1 DEF Downstream, Children
<1> QED
    BY <1>1, <1>2 DEF Closed, Downstream

\* In an acyclic graph nothing is downstream of itself.
LEMMA NotDownstreamOfItself ==
    ASSUME Acyclic(edges), NEW d \in Tasks
    PROVE  d \notin Downstream(d)
<1> SUFFICES ASSUME d \in Downstream(d) PROVE FALSE
    OBVIOUS
<1> DEFINE R == Downstream(d)
           P == {y \in R : \E x \in R : <<x, y>> \in edges}
<1>1. /\ Children(d) \subseteq R
      /\ Closed(R)
      /\ R \subseteq Tasks
    BY DownstreamClosed
<1>2. Children(d) \subseteq P
    BY <1>1 DEF Children
<1>3. Closed(P)
    BY <1>1 DEF Closed, Children
<1> HIDE DEF R
<1>4. P \in SUBSET Tasks
    BY <1>1
<1> HIDE DEF P
<1>5. R \subseteq P
    BY <1>2, <1>3, <1>4 DEF R, Downstream
<1>6. \A y \in R : \E x \in R : <<x, y>> \in edges
    BY <1>5 DEF P
<1>7. d \in R
    BY DEF R
<1> QED
    BY <1>1, <1>6, <1>7 DEF Acyclic

\* An edge whose source is not reached from its target closes no cycle, in any
\* part E of the graph.
LEMMA SafeEdge ==
    ASSUME NEW E \in SUBSET edges, Acyclic(E), NEW u \in Tasks, NEW t \in Tasks,
           u \notin {t} \cup Downstream(t)
    PROVE  Acyclic(E \cup {<<u, t>>})
<1> SUFFICES ASSUME NEW S \in SUBSET Tasks, S # {}
             PROVE  \E m \in S : \A x \in S : <<x, m>> \notin E \cup {<<u, t>>}
    BY DEF Acyclic
<1>1. PICK m \in S : \A x \in S : <<x, m>> \notin E
    BY DEF Acyclic
<1>2. CASE m # t \/ u \notin S
    BY <1>1, <1>2
<1>3. CASE m = t /\ u \in S
    <2> DEFINE R == {t} \cup Downstream(t)
    <2>1. ASSUME NEW x \in R, NEW y \in Tasks, <<x, y>> \in E
          PROVE  y \in Downstream(t)
        BY <2>1, DownstreamClosed DEF Children, Closed
    <2>2. u \in S \ R
        BY <1>3
    <2>3. PICK n \in S \ R : \A x \in S \ R : <<x, n>> \notin E
        BY <2>2 DEF Acyclic
    <2>4. \A x \in S : <<x, n>> \notin E
        BY <2>1, <2>3
    <2>5. n # t
        BY <2>3
    <2> QED
        BY <2>3, <2>4, <2>5
<1> QED
    BY <1>2, <1>3

\* Fewer edges make no cycle.
LEMMA AcyclicSubset ==
    ASSUME NEW F, Acyclic(F), NEW E \in SUBSET F
    PROVE  Acyclic(E)
BY DEF Acyclic
-----------------------------------------------------------------------------
(* Types.                                                                  *)

\* A worker that is not idle has a task, and so has a call that is to write one.
Busy ==
    /\ \A w \in Workers : wpc[w] # "idle" => owner[w] \in Tasks
    /\ \A c \in Clients : client[c].pc \in {"abort", "roll"} => client[c].cur \in Tasks

TypeInv == TypeOK /\ Busy

\* Every step keeps the types, and idle workers alone are without a task.
LEMMA TypeStep == TypeInv /\ [Next]_vars => TypeInv'
<1> SUFFICES ASSUME TypeInv, [Next]_vars PROVE TypeInv'
    OBVIOUS
<1> USE DEF TypeInv, TypeOK, StoreTypeOK, States, Busy
<1>1. ASSUME NEW w \in Workers, NEW g \in Goals, Claim(w, g)
      PROVE  TypeInv'
    <2>1. PICK t \in Tasks : /\ status' = [status EXCEPT ![t] = "running"]
                             /\ owner' = [owner EXCEPT ![w] = t]
        BY <1>1 DEF Claim, SetStatus
    <2>2. UNCHANGED editVars
        BY <1>1 DEF Claim
    <2>3. /\ StoreTypeOK'
          /\ owner' \in [Workers -> Tasks \cup {None}]
          /\ broken' \subseteq Tasks
        BY <1>1, <2>1 DEF Claim
    <2>4. wpc' = [wpc EXCEPT ![w] = "working"]
        BY <1>1 DEF Claim
    <2>5. wpc' \in [Workers -> {"idle", "working", "aborting"}]
        BY <2>4
    <2>6. Busy'
        BY <2>1, <2>2, <2>4 DEF editVars
    <2> QED
        BY <2>2, <2>3, <2>5, <2>6 DEF editVars
<1>2. ASSUME NEW w \in Workers, NEW g \in Goals, ClaimLost(w, g)
      PROVE  TypeInv'
    BY <1>2 DEF editVars, ClaimLost, SetStatus, IsBest, workerVars, Executable
<1>3. ASSUME NEW w \in Workers, Complete(w)
      PROVE  TypeInv'
    BY <1>3 DEF editVars, Complete, SetStatus
<1>4. ASSUME NEW w \in Workers, Fail(w)
      PROVE  TypeInv'
    BY <1>4 DEF editVars, Fail, SetStatus
<1>5. ASSUME NEW w \in Workers, Abort(w)
      PROVE  TypeInv'
    BY <1>5 DEF editVars, Abort, AbortDependents
<1>6. CASE Edit
    <2>1. ASSUME NEW u \in Tasks, NEW t \in Tasks, AddEdge(u, t)
          PROVE  StoreTypeOK'
        <3>1. status' = status /\ edges' \subseteq edges \cup {<<u, t>>}
            BY <2>1 DEF AddEdge
        <3>2. hung' = TRUE \/ hung' = hung
            BY <2>1, Zenon DEF AddEdge
        <3>3. hung' \in BOOLEAN
            BY <3>2, Zenon
        <3> QED
            BY <3>1, <3>3
    <2>2. ASSUME NEW u \in Tasks, NEW t \in Tasks, DeleteEdge(u, t) \/ IngestEdge(u, t)
          PROVE  StoreTypeOK'
        BY <2>2 DEF DeleteEdge, IngestEdge
    <2>3. edits' \in 0..MaxEdits /\ UNCHANGED <<owner, wpc>>
        BY <1>6, TaskWorkersAssumption DEF Edit
    <2>4. CASE EditEdge \/ Ingest
        <3>1. StoreTypeOK'
            BY <2>1, <2>2, <2>4 DEF EditEdge, Ingest
        <3>2. ingested' \subseteq Tasks \X Tasks /\ UNCHANGED <<broken, reopened, client>>
            BY <2>4 DEF EditEdge, Ingest
        <3> QED
            BY <2>3, <3>1, <3>2
    <2>5. ASSUME NEW t \in Tasks, StoreAgain(t) PROVE TypeInv'
        BY <2>3, <2>5 DEF StoreAgain, Restore, SetStatus
    <2>6. ASSUME NEW c \in Clients, NEW t \in Tasks, NEW s \in States, Post(c, t, s)
          PROVE  TypeInv'
        <3>1. StoreTypeOK' /\ broken' \subseteq Tasks /\ reopened' \subseteq Tasks
              /\ ingested' \subseteq Tasks \X Tasks
            BY <2>6 DEF Post, SetStatus
        <3>2. [NoCall EXCEPT !.pc = "abort", !.cur = t] \in Calls
            BY DEF Calls, NoCall
        <3>3. client' = client
              \/ client' = [client EXCEPT ![c] = [NoCall EXCEPT !.pc = "abort", !.cur = t]]
            BY <2>6 DEF Post
        <3>4. client' \in [Clients -> Calls] /\ Busy'
            BY <2>3, <3>2, <3>3 DEF NoCall
        <3> QED
            BY <2>3, <3>1, <3>4
    <2>7. ASSUME NEW c \in Clients, NEW t \in Tasks, RollbackStart(c, t)
          PROVE  TypeInv'
        <3>1. [NoCall EXCEPT !.pc = "visit", !.queue = {t}] \in Calls
            BY DEF Calls, NoCall
        <3> QED
            BY <2>3, <2>7, <3>1 DEF RollbackStart, storeVars, NoCall
    <2> QED
        BY <1>6, <2>4, <2>5, <2>6, <2>7 DEF Edit
<1>8. ASSUME NEW c \in Clients, ClientStep(c)
      PROVE  TypeInv'
    <2>1. UNCHANGED <<owner, wpc, broken, edits, ingested, reopened>>
        BY <1>8 DEF ClientStep, workerVars
    <2>2. client[c] \in Calls /\ NoCall \in Calls
        BY DEF Calls, NoCall
    <2>3. CASE ClientAbort(c)
        BY <2>1, <2>2, <2>3 DEF ClientAbort, AbortDependents, NoCall
    <2>4. CASE RollbackVisit(c)
        <3>1. PICK t \in client[c].queue, pc \in {"visit", "roll"} :
                 client' = [client EXCEPT ![c] =
                              [client[c] EXCEPT !.pc = pc, !.cur = t, !.queue = @ \ {t},
                                        !.visited = @ \cup {t}]]
            BY <2>4 DEF RollbackVisit
        <3>2. t \in Tasks /\ client'[c] \in Calls /\ client'[c].cur = t
            <4>1. t \in Tasks /\ client[c].queue \subseteq Tasks /\ client[c].visited \subseteq Tasks
                BY <2>2 DEF Calls
            <4>2. client'[c] = [client[c] EXCEPT !.pc = pc, !.cur = t,
                                                 !.queue = client[c].queue \ {t},
                                                 !.visited = client[c].visited \cup {t}]
                BY <3>1
            <4>3. pc \in {"idle", "abort", "visit", "roll"}
                OBVIOUS
            <4>4. client[c].queue \ {t} \in SUBSET Tasks /\ client[c].visited \cup {t} \in SUBSET Tasks
                BY <4>1
            <4> QED
                BY ONLY <2>2, <4>1, <4>2, <4>3, <4>4 DEF Calls
        <3>3. client' \in [Clients -> Calls]
            BY <3>1, <3>2
        <3> QED
            BY <2>1, <2>4, <3>1, <3>2, <3>3 DEF RollbackVisit, storeVars
    <2>5. CASE RollbackRoll(c)
        <3>1. client[c].cur \in Tasks
            BY <2>5 DEF RollbackRoll
        <3>2. \E Q \in SUBSET Tasks :
                 client' = [client EXCEPT ![c].pc = "visit", ![c].queue = Q]
            <4>1. ASSUME NEW next \in {Children(client[c].cur) \ client[c].visited}
                                         \cup (IF CanFail THEN {{}} ELSE {})
                  PROVE  next \subseteq Tasks
                BY DEF Children
            <4>2. client[c].queue \subseteq Tasks
                BY <2>2 DEF Calls
            <4>3. client' = [client EXCEPT ![c].pc = "visit"]
                    => client' = [client EXCEPT ![c].pc = "visit", ![c].queue = client[c].queue]
                BY <2>2 DEF Calls
            <4>4. CASE client' = [client EXCEPT ![c].pc = "visit"]
                BY <4>2, <4>3, <4>4
            <4>5. ASSUME NEW next \in SUBSET Tasks,
                         client' = [client EXCEPT ![c].pc = "visit", ![c].queue = @ \cup next]
                  PROVE  \E Q \in SUBSET Tasks :
                            client' = [client EXCEPT ![c].pc = "visit", ![c].queue = Q]
                <5>1. client[c].queue \cup next \in SUBSET Tasks
                    BY <4>2
                <5>2. client' = [client EXCEPT ![c].pc = "visit",
                                               ![c].queue = client[c].queue \cup next]
                    BY <4>5, <2>2 DEF Calls
                <5> QED
                    BY <5>1, <5>2
            <4> QED
                BY <2>5, <4>1, <4>4, <4>5 DEF RollbackRoll
        <3>3. PICK Q \in SUBSET Tasks :
                 client' = [client EXCEPT ![c].pc = "visit", ![c].queue = Q]
            BY <3>2
        <3>4. client'[c] \in Calls /\ client'[c].pc = "visit"
            BY <2>2, <3>3 DEF Calls
        <3>5. client' \in [Clients -> Calls]
            BY <3>3, <3>4
        <3>6. StoreTypeOK'
            BY <2>5, <3>1 DEF RollbackRoll, SetStatus
        <3> QED
            BY <2>1, <3>3, <3>4, <3>5, <3>6
    <2>6. CASE RollbackEnd(c)
        BY <2>1, <2>2, <2>6 DEF RollbackEnd, storeVars, NoCall
    <2> QED
        BY <1>8, <2>3, <2>4, <2>5, <2>6 DEF ClientStep
<1>7. CASE UNCHANGED vars
    BY <1>7 DEF vars
<1> QED
    BY <1>1, <1>2, <1>3, <1>4, <1>5, <1>6, <1>7, <1>8 DEF Next, WorkerStep

LEMMA TypeInit == Init => TypeInv
<1> SUFFICES ASSUME Init PROVE TypeInv
    OBVIOUS
<1>1. edges \subseteq Tasks \X Tasks
    BY Zenon DEF Init
<1>2. StoreTypeOK
    BY <1>1 DEF Init, StoreTypeOK, States
<1>3. edits \in 0..MaxEdits
    BY TaskWorkersAssumption DEF Init
<1>4. NoCall \in Calls /\ client = [c \in Clients |-> NoCall]
    BY DEF Init, NoCall, Calls
<1> QED
    BY <1>2, <1>3, <1>4 DEF Init, TypeInv, TypeOK, Busy, NoCall

\* The invariant of TypeStep holds in every reachable state.
LEMMA TypeInvariance == Spec => []TypeInv
    BY TypeInit, TypeStep, PTL DEF Spec

\* Statuses stay within valid_states, edges between tasks, and a worker has a
\* task or none, whatever workers, clients and ingestion do.
THEOREM TypeCorrect == Spec => []TypeOK
<1>1. TypeInv => TypeOK
    BY DEF TypeInv
<1> QED
    BY <1>1, TypeInvariance, PTL
-----------------------------------------------------------------------------
(* Exclusive claims.                                                       *)

\* The task of a working worker is not "pending", unless somebody set it back.
Held ==
    \A w \in Workers :
        wpc[w] = "working" => status[owner[w]] # "pending" \/ owner[w] \in reopened

\* What HeldTaskStands says of one step.
Stands ==
    \A w \in Workers : wpc[w] = "working" /\ wpc'[w] = "working"
        => \/ status'[owner[w]] = status[owner[w]]
           \/ owner[w] \in reopened \/ Named(owner[w])

\* A task in hand becomes "pending" by a call that names it and marks it as
\* reopened; a claim, which wants "pending", selects no other task in hand.
LEMMA HeldStep ==
    ASSUME TypeInv, Held, ClaimExclusive, [Next]_vars
    PROVE  Held' /\ ClaimExclusive' /\ Stands
<1> USE DEF TypeInv, TypeOK, StoreTypeOK, States, Busy, Held, ClaimExclusive, editVars
<1>1. ASSUME NEW w \in Workers, NEW g \in Goals, Claim(w, g)
      PROVE  Held' /\ ClaimExclusive' /\ Stands
    <2>1. PICK t \in Tasks : /\ status[t] = "pending"
                             /\ status' = [status EXCEPT ![t] = "running"]
                             /\ owner' = [owner EXCEPT ![w] = t]
        BY <1>1 DEF Claim, SetStatus, IsBest, Executable
    <2>2. /\ wpc[w] = "idle" /\ wpc' = [wpc EXCEPT ![w] = "working"]
          /\ UNCHANGED reopened
        BY <1>1 DEF Claim
    <2> QED
        BY <2>1, <2>2 DEF Stands
<1>2. ASSUME NEW w \in Workers, NEW g \in Goals, ClaimLost(w, g)
      PROVE  Held' /\ ClaimExclusive' /\ Stands
    BY <1>2 DEF ClaimLost, SetStatus, IsBest, workerVars, Executable, Stands
<1>3. ASSUME NEW w \in Workers, NEW s \in {"completed", "failed"}, NEW p \in {"idle", "aborting"},
             wpc[w] = "working", SetStatus(owner[w], s),
             wpc' = [wpc EXCEPT ![w] = p], UNCHANGED reopened,
             \A v \in Workers \ {w} : owner'[v] = owner[v]
      PROVE  Held' /\ ClaimExclusive' /\ Stands
    <2>1. owner[w] \in Tasks /\ status' = [status EXCEPT ![owner[w]] = s]
        BY <1>3 DEF SetStatus
    <2>2. Held' /\ ClaimExclusive'
        BY <1>3, <2>1
    <2>3. Stands
        BY <1>3, <2>1 DEF Stands
    <2> QED
        BY <2>2, <2>3
<1>4. ASSUME NEW w \in Workers, Complete(w) \/ Fail(w)
      PROVE  Held' /\ ClaimExclusive' /\ Stands
    BY <1>3, <1>4 DEF Complete, Fail
<1>5. ASSUME NEW w \in Workers, Abort(w)
      PROVE  Held' /\ ClaimExclusive' /\ Stands
    BY <1>5 DEF Abort, AbortDependents, Stands
<1>6. ASSUME UNCHANGED <<owner, wpc, status>>, reopened \subseteq reopened'
      PROVE  Held' /\ ClaimExclusive' /\ Stands
    BY <1>6 DEF Stands
<1>7. CASE Edit
    <2>1. UNCHANGED <<owner, wpc>>
        BY <1>7 DEF Edit
    <2>2. CASE EditEdge \/ Ingest
        BY <1>6, <2>1, <2>2 DEF EditEdge, Ingest, AddEdge, DeleteEdge, IngestEdge
    <2>3. ASSUME NEW t \in Tasks, NEW s \in States, status' = [status EXCEPT ![t] = s],
                 reopened' = IF s = "pending" THEN reopened \cup ({t} \cap InHand) ELSE reopened,
                 Named(t)
          PROVE  Held' /\ ClaimExclusive' /\ Stands
        <3>1. reopened \subseteq reopened'
            BY <2>3
        <3>2. Held'
            <4> SUFFICES ASSUME NEW w \in Workers, wpc[w] = "working", status'[owner[w]] = "pending"
                         PROVE  owner[w] \in reopened'
                BY <2>1
            <4>1. CASE status[owner[w]] = "pending"
                BY <4>1, <3>1
            <4>2. CASE status[owner[w]] # "pending"
                <5>1. owner[w] = t /\ s = "pending"
                    BY <2>3, <4>2
                <5>2. t \in InHand
                    BY <5>1 DEF InHand
                <5> QED
                    BY <2>3, <5>1, <5>2
            <4> QED
                BY <4>1, <4>2
        <3>3. ClaimExclusive'
            BY <2>1, <3>1
        <3>4. Stands
            BY <2>3 DEF Stands
        <3> QED
            BY <3>2, <3>3, <3>4
    <2>4. ASSUME NEW t \in Tasks, StoreAgain(t)
          PROVE  Held' /\ ClaimExclusive' /\ Stands
        <3>1. Named(t)
            BY <2>4 DEF Named
        <3>2. /\ status' = [status EXCEPT ![t] = "pending"]
              /\ reopened' = reopened \cup ({t} \cap InHand)
            BY <2>4 DEF StoreAgain, Restore, SetStatus
        <3> QED
            BY <2>3, <3>1, <3>2
    <2>5. ASSUME NEW c \in Clients, NEW t \in Tasks, NEW s \in States, Post(c, t, s)
          PROVE  Held' /\ ClaimExclusive' /\ Stands
        <3>1. Named(t)
            BY <2>5 DEF Named
        <3>2. /\ status' = [status EXCEPT ![t] = s]
              /\ reopened' = IF s = "pending" THEN reopened \cup ({t} \cap InHand) ELSE reopened
            BY <2>5 DEF Post, SetStatus
        <3> QED
            BY <2>3, <3>1, <3>2
    <2>6. ASSUME NEW c \in Clients, NEW t \in Tasks, RollbackStart(c, t)
          PROVE  Held' /\ ClaimExclusive' /\ Stands
        BY <1>6, <2>1, <2>6 DEF RollbackStart, storeVars
    <2> QED
        BY <1>7, <2>2, <2>4, <2>5, <2>6 DEF Edit
<1>8. ASSUME NEW c \in Clients, ClientStep(c)
      PROVE  Held' /\ ClaimExclusive' /\ Stands
    <2>1. UNCHANGED <<owner, wpc, reopened>>
        BY <1>8 DEF ClientStep, workerVars
    <2>2. CASE ClientAbort(c)
        BY <2>1, <2>2 DEF ClientAbort, AbortDependents, Stands
    <2>3. CASE RollbackVisit(c) \/ RollbackEnd(c)
        BY <1>6, <2>1, <2>3 DEF RollbackVisit, RollbackEnd, storeVars
    <2>4. CASE RollbackRoll(c)
        <3> DEFINE t == client[c].cur
        <3>1. t \in Tasks /\ Named(t)
            BY <2>4 DEF RollbackRoll, Named
        <3>2. CASE UNCHANGED status
            BY <1>6, <2>1, <3>2
        <3>3. CASE status' = [status EXCEPT ![t] = "completed"]
            <4>1. Held' /\ ClaimExclusive'
                BY <2>1, <3>1, <3>3
            <4>2. Stands
                BY <3>1, <3>3 DEF Stands
            <4> QED
                BY <4>1, <4>2
        <3> QED
            BY <2>4, <3>2, <3>3 DEF RollbackRoll, SetStatus
    <2> QED
        BY <1>8, <2>2, <2>3, <2>4 DEF ClientStep
<1>9. CASE UNCHANGED vars
    BY <1>6, <1>9 DEF vars
<1> QED
    BY <1>1, <1>2, <1>4, <1>5, <1>7, <1>8, <1>9 DEF Next, WorkerStep

HeldInv == TypeInv /\ Held /\ ClaimExclusive

LEMMA HeldInvariance == Spec => []HeldInv
<1>1. Init => Held /\ ClaimExclusive
    BY DEF Init, Held, ClaimExclusive
<1>2. TypeInv /\ Held /\ ClaimExclusive /\ [Next]_vars => Held' /\ ClaimExclusive'
    BY HeldStep
<1> QED
    BY <1>1, <1>2, TypeInvariance, PTL DEF Spec, HeldInv

\* No two workers ever hold the same task, unless a call about this task set it
\* back to "pending" while one had it, whatever else clients post, roll back and
\* rewire meanwhile (task_executable.go:26-30).
THEOREM ClaimedOnce == Spec => []ClaimExclusive
<1>1. HeldInv => ClaimExclusive
    BY DEF HeldInv
<1> QED
    BY <1>1, HeldInvariance, PTL

\* The status of a task in hand is changed by calls about this very task only:
\* the cascade of another failure and the claims of others pass it by, until such
\* a call has set it back to "pending" (task.go:132-135).
THEOREM HeldTasksStand == Spec => HeldTaskStands
<1>1. HeldInv /\ [Next]_vars
          => [\A w \in Workers : wpc[w] = "working" /\ wpc'[w] = "working"
                 => \/ status'[owner[w]] = status[owner[w]]
                    \/ owner[w] \in reopened \/ Named(owner[w])]_vars
    BY HeldStep DEF HeldInv, Stands
<1> QED
    BY <1>1, HeldInvariance, PTL DEF Spec, HeldTaskStands
-----------------------------------------------------------------------------
(* No cycles.                                                              *)

\* An edge that passed the check closes no cycle with the edges that did, and
\* while all edges did, there is no cycle that could keep the check from ending.
LEMMA AcyclicStep ==
    ASSUME TypeInv, AcyclicBlocking, StoreAnswers, [Next]_vars
    PROVE  AcyclicBlocking' /\ StoreAnswers'
<1> USE DEF AcyclicBlocking, StoreAnswers
<1>1. CASE UNCHANGED <<edges, hung, ingested>>
    BY <1>1 DEF Acyclic
<1>2. ASSUME NEW u \in Tasks, NEW t \in Tasks, AddEdge(u, t), UNCHANGED ingested
      PROVE  AcyclicBlocking' /\ StoreAnswers'
    <2>1. CASE edges' = edges /\ hung' = TRUE /\ \E d \in {t} \cup Downstream(t) : d \in Downstream(d)
        <3>1. ingested # {}
            <4> SUFFICES ASSUME ingested = {} PROVE FALSE
                OBVIOUS
            <4>1. edges \ ingested = edges
                OBVIOUS
            <4>2. Acyclic(edges)
                BY <4>1
            <4> QED
                BY <2>1, <4>2, NotDownstreamOfItself, DownstreamClosed
        <3>2. AcyclicBlocking'
            BY <1>2, <2>1 DEF Acyclic
        <3> QED
            BY <1>2, <3>1, <3>2
    <2>2. CASE /\ u \notin {t} \cup Downstream(t)
               /\ edges' = edges \cup {<<u, t>>}
               /\ UNCHANGED hung
        <3>1. Acyclic((edges \ ingested) \cup {<<u, t>>})
            BY <2>2, SafeEdge
        <3>2. edges' \ ingested' \subseteq (edges \ ingested) \cup {<<u, t>>}
            BY <1>2, <2>2
        <3>3. AcyclicBlocking'
            BY <3>1, <3>2, AcyclicSubset DEF Acyclic
        <3> QED
            BY <1>2, <2>2, <3>3
    <2> QED
        BY <1>2, <2>1, <2>2, Zenon DEF AddEdge
<1>3. ASSUME NEW u \in Tasks, NEW t \in Tasks, DeleteEdge(u, t), UNCHANGED ingested
      PROVE  AcyclicBlocking' /\ StoreAnswers'
    BY <1>3 DEF DeleteEdge, Acyclic
<1>4. CASE \E w \in Workers, g \in Goals : Claim(w, g) \/ ClaimLost(w, g)
    BY <1>1, <1>4 DEF Claim, ClaimLost, editVars
<1>5. CASE \E w \in Workers : WorkerStep(w)
    BY <1>1, <1>5 DEF WorkerStep, Complete, Fail, Abort, editVars
<1>6. CASE Ingest
    BY <1>6 DEF Ingest, IngestEdge, Acyclic
<1>7. CASE Edit
    BY <1>1, <1>2, <1>3, <1>6, <1>7
       DEF Edit, EditEdge, StoreAgain, Restore, Post, RollbackStart, storeVars
<1>8. CASE \E c \in Clients : ClientStep(c)
    BY <1>1, <1>8 DEF ClientStep, ClientAbort, RollbackVisit, RollbackRoll, RollbackEnd, storeVars
<1> QED
    BY <1>1, <1>4, <1>5, <1>7, <1>8 DEF Next, vars

\* The edges that AddEdge let in never form a cycle among themselves, and the
\* recursion of its check ends unless ingestion inserted edges as well.
THEOREM NeverCyclic == Spec => []GraphStaysAcyclic
<1>1. Init => AcyclicBlocking /\ StoreAnswers
    <2> SUFFICES ASSUME Init PROVE AcyclicBlocking /\ StoreAnswers
        OBVIOUS
    <2>1. edges \ ingested = edges /\ Acyclic(edges) /\ ~hung
        BY DEF Init
    <2> QED
        BY <2>1 DEF AcyclicBlocking, StoreAnswers
<1>2. TypeInv /\ AcyclicBlocking /\ StoreAnswers /\ [Next]_vars
          => (AcyclicBlocking /\ StoreAnswers)'
    BY AcyclicStep
<1>3. AcyclicBlocking /\ StoreAnswers => GraphStaysAcyclic
    BY DEF GraphStaysAcyclic
<1> QED
    BY <1>1, <1>2, <1>3, TypeInvariance, PTL DEF Spec
-----------------------------------------------------------------------------
(* The order of the tasks.                                                 *)

\* Nobody but the workers acts.
Static == MaxEdits = 0

\* Then no client has a call.
Alone == reopened = {} /\ \A c \in Clients : client[c].pc = "idle"

LEMMA NoEdit == Static /\ TypeOK /\ Alone => ~Edit /\ \A c \in Clients : ~ClientStep(c)
<1> SUFFICES ASSUME Static, TypeOK, Alone PROVE ~Edit /\ \A c \in Clients : ~ClientStep(c)
    OBVIOUS
<1>1. ~(edits < MaxEdits)
    BY DEF Static, TypeOK
<1>2. ~Edit
    BY <1>1 DEF Edit
<1>3. ASSUME NEW c \in Clients PROVE ~ClientStep(c)
    BY Zenon DEF Alone, ClientStep, ClientAbort, RollbackVisit, RollbackRoll, RollbackEnd
<1> QED
    BY <1>2, <1>3

\* A worker's task is the one it claimed.
Running == \A w \in Workers : wpc[w] = "working" => status[owner[w]] = "running"

\* What a claim checks, kept up: the direct blockers of a started task are done.
DirectOrder ==
    \A u, t \in Tasks :
        <<u, t>> \in edges /\ status[t] \in {"running", "completed"} => status[u] = "completed"

\* While the cascade of a failed task is due the task is failed, and known to
\* have been.
Due == \A w \in Workers : wpc[w] = "aborting" => status[owner[w]] = "failed" /\ owner[w] \in broken

OrderInv ==
    /\ TypeInv /\ Held /\ ClaimExclusive /\ Alone /\ Running
    /\ Due /\ DirectOrder /\ FailureHasCause

\* The direct blockers suffice: what is not started is closed under edges.
LEMMA OrderLifts == TypeOK /\ DirectOrder => InOrder
<1> SUFFICES ASSUME TypeOK, DirectOrder,
                    NEW u \in Tasks, NEW t \in Tasks, t \in Downstream(u),
                    status[t] \in {"running", "completed"}, status[u] # "completed"
             PROVE  FALSE
    BY DEF InOrder
<1> DEFINE S == {x \in Tasks : status[x] \notin {"running", "completed"}}
<1>1. Children(u) \subseteq S
    BY DEF Children, DirectOrder
<1>2. Closed(S)
    BY DEF Closed, Children, DirectOrder
<1>3. S \in SUBSET Tasks
    OBVIOUS
<1>4. t \in S
    BY <1>1, <1>2, <1>3 DEF Downstream
<1> QED
    BY <1>4

\* When the edges stay, so does what is downstream of a task.
LEMMA SameDownstream ==
    ASSUME UNCHANGED edges
    PROVE  \A t \in Tasks : Downstream(t)' = Downstream(t)
BY DEF Downstream, Children, Closed

\* Every step of workers alone keeps the order and the causes.
LEMMA OrderStep ==
    ASSUME Static, OrderInv, [Next]_vars
    PROVE  OrderInv'
<1>1. /\ TypeInv /\ Held /\ ClaimExclusive /\ Due /\ DirectOrder /\ FailureHasCause
      /\ Alone /\ Running /\ reopened = {} /\ ~Edit /\ \A c \in Clients : ~ClientStep(c)
    BY NoEdit DEF OrderInv, TypeInv, Alone
<1>2. TypeInv'
    BY <1>1, TypeStep
<1>3. Held' /\ ClaimExclusive'
    BY <1>1, HeldStep
<1>4. UNCHANGED edges /\ Alone'
    BY <1>1 DEF Next, WorkerStep, Claim, ClaimLost, Complete, Fail, Abort, vars, editVars, Alone
<1>5. \A t \in Tasks : Downstream(t)' = Downstream(t)
    BY <1>4, SameDownstream
<1> USE DEF TypeInv, TypeOK, StoreTypeOK, States, Busy, Running
<1>r. Running'
    <2>1. ASSUME NEW w \in Workers, NEW g \in Goals, Claim(w, g) \/ ClaimLost(w, g)
          PROVE  Running'
        BY <1>1, <2>1 DEF Claim, ClaimLost, SetStatus, IsBest, workerVars, Executable
    <2>2. ASSUME NEW w \in Workers, Complete(w) \/ Fail(w)
          PROVE  Running'
        BY <1>1, <2>2 DEF Complete, Fail, SetStatus, ClaimExclusive
    <2>3. ASSUME NEW w \in Workers, Abort(w)
          PROVE  Running'
        BY <1>1, <2>3 DEF Abort, AbortDependents
    <2>4. CASE UNCHANGED vars
        BY <1>1, <2>4 DEF vars
    <2> QED
        BY <1>1, <2>1, <2>2, <2>3, <2>4 DEF Next, WorkerStep
<1> USE DEF Held
<1>6. ASSUME NEW t \in Tasks, t \in Executable, SetStatus(t, "running")
      PROVE  DirectOrder'
    BY <1>1, <1>4, <1>6 DEF SetStatus, Executable, Unblocked, DirectOrder
<1>7. ASSUME NEW w \in Workers, NEW g \in Goals, Claim(w, g) \/ ClaimLost(w, g)
      PROVE  Due' /\ DirectOrder' /\ FailureHasCause'
    <2>1. PICK t \in Tasks : t \in Executable /\ SetStatus(t, "running")
        BY <1>7 DEF Claim, ClaimLost, IsBest
    <2>2. DirectOrder'
        BY <2>1, <1>6
    <2>3. FailureHasCause'
        BY <1>1, <1>5, <1>7, <2>1 DEF FailureHasCause, SetStatus, Claim, ClaimLost, workerVars
    <2>4. Due'
        <3> SUFFICES ASSUME NEW v \in Workers, wpc'[v] = "aborting"
                     PROVE  status'[owner'[v]] = "failed" /\ owner'[v] \in broken'
            BY DEF Due
        <3>1. wpc[v] = "aborting" /\ owner'[v] = owner[v] /\ broken' = broken
            BY <1>1, <1>7 DEF Claim, ClaimLost, workerVars
        <3>2. status[owner[v]] = "failed" /\ owner[v] \in broken
            BY <1>1, <3>1 DEF Due
        <3> QED
            BY <1>1, <2>1, <3>1, <3>2 DEF SetStatus, Executable
    <2> QED
        BY <2>2, <2>3, <2>4
<1>8. ASSUME NEW w \in Workers, Complete(w)
      PROVE  Due' /\ DirectOrder' /\ FailureHasCause'
    <2>1. Due'
        BY <1>1, <1>8 DEF Complete, SetStatus, Due
    <2>2. DirectOrder'
        BY <1>1, <1>4, <1>8 DEF Complete, SetStatus, DirectOrder
    <2>3. FailureHasCause'
        BY <1>1, <1>5, <1>8 DEF Complete, SetStatus, FailureHasCause
    <2> QED
        BY <2>1, <2>2, <2>3
<1>9. ASSUME NEW w \in Workers, Fail(w)
      PROVE  Due' /\ DirectOrder' /\ FailureHasCause'
    <2>1. Due'
        BY <1>1, <1>9 DEF Fail, SetStatus, Due
    <2>2. DirectOrder'
        BY <1>1, <1>4, <1>9 DEF Fail, SetStatus, DirectOrder
    <2>3. FailureHasCause'
        BY <1>1, <1>5, <1>9 DEF Fail, SetStatus, FailureHasCause
    <2> QED
        BY <2>1, <2>2, <2>3
<1>10. ASSUME NEW w \in Workers, Abort(w)
       PROVE  Due' /\ DirectOrder' /\ FailureHasCause'
    <2>1. Due'
        BY <1>1, <1>10 DEF Abort, AbortDependents, Due
    <2>2. DirectOrder'
        BY <1>1, <1>4, <1>10 DEF Abort, AbortDependents, DirectOrder
    <2>3. FailureHasCause'
        <3>1. owner[w] \in broken /\ broken' = broken
            BY <1>1, <1>10 DEF Abort, Due
        <3> QED
            BY <1>1, <1>5, <1>10, <3>1 DEF Abort, AbortDependents, FailureHasCause
    <2> QED
        BY <2>1, <2>2, <2>3
<1>11. CASE UNCHANGED vars
    <2>1. Due' /\ DirectOrder'
        BY <1>1, <1>11 DEF vars, Due, DirectOrder
    <2>2. FailureHasCause'
        BY <1>1, <1>5, <1>11 DEF vars, FailureHasCause
    <2> QED
        BY <1>2, <1>3, <1>4, <1>r, <2>1, <2>2 DEF OrderInv
<1>12. CASE Next
    <2>1. Due' /\ DirectOrder' /\ FailureHasCause'
        BY <1>1, <1>7, <1>8, <1>9, <1>10, <1>12 DEF Next, WorkerStep
    <2> QED
        BY <1>2, <1>3, <1>4, <1>r, <2>1 DEF OrderInv
<1> QED
    BY <1>11, <1>12

\* The invariant of OrderStep holds in every reachable state.
LEMMA OrderInvariance ==
    ASSUME Static
    PROVE  Spec => []OrderInv
<1>1. Init => OrderInv
    BY TypeInit
       DEF Init, OrderInv, Held, ClaimExclusive, Alone, NoCall, Running, Due, DirectOrder,
           FailureHasCause
<1>2. OrderInv /\ [Next]_vars => OrderInv'
    BY OrderStep
<1> QED
    BY <1>1, <1>2, PTL DEF Spec

\* While workers alone act, whatever upstream of a started task, however far, is
\* completed, and a failed task failed in its worker's hands or lies downstream
\* of one that did.
THEOREM OrderKept ==
    ASSUME Static
    PROVE  Spec => []OrderHolds
<1>1. OrderInv => OrderHolds
    BY OrderLifts DEF OrderInv, TypeInv, OrderHolds
<1> QED
    BY <1>1, OrderInvariance, PTL
-----------------------------------------------------------------------------
(* The refinement of TaskBoard.                                            *)

\* Every step of the workers is a step of the board, or changes nothing there.
LEMMA BoardStep ==
    ASSUME Static, OrderInv, OrderInv', [Next]_vars
    PROVE  [Board!Next]_(Board!boardVars)
<1> DEFINE before == [t \in Tasks |-> {u \in Tasks : t \in Downstream(u)}]
           holder == [w \in Workers |-> IF wpc[w] = "working" THEN owner[w] ELSE None]
<1>0. ~Edit /\ \A c \in Clients : ~ClientStep(c)
    BY NoEdit DEF OrderInv, TypeInv
<1>1. UNCHANGED edges
    BY <1>0 DEF Next, WorkerStep, Claim, ClaimLost, Complete, Fail, Abort, vars
<1>2. UNCHANGED before
    BY <1>1, SameDownstream
<1>3. TypeOK /\ TypeOK' /\ Busy /\ Running /\ Due /\ DirectOrder'
    BY DEF OrderInv, TypeInv
<1> USE DEF TypeOK, StoreTypeOK, States
<1>4. ASSUME NEW t \in Tasks, t \in Executable, SetStatus(t, "running")
      PROVE  /\ Board!MayStart(t)
             /\ BoardState' = [BoardState EXCEPT ![t] = "taken"]
    <2>1. status'[t] = "running" /\ status[t] = "pending"
        BY <1>3, <1>4 DEF SetStatus, Executable
    <2>2. ASSUME NEW u \in Tasks, t \in Downstream(u)
          PROVE  status[u] = "completed"
        <3>1. InOrder'
            BY <1>3, OrderLifts, PTL
        <3>2. t \in Downstream(u)'
            BY <1>1, <2>2, SameDownstream
        <3>3. status'[u] = "completed"
            BY <3>1, <3>2, <2>1 DEF InOrder
        <3> QED
            BY <1>3, <1>4, <2>1, <3>3 DEF SetStatus
    <2>3. Board!MayStart(t)
        BY <1>3, <2>1, <2>2 DEF Board!MayStart, BoardState
    <2>4. BoardState' = [BoardState EXCEPT ![t] = "taken"]
        BY <1>3, <1>4 DEF BoardState, SetStatus
    <2> QED
        BY <2>3, <2>4
<1>5. ASSUME NEW w \in Workers, NEW g \in Goals, Claim(w, g)
      PROVE  \E t \in Tasks : Board!Take(w, t)
    <2>1. PICK t \in Tasks : /\ t \in Executable
                             /\ SetStatus(t, "running")
                             /\ owner' = [owner EXCEPT ![w] = t]
        BY <1>5 DEF Claim, IsBest
    <2>2. holder[w] = None /\ holder' = [holder EXCEPT ![w] = t]
        BY <1>3, <1>5, <2>1 DEF Claim
    <2> QED
        BY <1>2, <1>4, <2>1, <2>2 DEF Board!Take
<1>6. ASSUME NEW w \in Workers, NEW g \in Goals, ClaimLost(w, g)
      PROVE  \E t \in Tasks : Board!Lose(t)
    <2>1. PICK t \in Tasks : t \in Executable /\ SetStatus(t, "running")
        BY <1>6 DEF ClaimLost, IsBest
    <2>2. UNCHANGED holder
        BY <1>6 DEF ClaimLost, workerVars
    <2> QED
        BY <1>2, <1>4, <2>1, <2>2 DEF Board!Lose
<1>7. ASSUME NEW w \in Workers, NEW s \in {"completed", "failed"}, NEW p \in {"idle", "aborting"},
             wpc[w] = "working",
             SetStatus(owner[w], s),
             wpc' = [wpc EXCEPT ![w] = p],
             \A v \in Workers \ {w} : owner'[v] = owner[v]
      PROVE  Board!End(w, IF s = "completed" THEN "done" ELSE "dropped")
    <2>1. holder[w] = owner[w] /\ owner[w] \in Tasks /\ status[owner[w]] = "running"
        BY <1>3, <1>7 DEF Busy, Running
    <2>2. holder' = [holder EXCEPT ![w] = None]
        BY <1>3, <1>7
    <2>3. BoardState[owner[w]] = "taken"
        BY <2>1 DEF BoardState
    <2>4. BoardState' = [BoardState EXCEPT ![owner[w]] =
                            IF s = "completed" THEN "done" ELSE "dropped"]
        BY <1>3, <1>7, <2>1 DEF BoardState, SetStatus
    <2>5. owner[w] # None
        BY <2>1, TaskWorkersAssumption
    <2> QED
        BY <1>2, <2>1, <2>2, <2>3, <2>4, <2>5 DEF Board!End
<1>8. ASSUME NEW w \in Workers, Complete(w)
      PROVE  Board!End(w, "done")
    BY <1>3, <1>7, <1>8 DEF Complete
<1>9. ASSUME NEW w \in Workers, Fail(w)
      PROVE  Board!End(w, "dropped")
    BY <1>3, <1>7, <1>9 DEF Fail
<1>10. ASSUME NEW w \in Workers, Abort(w)
       PROVE  (\E S \in SUBSET Tasks : Board!Drop(S)) \/ UNCHANGED Board!boardVars
    <2>1. UNCHANGED holder
        BY <1>3, <1>10 DEF Abort
    <2>2. CASE UNCHANGED status
        BY <1>2, <2>1, <2>2 DEF BoardState, Board!boardVars
    <2>3. CASE AbortDependents(owner[w])
        <3> DEFINE S == {d \in Tasks : d \in Downstream(owner[w]) /\ status[d] = "pending"}
        <3>1. status[owner[w]] = "failed" /\ owner[w] \in Tasks
            BY <1>3, <1>10 DEF Abort, Due, Busy
        <3>2. \A d \in S : BoardState[d] = "open"
                           /\ \E u \in before[d] : BoardState[u] = "dropped"
            BY <3>1 DEF BoardState
        <3>3. BoardState' = [d \in Tasks |-> IF d \in S THEN "dropped" ELSE BoardState[d]]
            BY <1>3, <2>3 DEF BoardState, AbortDependents
        <3>4. Board!Drop(S)
            BY <1>2, <2>1, <3>2, <3>3 DEF Board!Drop
        <3> QED
            BY <3>4
    <2> QED
        BY <1>10, <2>2, <2>3 DEF Abort
<1>11. CASE UNCHANGED vars
    <2>1. UNCHANGED <<BoardState, holder>>
        BY <1>11 DEF vars, BoardState
    <2> QED
        BY <1>2, <2>1 DEF Board!boardVars
<1>12. CASE Next
    BY <1>0, <1>5, <1>6, <1>8, <1>9, <1>10, <1>12 DEF Next, WorkerStep, Board!Next
<1> QED
    BY <1>11, <1>12

\* While workers alone act, the task service implements TaskBoard.
THEOREM RefinesBoard ==
    ASSUME Static
    PROVE  Spec => BoardKept
<1>1. Init => Board!Init
    BY DEF Init, Board!Init, BoardState
<1>2. OrderInv /\ OrderInv' /\ [Next]_vars => [Board!Next]_(Board!boardVars)
    BY BoardStep
<1> QED
    BY <1>1, <1>2, OrderInvariance, PTL DEF Spec, BoardKept, Board!Spec
=============================================================================
