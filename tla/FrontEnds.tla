------------------------------ MODULE FrontEnds ------------------------------
(***************************************************************************)
(* The daemon, the MCP server and the commands of the CLI on one database: *)
(* store an entity, create a task, add an edge, search.  Every process has *)
(* a vector index of its own, filled at its start, and one connection; a   *)
(* command is a process of its own.  A call is a sequence of statements    *)
(* and model calls, and other calls run between them.                      *)
(*                                                                         *)
(* The rate limit of the MCP tools, a changed schema (ApiServer) and the   *)
(* transactions of other callers (Retention) are left out: they refuse a   *)
(* call before it begins.                                                  *)
(***************************************************************************)
EXTENDS Integers, Sequences, FiniteSets, Functions

CONSTANTS Procs,
          Kind,       \* Procs -> "http", "mcp" or "cli"
          Callers,
          Proc,       \* the process that serves a caller
          Ids,
          Schema,     \* Procs -> the categories of its configuration
          Task,       \* the first stateful category
          World,      \* the category of a placeholder
          Closest,    \* Ids -> all ids by similarity to its vector
          Similar,    \* Ids -> those with a cosine above 0.85
          TopK,       \* 3 for the links
          Requests,
          Budgets,    \* bound: the calls that each caller may make
          CanFail,    \* embedders and statements may fail
          None

VARIABLES row,     \* what the table has of an id, or None
          links,   \* <<source, target, relation>>
          index,   \* the ids in the index of a process
          call,    \* of a caller
          acked,   \* <<p, id>>: p has last stored id with a vector
          left     \* of the budget of each caller

vars == <<row, links, index, call, acked, left>>

Store(id, category, given) ==
    [do |-> "store", id |-> id, category |-> category, given |-> given,
     to |-> {}, relation |-> "related_to", create |-> FALSE]

CreateTask(id, context) ==
    [do |-> "task", id |-> id, category |-> Task, given |-> FALSE,
     to |-> context, relation |-> "related_to", create |-> FALSE]

Edge(src, dst, relation, create) ==
    [do |-> "edge", id |-> src, category |-> World, given |-> FALSE,
     to |-> {dst}, relation |-> relation, create |-> create]

Search(id) ==
    [do |-> "search", id |-> id, category |-> World, given |-> FALSE,
     to |-> {}, relation |-> "related_to", create |-> FALSE]

\* A call: where it is, its request, the id that it writes, whether there is a
\* vector of it and one for the links, what is left to do, and whether a
\* failed store of the same id has taken the vector away.
Call(at, req, writes, vec, near, todo, spoiled) ==
    [at |-> at, req |-> req, writes |-> writes, vec |-> vec, near |-> near,
     todo |-> todo, spoiled |-> spoiled]
Idle == Call("idle", None, None, FALSE, FALSE, <<>>, FALSE)

Init ==
    /\ row = [id \in Ids |-> None]
    /\ links = {}
    /\ index = [p \in Procs |-> {}]
    /\ call = [c \in Callers |-> Idle]
    /\ acked = {}
    /\ left \in Budgets
-----------------------------------------------------------------------------
At(c, label) == call[c].at = label

\* The one connection of the process is not in a query that does not end.
Connected(c) == \A d \in Callers : Proc[d] = Proc[c] => ~At(d, "hung")

Embedded == {id \in Ids : row[id] # None /\ row[id].vec}

Goes(c, label, writes, vec, near, todo) ==
    call' = [call EXCEPT ![c] =
               Call(label, call[c].req, writes, vec, near, todo, call[c].spoiled)]
GotoWith(c, label, todo) == Goes(c, label, call[c].writes, call[c].vec, call[c].near, todo)
Goto(c, label) == GotoWith(c, label, call[c].todo)
End(c) == call' = [call EXCEPT ![c] = Idle]

\* EnsureDB and Warm of a process.
Start(p) ==
    /\ \A c \in Callers : Proc[c] = p => At(c, "idle")
    /\ index' = [index EXCEPT ![p] = Embedded]
    /\ acked' = {a \in acked : a[1] # p} \cup {<<p, id>> : id \in Embedded}
    /\ UNCHANGED <<row, links, call, left>>

\* A command fills an index of its own; a server that runs keeps what it has.
Opened(p) == IF Kind[p] = "cli" THEN Embedded ELSE index[p]

\* The ids that a request lists, in an order of its own.
Listed(ids) == CHOOSE s \in Bijection(1..Cardinality(ids), ids) : TRUE

\* The checks of the front end and of the service, then the first step.
Begin(c) ==
    /\ At(c, "idle") /\ left[c] > 0
    /\ \E r \in Requests :
        /\ r.do \in {"store", "task"} => r.category \in Schema[Proc[c]]
        /\ LET first == IF r.do = "edge" THEN (IF r.create THEN "endpoint" ELSE "edge")
                        ELSE IF r.given THEN "upsert" ELSE "embed"
               todo == IF r.do = "edge" /\ r.create THEN <<r.id>> \o Listed(r.to) ELSE <<>>
           IN  call' = [call EXCEPT ![c] = Call(first, r, r.id, r.given, r.given, todo, FALSE)]
    /\ index' = [index EXCEPT ![Proc[c]] = Opened(Proc[c])]
    /\ acked' = IF Kind[Proc[c]] = "cli"
                THEN {a \in acked : a[1] # Proc[c]} \cup {<<Proc[c], id>> : id \in Embedded}
                ELSE acked
    /\ left' = [left EXCEPT ![c] = @ - 1]
    /\ UNCHANGED <<row, links>>

\* /store embeds in StoreAndLink, for the links, and once more in Store when
\* the first attempt failed; other front ends embed once.
EmbedOk(c) ==
    /\ At(c, "embed") \/ At(c, "again")
    /\ Goes(c, IF call[c].req.do = "search" THEN "search" ELSE "upsert",
            call[c].writes, TRUE, At(c, "embed"), call[c].todo)
    /\ UNCHANGED <<row, links, index, acked, left>>

EmbedErr(c) ==
    /\ CanFail
    /\ At(c, "embed") \/ At(c, "again")
    /\ \/ /\ call[c].req.do \in {"search", "edge"}
          /\ End(c)
       \/ /\ call[c].req.do \in {"store", "task"}
          /\ IF At(c, "embed") /\ call[c].req.do = "store" /\ Kind[Proc[c]] = "http"
             THEN Goto(c, "again") ELSE Goto(c, "upsert")
    /\ UNCHANGED <<row, links, index, acked, left>>
-----------------------------------------------------------------------------
(* StoreEntityWithEmbedding: the index first, then the row.                *)

Upsert(c) ==
    /\ At(c, "upsert")
    /\ index' = IF call[c].vec
                THEN [index EXCEPT ![Proc[c]] = @ \cup {call[c].writes}] ELSE index
    /\ Goto(c, "insert")
    /\ UNCHANGED <<row, links, acked, left>>

\* What follows the row.
AfterRow(c) ==
    LET r == call[c].req IN
    IF r.do = "edge" THEN "endpoint"
    ELSE IF r.do = "task" THEN "context"
    ELSE IF r.do = "store" /\ Kind[Proc[c]] = "http" THEN "link" ELSE "done"

Insert(c) ==
    /\ At(c, "insert") /\ Connected(c)
    /\ row' = [row EXCEPT ![call[c].writes] =
         [category |-> call[c].req.category, vec |-> call[c].vec,
          shell |-> call[c].req.do = "edge"]]
    /\ acked' = LET a == <<Proc[c], call[c].writes>>
                IN  IF call[c].vec /\ ~call[c].spoiled THEN acked \cup {a} ELSE acked \ {a}
    /\ GotoWith(c, AfterRow(c),
                IF call[c].req.do = "task" THEN Listed(call[c].req.to) ELSE call[c].todo)
    /\ UNCHANGED <<links, index, left>>

\* Mutant of Withdraw: the index keeps the vector of a row that was not written.
WithdrawNothing(c) == index

\* The vector of the failed row is removed, whoever else has stored the id.
Withdraw(c) ==
    IF call[c].vec THEN [index EXCEPT ![Proc[c]] = @ \ {call[c].writes}] ELSE index

InsertErr(c) ==
    /\ CanFail /\ At(c, "insert") /\ Connected(c)
    /\ index' = Withdraw(c)
    /\ acked' = IF call[c].vec THEN acked \ {<<Proc[c], call[c].writes>>} ELSE acked
    /\ call' = [d \in Callers |->
         IF d = c THEN Idle
         ELSE IF /\ Proc[d] = Proc[c] /\ call[c].vec
                 /\ At(d, "insert") /\ call[d].writes = call[c].writes
              THEN Call("insert", call[d].req, call[d].writes, call[d].vec, call[d].near,
                        call[d].todo, TRUE)
              ELSE call[d]]
    /\ UNCHANGED <<row, links, left>>
-----------------------------------------------------------------------------
(* Edges.                                                                  *)

\* What is reached along the links of a relation: what is in every set that
\* has the first one and, with the source of a link, its target.
Reached(from, relation) ==
    LET closed(S) == \A s \in S, t \in Ids : <<s, t, relation>> \in links => t \in S
    IN  {t \in Ids : \A S \in SUBSET Ids : from \in S /\ closed(S) => t \in S}

\* A cycle of the relation that from reaches.
Cyclic(from, relation) ==
    \E s \in Reached(from, relation) : \E t \in Reached(from, relation) :
        <<s, t, relation>> \in links /\ s \in Reached(t, relation)

\* Mutant of Refuses: an edge that closes a cycle is inserted.
RefusesMissing(s, t, relation) == s = t \/ row[s] = None \/ row[t] = None

Refuses(s, t, relation) ==
    s = t \/ row[s] = None \/ row[t] = None \/ s \in Reached(t, relation)

\* store.AddEdge in its transaction.  The UNION ALL of the check does not end
\* on a cycle, and the statement runs without the context of the call.
AddEdge(c, s, t, relation) ==
    \/ /\ s # t /\ row[s] # None /\ row[t] # None /\ Cyclic(t, relation)
       /\ Goto(c, "hung")
       /\ UNCHANGED links
    \/ /\ s = t \/ row[s] = None \/ row[t] = None \/ ~Cyclic(t, relation)
       /\ links' = IF Refuses(s, t, relation) THEN links ELSE links \cup {<<s, t, relation>>}
       /\ IF At(c, "edge") THEN End(c) ELSE GotoWith(c, call[c].at, Tail(call[c].todo))

\* AddEdgeWithAutoCreate: the endpoints in turn, then the edge.
Endpoint(c) ==
    /\ At(c, "endpoint") /\ Connected(c)
    /\ LET rest == call[c].todo
       IN  IF rest = <<>> THEN Goto(c, "edge")
           ELSE Goes(c, IF row[Head(rest)] # None THEN "endpoint" ELSE "embed",
                     Head(rest), call[c].vec, call[c].near, Tail(rest))
    /\ UNCHANGED <<row, links, index, acked, left>>

EdgeOf(c) ==
    /\ At(c, "edge") /\ Connected(c)
    /\ \E t \in call[c].req.to : AddEdge(c, call[c].req.id, t, call[c].req.relation)
    /\ UNCHANGED <<row, index, acked, left>>

\* Task.Create: an edge per context id; an error is logged.
Context(c) ==
    /\ At(c, "context") /\ Connected(c)
    /\ LET rest == call[c].todo
       IN  IF rest = <<>> THEN Goto(c, "link") /\ UNCHANGED links
           ELSE AddEdge(c, call[c].req.id, Head(rest), "related_to")
    /\ UNCHANGED <<row, index, acked, left>>

\* SearchByVector: the first k of the process's index, without those that
\* have no row.
Hits(p, id, k) ==
    LET known == SelectSeq(Closest[id], LAMBDA h : h \in index[p])
    IN  SelectSeq(SubSeq(known, 1, IF Len(known) < k THEN Len(known) ELSE k),
                  LAMBDA h : row[h] # None)

\* AutoLinkEdges: without a vector there is nothing to look for.
Link(c) ==
    /\ At(c, "link") /\ Connected(c)
    /\ IF call[c].near
       THEN GotoWith(c, "linking", SelectSeq(Hits(Proc[c], call[c].req.id, TopK),
                        LAMBDA h : h # call[c].req.id /\ h \in Similar[call[c].req.id]))
       ELSE Goto(c, "done")
    /\ UNCHANGED <<row, links, index, acked, left>>

\* One INSERT OR IGNORE per hit, without the cycle check; an error ends it.
Linking(c) ==
    /\ At(c, "linking") /\ Connected(c)
    /\ IF call[c].todo = <<>>
       THEN Goto(c, "done") /\ UNCHANGED links
       ELSE \/ /\ links' = links \cup {<<call[c].req.id, Head(call[c].todo), "related_to">>}
               /\ GotoWith(c, "linking", Tail(call[c].todo))
            \/ CanFail /\ Goto(c, "done") /\ UNCHANGED links
    /\ UNCHANGED <<row, index, acked, left>>

\* The service's Search: what the process finds, in todo for the reader.
Find(c) ==
    /\ At(c, "search") /\ Connected(c)
    /\ GotoWith(c, "done", Hits(Proc[c], call[c].req.id, TopK))
    /\ UNCHANGED <<row, links, index, acked, left>>

Answer(c) ==
    /\ At(c, "done")
    /\ End(c)
    /\ UNCHANGED <<row, links, index, acked, left>>

Step(c) ==
    \/ EmbedOk(c) \/ EmbedErr(c) \/ Upsert(c) \/ Insert(c) \/ InsertErr(c)
    \/ Endpoint(c) \/ EdgeOf(c) \/ Context(c) \/ Link(c) \/ Linking(c)
    \/ Find(c) \/ Answer(c)

Next ==
    \/ \E p \in Procs : Start(p)
    \/ \E c \in Callers : Begin(c) \/ Step(c)

Spec == Init /\ [][Next]_vars
-----------------------------------------------------------------------------
TypeOK ==
    /\ row \in [Ids -> {None} \cup
                 [category : {r.category : r \in Requests}, vec : BOOLEAN, shell : BOOLEAN]]
    /\ index \in [Procs -> SUBSET Ids]
    /\ acked \subseteq Procs \X Ids

\* What a process has stored with its vector it finds, whatever its other
\* calls and the other processes do meanwhile; only a failed store of the same
\* id takes it away.
FindsItsOwn == \A a \in acked : a[2] \in index[a[1]]

\* The index of a process has no id without a row, but for a row that is
\* about to be written.
NothingForeign ==
    \A p \in Procs : \A id \in index[p] :
        row[id] = None =>
            \E c \in Callers : Proc[c] = p /\ call[c].vec /\ call[c].writes = id
                               /\ At(c, "insert")

\* AddEdge never closes a cycle, so every cycle, and with it a check that
\* does not end, goes through a link that AutoLinkEdges made: no relation but
\* related_to has one.
CyclesAreLinks ==
    /\ \A l \in links : l[3] # "related_to" => ~Cyclic(l[1], l[3])
    /\ \A c \in Callers : At(c, "hung") => call[c].req.relation = "related_to"

FrontEndsSound == FindsItsOwn /\ NothingForeign /\ CyclesAreLinks

\* "missing entities are created as empty shells" (cli/memory/edge.go): what
\* was stored is never turned into a shell.  An entity stored between the
\* EXISTS and the INSERT of an endpoint is.
OnlyMissingAreShells ==
    [][\A id \in Ids : row[id] # None /\ ~row[id].shell => ~row'[id].shell]_vars
-----------------------------------------------------------------------------
\* A command is a process of its own, only an edge names its relation, and
\* None is no row.
FrontEndsAssumption ==
    /\ \A c \in Callers : Proc[c] \in Procs
    /\ \A c, d \in Callers : Kind[Proc[c]] = "cli" /\ Proc[c] = Proc[d] => c = d
    /\ \A r \in Requests :
         /\ r.id \in Ids /\ r.to \subseteq Ids /\ IsFiniteSet(r.to)
         /\ r.do \in {"store", "task", "edge", "search"} /\ r.given \in BOOLEAN
         /\ r.do # "edge" => r.relation = "related_to"
         /\ \A vec, shell \in BOOLEAN : [category |-> r.category, vec |-> vec, shell |-> shell] # None

\* A call stands where its request can bring it; what it is about to write is
\* in the index unless a failed store of the same id took it away.
CallFits(c) ==
    /\ call[c] = Call(call[c].at, call[c].req, call[c].writes, call[c].vec, call[c].near,
                      call[c].todo, call[c].spoiled)
    /\ ~At(c, "idle") =>
         call[c].req \in Requests /\ call[c].writes \in Ids /\ call[c].vec \in BOOLEAN
    /\ ~At(c, "idle") /\ call[c].req.do = "edge" =>
         call[c].at \in {"endpoint", "embed", "upsert", "insert", "edge", "hung"}
         /\ call[c].todo \in Seq(Ids)
    /\ At(c, "endpoint") => call[c].req.do = "edge"
    /\ At(c, "context") => call[c].req.do = "task"
    /\ At(c, "hung") => call[c].req.relation = "related_to"
    /\ At(c, "insert") /\ call[c].vec /\ ~call[c].spoiled =>
         call[c].writes \in index[Proc[c]]

FrontInv ==
    /\ TypeOK
    /\ call = [c \in Callers |-> call[c]] /\ \A c \in Callers : CallFits(c)
    /\ FrontEndsSound
=============================================================================
