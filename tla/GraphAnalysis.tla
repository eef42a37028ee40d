---------------------------- MODULE GraphAnalysis ----------------------------
(***************************************************************************)
(* Connected components (store/graph.go) and Louvain communities           *)
(* (graph/community): a caller reads the entities in one query and the     *)
(* edges in another, while other callers write, and then works on what it  *)
(* has read.  Weights are naturals; a modularity is scaled by 4 m^2, where *)
(* m is the total weight, so that everything stays an integer.             *)
(***************************************************************************)
EXTENDS Integers, Sequences, FiniteSets, FiniteSetsExt, Functions, Relation

CONSTANTS Entities,       \* naturals, in the order of the rows
          Weight,         \* of each pair that may be joined
          InitialEdges,   \* sets of pairs
          MaxIterations, MinSize,
          MaxChanges      \* bound on the writes of the others

VARIABLES row,        \* "absent", "live" or "archived"
          edges,      \* pairs <<source, target>>
          changes,
          pc, job,
          loaded,     \* sequence of the entities read; their index is their place
          isLive,     \* which of them were live
          links,      \* the edges read, as pairs of entities
          comm, tot,  \* communities: of each index, and their total weight
          pass, at, moved,
          visited, queue, found   \* components: indices seen, being walked, results

graphVars == <<row, edges, changes, pc, job, loaded, isLive, links,
               comm, tot, pass, at, moved, visited, queue, found>>
resultVars == <<comm, tot, pass, at, moved, visited, queue, found>>

Init ==
    /\ edges \in InitialEdges
    /\ row \in [Entities -> {"absent", "live", "archived"}]
    /\ \A p \in edges : row[p[1]] # "absent" /\ row[p[2]] # "absent"
    /\ changes = 0
    /\ pc = "idle" /\ job = "none"
    /\ loaded = <<>> /\ isLive = <<>> /\ links = {}
    /\ comm = <<>> /\ tot = <<>> /\ pass = 0 /\ at = 1 /\ moved = FALSE
    /\ visited = {} /\ queue = <<>> /\ found = {}
-----------------------------------------------------------------------------
\* Writes of the others: a row goes with its edges, an edge needs its rows.
Change ==
    /\ changes < MaxChanges /\ changes' = changes + 1
    /\ \/ \E e \in Entities :
            /\ row[e] = "live"
            /\ row' = [row EXCEPT ![e] = "archived"] /\ UNCHANGED edges
       \/ \E e \in Entities :
            /\ row[e] # "absent"
            /\ row' = [row EXCEPT ![e] = "absent"]
            /\ edges' = {p \in edges : e \notin {p[1], p[2]}}
       \/ \E e \in Entities :
            /\ row[e] = "absent"
            /\ row' = [row EXCEPT ![e] = "live"] /\ UNCHANGED edges
       \/ \E p \in DOMAIN Weight \ edges :
            /\ row[p[1]] # "absent" /\ row[p[2]] # "absent"
            /\ edges' = edges \cup {p} /\ UNCHANGED row
    /\ UNCHANGED <<pc, job, loaded, isLive, links>> /\ UNCHANGED resultVars

InOrder(ids) ==
    CHOOSE s \in Bijection(1..Cardinality(ids), ids) : \A i, j \in DOMAIN s : i < j => s[i] < s[j]

\* Components index every row, communities only the live ones.
ReadEntities(j) ==
    /\ pc = "idle"
    /\ job' = j
    /\ LET read == {e \in Entities : row[e] \in (IF j = "components" THEN {"live", "archived"} ELSE {"live"})}
       IN loaded' = InOrder(read)
    /\ isLive' = [e \in Entities |-> row[e] = "live"]
    /\ pc' = IF j = "communities" /\ loaded' = <<>> THEN "done" ELSE "edges"
    /\ UNCHANGED <<row, edges, changes, links>> /\ UNCHANGED resultVars

Read(e) == e \in Range(loaded)

\* An edge whose ends are not among the entities read is left out; the
\* query for communities joins live rows only.
Joinable(p) ==
    /\ Read(p[1]) /\ Read(p[2])
    /\ job = "communities" => row[p[1]] = "live" /\ row[p[2]] = "live"
-----------------------------------------------------------------------------
Sum(S, op(_)) == MapThenSumSet(op, S)
W(L, a, b) == Sum({p \in L : p = <<a, b>>}, LAMBDA p : Weight[p])
                 + Sum({p \in L : p = <<b, a>>}, LAMBDA p : Weight[p])
Indices == DOMAIN loaded
Adj(i, j) == W(links, loaded[i], loaded[j])
Neighbours(i) == {j \in Indices : Adj(i, j) > 0}
NodeWeight(i) == Sum(Indices, LAMBDA j : Adj(i, j))
TotalWeight == Sum(links, LAMBDA p : Weight[p])

\* Every node starts in a community of its own.
ReadEdges ==
    /\ pc = "edges"
    /\ links' = {p \in edges : Joinable(p)}
    /\ pc' = "work"
    /\ IF job = "communities"
       THEN /\ comm' = [i \in Indices |-> i]
            /\ tot' = [i \in Indices |-> Sum(Indices, LAMBDA j : W(links', loaded[i], loaded[j]))]
            /\ UNCHANGED <<pass, at, moved, visited, queue, found>>
       ELSE UNCHANGED resultVars
    /\ UNCHANGED <<row, edges, changes, job, loaded, isLive>>
-----------------------------------------------------------------------------
\* What moving i to community c would bring, times 2 m^2; t are the totals
\* once i has left its own community.
DeltaQ(i, c, t) ==
    2 * TotalWeight * Sum({j \in Neighbours(i) : comm[j] = c}, LAMBDA j : Adj(i, j))
      - NodeWeight(i) * t[c]

\* The best improvement, the lowest community on a tie; staying counts 0.
BestComm(i, t) ==
    LET improving == {c \in {comm[j] : j \in Neighbours(i)} \ {comm[i]} : DeltaQ(i, c, t) > 0}
    IN IF improving = {} THEN comm[i]
       ELSE Min({c \in improving : \A d \in improving : DeltaQ(i, d, t) <= DeltaQ(i, c, t)})

\* Mutant of Rehomed: the weight of a node that stays is not put back.
RehomedMovers(t, from, to, w) == IF from = to THEN t ELSE [t EXCEPT ![to] = @ + w]
Rehomed(t, from, to, w) == [t EXCEPT ![to] = @ + w]

\* One node of one pass of the local moving.
Visit ==
    /\ pc = "work" /\ job = "communities" /\ pass < MaxIterations /\ at <= Len(loaded)
    /\ LET i == at
           left == [tot EXCEPT ![comm[i]] = @ - NodeWeight(i)]
           best == BestComm(i, left)
       IN /\ tot' = Rehomed(left, comm[i], best, NodeWeight(i))
          /\ comm' = [comm EXCEPT ![i] = best]
          /\ moved' = (moved \/ best # comm[i])
    /\ at' = at + 1
    /\ UNCHANGED <<row, edges, changes, pc, job, loaded, isLive, links, pass, visited, queue, found>>

\* A pass without a move, or the last one, is the end.
EndPass ==
    /\ pc = "work" /\ job = "communities"
    /\ at > Len(loaded) \/ pass >= MaxIterations
    /\ pass' = IF pass < MaxIterations THEN pass + 1 ELSE pass
    /\ pc' = IF moved /\ pass' < MaxIterations THEN "work" ELSE "done"
    /\ at' = 1 /\ moved' = FALSE
    /\ UNCHANGED <<row, edges, changes, job, loaded, isLive, links, comm, tot, visited, queue, found>>

Members(c) == {loaded[i] : i \in {j \in Indices : comm[j] = c}}
Communities == {Members(c) : c \in Indices} \ {{}}

\* computeGlobalModularity: only pairs that are joined count.
GlobalModularity ==
    Sum({p \in Indices \X Indices : p[2] \in Neighbours(p[1]) /\ comm[p[1]] = comm[p[2]]},
        LAMBDA p : 2 * TotalWeight * Adj(p[1], p[2]) - NodeWeight(p[1]) * NodeWeight(p[2]))
\* computeCommunityModularity, added up: all pairs but the diagonal.
CommunityModularity ==
    Sum({p \in Indices \X Indices : p[1] # p[2] /\ comm[p[1]] = comm[p[2]]},
        LAMBDA p : 2 * TotalWeight * Adj(p[1], p[2]) - NodeWeight(p[1]) * NodeWeight(p[2]))
-----------------------------------------------------------------------------
\* The next row that is live and not seen yet starts a component.
Seed ==
    /\ pc = "work" /\ job = "components" /\ queue = <<>>
    /\ \E s \in Indices :
          /\ isLive[loaded[s]] /\ s \notin visited
          /\ \A r \in Indices : isLive[loaded[r]] /\ r \notin visited => s <= r
          /\ queue' = <<s>> /\ visited' = visited \cup {s} /\ at' = 1
    /\ UNCHANGED <<row, edges, changes, pc, job, loaded, isLive, links, comm, tot, pass, moved, found>>

\* Mutant of Unseen: the walk does not go through archived rows.
UnseenLive(i) == {j \in Neighbours(i) \ visited : isLive[loaded[j]]}
Unseen(i) == Neighbours(i) \ visited

Walk ==
    /\ pc = "work" /\ queue # <<>>
    /\ IF at <= Len(queue)
       THEN /\ queue' = queue \o InOrder(Unseen(queue[at]))
            /\ visited' = visited \cup Unseen(queue[at])
            /\ at' = at + 1 /\ UNCHANGED found
       ELSE /\ found' = IF Len(queue) >= MinSize
                        THEN found \cup {{loaded[queue[k]] : k \in DOMAIN queue}} ELSE found
            /\ queue' = <<>> /\ at' = 1 /\ UNCHANGED visited
    /\ UNCHANGED <<row, edges, changes, pc, job, loaded, isLive, links, comm, tot, pass, moved>>

EndWalk ==
    /\ pc = "work" /\ job = "components" /\ queue = <<>>
    /\ {s \in Indices : isLive[loaded[s]]} \subseteq visited
    /\ pc' = "done"
    /\ UNCHANGED <<row, edges, changes, job, loaded, isLive, links>> /\ UNCHANGED resultVars

Next ==
    \/ Change
    \/ \E j \in {"components", "communities"} : ReadEntities(j)
    \/ ReadEdges \/ Visit \/ EndPass \/ Seed \/ Walk \/ EndWalk

Spec == Init /\ [][Next]_graphVars
-----------------------------------------------------------------------------
\* The totals that decide the moves are those of the communities as they
\* are, after every node of every pass (community.go:140-208).
TotalsAgree ==
    pc \in {"work", "done"} /\ job = "communities" =>
        \A c \in Indices : tot[c] = Sum({i \in Indices : comm[i] = c}, LAMBDA i : NodeWeight(i))

\* Whatever is written between the two queries, an answer is about the
\* entities of the first one: communities are a partition of them, and
\* components are the classes of "joined by edges read" that hold a row
\* that was live (graph.go:103-215).
Joined == [a, b \in Entities |-> W(links, a, b) > 0]
ClassOf(e) == {f \in Range(loaded) : ReflexiveTransitiveClosure(Joined, Entities)[e, f]}
AnswersHold ==
    pc = "done" =>
        /\ \A p \in links : Read(p[1]) /\ Read(p[2])
        /\ job = "communities" /\ loaded # <<>> =>
              /\ UNION Communities = Range(loaded)
              /\ \A C, D \in Communities : C = D \/ C \cap D = {}
        /\ job = "components" =>
              found = {C \in {ClassOf(e) : e \in {f \in Range(loaded) : isLive[f]}} :
                          Cardinality(C) >= MinSize}

\* The point of a move is a higher modularity.  The code does not keep this:
\* a move is judged without what the node gives up.
TrueModularity ==
    Sum({p \in Indices \X Indices : comm[p[1]] = comm[p[2]]},
        LAMBDA p : 2 * TotalWeight * Adj(p[1], p[2]) - NodeWeight(p[1]) * NodeWeight(p[2]))
MovesImprove == [][Visit => TrueModularity' >= TrueModularity]_graphVars
=============================================================================
