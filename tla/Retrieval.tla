----------------------------- MODULE Retrieval -----------------------------
(***************************************************************************)
(* RetrieveContext and MultiHopRetrieveContext (src/internal/retrieval):   *)
(* walk the graph from the seeds, score, sort, put the facts into one      *)
(* bucket per category, rerank, trim to a token budget; and the discovery  *)
(* of further seeds by searching the vector index for what was found.      *)
(*                                                                         *)
(* Where the order of SQL rows or of a map is open, an operator yields the *)
(* set of all results.  A score is an integer; a reranker is a provider.   *)
(***************************************************************************)
EXTENDS Integers, Sequences, FiniteSets, Functions

CONSTANTS Entities,
          Content, Category, Score, Tokens,  \* of an entity
          Categories,          \* in the order in which they are trimmed
          Worlds,              \* the sets of edges to look at
          Asked,               \* the sets of seeds to ask for
          Depth,               \* MaxDepth
          Limits,              \* MaxRetrievedNodes and TokenBudget, 0 = none
          Hops, MaxSeeds, TopKPerHop, VectorTopK,
          MaxArchived          \* bound: rows archived while the call runs

VARIABLES graph,   \* the edges
          limits,
          live,    \* the rows that are not archived
          found,   \* the accumulated seeds
          fresh,   \* the seeds the last hop has added
          hop,
          context  \* the answer, with the rows that were live when it was read

vars == <<graph, limits, live, found, fresh, hop, context>>

NoContext == [rows |-> {}, buckets |-> [c \in Range(Categories) |-> <<>>], live |-> {}]

Init ==
    /\ graph \in Worlds
    /\ limits \in Limits
    /\ live = Entities
    /\ found \in Asked
    /\ fresh = found
    /\ hop = 1
    /\ context = NoContext
-----------------------------------------------------------------------------
(* expandGraph                                                             *)

Adjacent(a, b) == <<a, b>> \in graph \/ <<b, a>> \in graph

\* The recursive query: one row for every path without a repeated entity.
Paths(seeds, depth) ==
    LET p[d \in 0..depth] ==
          IF d = 0 THEN {<<s>> : s \in seeds \cap live}
          ELSE {Append(q, e) : q \in p[d - 1], e \in live}
    IN  {q \in UNION {p[d] : d \in 0..depth} :
           \A i, j \in DOMAIN q : (q[i] = q[j] => i = j) /\ (j = i + 1 => Adjacent(q[i], q[j]))}

RowOf(q) == [id |-> q[Len(q)], depth |-> Len(q) - 1,
             parent |-> IF Len(q) = 1 THEN q[Len(q)] ELSE q[Len(q) - 1]]

\* The rows come by depth; the first row of an entity is kept, and the
\* first MaxRetrievedNodes entities are.
Expand(seeds, depth) ==
    LET rows == {RowOf(q) : q \in Paths(seeds, depth)}
        first == {r \in rows : \A s \in rows : s.id = r.id => r.depth <= s.depth}
        ids == {r.id : r \in first}
        enough == IF limits.nodes = 0 \/ Cardinality(ids) < limits.nodes THEN Cardinality(ids) ELSE limits.nodes
    IN  {kept \in SUBSET first :
           /\ Cardinality(kept) = enough
           /\ \A r, s \in kept : r.id = s.id => r = s
           /\ \A r \in kept, s \in first : s.id \notin {k.id : k \in kept} => r.depth <= s.depth}
-----------------------------------------------------------------------------
(* scoreAndRank, bucketize, applyReranker, TrimByTokenBudget               *)

\* compositeScore: every hop halves it.
RowScore(r) == Score[r.id] \div 2 ^ r.depth

Ranked(rows) ==
    {s \in Bijection(1..Cardinality(rows), rows) : \A i, j \in DOMAIN s : i < j => RowScore(s[i]) >= RowScore(s[j])}

\* Mutant of Bucketize: a content is dropped where it occurs twice in a bucket only.
BucketizeByCategory(ranked) ==
    [c \in Range(Categories) |->
       SelectSeq(ranked, LAMBDA r : Category[r.id] = c)]

\* The first row with a content stands for all of them, whatever bucket it
\* belongs to.
Bucketize(ranked) ==
    LET first(i) == \A j \in 1..(i - 1) : Content[ranked[j].id] # Content[ranked[i].id]
        facts == [i \in DOMAIN ranked |-> [row |-> ranked[i], first |-> first(i)]]
        of(c) == SelectSeq(facts, LAMBDA f : f.first /\ Category[f.row.id] = c)
    IN  [c \in Range(Categories) |-> [i \in DOMAIN of(c) |-> of(c)[i].row]]

Reversed(s) == [i \in DOMAIN s |-> s[Len(s) + 1 - i]]

\* One request per bucket.  The first failure keeps what the earlier buckets
\* got, and the call goes on with it.
Reranked(buckets) ==
    {[c \in DOMAIN buckets |-> IF c \in Range(SubSeq(Categories, 1, n)) THEN Reversed(buckets[c]) ELSE buckets[c]] :
        n \in 0..Len(Categories)}

Cost(facts) == FoldFunction(LAMBDA r, sum : sum + Tokens[r.id] + 2, 0, facts)

\* Mutant of Fitting: the fact that does not fit is kept.
OneTooMany(facts, budget) ==
    SubSeq(facts, 1, CHOOSE n \in 0..Len(facts) :
        /\ n = 0 \/ Cost(SubSeq(facts, 1, n - 1)) <= budget
        /\ n = Len(facts) \/ Cost(SubSeq(facts, 1, n)) > budget)

\* trimFactsToBudget: the longest beginning that fits.
Fitting(facts, budget) ==
    SubSeq(facts, 1, CHOOSE n \in 0..Len(facts) :
        /\ Cost(SubSeq(facts, 1, n)) <= budget
        /\ n = Len(facts) \/ Cost(SubSeq(facts, 1, n + 1)) > budget)

\* A bucket that fits is kept whole, the first one that does not is cut, and
\* nothing is left for the ones after it.
Trimmed(buckets) ==
    LET left[i \in 0..Len(Categories)] ==
          IF i = 0 THEN limits.budget
          ELSE IF Cost(buckets[Categories[i]]) <= left[i - 1]
               THEN left[i - 1] - Cost(buckets[Categories[i]]) ELSE 0
        at(c) == CHOOSE i \in DOMAIN Categories : Categories[i] = c
        all == FoldFunction(LAMBDA c, sum : sum + Cost(buckets[c]), 0, Categories)
    IN  IF limits.budget = 0 \/ all <= limits.budget THEN buckets
        ELSE [c \in DOMAIN buckets |->
                IF left[at(c) - 1] <= 0 THEN <<>> ELSE Fitting(buckets[c], left[at(c) - 1])]

\* RetrieveContext
Contexts(seeds, depth) ==
    UNION {UNION {{[rows |-> rows, buckets |-> Trimmed(b), live |-> live]
                   : b \in Reranked(Bucketize(ranked))} : ranked \in Ranked(rows)}
           : rows \in Expand(seeds, depth)}
-----------------------------------------------------------------------------
(* MultiHopRetrieveContext                                                 *)

\* topKFromResult: the facts, and on the first hop the seeds, by score and
\* content; each is embedded, and the index has a few neighbours for it, which
\* may be any entities, archived ones included.
Queries(c, h) ==
    LET facts == UNION {Range(c.buckets[k]) : k \in DOMAIN c.buckets}
                 \cup {r \in c.rows : h = 1 /\ r.depth = 0}
        ahead(r) == {Content[q.id] : q \in {g \in facts : RowScore(g) > RowScore(r)}} \ {Content[r.id]}
    IN  {Content[r.id] : r \in {q \in facts : Cardinality(ahead(q)) < TopKPerHop}}

\* Mutant of Hop: the limit on the seeds is not looked at.
HopOn ==
    /\ context = NoContext /\ hop < Hops
    /\ fresh # {}
    /\ \E c \in Contexts(fresh, 1) :
         \E asked \in SUBSET Queries(c, hop) :
           /\ Cardinality(asked) <= TopKPerHop
           /\ \E hits \in [asked -> {H \in SUBSET Entities : Cardinality(H) <= VectorTopK}] :
                fresh' = UNION {hits[e] : e \in asked} \ found
    /\ found' = found \cup fresh'
    /\ hop' = hop + 1
    /\ UNCHANGED <<graph, limits, live, context>>

Hop ==
    /\ context = NoContext /\ hop < Hops
    /\ fresh # {} /\ Cardinality(found) <= MaxSeeds
    /\ \E c \in Contexts(fresh, 1) :
         \E asked \in SUBSET Queries(c, hop) :
           /\ Cardinality(asked) <= TopKPerHop
           /\ \E hits \in [asked -> {H \in SUBSET Entities : Cardinality(H) <= VectorTopK}] :
                fresh' = UNION {hits[e] : e \in asked} \ found
    /\ found' = found \cup fresh'
    /\ hop' = hop + 1
    /\ UNCHANGED <<graph, limits, live, context>>

\* The last walk, from all seeds.
Answer ==
    /\ context = NoContext
    /\ hop >= Hops \/ fresh = {} \/ Cardinality(found) > MaxSeeds
    /\ context' \in Contexts(found, Depth)
    /\ UNCHANGED <<graph, limits, live, found, fresh, hop>>

\* Somebody archives a row while the call runs.
Archive(e) ==
    /\ context = NoContext
    /\ Cardinality(Entities \ live) < MaxArchived
    /\ live' = live \ {e}
    /\ UNCHANGED <<graph, limits, found, fresh, hop, context>>

Next == Hop \/ Answer \/ \E e \in live : Archive(e)

Spec == Init /\ [][Next]_vars
-----------------------------------------------------------------------------
\* The entities within d edges of the seeds, the textbook way.
Within(seeds, alive, d) ==
    LET ball[n \in 0..d] ==
          IF n = 0 THEN seeds \cap alive
          ELSE ball[n - 1] \cup {e \in alive : \E b \in ball[n - 1] : Adjacent(b, e)}
    IN  ball[d]

Facts == {f \in Range(Categories) \X (1..Cardinality(Entities)) : f[2] \in DOMAIN context.buckets[f[1]]}
Said(f) == Content[context.buckets[f[1]][f[2]].id]

\* The answer is what the last walk could see: the row of an entity has its
\* distance from the seeds and a parent that is in the answer too, the limit
\* on the nodes costs the farthest ones only, no content occurs twice, and the
\* facts fit into the budget; without limits nothing in reach is missing
\* (expand.go:97-108, walk.go:181-187, token_budget.go:32-50).
ContextIsSound ==
    LET reach(d) == Within(found, context.live, d)
        ids == {r.id : r \in context.rows}
    IN  context # NoContext =>
          /\ \A r \in context.rows :
               /\ r.id \in reach(r.depth) /\ (r.depth > 0 => r.id \notin reach(r.depth - 1))
               /\ r.depth > 0 => \E s \in context.rows : s.id = r.parent /\ s.depth = r.depth - 1
          /\ ids \subseteq reach(Depth) /\ (ids = reach(Depth) \/ Cardinality(ids) = limits.nodes)
          /\ \A f, g \in Facts : Said(f) = Said(g) => f = g
          /\ limits.budget > 0 => FoldFunction(LAMBDA c, sum : sum + Cost(context.buckets[c]), 0, Categories) <= limits.budget
          /\ limits.budget = 0 => {Said(f) : f \in Facts} = {Content[e] : e \in ids}

\* "bounds the SQL IN-clause + final walk size" (walk.go:407): the last hop may
\* pass the limit, by what one hop can add.
SeedsBounded == hop = 1 \/ Cardinality(found) <= MaxSeeds + TopKPerHop * VectorTopK
=============================================================================
