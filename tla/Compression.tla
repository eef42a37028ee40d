----------------------------- MODULE Compression -----------------------------
(***************************************************************************)
(* Summary nodes (src/internal/compression): clusters of entities with     *)
(* similar embeddings, a summary a model writes of each, and its           *)
(* recompression into a new one that supersedes it.  No two statements     *)
(* share a transaction.  Regenerate changes the text of a summary only,    *)
(* which is not modelled.                                                  *)
(***************************************************************************)
EXTENDS Integers, FiniteSets, Functions

CONSTANTS Callers, Entities,
          Similar,            \* the graphs of similarity to look at
          Config,             \* MinClusterSize, MaxClusterSize
          MaxRecursionDepth,
          MaxNodes,           \* bound on the summaries
          CanFail, NoNode

VARIABLES similar,
          node,      \* summary -> sources, generation, superseded_by
          nodes,     \* how many there are
          calling    \* what each caller has read

sumVars == <<similar, node, nodes, calling>>

Summary(from, gen, by) == [from |-> from, gen |-> gen, by |-> by]
Blank == Summary({}, 0, NoNode)
At(pc, todo, old, mine, new) ==
    [pc |-> pc, todo |-> todo, old |-> old, mine |-> mine, new |-> new]
Quiet == At("idle", {}, NoNode, NoNode, Blank)
Goto(c, call) == calling' = [calling EXCEPT ![c] = call]

Init ==
    /\ similar \in Similar
    /\ node = [n \in 1..MaxNodes |-> Blank]
    /\ nodes = 0
    /\ calling = [c \in Callers |-> Quiet]
-----------------------------------------------------------------------------
(* greedyCluster, over entities at positions                               *)

\* The seeds: those that no seed before them is similar to.
AreSeeds(seeds, pos) ==
    \A e \in DOMAIN pos : e \in seeds <=> \A s \in seeds : pos[s] < pos[e] => {s, e} \notin similar

\* Any other is taken by the first seed that is similar to it.
Takes(s, e, seeds, pos) ==
    \/ e = s
    \/ /\ e \notin seeds /\ pos[s] < pos[e] /\ {s, e} \in similar
       /\ \A u \in seeds : {u, e} \in similar => pos[s] <= pos[u]
Group(s, seeds, pos) == {e \in DOMAIN pos : Takes(s, e, seeds, pos)}

\* A cluster that is too small is dropped, and one that is too large is cut.
Place(e, group, pos) == Cardinality({d \in group : pos[d] < pos[e]})
Cut(group, pos) == {e \in group : Place(e, group, pos) < Config.max}
Greedy(seeds, pos) ==
    {Cut(g, pos) : g \in {h \in {Group(s, seeds, pos) : s \in seeds} : Cardinality(h) >= Config.min}}

\* Cluster and CompressCluster: the embeddings come in the order of a map.
Cluster(c, ids) ==
    /\ calling[c].pc = "idle"
    /\ Cardinality(ids) >= Config.min
    /\ \E pos \in Bijection(ids, 1..Cardinality(ids)), seeds \in SUBSET ids :
         /\ AreSeeds(seeds, pos)
         /\ Goto(c, At("compress", Greedy(seeds, pos), NoNode, NoNode, Blank))
    /\ UNCHANGED <<similar, node, nodes>>

\* Compress, up to the answer of the model.
Compress(c) ==
    /\ calling[c].pc = "compress"
    /\ \E ids \in calling[c].todo :
         Goto(c, At("insert", calling[c].todo \ {ids}, NoNode, NoNode, Summary(ids, 1, NoNode)))
    /\ UNCHANGED <<similar, node, nodes>>

\* All are done; or an error ends the call with the clusters that are left.
Return(c) ==
    /\ calling[c].pc = "compress"
    /\ calling[c].todo = {} \/ CanFail
    /\ Goto(c, Quiet)
    /\ UNCHANGED <<similar, node, nodes>>

\* Recompress, up to the answer of the model.  Of the old summary, which is
\* no entity, nothing is loaded; its number stands, negated, in the sources.
Recompress(c, s) ==
    /\ calling[c].pc = "idle" /\ s <= nodes
    /\ node[s].gen < MaxRecursionDepth
    /\ Goto(c, At("insert", {}, s, NoNode,
                  Summary(node[s].from \cup {-s}, node[s].gen + 1, NoNode)))
    /\ UNCHANGED <<similar, node, nodes>>

Insert(c) ==
    /\ calling[c].pc = "insert"
    /\ \/ /\ nodes < MaxNodes
          /\ nodes' = nodes + 1
          /\ node' = [node EXCEPT ![nodes + 1] = calling[c].new]
          /\ Goto(c, At(IF calling[c].old = NoNode THEN "compress" ELSE "mark",
                        calling[c].todo, calling[c].old, nodes + 1, Blank))
       \/ /\ CanFail
          /\ Goto(c, Quiet)
          /\ UNCHANGED <<node, nodes>>
    /\ UNCHANGED similar

\* markSuperseded; when it fails both summaries stay.
Mark(c) ==
    LET old == calling[c].old IN
    /\ calling[c].pc = "mark"
    /\ \/ node' = [node EXCEPT ![old] = Summary(node[old].from, node[old].gen, calling[c].mine)]
       \/ CanFail /\ UNCHANGED node
    /\ Goto(c, Quiet)
    /\ UNCHANGED <<similar, nodes>>

Next ==
    \E c \in Callers :
      \/ \E ids \in (SUBSET Entities) \ {{}} : Cluster(c, ids)
      \/ Compress(c) \/ Return(c) \/ Insert(c) \/ Mark(c)
      \/ \E s \in 1..MaxNodes : Recompress(c, s)

Spec == Init /\ [][Next]_sumVars
-----------------------------------------------------------------------------
\* The clusters of one call do not overlap, have an allowed size, and their
\* members are similar to one of them; a summary is superseded by one of the
\* next generation that has all its sources and itself, never beyond the last
\* generation, whatever callers overlap (generate.go:103-156, cluster.go).
ClusterSound(ids) ==
    /\ Cardinality(ids) \in Config.min..Config.max
    /\ \E s \in ids : \A e \in ids : e = s \/ {s, e} \in similar

SummariesSound ==
    /\ \A c \in Callers : \A ids \in calling[c].todo :
         /\ ClusterSound(ids)
         /\ \A others \in calling[c].todo : others = ids \/ others \cap ids = {}
    /\ \A n \in 1..nodes :
         /\ node[n].gen \in 1..MaxRecursionDepth
         /\ node[n].by # NoNode =>
              /\ node[n].by \in 1..nodes
              /\ node[node[n].by].gen = node[n].gen + 1
              /\ node[n].from \cup {-n} = node[node[n].by].from
-----------------------------------------------------------------------------
\* DefaultClustererConfig has 2 and 10, MaxRecursionDepth is 3.
CompressionAssumption ==
    /\ Config.min \in Nat \ {0} /\ Config.max \in Nat /\ Config.min <= Config.max
    /\ IsFiniteSet(Entities) /\ MaxRecursionDepth \in Nat \ {0} /\ MaxNodes \in Nat
    /\ NoNode \notin 1..MaxNodes

\* One summary is what recompression makes of another.
Follows(new, n) == new.gen = node[n].gen + 1 /\ new.from = node[n].from \cup {-n}

CallFits(call) ==
    /\ \E pc \in {"idle", "compress", "insert", "mark"} :
         call = At(pc, call.todo, call.old, call.mine, call.new)
    /\ \A ids \in call.todo :
         ClusterSound(ids) /\ \A others \in call.todo : others = ids \/ others \cap ids = {}
    /\ call.pc = "insert" =>
         /\ call.new = Summary(call.new.from, call.new.gen, NoNode)
         /\ call.new.gen \in 1..MaxRecursionDepth
         /\ call.old = NoNode \/ (call.old \in 1..nodes /\ Follows(call.new, call.old))
    /\ call.pc = "mark" =>
         call.old \in 1..nodes /\ call.mine \in 1..nodes /\ Follows(node[call.mine], call.old)

CompressionInv ==
    /\ nodes \in 0..MaxNodes
    /\ node = [n \in 1..MaxNodes |-> Summary(node[n].from, node[n].gen, node[n].by)]
    /\ \A n \in 1..nodes :
         /\ node[n].gen \in 1..MaxRecursionDepth
         /\ node[n].by # NoNode => node[n].by \in 1..nodes /\ Follows(node[node[n].by], n)
    /\ calling = [c \in Callers |-> calling[c]] /\ \A c \in Callers : CallFits(calling[c])
=============================================================================
