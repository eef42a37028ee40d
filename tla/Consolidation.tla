---------------------------- MODULE Consolidation ----------------------------
(***************************************************************************)
(* The consolidation of observations and facts                             *)
(* (src/internal/consolidation/service.go): read the candidates, cluster   *)
(* them, and for each chunk of a cluster have a model write one fact, then *)
(* store it, link it to its sources and archive them in one transaction.   *)
(* The loop, POST /admin/consolidate and the command line may run at the   *)
(* same time, next to ingestion and retention.                             *)
(*                                                                         *)
(* A row is a number; the rows that consolidation adds come after those    *)
(* that were there.                                                        *)
(***************************************************************************)
EXTENDS Integers, FiniteSets

CONSTANTS Runners,
          Given,        \* the rows at first, all observations
          MaxRows,      \* bound on the rows
          Near,         \* pairs of rows whose embeddings pass the threshold
          Linked,       \* pairs of given rows with an edge
          ClusterSize,
          Refusable,    \* bound: the rows to which an edge may be refused
          CanFail

VARIABLES known,      \* the rows that exist
          candidate,  \* those of a category that is consolidated
          archived,
          about,      \* row -> the rows its text was made of
          sources,    \* row -> the rows it has an edge to, "extracted_from"
          vectors,    \* the rows with a vector in the index
          byOthers,   \* history: rows archived or deleted by others
          runner

conVars == <<known, candidate, archived, about, sources, vectors, byOthers, runner>>

Rows == 1..MaxRows
At(pc, chunks, chunk, made) == [pc |-> pc, chunks |-> chunks, chunk |-> chunk, made |-> made]
Asleep == At("idle", {}, {}, 0)
Goto(w, run) == runner' = [runner EXCEPT ![w] = run]

Init ==
    /\ known = Given /\ candidate = Given /\ vectors = Given
    /\ archived = {} /\ byOthers = {}
    /\ about = [r \in Rows |-> {}] /\ sources = about
    /\ runner = [w \in Runners |-> Asleep]
-----------------------------------------------------------------------------
\* ClusterEntitiesWithEdges: union-find over all pairs that are near or have
\* an edge, in either direction.
Joined(a, b) ==
    LET pair(R) == <<a, b>> \in R \/ <<b, a>> \in R
    IN  pair(Near) \/ pair(Linked) \/ a \in sources[b] \/ b \in sources[a]

\* The component of a row among those that were read: what is in every set
\* that has the row and, with a row, those that are joined to it.
Component(a, rows) ==
    LET closed(c) == \A e \in c : \A d \in rows : Joined(e, d) => d \in c
    IN  {b \in rows : \A c \in SUBSET rows : a \in c /\ closed(c) => b \in c}

\* A cluster is cut into chunks, in the order of its rows; a chunk of one row
\* is left for another time.
Place(cluster, r) == Cardinality({s \in cluster : s < r})
Chunk(cluster, start) == {r \in cluster : Place(cluster, r) \in start..(start + ClusterSize - 1)}
Chunks(cluster) ==
    LET starts == {n \in 0..Cardinality(cluster) : n % ClusterSize = 0}
    IN  {c \in {Chunk(cluster, start) : start \in starts} : Cardinality(c) >= 2}

\* loadCandidateEntities, loadEdgeSet; the edges are read a moment later.
Load(w) ==
    LET rows == (candidate \cap known) \ archived IN
    /\ runner[w].pc = "idle"
    /\ Goto(w, At("chunk", UNION {Chunks(Component(a, rows)) : a \in rows}, {}, 0))
    /\ UNCHANGED <<known, candidate, archived, about, sources, vectors, byOthers>>

\* The model is asked about one chunk, and the answer embedded.
Ask(w) ==
    /\ runner[w].pc = "chunk"
    /\ \E c \in runner[w].chunks :
         Goto(w, At("answer", runner[w].chunks \ {c}, c, 0))
    /\ UNCHANGED <<known, candidate, archived, about, sources, vectors, byOthers>>

\* It fails, or extracts nothing: the chunk is left.
NoAnswer(w) ==
    /\ runner[w].pc = "answer"
    /\ Goto(w, At("chunk", runner[w].chunks, {}, 0))
    /\ UNCHANGED <<known, candidate, archived, about, sources, vectors, byOthers>>

\* Mutant of Commit: a failed INSERT is only logged, like the other two.
CommitWithoutRow(w) ==
    LET new == Cardinality(known) + 1
        mine == runner[w].chunk
    IN  /\ runner[w].pc = "answer" /\ new <= MaxRows
        /\ known' \in {known, known \cup {new}}
        /\ candidate' = candidate
        /\ about' = [about EXCEPT ![new] = IF new \in known' THEN mine ELSE {}]
        /\ sources' = [sources EXCEPT ![new] = about'[new]]
        /\ archived' = archived \cup mine
        /\ Goto(w, At("store", runner[w].chunks, mine, new))
        /\ UNCHANGED <<vectors, byOthers>>

\* The transaction.  Only the INSERT of the row can stop it: an edge that is
\* refused, to a source that is gone for one, leaves the fact without it, and
\* an UPDATE that fails leaves the sources live.  The category is the model's,
\* if it is one of the allowed ones.
Commit(w) ==
    LET new == Cardinality(known) + 1
        mine == runner[w].chunk
    IN  /\ runner[w].pc = "answer" /\ new <= MaxRows
        /\ known' = known \cup {new}
        /\ candidate' \in {candidate, candidate \cup {new}}
        /\ about' = [about EXCEPT ![new] = mine]
        /\ \E refused \in SUBSET (mine \cap Refusable) :
              sources' = [sources EXCEPT ![new] = mine \ refused]
        /\ archived' \in {archived \cup mine} \cup (IF CanFail THEN {archived} ELSE {})
        /\ Goto(w, At("store", runner[w].chunks, mine, new))
        /\ UNCHANGED <<vectors, byOthers>>

\* Rolled back: busy, or the context is done.
CommitFails(w) ==
    /\ CanFail
    /\ runner[w].pc = "answer"
    /\ Goto(w, At("chunk", runner[w].chunks, {}, 0))
    /\ UNCHANGED <<known, candidate, archived, about, sources, vectors, byOthers>>

\* The index: the vector of the new row, if it could be embedded, and then
\* those of the sources; errors are not looked at.
StoreVector(w) ==
    /\ runner[w].pc = "store"
    /\ vectors' \in {vectors \cup {runner[w].made}} \cup (IF CanFail THEN {vectors} ELSE {})
    /\ Goto(w, At("remove", runner[w].chunks, runner[w].chunk, 0))
    /\ UNCHANGED <<known, candidate, archived, about, sources, byOthers>>

RemoveVectors(w) ==
    /\ runner[w].pc = "remove"
    /\ vectors' \in {vectors \ runner[w].chunk} \cup (IF CanFail THEN {vectors} ELSE {})
    /\ Goto(w, At("chunk", runner[w].chunks, {}, 0))
    /\ UNCHANGED <<known, candidate, archived, about, sources, byOthers>>

Sleep(w) ==
    /\ runner[w].pc = "chunk" /\ runner[w].chunks = {}
    /\ Goto(w, Asleep)
    /\ UNCHANGED <<known, candidate, archived, about, sources, vectors, byOthers>>

\* Retention archives a row that nobody refreshed, with its vector.
Retire(r) ==
    /\ r \in Given \ (archived \cup byOthers)
    /\ archived' = archived \cup {r} /\ byOthers' = byOthers \cup {r}
    /\ vectors' = vectors \ {r}
    /\ UNCHANGED <<known, candidate, about, sources, runner>>

Step(w) ==
    Load(w) \/ Ask(w) \/ NoAnswer(w) \/ Commit(w) \/ CommitFails(w) \/ StoreVector(w)
    \/ RemoveVectors(w) \/ Sleep(w)

Next == (\E w \in Runners : Step(w)) \/ \E r \in Given : Retire(r)

Spec == Init /\ [][Next]_conVars
-----------------------------------------------------------------------------
\* What tells of a row: what is in every set that has the row and, with a row,
\* the facts made of it.
Told(r) ==
    LET closed(c) == \A s \in known : about[s] \cap c # {} => s \in c
    IN  {t \in known : \A c \in SUBSET known : r \in c /\ closed(c) => t \in c}

\* However runs overlap, and whatever statement of theirs fails, what one of
\* them has archived is told by the text of a row that is still live, or that
\* others than consolidation have archived; a row is made of at least two
\* older ones, and never of more than a chunk.  The edges are not promised:
\* "archives sources with provenance" (README.md:123) fails with an edge whose
\* error nobody looks at (service.go:243-246).
NothingUntold ==
    /\ \A r \in archived \ byOthers :
         LET told == Told(r) IN (told \ archived) # {} \/ told \cap byOthers # {}
    /\ \A r \in Rows : about[r] # {} =>
         Cardinality(about[r]) \in 2..ClusterSize /\ \A s \in about[r] : s < r

\* A vector belongs to a row (service.go:253-262).
VectorsOfRows == vectors \subseteq known
-----------------------------------------------------------------------------
\* RunOnce takes 20 for a size that is not positive (service.go:98-100).
ConsolidationAssumption ==
    /\ ClusterSize \in Nat \ {0} /\ MaxRows \in Nat
    /\ \E g \in 0..MaxRows : Given = 1..g

IsChunk(c) == c \subseteq known /\ Cardinality(c) \in 2..ClusterSize

RunFits(run) ==
    /\ \E pc \in {"idle", "chunk", "answer", "store", "remove"}, made \in 0..MaxRows :
         run = At(pc, run.chunks, run.chunk, made)
    /\ \A c \in run.chunks : IsChunk(c)
    /\ run.pc = "answer" => IsChunk(run.chunk)
    /\ run.pc = "store" => run.made \in known

\* A row that is archived was archived by others or has a fact made of it.
Traced ==
    \A r \in archived : r \in known /\ (r \in byOthers \/ \E n \in known : r \in about[n])

ConsolidationInv ==
    /\ \E k \in 0..MaxRows : known = 1..k
    /\ about \in [Rows -> SUBSET Rows]
    /\ \A r \in Rows : about[r] # {} =>
         Cardinality(about[r]) \in 2..ClusterSize /\ \A s \in about[r] : s < r
    /\ vectors \subseteq known /\ Given \subseteq known
    /\ runner = [w \in Runners |-> runner[w]] /\ \A w \in Runners : RunFits(runner[w])
    /\ Traced
=============================================================================
