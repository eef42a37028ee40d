------------------------------- MODULE Memory -------------------------------
(***************************************************************************)
(* What stores, derives and finds what the memory holds: twelve machines   *)
(* that share no state.  A behaviour is of one of them, its focus.         *)
(***************************************************************************)
EXTENDS Slots, Integers, Sequences, FiniteSets

CONSTANTS
    CanFail, None,                                                    \* of several
    Workers, DialogFacts, Topic, Negated, Messages, Resolutions,      \* Dialog
    MaxAttempts, MaxMessages,
    Namespaces, Default, VectorIds, VectorValues, Dim, Decodes,       \* VectorStore
    MaxVectors, WarmBatch, UpsertBatches, Disks,
    WalkEntities, Content, Category, Scores, Tokens, Categories,      \* Retrieval
    Worlds, Asked, Depth, Limits, Hops, MaxSeeds, TopKPerHop, VectorTopK,
    MaxArchived,
    SearchProcs, SearchIds, Texts, HasFTS, IndexHits, Limit, MaxWrites, \* HybridSearch
    Sessions, EpisodeIds, EventIds, EpisodeEntities, Roles, MaxTime,  \* Episodes
    MaxItems,
    Runners, Given, MaxRows, Near, Linked, ClusterSize, Refusable,    \* Consolidation
    Summarisers, SummaryEntities, Similar, Config, MaxRecursionDepth, \* Compression
    MaxNodes, NoNode,
    Believers, MaxBeliefs, MaxEvidence, MaxRecords, MaxClock,         \* Beliefs
    MaxEdits, GivenShares, Named,
    Entities, Weight, InitialEdges, MaxIterations, MinSize,           \* GraphAnalysis
    MaxChanges,
    Procs, Kind, FrontCallers, FrontProc, FrontIds,                   \* FrontEnds
    SchemaOf, Task, World, Closest, SimilarTo, TopK, Requests,
    Budgets,
    Processes, Script, MaxBoots,                                      \* Migrations
    StmtRequests, StmtQueries, MaxCachedStmts, MaxStmts, NoStmt           \* StmtCache

Dialog == INSTANCE Dialog WITH
    rows <- s1, vec <- s2, links <- s3, job <- s4, sent <- s5,
    Facts <- DialogFacts

Vectors == INSTANCE VectorStore WITH
    dims <- s1, matrix <- s2, pos <- s3, call <- s4,
    Ids <- VectorIds, Vectors <- VectorValues, NoVec <- None,
    Batches <- UpsertBatches

Retrieval == INSTANCE Retrieval WITH
    graph <- s1, limits <- s2, live <- s3, found <- s4, fresh <- s5,
    hop <- s6, context <- s7,
    Entities <- WalkEntities, Score <- Scores

Hybrid == INSTANCE HybridSearch WITH
    text <- s1, archived <- s2, table <- s3, fts <- s4, triggers <- s5,
    setup <- s6, pc <- s7, lexical <- s8, vectors <- s9, writes <- s10,
    failed <- s11, refused <- s12, missed <- s13,
    Procs <- SearchProcs, Ids <- SearchIds, Hits <- IndexHits

Episodes == INSTANCE Episodes WITH
    sessions <- s1, episodes <- s2, items <- s3, entities <- s4,
    reading <- s5,
    Entities <- EpisodeEntities

Facts == INSTANCE Consolidation WITH
    known <- s1, candidate <- s2, archived <- s3, about <- s4,
    vectors <- s5, byOthers <- s6, runner <- s7, sources <- s8

Summaries == INSTANCE Compression WITH
    similar <- s1, node <- s2, nodes <- s3, calling <- s4,
    Callers <- Summarisers, Entities <- SummaryEntities

Beliefs == INSTANCE Beliefs WITH
    beliefs <- s1, evidence <- s2, history <- s3, clock <- s4, pc <- s5,
    held <- s6, fresh <- s7, edits <- s8,
    Callers <- Believers, Given <- GivenShares

Graph == INSTANCE GraphAnalysis WITH
    row <- s1, edges <- s2, changes <- s3, pc <- s4, job <- s5, loaded <- s6,
    isLive <- s7, links <- s8, comm <- s9, tot <- s10, pass <- s11,
    at <- s12, moved <- s13, visited <- s14, queue <- s15, found <- s16

Front == INSTANCE FrontEnds WITH
    row <- s1, links <- s2, index <- s3, call <- s4, acked <- s5, left <- s6,
    Callers <- FrontCallers, Proc <- FrontProc,
    Ids <- FrontIds, Schema <- SchemaOf, Similar <- SimilarTo

Schema == INSTANCE Migrations WITH
    recorded <- s1, checksums <- s2, schema <- s3, tx <- s4, proc <- s5,
    calls <- s6,
    MaxCalls <- MaxBoots, NoFile <- None

Statements == INSTANCE StmtCache WITH
    cache <- s1, open <- s2, prepared <- s3, asking <- s4,
    Requests <- StmtRequests, Queries <- StmtQueries

\* The vectors are what the store is given, no text is the mark of a missing
\* row, no number is the statement that is none or a time that is not set, a
\* confidence is a pair of numbers, sizes are positive, and a file that is run
\* again changes nothing or fails.
ASSUME MemoryAssumption ==
    /\ Vectors!VectorStoreAssumption
    /\ Hybrid!HybridAssumption
    /\ NoStmt \notin Nat /\ MaxCachedStmts \in Nat \ {0}
    /\ Dialog!DialogAssumption /\ Episodes!EpisodesAssumption /\ Beliefs!BeliefsAssumption
    /\ Facts!ConsolidationAssumption /\ Summaries!CompressionAssumption
    /\ Schema!MigrationsAssumption /\ Front!FrontEndsAssumption
-----------------------------------------------------------------------------
Init ==
    \/ focus = "dialog" /\ Dialog!Init /\ From6
    \/ focus = "vectors" /\ Vectors!Init /\ From5
    \/ focus = "retrieval" /\ Retrieval!Init /\ From8
    \/ focus = "hybrid" /\ Hybrid!Init /\ From14
    \/ focus = "episodes" /\ Episodes!Init /\ From6
    \/ focus = "consolidation" /\ Facts!Init /\ From9
    \/ focus = "compression" /\ Summaries!Init /\ From5
    \/ focus = "beliefs" /\ Beliefs!Init /\ From9
    \/ focus = "graph" /\ Graph!Init
    \/ focus = "frontends" /\ Front!Init /\ From7
    \/ focus = "migrations" /\ Schema!Init /\ From7
    \/ focus = "statements" /\ Statements!Init /\ From5

Next ==
    /\ UNCHANGED focus
    /\ \/ focus = "dialog" /\ Dialog!Next /\ Keep6
       \/ focus = "vectors" /\ Vectors!Next /\ Keep5
       \/ focus = "retrieval" /\ Retrieval!Next /\ Keep8
       \/ focus = "hybrid" /\ Hybrid!Next /\ Keep14
       \/ focus = "episodes" /\ Episodes!Next /\ Keep6
       \/ focus = "consolidation" /\ Facts!Next /\ Keep9
       \/ focus = "compression" /\ Summaries!Next /\ Keep5
       \/ focus = "beliefs" /\ Beliefs!Next /\ Keep9
       \/ focus = "graph" /\ Graph!Next
       \/ focus = "frontends" /\ Front!Next /\ Keep7
       \/ focus = "migrations" /\ Schema!Next /\ Keep7
       \/ focus = "statements" /\ Statements!Next /\ Keep5

Spec == Init /\ [][Next]_slots
-----------------------------------------------------------------------------
(* What every machine keeps; the comments and the code they are about are   *)
(* in its own module.                                                       *)

\* What is written keeps its meaning however writers interleave and fail: rows
\* with their vectors and edges, episodes with their items, beliefs.
StoredIsSound ==
    /\ focus = "dialog" => Dialog!RowsStaySane
    /\ focus = "episodes" => Episodes!EpisodesKept
    /\ focus = "beliefs" => Beliefs!LinksHold

\* What is made from other rows stands for them.
DerivedIsSound ==
    /\ focus = "consolidation" => Facts!NothingUntold /\ Facts!VectorsOfRows
    /\ focus = "compression" => Summaries!SummariesSound

\* What is searched and walked gives an answer that was true of the rows that
\* were read.
FoundIsSound ==
    /\ focus = "retrieval" => Retrieval!ContextIsSound /\ Retrieval!SeedsBounded
    /\ focus = "hybrid" => Hybrid!FusionHolds
    /\ focus = "graph" => Graph!TotalsAgree /\ Graph!AnswersHold

\* The matrix and the positions of the vector store mirror each other, a start
\* that reports no error has loaded what can be decoded, and the full text
\* table holds the rows.
IndexSound ==
    /\ focus = "vectors" => Vectors!DenseAndBounded /\ Vectors!WarmIsComplete
    /\ focus = "hybrid" => Hybrid!FTSKept

\* What a process has stored it finds, through whichever of its front ends.
FrontEndsSound == focus = "frontends" => Front!FrontEndsSound

\* A file is recorded when, and only when, the schema has what it makes.
SchemaMatchesRows == focus = "migrations" => Schema!SchemaMatchesRows

\* No prepared statement is lost, and none is closed while it is used.
StatementsAccounted == focus = "statements" => Statements!StatementsAccounted

\* Steps: every step of the vector store is one of the map it implements, a
\* confidence that is propagated is that of the evidence there is, and what a
\* belief was at an instant that is over does not change.
StepsKept ==
    [][/\ focus = "vectors" => Vectors!IndexStep
       /\ focus = "beliefs" => Beliefs!WritesShare /\ Beliefs!KeepsPast]_slots
=============================================================================
