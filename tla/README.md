# Verification of hermem

TLA+ models of hermem, the TLC runs that check them on small instances, and
TLAPS proofs of what holds for every instance. Paths are relative to
`src/src/internal/` unless they start with `src/`. `PROJECT.json` maps every
definition to the lines it stands for and lists the components, hazards, runs,
findings and theorems.

## 1. Inventory

hermem is one process over one SQLite file. `store/init.go:66-91` opens it in
WAL mode with `busy_timeout` 5000 and `SetMaxOpenConns(1)`: **one** pooled
connection. A statement, or a transaction made with `BeginTx`, is therefore
atomic with respect to every other goroutine; a `BEGIN` sent as a plain statement
is not. The vector index is memory outside the database and follows it by separate
calls. Goroutines come from HTTP handlers, the MCP loop, the ingestion workers, the
retention and consolidation tickers and the metrics worker. A command of the CLI is
a process of its own, with an index of its own, over the same file.

| Component | State | Operations | Talks to | Hard behaviour | Correct when |
|---|---|---|---|---|---|
| EntityLocker `store/locker.go` | one token per shard | LockCtx, Unlock, AcquireBatchCtx, release | callers' contexts | lock order, cancellation in a batch | exclusion, no leaked token, no deadlock |
| Retention `retention/service.go` | none of its own | RunOnce (ticker, `POST /admin/retention/run`) | connection, index | raw transaction on a shared connection, cancellation | a batch is archived as a whole, nobody else's write is lost, vectors go after the commit |
| Entity store `store/entity.go` | rows, vectors | StoreEntityWithEmbedding, SetStatus, readers | connection, index | two stores without a transaction, compensation | a live row is searchable |
| Ingestion loop `ingestion/dialog.go:386-511`, `checkpoint.go` | channel, semaphore, counter, two files | dispatch, drain, checkpoint, replay | item pipeline, producer | out-of-order completion, crash, cancellation | what the checkpoint covers was processed; nothing runs after the return |
| Item pipeline `ingestion/dialog.go`, `worker.go`, `contradiction_handler.go` | a plan per message | match, merge, resolve, store, post-commit index calls, BUSY retry | models, connection, index | stale search results, failing items | a row never says a fact and its negation; vectors belong to rows |
| Task store `store/task.go`, `task_executable.go`, `edge.go` | status per task, edges | claim, status, abort dependents, add and delete edges | connection | several workers, graph edits, cascades | one worker per task, order of the graph, no cycle |
| Task service `task/service.go` | none | Status, ClaimNextTask, Dep, Create, RollbackCascade | task store | the two statements of a failure, lost answers | every task ends |
| Rollback `store/recovery.go`, AgentLoop `orchestrator/service.go` | visited set, a list | CascadeRollback, AgentLoop | task store | partial failure, stale list, cycles | nothing downstream is skipped, both end |
| Vector store `vector/provider.go`, `warm.go` | a dense matrix and positions per namespace | upsert, delete, warm | start-up | swap-remove, limits, refused records | refines a map from ids to vectors |
| Front ends `memory`, `edge`, `vector/index.go`, `mcp`, `cli` | an index per process | store, task create, edge with auto-create, search | models, store, index | statements of several calls interleave | what a process stored it finds; checks end |
| Hybrid search `vector/hybrid.go` | full text table, triggers | EnsureFTS, search | database shared by processes | set-up without a transaction | the table follows the rows; fusion keeps dominance |
| Retrieval `retrieval` | statement cache | walk, rank, rerank, trim, hops | connection, reranker, index | rows archived on the way, shared statements | the answer is what the walk could see |
| Episodes `episodic` | sessions, episodes, events, links | create, link, timeline, summary | models, connection | three queries per timeline | complete, ordered, no dangling link |
| Beliefs `memory/belief`, `memory/evidence`, `evolution` | beliefs, evidence, history | create, supersede, propagate, state at | connection | read-read-write propagation | confidence is the share of the evidence; the past stays |
| Consolidation `consolidation`, compression `compression` | none | batch jobs around model calls | models, connection, index | stale chunks, overlapping callers | what is archived is told by a live row |
| Graph analysis `store/graph.go`, `graph/community` | none | components, communities | connection | two queries, integer bookkeeping of moves | a partition of what was read |
| Re-embedding `reembed` | none | ReEmbedAll | models, connection, index | a statement while rows are open | accounts add up; it ends |
| Migrations `store/migration.go` | schema, records | boot, roll back | several processes | crash, duplicate statements | recorded means applied |
| Metrics worker `metrics/worker.go`, metrics `metrics/metrics.go` | channel, buffer; counters twice | Touch, flush, Stop; count, read | connection, handlers | full queue, Touch during Stop; two views | no access lost unnoticed; views agree |
| HTTP server `server`, `auth`, `httputil`, `serverstate`, `server/ratelimit` | state and limiter references, buckets | a request, SIGHUP reload | every service | reload against requests, eviction | one generation per request, rate kept |
| Process `src/main.go`, `app`, `cli/env`, `lifecycle` | two handles, contexts, environments | start, serve, stop, reload | all | signals, drains, failed starts | nobody uses a closed handle; it ends |
| AI clients `ai` | none | a call with retries, rerank | model servers | body read twice, cancellation | at most the allowed attempts; no candidate lost |
| Configuration `config`, `cli/admin/keys.go` | files | load, validate, reload, edit keys | start-up, SIGHUP | line edits, defaults | what runs is usable; what was told is loaded |

`EntityLocker` and `MemoryWorkerResilient` are complete and tested, but nothing in
the repository's production code calls them yet; `ConfidenceLifecycle` is not
started either, and most `Observe*` methods of the metrics have no caller. The first
two are modelled for what they promise their callers.

## 2. Modules

| Module | What it is |
|---|---|
| `EntityLocker` | the striped lock, any callers, ids, shards and hash |
| `Retention` | sweep, storing clients and ingest transactions on the one connection |
| `ResilientLoop` | the ingestion loop with its goroutines, files, crashes and restarts |
| `TaskStore`, `TaskWorkers` | the task graph, one operator per statement; workers, editors, ingestion and re-created tasks on it |
| `TaskBoard` | abstract specification of what workers are promised; `TaskWorkers` refines it |
| `TaskRollback` | CascadeRollback and AgentLoop on one graph |
| `Dialog` | the pipeline of a message: search, match, merge, contradict, commit, index |
| `VectorStore` | the dense matrix, batches and warm-up |
| `SearchIndex` | abstract: a map from ids to vectors with honest refusals; `VectorStore` refines it |
| `FrontEnds` | daemon, MCP and CLI processes on one database, call by call |
| `Retrieval`, `StmtCache` | the walk from seeds to a trimmed context; the shared prepared statements |
| `HybridSearch` | the full text table, its set-up and the fusion |
| `Episodes`, `Beliefs` | episodic memory; beliefs, evidence, propagation, history |
| `Consolidation`, `Compression` | derived rows: facts of observations, summaries of clusters |
| `GraphAnalysis` | components and Louvain communities |
| `Migrations` | files, statements, transactions, several processes |
| `ReEmbed` | the batch on a pool of one connection |
| `MetricsWorker`, `Metrics` | access batching; the doubled counters |
| `RateLimiter`, `HttpRoutes`, `ApiServer` | buckets; tables of routes and scopes; a request through both with reloads. `ApiServer` extends the other two |
| `EnvManager`, `Process` | generations of the environment; one run of the program |
| `AiClient`, `ConfigLoad`, `ConfigFile` | a model call; settings from file to server; edits of the keys |
| `Slots` | the state of one machine out of several (see below) |
| `Memory`, `Service` | twelve and nine of the machines above side by side (see below), with their assumptions and what each keeps |
| `MC*` | the constants of the small instances |
| `*Proofs` | theorems about the module of that name; those of `Memory` are in `MemoryProofs` and `MemoryRowsProofs`, those of `EntityLocker` at its end |

A definition whose comment begins with "Mutant of" is a plausible bug in the
definition it names. No specification uses it; it shows that a property notices
the bug. A property that has several parts has several of them, one or more per
part; `PROJECT.json` names one for each property of each run.

### EntityLocker

`sem[s]` is the number of tokens in the channel of shard `s`. `Call` is the entry
of AcquireBatchCtx (duplicates removed, the set is what remains), `Lock` one
LockCtx whose receive succeeded, `LockCancelled` its other branch with the error
return into the rollback, `Unlock` one channel send of the rollback or of the
release function, `Release` the call of that function, `CtxDone` the caller's
context. A `select` with both cases ready takes either, so `Lock` is not guarded by
the context. Ids are their ranks in lexical order; `ShardOf` is any function.

### Retention

`work` is the table as the connection sees it, `durable` as of the last commit,
`inTx` says that a raw `BEGIN IMMEDIATE` is open, `txOwner` which `sql.Tx` has the
connection. A row keeps its version, `archived`, and whether it is a stale
observation. `SweepSelect`, `SweepClear` (the defensive ROLLBACK), `SweepBegin`,
`SweepUpdate`, `SweepCommit`, `SweepRollback`, `SweepVectors` are the statements
of RunOnce in order; `StoreVector`, `StoreRow`, `StoreRowFails`, `StoreUndo` are
StoreEntityWithEmbedding with its compensation; `IngestBegin`, `IngestCommit`,
`IngestRollback`, `IngestVectors` are executeItemTx and applyVIOps. `Write` is an
autocommit statement: durable at once outside a transaction, part of the raw one
inside. `acked` is a history variable: what the last writer was told is stored.

### ResilientLoop

Messages are numbers in stream order. The loop has the places `select`,
`dispatch` (a message in hand, waiting for a slot), `drain`, `wait`, `flush`,
`exited`; a goroutine goes through process, count, load, save, because
`processed.Add`, `processed.Load` and the rename are three steps that interleave
with those of the others. `Restart` is a crash or a restart at any point: the
files remain, the producer replays the pending file and skips what the checkpoint
covers, as `ingestion/checkpoint.go:22-25` and `:94-96` describe it. The loop discards what
LoadCheckpoint returns and counts from zero, and so does the model.

### TaskStore, TaskWorkers, TaskBoard, TaskRollback

A task is its rank in the order of ids. `Claim` is the one `UPDATE ... RETURNING` with
its ordering by priority and id, `ClaimLost` the same with the answer lost (the code
documents this at `store/task_executable.go:37-42`), `Fail` and `Abort` the two
statements of a failed status, `Complete` the other final status: what a worker posts
about the task it has. `Post` is `POST /task/status` by anybody, for any task and any
valid state, and `RollbackStart`, `RollbackVisit`, `RollbackRoll` the rollback of a cascade
(`store/recovery.go`), task by task; neither asks who has the task. `EditEdge` is
`POST /task/dep` (AddEdge with its recursive check, DeleteEdge), `Ingest` the edge
insertion of the pipeline, which has no check, `StoreAgain` a task created under an
id that exists. `hung` is set when the `UNION ALL` recursion of the check does not
end because a cycle is already there; nothing else can use the connection then.
States are those of `src/hermem.docker.ini`. `TaskBoard` says: a task is taken
at most once and only when everything upstream of it is done; it is dropped when
it failed or something upstream was dropped. The refinement mapping gives a
task its transitive predecessors, maps the four statuses to the board's states and
`owner` to `holder`; `ClaimLost` maps to `Lose` and a whole cascade to one `Drop`.

In `TaskRollback` the cascade visits one task of its queue per step and may fail
at each; the agent loop executes a list that it has read in one query, one task per
step, and asks for the next list afterwards.

### What a process stores, derives and finds

* **Dialog.** A fact is a normalised content, and its hash the id, so the fact
  stands for the id. `Receive` and `Search` embed and search for every item of a message before
  the first one is processed; `Match` plans one item from that old answer, `Commit` is the
  transaction of the item, `CommitFails` its retries and its end, `VectorOp` one operation
  on the index afterwards. Which pairs are close or negate each other are constants.
* **VectorStore.** A record per step; the lock makes a batch atomic to readers, and
  `call` holds the rest of it. `Restart` empties memory, `WarmRow`, `WarmFlush`, `WarmNext`
  are Warm with its batches. The mapping to `SearchIndex` reads the vector of an id through
  its position.
* **FrontEnds.** A call goes from step to step (embed, upsert, insert, links, edges, context,
  answer) and others run between them; the daemon and a command have an index each. A command
  starts from the rows, the daemon from its own memory. `Reached` and `Cyclic` are the recursion
  of AddEdge, which ends only in an acyclic graph.
* **Retrieval.** `Expand` returns every result the SQL order allows; ranking, buckets,
  reranking and trimming are operators on it, and hops add seeds. Scores are integers.
* **StmtCache.** Look-up, prepare, insert, query and drop are five steps, since the lock
  covers the map only.
* **HybridSearch.** Each statement of EnsureFTS is a step that may fail unnoticed;
  triggers that exist fire with every write. A MATCH that fails is answered with LIKE. The fusion is exact, in multiples of a common
  denominator.
* **Episodes.** The timeline is three queries in three steps. Times are 0 (the default
  of the column) or what the caller gives.
* **Beliefs.** A confidence is a pair and stands for a fraction. A status is what the caller
  names; the service puts "Active" for none, the table refuses an unknown one. `PropagateList`,
  `PropagateGet` and `PropagateUpdate` are three statements of one call.
* **Consolidation, Compression.** Callers hold what they have read while a model answers;
  every later write is a step or, for the chunk, one transaction, in which the errors of single
  edges and of the archiving UPDATE go unnoticed as in the code. `about` is what a row was made
  of, `sources` the edges that say so.
* **GraphAnalysis.** `ReadEntities` and `ReadEdges` are two queries with writes between
  them. Modularities are integers (times 4m²).
* **Migrations.** A statement is what it needs, gives, takes, and the name whose
  presence makes it a duplicate; files are the shapes of 011, 013 and 015.

### What a process does and is

* **ReEmbed.** `conn` is the pool of one: "rows" while the SELECT is open.
* **MetricsWorker, Metrics.** A bounded channel, a buffer that is emptied by a
  transaction that may be refused; each counter is an atomic and a Prometheus counter, added
  to one after the other.
* **ApiServer.** A request is authenticated, takes the limiter of that moment, is
  admitted, checked against the state of that moment, perhaps checked for staleness, and
  served. `StoreState` and `SwapLimiter` are the halves of a reload; the clock ticks and
  `Sweep` evicts. `HttpRoutes` has the tables of `server/*/*_service.go` and `src/api/paths.go`.
* **EnvManager, Process.** Generations of the environment with writers and drains; the
  program from main to its exit code, with both database handles, the hook, the lifecycle
  manager, background goroutines, requests and two contexts that see the signal.
* **AiClient.** One call: prepare, execute, classify, wait, decode, reorder.
* **ConfigLoad, ConfigFile.** Which file is read, what each key becomes, validation,
  start and SIGHUP; the lines of a file as `hermem admin keys` rewrites them and as the next start
  reads them, an `api_key` included. Values are the classes the code tells apart. `lost` has what
  was added and is not loaded.

### Machines side by side

`Memory` and `Service` hold the second and the third group, and one run is about each. The
variables of a machine are slots `s1`..`s16`; `focus`, chosen by `Init` and never changed, says whose they are. A behaviour
is therefore one of ONE machine, with its own callers interleaved, and the slots it does not use
stay "off". Machines that share state in the code are not put side by side this way: sweep,
store and ingestion share `Retention`, task clients share `TaskStore`, the request, the limiter
and the reload share `ApiServer`, and front ends share `FrontEnds`. A composite property is
the conjunction of what each machine keeps, under its focus. The inductive invariant of a
machine stands at the end of its own module.

## 3. Runs

All finish within four minutes with two workers.

| Run | Expect | What it shows |
|---|---|---|
| `EntityLocker_ordered` | pass | exclusion, no leaked token, no wait cycle, no deadlock (checked by TLC as well), every call returns, with cancellation anywhere |
| `Retention_serial` | pass | one sweep, one client, one ingester interleaved by statement without failures: no write lost, index and rows agree at rest, stale rows go |
| `Retention_faults` | pass | failing statements and a cancelled sweep: batches are atomic, an open transaction has an explanation, and a rollback takes back nothing but what was written while its transaction was open |
| `Retention_lostwrite` | violation | an acknowledged write is rolled back with the sweep |
| `ResilientLoop_faults` | pass | two slots, failing messages, cancellation and a restart anywhere: an honest checkpoint, a bound on what it lets a producer skip unprocessed, at most one message dropped, a cancelled loop returns, and every message is accounted for in the end |
| `ResilientLoop_skipped` | violation | the checkpoint covers a message that is still in hand, with two slots and nothing failing |
| `TaskWorkers_order` | pass | order of the graph, causes of failures, refinement of `TaskBoard`, every task ends |
| `TaskWorkers_edits` | pass | exclusivity, acyclicity and held statuses while others post statuses, roll back, edit the graph and store tasks again |
| `Server_reload` | pass | a request is decided by one generation of its own time, which is current when a handler looks twice, the rate is kept but for what evictions of buckets that are not full give away, keys of the read scope read, and routes are as described |
| `Memory_sound` | pass | twelve machines: what is stored, derived, found, indexed, migrated and prepared, and what front ends write and search, stays sound through interleavings and failures; `StepsKept` holds the refinement of `SearchIndex` and the steps of beliefs |
| `Service_sound` | pass | cascade, batch, access counts, handles, model calls, settings, counters; and that what starts ends |
| `ReEmbed_stuck` | violation | a full batch waits for the connection its own rows hold |

### Bounds, and why they are enough

* EntityLocker: three callers, three ids, three shards; batches overlap pairwise, one
  is empty and one takes everything, so chains of waiting over three callers
  occur. The shards do not collide; section 5 has the ones that FNV-1a with the
  default mask gives real ids.
* Retention: two entities, `MaxVer` = 3 writes. Batches of one leave work for a
  second sweep, batches of two (faults run) give the sweep two rows to treat as a
  whole. Three writes are: an entity stored, swept or undone, and stored again, with
  one to spare for the other entity.
* ResilientLoop: three messages over two slots (one waits for a slot), channel
  capacity two, one restart. The code has eight slots; two are enough for completions out of
  order, and the theorems have any number. Four messages, and a second run with saves that
  fail, were checked by hand: 1,105,300 and 1,758,769 states.
* TaskWorkers: all 543 acyclic graphs on four tasks with one task of higher
  priority and two workers, without edits; all 25 on three tasks with two edits (a post, a
  rollback, an edge, an ingestion or a task stored again each), lost answers and failing
  cascades. Two edits are enough for an ingested two-cycle, for a delete followed by an add, and
  for a task set back to pending in the hands of a worker while a rollback is under way.
* ApiServer: two clients, a key of each scope, four requests, one reload, one
  tick, a burst of two at a rate of one and an IdleTTL of zero: a bucket is emptied, evicted
  before it is full and made again; a request begins before a reload and ends after it, with the
  reload anywhere between its checks; two vocabularies that have nothing in common.
* Dialog: two workers, two messages of up to two items over a fact, one that
  merges with it and one that denies both, so that a search result is stale in every way a
  second worker can make it. Two attempts.
* VectorStore: a limit of two vectors over two namespaces and four ids; batches of which the
  second record does not fit or is not decoded; tables that fail in the middle.
* FrontEnds: two callers of the daemon and a command, with four distributions of calls among
  them: three calls of the daemon one after the other; two of one caller and one of the other
  that overlap (two similar stores link each other, and a check then runs into the cycle); one
  of the daemon that a command runs through; two commands. Longer mixes are left to the
  theorem, which has no bound.
* HybridSearch: two processes that set up one table of two rows, one write at any point, also
  during a set-up; every statement may fail. The theorem has any number of writes.
* StmtCache: three requests, two queries, a cache of one, four statements: a race of two for
  one query, an eviction, and a request whose statement was replaced.
* Migrations: two processes and four calls over three files. Compression, consolidation,
  episodes, beliefs: two callers or a caller and writers, and as many rows as a chain needs.
* GraphAnalysis: paths, a cycle with a chord, two parts with a loop, unequal weights.
* Process: each kind of command, two requests, every point for a signal and for a failing
  start. EnvManager: four generations, one writer. AiClient: every list of up to three answers
  of a reranker, all limits of attempts. ConfigLoad: eight files, one edit. ConfigFile: ten
  files (none at all; a setting, another section before or after `[server]`; an `api_key`; the list
  twice; no newline at the end), four edits. MetricsWorker: channel of one, batches of two, four accesses.
* Symmetry is used in two runs only (`Server_reload`, `TaskWorkers_edits`), which have safety
  and step properties.

Deadlock is checked in `EntityLocker_ordered`, where somebody can always go on. The others stop
legitimately: a bound on calls or writes is used up, the loop has exited, all tasks ended, or a
statement hangs.

### Fairness

* EntityLocker: local steps are weakly fair (the runtime schedules goroutines;
  callers defer the release). `Lock` is strongly fair: Go queues the receivers of a
  channel in arrival order. No fairness for calls or contexts.
* Retention: statements are strongly fair, because `database/sql` queues
  requests for a connection; the ticker keeps starting sweeps. Clients need not write.
* ResilientLoop: goroutines, the loop and the drain timer are weakly fair;
  processing ends, since it runs under a timeout. The producer is fair only as the hypothesis of
  `StreamAccounted`, so `CancelledReturns` holds for a producer that never closes the channel.
* TaskWorkers: idle workers keep claiming without a goal and a claimed task ends in one of the
  two reports.
* Service_sound: the loops of cascade and agent, the batch, the main goroutine and a
  model call are weakly fair: straight-line code that the runtime schedules. Nothing is
  assumed of signals, requests, contexts and background goroutines: a program that is not
  signalled need not end, and one that is ends although a handler never does.
* ReEmbed_stuck: the batch is weakly fair, nobody edits and nothing fails, so that the
  counterexample is the wait and nothing else.

## 4. Proofs

Each theorem holds for all values of the constants that satisfy the named
`ASSUME` of its module, plus the premises below.

| Theorem | States | Premise |
|---|---|---|
| `EntityLocker!TypeCorrect`, `Exclusion`, `NothingLeaks` | TypeOK, EntityExclusive, ShardsGivenBack | none |
| `EntityLocker!NoDeadlockWithoutCollisions` | no self-wait and NoABBADeadlock | no two ids share a shard |
| `RetentionProofs!TypeCorrect`, `NoOrphan` | TypeOK, NoOrphanTx | none: any number of overlapping sweeps, failures, cancellations |
| `RetentionProofs!ArchivedTogether` | ArchiveIsAtomic | one sweeper |
| `RetentionProofs!NoVectorDrift` | VectorsGoAfterCommit | one sweeper, never cancelled |
| `RetentionProofs!DurableStaysStored` | DurableStays | none |
| `RetentionProofs!VisibleIsFound` | LiveIsSearchable | one sweeper, never cancelled, and no failing statement |
| `ResilientLoopProofs!TypeCorrect`, `Slots`, `CheckpointSound`, `Bounded`, `OneDropped` | TypeOK, SlotsRespected, CheckpointNotAhead, GoroutinesBounded, AtMostOneDropped | none |
| `ResilientLoopProofs!ReturnIsClean`, `Honest` | the return and the last checkpoint, CheckpointHonest | where it is about the last checkpoint: it can be saved |
| `ResilientLoopProofs!SkipIsBounded` | SkippedAccounted | none |
| `TaskWorkersProofs!TypeCorrect`, `ClaimedOnce`, `HeldTasksStand`, `NeverCyclic` | TypeOK, ClaimExclusive, HeldTaskStands, GraphStaysAcyclic | none |
| `TaskWorkersProofs!OrderKept`, `RefinesBoard` | OrderHolds, BoardKept | nobody edits (`MaxEdits = 0`) |
| `ApiServerProofs!OneGeneration`, `RoutesAreSound` | ServedInItsTime, RoutesSound | none |
| `ApiServerProofs!NeverOverRate`, `UsesLimiters`, `RateHolds` | AdmittedBounded of the limiters; the server is one of their users; AdmittedBounded of the server | none: any burst, rate and idle time |
| `ServiceProofs!RollbackKeeps`, `AccountsAlwaysHold`, `CallsAreSound`, `CountersAgree`, `SettingsAlwaysSound` | RollbackKeepsGraph, AccountsHold, CallIsSound, CountersAddUp, SettingsSound | none |
| `ServiceProofs!HandlesAlwaysOpen` | HandlesStayOpen | one writer of the environment at a time |
| `MemoryProofs!StoredStaysSound`, `IndexAlwaysSound`, `NoStatementLeaks` | StoredIsSound, IndexSound, StatementsAccounted | none |
| `MemoryProofs!StepsAlwaysKept`, `VectorsImplementIndex` | StepsKept, the refinement of `SearchIndex` | none |
| `MemoryRowsProofs!SchemaAlwaysMatches` | SchemaMatchesRows | none |
| `MemoryRowsProofs!DerivedStaysSound`, `FrontEndsStaySound` | DerivedIsSound, FrontEndsSound | none |

`ServiceAssumption` and `MemoryAssumption` say what the constants are: rows are numbered, limits
are positive, a mark of absence is none of the values. One part is about the program:
`MigrationsAssumption` says of the files that one that is run again, after any of the later
ones, changes nothing or comes to a statement that fails. It holds of 011, 013 and 015, whose
shapes TLC has, and of 013 it is the second case. The premise of `HandlesAlwaysOpen` is needed:
section 5 has what two writers do.

The arguments:

* **EntityLocker.** The inductive invariant says that every locked id is
  acquired by one caller (`OneHolder`), that a token is out exactly when some acquired id has its
  shard (`TokenOut`), that what a caller has and lacks is its batch (`BatchProgress`) and that it
  has the smaller ids (`Ascending`). Exclusion on ids needs exclusion on shards,
  and that needs the tokens counted; without `TokenOut` an Unlock might
  add a second token.
* **Retention.** `NoOrphanTx` is inductive given the types. For the
  vectors, `TxShape` ties the raw transaction to the place of the one sweeper,
  `RowShape` says that stale rows exist and that writers write real versions, and
  `BatchShape` that the rows of a batch exist until the UPDATE and are archived
  from then on (an upsert keeps `archived`). With a second
  sweeper `TxShape` is not invariant; section 5 shows what happens.
  `Findable`: a row that is not archived has its vector or an ingester about to write it, and a storer has
  written the vector before the row. `Atomic`: no row of a batch is archived durably until its
  COMMIT, even when a cancelled sweep leaves its transaction open. `Pending`, for any number of
  sweepers: what the connection sees of a row and is not durable was written in the raw
  transaction that is open, by a writer who was told; so a COMMIT makes durable what was
  acknowledged, and a ROLLBACK, whoever sends it, takes back nothing older (`DurableStays`).
* **ResilientLoop.** `Fresh` says that a message on its way is in one
  place only and has no goroutine; with it the counter is bounded by `Counted`
  (goroutines past their increment) and the stream's length. `Sure` is the same
  set restricted to messages that succeeded: the counter is bounded by it, so every
  value loaded, saved or left by an earlier run is at most the number of
  successes, whatever order the renames land in.
  For `SkippedAccounted`: messages are handed to goroutines in the order of the stream
  (`InOrder`), and a number about to be saved is a count of this run's messages that came to an
  end. Among the first messages as many as that number, what is neither settled nor given up
  before is still in hand, and the goroutine that saves is not among them (`Settled`): at most
  `MaxParallel - 1`. Each restart gives up as many again (`Lost`). For
  `AtMostOneDropped`, `DropInv` says that a message that left the channel since the last start
  has a goroutine or is in the drain, but for the one the loop holds.
* **TaskWorkers.** `Held`: a task in hand is not pending unless a call about it set it back;
  a claim selects pending tasks and a cascade touches only those, so nobody
  else gets or changes it without naming it. Acyclicity: an edge that
  passes the check joins `u` to something `u` is not reached from, and `SafeEdge`
  shows that this keeps an acyclic graph acyclic. Order: a claim looks at the direct
  blockers, so the invariant is `DirectOrder`, which `OrderLifts` carries to whole paths: the tasks
  that are not started are closed under edges; `Due` says what an aborting worker
  still owes. The refinement uses these for `Take` and `Drop`.
* **ApiServer.** `Passed` says for every place of a request what has been decided before it:
  entitled from the limiter on, checked against `gen` from the check on, with `gen` between
  the generation at its start and the current one, and `asof`, the generation the second look
  found, the same. A reload only appends, so
  what was decided of a generation stays decided. `RoutesAreSound` goes over the rows of the two
  tables once (`MountedKept`, `DocumentedTold`); the rest is `Passed`.
* **Limiters.** `Paid` says that what a key was admitted, plus what its bucket still
  holds, is within the burst, the refill up to the last use and what evictions gave away. An
  evicted bucket comes back full; it had at least what the rate adds in IdleTTL + 1 ticks, so that
  one eviction gives away `Unearned` at most. That is nothing where a burst is refilled within
  IdleTTL, which the code does not check and the theorem does not assume. A step of the
  server is one of the limiters or does not touch them, so that the bound carries over.
* **Service, Memory.** A step is a step of the machine in focus, in its slots; so each theorem is the
  conjunction of what the machines prove alone, and the machines do not see each other.
* **TaskRollback.** Everything visited was rolled back, is shielded or is at hand, and the children of what was
  rolled back are visited or queued. The agent's runs and its list stay under the number of
  paths from the goal, by induction over the acyclic graph.
* **ReEmbed, MetricsWorker, Metrics.** Sums: every row read is counted once or in the batch;
  every access is in the channel, the buffer, the table or dropped; a counter that is shown
  twice differs by the callers between the two increments.
* **EnvManager, Process, AiClient.** What a drain cancels is older than the generation in use, and its
  database is the next one's; a pool is open in every stage in which somebody may use it; a
  call waits only after an answer worth another request, and what was overdue is not repeated.
* **ConfigFile, ConfigLoad.** What a line belongs to depends on the headings only, which no edit
  but an addition touches. An addition makes its entry one that is loaded or changes nothing of
  what is (`AddingGains`); while the heading is whole, the line that is loaded is one that a
  removal and a rotation find (`EditedLines`). The shape of a file that begins with `[server]`
  (`ServerFirst`) is kept by every edit, and it is read back as it was told. What runs has been
  through validation.
* **StmtCache.** `OneOwner`: a statement is that of one query or of one request that is about to
  insert it. Without it the loser of a race could close what the winner has cached. The limit
  needs `Counting`, one element more or less.
* **VectorStore.** `Dense` is the mirror of matrix and positions with the dimension of a
  namespace; the same lemmas say what a change is to the map, and so give the step of
  `SearchIndex`. `WarmKept`: while a start loads without an error, a row that can be decoded is
  in the matrix, in the batch, or still to be read.
* **HybridSearch.** `FTSInv`: while no statement of a set-up failed, every process past its first
  statement has the table, and past each of the others the trigger. A row that is written while a
  process sets up is added by the trigger if that is there, and by the last statement if not; an
  update or a deletion that no trigger saw is in `missed`.
* **Beliefs, Episodes, Dialog.** `FreshHoldShare`: a caller that nobody overtook holds the share of
  the evidence there is. `ReadingSound`: what was there all along is in a table still to come or
  has been read. `PlanSane`: a plan writes whole contents, decided on what the row of the
  candidate said at the match, so that even an old search answer leaves no row with a fact and its negation.
* **Migrations.** The schema is what the first `n` files leave, what is recorded is among them,
  and `RunFits` says of a run under way that it stands where its statements lead from there.
  The assumption says that a file whose statements all ran is the next one or an old one that
  changed nothing (`SchemaFile`). What the functions over files and statements are comes from the
  least index at which they would be undefined (`SchemaAlong`).
* **Consolidation, Compression.** `Traced`: an archived row was archived by others or has a fact made of
  it, whether or not the edge to it was stored. That a live fact tells of it follows from the greatest row of those that do. `Follows`: a summary is
  one generation after the one it supersedes and has its sources, so that the chain ends.
* **FrontEnds.** `CallFits`: what a call is about to write is in the index of its process, unless a
  failed store of the same id took it away. That no cycle arises is shown with least closed sets.

The library's induction theorems cannot be used (their parameter is an operator). Where induction over data was
needed it is the existence of a smallest finite set or a least number, from
`WellFoundedInduction` (`SmallestSet`, `Smallest`, `Largest`, `Ranked` in `MemoryRowsProofs`).

### Only model-checked

* Liveness (EveryCallReturns, StaleIsSwept, CancelledReturns, StreamAccounted,
  EveryTaskEnds, EverythingEnds, ReEmbedEnds): the prover does not do fairness or ENABLED.
* `FoundIsSound`: the walk, the budget and the buckets of Retrieval, the order of the fused
  answer of HybridSearch and the sums of GraphAnalysis are folds, recursive functions and choices
  of sorted sequences over data. TLC evaluates them on every instance of the bounds above.

## 5. Where code and text disagree

Three runs end in a counterexample, quoted in `PROJECT.json`:

1. `Retention_lostwrite`: the comment (`retention/service.go:51-54`) says the single connection
   serialises the sweep against writers; its statements interleave with theirs, and its ROLLBACK
   takes their writes along.
2. `ReEmbed_stuck`: `src/README.md:150` says that `ReEmbedAll` re-embeds all entities; with as
   many rows as a batch takes, its first UPDATE waits for the connection the SELECT holds.
3. `ResilientLoop_skipped`: a producer may skip the first `LastCommittedIndex` messages
   (`ingestion/checkpoint.go:22-27`); the number counts completions in any order
   (`ingestion/dialog.go:466`), up to eight at once. A message that fails is not counted, and the next
   success takes its number: the checkpoint then covers the failed one, with a single slot too.

The modules state further promises that TLC refutes. A reader can see each by giving a
run of the module the constants named here and the property:

| Property | Instance | What is promised, and what happens |
|---|---|---|
| `EntityLocker!NoABBADeadlock` | shards 3, 9, 3, which FNV-1a with the default mask gives the ids `e1`, `e10`, `e12`; batches {1, 2} and {2, 3} | sorted ids prevent ABBA deadlocks (comment at `store/locker.go:191`): the locks are shards |
| `Retention!VectorsGoAfterCommit` | two sweepers | concurrent sweeps are safe: the defensive ROLLBACK of one ends the transaction of the other |
| `TaskWorkers!OneWorkerPerTask` | edits | "ensure exactly one worker claims each task" (`task/service.go:88`): not for a task that somebody posts as pending, or stores again, in the hands of the first |
| `ApiServer!SnapshotCurrent` | as in `Server_reload` | a schema that was swapped out "must return 409" (`serverstate/serverstate.go:11-14`, `:78-84`): a reload between CheckStale and the service is not seen, and the write is made with the old snapshot |
| `FrontEnds!OnlyMissingAreShells` | as in `MCMemory` | auto-create makes missing entities only (`cli/memory/edge.go`): one stored between EXISTS and INSERT becomes a shell (`vector/index.go:110-119`) |
| `Migrations!ReapplyWorks` | as in `MCMemory` | a rolled back file can be re-applied (`store/migration.go:26-29`): a rollback deletes the record only, and 013 needs a column it has dropped |
| `Process!ApplyMigrates` | as in `MCService` | `db migrate apply` leaves the database up to date: an application without auto-migrate refuses before the command runs |
| `ConfigFile!NothingLost` | as in `MCService` | `keys add` "writes it to `hermem.ini` on the `api_keys` line" (`src/docs/SERVER.md:555`): with a section after `[server]` the new line falls into that one, with one before it the entry is hung on a wrong line, and in a file that was missing the second key is lost |
| `ConfigLoad!PrecedenceKept`, `WrongSchemaRefused` | as in `MCService` | the flag wins, also on SIGHUP (it reads the file beside the binary); a wrong schema fails (it is replaced by the default) |
| `ConfigLoad!SweepCanTick` | as in `MCService` | an interval of 0 passes validation, and the ticker panics on it |
| `HybridSearch!DegradesGracefully` | `HasFTS <- FALSE` | a build without FTS5 degrades gracefully: triggers made before refuse every write |
| `GraphAnalysis!MovesImprove` | as in `MCMemory` | a move raises modularity: what the node gives up is not counted |
| `Dialog!MergedFactsStay` | as in `MCMemory` | what a row says is only added to (`src/README.md:297-299`): two merges from one old search lose one |
| `Episodes!LinkedInOrder` | as in `MCMemory` | the feed is chronological: some rows have the time 0 of the column |
| `ApiServer!OneSweeper` | `MaxReloads = 2` | a swap stops the old sweeper: `stopOnce` fires once |
| `AiClient!FetchFourTimes` | as in `MCService` | four attempts (`httputil/httputil.go:433`): there are five |

Observed on the way and kept in the models, without a run of their own:

* Locks and sweeps: two ids of one batch that share a shard wait for each other; Unlock of an id
  nobody holds blocks, though its comment says it panics (`store/locker.go:143-147`); a
  cancelled sweep sends its ROLLBACK with the dead context, and an empty SELECT returns before the
  defensive one; an ingest item whose BeginTx falls into a sweep is refused and dropped
  (`retention/service.go:145`); a row refreshed between SELECT and BEGIN is archived all the same
  (`:164`).
* Ingestion: the message in hand when the loop is cancelled is neither processed nor saved; errors
  of single items do not fail their message; the result of LoadCheckpoint is discarded.
* Tasks: a goal claim also takes tasks outside the goal (`store/task_executable.go:78` against
  `:58`); cycles inserted by ingestion or by auto-linking hang the recursive queries on the
  only connection; `Dep` and `Create` only log an
  error of AddEdge; a rollback cascade stops at a completed task.
* Front ends: MCP and CLI never auto-link, although `src/docs/CLI.md:86-89` says `memory store`
  does; auto-link asks for three neighbours including the entity itself; a failing store
  of an id removes the vector of the version still stored; a store without a vector clears the
  embedding of the row and leaves the old vector in the index; rows of a command are not in
  the index of a running daemon; MCP ingest has a fixed dedup threshold.
* Server: a configuration may name a burst that the rate does not refill within the ten minutes of
  IdleTTL (`server/ratelimit/limiter.go:145`; `config/ini.go:325-331` checks neither), and a key
  that waits out the eviction then has its burst sooner than the rate allows; keys and limits of a file are not re-read on SIGHUP; 422 is answered and not documented;
  `/task/claim-next` documents 404 and answers 200 with null; `/metrics` needs a write key when
  authentication is on; `errors_total` does not count what a handler refuses itself.
* Process: the hook opens a second database handle and worker that nobody closes for `serve`; a
  signal between the two NotifyContexts is not seen by Serve; components stop in reverse,
  the comment says in order; two writers of an environment lose one, and a drain can
  then reach the generation in use; Reload never closes a database it replaces.
* Derived rows: `src/README.md:123` says that consolidation archives the sources with provenance;
  errors of the edges and of the archiving UPDATE are ignored and the transaction commits
  (`consolidation/service.go:243-246`, `:253`), so that a row may be archived into a fact with no
  edge to it, or stay live without its vector; `ReEmbedAll` records the new dimension also when rows failed, and a failed index
  upsert is not "corrected on next sweep" (`reembed/service.go:144`); Recompress looks an old summary
  up among the entities, where it is not; a belief may be created as "Superseded" with no successor, which is what the status
  means (`store/migrations/008_add_beliefs_table.sql:9`); two MarkSuperseded make a cycle of beliefs;
  nothing records `belief_history`, which migration 010 calls mandatory; confidence can be
  lost between the statements of PropagateConfidence.
* Models: the budget of a call "caps the total retry duration" (`ai/client.go:65-68`, `:140-143`), and
  one more request may be sent after it is used up; Do sleeps after its last attempt; an Ollama reranker may drop or repeat
  candidates of an answer that names them twice; an embedding that is missing from the answer is
  an empty vector.

## 6. Not modelled, and why

* SQL text, ids, contents, embeddings, scores, similarity, quantisation and the layout of
  reports and bodies are data the properties do not tell apart: they are constants,
  classes or choices. What a message does to the database is success or failure in
  `ResilientLoop`; `Dialog` has the rest.
* Read-only services (goal, timeline, view, provenance, graph verification, tree and
  critical path of tasks), administration, health and benchmarks return or measure what is there.
* `MemoryWorker`, the simpler loop next to the modelled one, has no caller; nor has
  `ConfidenceLifecycle`, whose decay is floating-point arithmetic. The limiter of MCP is one
  bucket of the kind `RateLimiter` has.
* A caller that runs a release function twice, or unlocks what it does not hold, is outside
  `EntityLocker`.
* Extraction and embedding are choices of the components that call them; profiles and atomic file
  replacement touch one file nobody else writes; SDKs and plugins are clients.
* The machines of `Memory` and `Service` are not composed with each other beyond what
  section 2 says: sweep against consolidation, for example, is a step of `Consolidation`
  (`retention` archives a row), not the whole of `Retention`.

## 7. Left to do

1. Proofs: `FoundIsSound`, part by part; the bound on the seeds of Retrieval and the order of a
   fused answer come first.
2. `ReEmbed` and `Consolidation` on one connection with `Retention`.
3. `MemoryWorker`, once something calls it.
