------------------------------ MODULE Retention ------------------------------
(***************************************************************************)
(* The archive sweep of src/internal/retention/service.go together with    *)
(* the writers it shares the database with.  The process has ONE pooled    *)
(* SQLite connection (store/init.go: SetMaxOpenConns(1)).  A sql.Tx owns   *)
(* that connection until it ends, so transactions made with BeginTx never  *)
(* interleave.  The sweep does not use one: it sends BEGIN IMMEDIATE,      *)
(* UPDATE, COMMIT and ROLLBACK as separate statements to the pool, and any *)
(* other goroutine may run a statement on the connection in between.       *)
(*                                                                         *)
(* Sweepers are calls of RunOnce (the ticker loop, POST                    *)
(* /admin/retention/run); storers are StoreEntityWithEmbedding calls;      *)
(* ingesters are executeItemTx of the dialog pipeline with the vector      *)
(* operations that follow its commit.                                      *)
(***************************************************************************)
EXTENDS Integers, FiniteSets

CONSTANTS Sweepers, Storers, Ingesters,
          Cancellable,     \* sweepers whose context may be cancelled (HTTP requests)
          CanFail,         \* statements may fail (disk full, interrupted)
          Entities,
          DeleteBatchSize, \* LIMIT of the sweep's SELECT
          MaxVer,          \* bound: number of writes in a behaviour
          Nobody           \* no sql.Tx is open

ASSUME RetentionAssumption ==
    /\ Cancellable \subseteq Sweepers
    /\ CanFail \in BOOLEAN
    /\ DeleteBatchSize \in Nat \ {0}
    /\ MaxVer \in Nat
    /\ Sweepers \cap Storers = {} /\ Sweepers \cap Ingesters = {}
    /\ Storers \cap Ingesters = {}
    /\ Nobody \notin Ingesters

VARIABLES
    durable,   \* the entities table as of the last commit
    work,      \* the table as the connection sees it
    inTx,      \* a BEGIN IMMEDIATE is open on the connection
    txOwner,   \* the ingester whose sql.Tx owns the connection, or Nobody
    vec,       \* the vector index: version embedded per entity, 0 = no vector
    pc,        \* where every goroutine is
    ids,       \* the sweeper's batch
    live,      \* the sweeper's context is not done
    arg,       \* entity and version a writer is writing
    nextVer,   \* next version to be written
    acked      \* history: the version per entity that the last successful writer stored

dbVars == <<durable, work, inTx>>
vars == <<durable, work, inTx, txOwner, vec, pc, ids, live, arg, nextVer, acked>>

Procs == Sweepers \cup Storers \cup Ingesters
Vers == 0..MaxVer

\* A row: version 0 is "no row"; stale is updated_at < cutoff for an
\* observation.
Row == [ver : Vers, archived : BOOLEAN, stale : BOOLEAN]
Absent == [ver |-> 0, archived |-> FALSE, stale |-> FALSE]

PCs == {"idle", "selected", "begin", "update", "commit", "rollback", "vectors",
        "insert", "undo", "tx"}

TypeOK ==
    /\ durable \in [Entities -> Row]
    /\ work \in [Entities -> Row]
    /\ inTx \in BOOLEAN
    /\ txOwner \in Ingesters \cup {Nobody}
    /\ vec \in [Entities -> Vers]
    /\ pc \in [Procs -> PCs]
    /\ ids \in [Sweepers -> SUBSET Entities]
    /\ live \in [Sweepers -> BOOLEAN]
    /\ arg \in [Storers \cup Ingesters -> [id : Entities, ver : Vers]]
    /\ nextVer \in 1..(MaxVer + 1)
    /\ acked \in [Entities -> Vers]

Init ==
    /\ durable = [e \in Entities |-> Absent]
    /\ work = durable
    /\ inTx = FALSE
    /\ txOwner = Nobody
    /\ vec = [e \in Entities |-> 0]
    /\ pc = [p \in Procs |-> "idle"]
    /\ ids = [s \in Sweepers |-> {}]
    /\ live = [s \in Sweepers |-> TRUE]
    /\ \E e \in Entities :
         arg = [w \in Storers \cup Ingesters |-> [id |-> e, ver |-> 0]]
    /\ nextVer = 1
    /\ acked = [e \in Entities |-> 0]
-----------------------------------------------------------------------------
(* The connection.                                                         *)

\* db.ExecContext / db.QueryContext wait until no sql.Tx owns the connection.
ConnFree == txOwner = Nobody

\* A data-changing statement outside any transaction commits by itself.
Write(table) ==
    /\ work' = table
    /\ durable' = IF inTx THEN durable ELSE table
    /\ inTx' = inTx

\* ON CONFLICT(id) DO UPDATE: everything but the archived flag is replaced.
Upsert(row, v) == [ver |-> v, archived |-> row.archived, stale |-> FALSE]

Goto(p, label) == pc' = [pc EXCEPT ![p] = label]
-----------------------------------------------------------------------------
(* RunOnce.                                                                *)

\* The table after UPDATE entities SET archived = 1 WHERE id IN (batch).
Archive(batch) ==
    [e \in Entities |->
        IF e \in batch /\ work[e].ver # 0
        THEN [work[e] EXCEPT !.archived = TRUE] ELSE work[e]]

\* Mutant of Stale: the SELECT does not filter archived = 0.
StaleOrArchived == {e \in Entities : work[e].stale}

\* WHERE category = 'observation' AND updated_at < ? AND archived = 0
Stale == {e \in Entities : work[e].stale /\ ~work[e].archived}

\* The SELECT; an empty result ends the sweep.
SweepSelect(s) ==
    /\ pc[s] = "idle"
    /\ ConnFree
    /\ \E batch \in SUBSET Stale :
         /\ batch # {}
         /\ Cardinality(batch) <= DeleteBatchSize
         /\ Cardinality(batch) < DeleteBatchSize => batch = Stale
         /\ ids' = [ids EXCEPT ![s] = batch]
    /\ Goto(s, "selected")
    /\ live' = [live EXCEPT ![s] = TRUE]
    /\ UNCHANGED <<dbVars, txOwner, vec, arg, nextVer, acked>>

\* The defensive ROLLBACK; its result is ignored.
SweepClear(s) ==
    /\ pc[s] = "selected"
    /\ ConnFree
    /\ IF live[s] /\ inTx
       THEN work' = durable /\ inTx' = FALSE
       ELSE UNCHANGED <<work, inTx>>
    /\ Goto(s, "begin")
    /\ UNCHANGED <<durable, txOwner, vec, ids, live, arg, nextVer, acked>>

\* Mutant of SweepBegin: no BEGIN IMMEDIATE, every statement is on its own.
BeginForgotten(s) ==
    /\ pc[s] = "begin"
    /\ Goto(s, "update")
    /\ UNCHANGED <<dbVars, txOwner, vec, ids, live, arg, nextVer, acked>>

\* beginImmediate; an open transaction is an error and ends the sweep.
SweepBegin(s) ==
    /\ pc[s] = "begin"
    /\ ConnFree
    /\ IF live[s] /\ ~inTx
       THEN inTx' = TRUE /\ Goto(s, "update")
       ELSE inTx' = inTx /\ Goto(s, "idle")
    /\ UNCHANGED <<durable, work, txOwner, vec, ids, live, arg, nextVer, acked>>

\* Mutant of SweepUpdate: the vectors are removed before the COMMIT.
UpdateThenVectors(s) ==
    /\ pc[s] = "update"
    /\ ConnFree
    /\ Write(Archive(ids[s]))
    /\ Goto(s, "vectors")
    /\ UNCHANGED <<txOwner, vec, ids, live, arg, nextVer, acked>>

\* The UPDATE of the batch; a failure is answered with a ROLLBACK.
SweepUpdate(s) ==
    /\ pc[s] = "update"
    /\ ConnFree
    /\ \/ /\ live[s]
          /\ Write(Archive(ids[s]))
          /\ Goto(s, "commit")
       \/ /\ CanFail \/ ~live[s]
          /\ UNCHANGED dbVars
          /\ Goto(s, "rollback")
    /\ UNCHANGED <<txOwner, vec, ids, live, arg, nextVer, acked>>

\* Mutant of SweepCommit: the COMMIT is not sent.
CommitForgotten(s) ==
    /\ pc[s] = "commit"
    /\ Goto(s, "vectors")
    /\ UNCHANGED <<dbVars, txOwner, vec, ids, live, arg, nextVer, acked>>

\* commitCurrentTx; without an open transaction COMMIT is an error.
SweepCommit(s) ==
    /\ pc[s] = "commit"
    /\ ConnFree
    /\ \/ /\ live[s] /\ inTx
          /\ durable' = work /\ inTx' = FALSE
          /\ Goto(s, "vectors")
       \/ /\ CanFail \/ ~live[s] \/ ~inTx
          /\ UNCHANGED <<durable, inTx>>
          /\ Goto(s, "rollback")
    /\ UNCHANGED <<work, txOwner, vec, ids, live, arg, nextVer, acked>>

\* rollbackCurrentTx with the sweep's own context; the sweep returns an error.
SweepRollback(s) ==
    /\ pc[s] = "rollback"
    /\ ConnFree
    /\ IF live[s] /\ inTx
       THEN work' = durable /\ inTx' = FALSE
       ELSE UNCHANGED <<work, inTx>>
    /\ Goto(s, "idle")
    /\ UNCHANGED <<durable, txOwner, vec, ids, live, arg, nextVer, acked>>

\* vi.Delete of the whole batch; the in-memory store ignores the context.
SweepVectors(s) ==
    /\ pc[s] = "vectors"
    /\ vec' = [e \in Entities |-> IF e \in ids[s] THEN 0 ELSE vec[e]]
    /\ Goto(s, "idle")
    /\ UNCHANGED <<dbVars, txOwner, ids, live, arg, nextVer, acked>>

\* The client of POST /admin/retention/run goes away.
CtxDone(s) ==
    /\ s \in Cancellable
    /\ pc[s] # "idle" /\ live[s]
    /\ live' = [live EXCEPT ![s] = FALSE]
    /\ UNCHANGED <<dbVars, txOwner, vec, pc, ids, arg, nextVer, acked>>
-----------------------------------------------------------------------------
(* StoreEntityWithEmbedding.                                               *)

\* Mutant of StoreVector: the index gets the version after the stored one.
StoreNextVector(c, e) ==
    /\ pc[c] = "idle" /\ nextVer <= MaxVer
    /\ arg' = [arg EXCEPT ![c] = [id |-> e, ver |-> nextVer]]
    /\ nextVer' = nextVer + 1
    /\ vec' = [vec EXCEPT ![e] = nextVer + 1]
    /\ Goto(c, "insert")
    /\ UNCHANGED <<dbVars, txOwner, ids, live, acked>>

\* vi.Upsert comes first.
StoreVector(c, e) ==
    /\ pc[c] = "idle" /\ nextVer <= MaxVer
    /\ arg' = [arg EXCEPT ![c] = [id |-> e, ver |-> nextVer]]
    /\ nextVer' = nextVer + 1
    /\ vec' = [vec EXCEPT ![e] = nextVer]
    /\ Goto(c, "insert")
    /\ UNCHANGED <<dbVars, txOwner, ids, live, acked>>

\* INSERT ... ON CONFLICT DO UPDATE, then the caller is told "stored".
StoreRow(c) ==
    LET e == arg[c].id  v == arg[c].ver IN
    /\ pc[c] = "insert"
    /\ ConnFree
    /\ Write([work EXCEPT ![e] = Upsert(@, v)])
    /\ acked' = [acked EXCEPT ![e] = v]
    /\ Goto(c, "idle")
    /\ UNCHANGED <<txOwner, vec, ids, live, arg, nextVer>>

\* Mutant of StoreRowFails: the error is dropped and the caller told "stored".
StoreErrorDropped(c) ==
    /\ pc[c] = "insert"
    /\ ConnFree
    /\ CanFail
    /\ acked' = [acked EXCEPT ![arg[c].id] = arg[c].ver]
    /\ Goto(c, "idle")
    /\ UNCHANGED <<dbVars, txOwner, vec, ids, live, arg, nextVer>>

\* The INSERT fails: the vector is taken back and the caller gets the error.
StoreRowFails(c) ==
    /\ pc[c] = "insert"
    /\ ConnFree
    /\ CanFail
    /\ Goto(c, "undo")
    /\ UNCHANGED <<dbVars, txOwner, vec, ids, live, arg, nextVer, acked>>

StoreUndo(c) ==
    /\ pc[c] = "undo"
    /\ vec' = [vec EXCEPT ![arg[c].id] = 0]
    /\ Goto(c, "idle")
    /\ UNCHANGED <<dbVars, txOwner, ids, live, arg, nextVer, acked>>
-----------------------------------------------------------------------------
(* executeItemTx and applyVIOps.                                           *)

\* BeginTx sends BEGIN: inside an open transaction that is an error, it is
\* not SQLITE_BUSY, and the item is given up.
IngestBegin(i, e) ==
    /\ pc[i] = "idle" /\ nextVer <= MaxVer
    /\ ConnFree
    /\ arg' = [arg EXCEPT ![i] = [id |-> e, ver |-> nextVer]]
    /\ nextVer' = nextVer + 1
    /\ IF inTx
       THEN UNCHANGED <<pc, txOwner>>
       ELSE txOwner' = i /\ Goto(i, "tx")
    /\ UNCHANGED <<dbVars, vec, ids, live, acked>>

\* The upsert and the commit; nobody else can use the connection meanwhile.
IngestCommit(i) ==
    LET e == arg[i].id  v == arg[i].ver IN
    /\ pc[i] = "tx"
    /\ work' = [work EXCEPT ![e] = Upsert(@, v)]
    /\ durable' = work'
    /\ txOwner' = Nobody
    /\ acked' = [acked EXCEPT ![e] = v]
    /\ Goto(i, "vectors")
    /\ UNCHANGED <<inTx, vec, ids, live, arg, nextVer>>

IngestRollback(i) ==
    /\ pc[i] = "tx"
    /\ CanFail
    /\ txOwner' = Nobody
    /\ Goto(i, "idle")
    /\ UNCHANGED <<dbVars, vec, ids, live, arg, nextVer, acked>>

\* Mutant of IngestVectors: viOpRemove instead of viOpStore.
IngestRemovesVector(i) ==
    /\ pc[i] = "vectors"
    /\ vec' = [vec EXCEPT ![arg[i].id] = 0]
    /\ Goto(i, "idle")
    /\ UNCHANGED <<dbVars, txOwner, ids, live, arg, nextVer, acked>>

\* applyVIOps: the vector follows the commit.
IngestVectors(i) ==
    /\ pc[i] = "vectors"
    /\ vec' = [vec EXCEPT ![arg[i].id] = arg[i].ver]
    /\ Goto(i, "idle")
    /\ UNCHANGED <<dbVars, txOwner, ids, live, arg, nextVer, acked>>
-----------------------------------------------------------------------------
\* An observation passes its TTL.
Age(e) ==
    /\ work[e].ver # 0 /\ ~work[e].stale
    /\ work' = [work EXCEPT ![e].stale = TRUE]
    /\ durable' = IF durable[e].ver = 0 THEN durable ELSE [durable EXCEPT ![e].stale = TRUE]
    /\ UNCHANGED <<inTx, txOwner, vec, pc, ids, live, arg, nextVer, acked>>

SweepStep(s) ==
    \/ SweepClear(s) \/ SweepBegin(s) \/ SweepUpdate(s)
    \/ SweepCommit(s) \/ SweepRollback(s) \/ SweepVectors(s)

StoreStep(c) == StoreRow(c) \/ StoreRowFails(c) \/ StoreUndo(c)

IngestStep(i) == IngestCommit(i) \/ IngestRollback(i) \/ IngestVectors(i)

Next ==
    \/ \E s \in Sweepers : SweepSelect(s) \/ SweepStep(s) \/ CtxDone(s)
    \/ \E c \in Storers : StoreStep(c) \/ \E e \in Entities : StoreVector(c, e)
    \/ \E i \in Ingesters : IngestStep(i) \/ \E e \in Entities : IngestBegin(i, e)
    \/ \E e \in Entities : Age(e)

Spec == Init /\ [][Next]_vars

(***************************************************************************)
(* Fairness: goroutines finish the call they are in; a statement waiting   *)
(* for the connection is served in order (the pool queues requests), hence *)
(* the strong fairness; the ticker of Service.Run keeps starting sweeps.   *)
(* Nothing obliges a client to store.                                      *)
(***************************************************************************)
FairSpec ==
    /\ Spec
    /\ \A s \in Sweepers : SF_vars(SweepStep(s)) /\ SF_vars(SweepSelect(s))
    /\ \A c \in Storers : SF_vars(StoreStep(c))
    /\ \A i \in Ingesters : WF_vars(IngestStep(i))
-----------------------------------------------------------------------------
\* What a writer was told is stored stays stored until the next write of the
\* entity: no rollback of somebody else takes it back (service.go:52-53).
AckedNotLost == \A e \in Entities : work[e].ver = acked[e]

\* Somebody else's rollback takes back only what was written while its own raw
\* transaction was open: a write told "stored" outside one is durable at once,
\* and a durable one gives way to a later write of the entity only, whichever
\* sweep fails, is cancelled or overlaps another (service.go:51-54).
DurableStays ==
    [][\A e \in Entities :
         \/ durable'[e].ver = acked'[e]
         \/ acked'[e] # acked[e] /\ inTx
         \/ acked'[e] = acked[e] /\ durable[e].ver # acked[e]]_vars

\* The connection is inside a raw transaction only while a sweep is between
\* its BEGIN IMMEDIATE and its COMMIT or ROLLBACK, or after a sweep that was
\* cancelled there until a next one reaches the defensive ROLLBACK; otherwise
\* every later BeginTx would fail (service.go:137-144, 211-215).
NoOrphanTx ==
    inTx => \E s \in Sweepers :
        ~live[s] \/ pc[s] \in {"selected", "update", "commit", "rollback"}

\* A sweep never removes the vector of a row that is durably visible: its
\* archiving is committed, or the row is gone (service.go:15-16, "Vector drift
\* is impossible because vi.Remove runs ONLY after a successful COMMIT").
VectorsGoAfterCommit ==
    [][\A s \in Sweepers :
         pc[s] = "vectors" /\ pc'[s] = "idle"
            => \A e \in ids[s] : durable[e].archived \/ durable[e].ver = 0]_vars

\* The batch is archived as a whole by the COMMIT: before it, no row of the
\* batch is durably archived, whatever fails (service.go:152-157).
ArchiveIsAtomic ==
    \A s \in Sweepers :
        pc[s] \in {"update", "commit", "rollback"}
            => \A e \in ids[s] : ~durable[e].archived

Quiescent == \A p \in Procs : pc[p] = "idle"

\* When all calls have returned, an entity that is not archived has a vector:
\* search, which starts from the index, can find it (memory/service.go:112-117).
LiveIsSearchable ==
    Quiescent => \A e \in Entities :
        durable[e].ver # 0 /\ ~durable[e].archived => vec[e] # 0

\* A stale entity is swept or written anew; it does not stay stale and
\* visible for ever.
StaleIsSwept ==
    \A e \in Entities :
        durable[e].stale /\ ~durable[e].archived
            ~> durable[e].archived \/ ~durable[e].stale
=============================================================================
