---------------------------- MODULE MetricsWorker ----------------------------
(***************************************************************************)
(* AsyncMetricsWorker (src/internal/metrics/worker.go): accesses to        *)
(* entities go through a bounded channel into a buffer, and from there     *)
(* into the table in batches.  Touch never waits.  A flush is one          *)
(* transaction; the table can refuse it, and a closed database does.       *)
(***************************************************************************)
EXTENDS Naturals, Sequences, FiniteSets

CONSTANTS Accessed,      \* entities
          BufferSize, BatchSize,
          MaxTouches,    \* bound on the calls of Touch
          CanRefuse      \* the database may refuse a flush

VARIABLES ch, chClosed,
          buffer,
          loop,       \* "run" or "done"
          stopping,   \* "no", "waiting" for done, or "returned"
          touches, recorded,
          refused,    \* the last flush was refused
          dropped,    \* entities some access to which found the channel full
          panicked

workerVars == <<ch, chClosed, buffer, loop, stopping, touches, recorded, refused, dropped, panicked>>

Init ==
    /\ ch = <<>> /\ chClosed = FALSE
    /\ buffer = {} /\ loop = "run" /\ stopping = "no"
    /\ touches = {} /\ recorded = {} /\ dropped = {}
    /\ refused = FALSE /\ panicked = FALSE
-----------------------------------------------------------------------------
\* A send on a closed channel panics, the default branch notwithstanding.
Touch(e) ==
    /\ Cardinality(touches) < MaxTouches /\ e \notin touches
    /\ touches' = touches \cup {e}
    /\ CASE chClosed -> panicked' = TRUE /\ UNCHANGED <<ch, dropped>>
         [] ~chClosed /\ Len(ch) < BufferSize -> ch' = Append(ch, e) /\ UNCHANGED <<dropped, panicked>>
         [] OTHER -> dropped' = dropped \cup {e} /\ UNCHANGED <<ch, panicked>>
    /\ UNCHANGED <<chClosed, buffer, loop, stopping, recorded, refused>>

\* Mutant of Flushed: the buffer is emptied before the outcome is known.
FlushedAnyway(accesses, ok) ==
    /\ recorded' = IF ok THEN recorded \cup accesses ELSE recorded
    /\ buffer' = {}
    /\ refused' = (~ok /\ accesses # {})

\* flushLocked: an empty buffer is left alone; a refused one is kept.
Flushed(accesses, ok) ==
    /\ recorded' = IF ok THEN recorded \cup accesses ELSE recorded
    /\ buffer' = IF ok THEN {} ELSE accesses
    /\ refused' = (~ok /\ accesses # {})

Outcomes == IF CanRefuse THEN BOOLEAN ELSE {TRUE}

Receive ==
    /\ loop = "run" /\ ch # <<>>
    /\ ch' = Tail(ch)
    /\ LET accesses == buffer \cup {Head(ch)} IN
       IF Cardinality(accesses) >= BatchSize
       THEN \E ok \in Outcomes : Flushed(accesses, ok)
       ELSE buffer' = accesses /\ UNCHANGED <<recorded, refused>>
    /\ UNCHANGED <<chClosed, loop, stopping, touches, dropped, panicked>>

Tick ==
    /\ loop = "run"
    /\ \E ok \in Outcomes : Flushed(buffer, ok)
    /\ UNCHANGED <<ch, chClosed, loop, stopping, touches, dropped, panicked>>

\* The channel is closed and empty: one last flush, whatever it does.
ReceiveClosed ==
    /\ loop = "run" /\ chClosed /\ ch = <<>>
    /\ loop' = "done"
    /\ \E ok \in Outcomes : Flushed(buffer, ok)
    /\ UNCHANGED <<ch, chClosed, stopping, touches, dropped, panicked>>

\* once.Do: a second call returns when the first has.
Stop ==
    /\ stopping = "no"
    /\ stopping' = "waiting" /\ chClosed' = TRUE
    /\ UNCHANGED <<ch, buffer, loop, touches, recorded, refused, dropped, panicked>>

StopReturns ==
    /\ stopping = "waiting" /\ loop = "done"
    /\ stopping' = "returned"
    /\ UNCHANGED <<ch, chClosed, buffer, loop, touches, recorded, refused, dropped, panicked>>

WorkerStep == ~panicked /\ (Receive \/ Tick \/ ReceiveClosed \/ StopReturns)
Next == WorkerStep \/ (~panicked /\ ((\E e \in Accessed : Touch(e)) \/ Stop))

Spec == Init /\ [][Next]_workerVars
-----------------------------------------------------------------------------
\* No access is lost on the way: it is on its way or recorded, unless the
\* channel was full.  A Stop that has returned has recorded all of them
\* unless the database refused the last flush; a batch that was refused
\* before that is tried again.  Only an access after Stop panics
\* (worker.go:36-47, 51-58, 111-116).
AccessesAccounted ==
    /\ panicked => chClosed
    /\ ~panicked => touches = {ch[i] : i \in DOMAIN ch} \cup buffer \cup recorded \cup dropped
    /\ stopping = "returned" =>
          /\ ch = <<>>
          /\ ~refused => buffer = {}
-----------------------------------------------------------------------------
\* Why the worker loses nothing: the channel is closed by Stop alone, and the
\* loop ends on an empty channel after a last flush.
WorkerInv ==
    /\ ch \in Seq(Accessed)
    /\ panicked => chClosed
    /\ chClosed <=> stopping # "no"
    /\ ~panicked => touches = {ch[i] : i \in DOMAIN ch} \cup buffer \cup recorded \cup dropped
    /\ loop = "done" => chClosed /\ ch = <<>> /\ (~refused => buffer = {})
    /\ stopping = "returned" => loop = "done"
=============================================================================
