--------------------------- MODULE ResilientLoop ---------------------------
(***************************************************************************)
(* resilientLoop of src/internal/ingestion/dialog.go: one loop takes       *)
(* dialog messages from a channel and hands each to a goroutine, at most   *)
(* MaxParallel at a time.  A goroutine that succeeds bumps a counter and   *)
(* writes it to the checkpoint file.  When the context is cancelled the    *)
(* loop drains the channel into the pending file, waits for its            *)
(* goroutines, writes the checkpoint once more and returns.                *)
(*                                                                         *)
(* Messages are numbered in the order of the producer's stream.  The       *)
(* producer (outside this code) is the one checkpoint.go:22-25 and :94-96  *)
(* describe: after a restart it replays the pending file and skips the     *)
(* first LastCommittedIndex messages of its stream.                        *)
(***************************************************************************)
EXTENDS Integers, Sequences, FiniteSets

CONSTANTS N,             \* length of the producer's stream
          MaxParallel,   \* capacity of the semaphore
          ChanCap,       \* capacity of the channel
          CanFail,       \* processing a message or saving the pending file may fail
          CanFailStamp,  \* saving the checkpoint may fail
          CanCancel,     \* the context may be cancelled
          MaxRestarts    \* bound: crashes or restarts of the process

ASSUME ResilientLoopAssumption ==
    /\ N \in Nat /\ MaxRestarts \in Nat
    /\ MaxParallel \in Nat \ {0} /\ ChanCap \in Nat \ {0}
    /\ CanFail \in BOOLEAN /\ CanFailStamp \in BOOLEAN /\ CanCancel \in BOOLEAN

Msgs == 1..N

VARIABLES
    feed,       \* the messages the producer has still to send, in order
    ch,         \* the channel's buffer
    closed,     \* the producer closed the channel
    cancelled,  \* ctx is done
    pc,         \* where the loop is
    held,       \* the message the loop took last
    task,       \* state of the goroutine of every message
    val,        \* what processed.Load() returned to a goroutine
    processed,  \* the counter
    drained,    \* messages read by drain
    ckpt,       \* LastCommittedIndex in the checkpoint file, 0 without a file
    pending,    \* messages in the pending file
    succeeded,  \* history: messages whose processing returned nil, in any run
    failed,     \* history: messages whose processing returned an error, in any run
    skipped,    \* messages the producer does not send in this run
    restarts

chanVars == <<feed, ch, closed, skipped>>
fileVars == <<ckpt, pending>>
vars == <<feed, ch, closed, cancelled, pc, held, task, val, processed, drained,
          ckpt, pending, succeeded, failed, skipped, restarts>>

Running == {"process", "count", "load", "save"}
Active == {m \in Msgs : task[m] \in Running}

TypeOK ==
    /\ feed \in SUBSET Msgs /\ ch \in Seq(Msgs) /\ Len(ch) <= ChanCap
    /\ closed \in BOOLEAN /\ cancelled \in BOOLEAN
    /\ pc \in {"select", "dispatch", "drain", "wait", "flush", "exited"}
    /\ held \in 0..N
    /\ task \in [Msgs -> Running \cup {"none", "done"}]
    /\ val \in [Msgs -> 0..N]
    /\ processed \in 0..N /\ ckpt \in 0..N
    /\ drained \in SUBSET Msgs /\ pending \in SUBSET Msgs
    /\ succeeded \in SUBSET Msgs /\ failed \in SUBSET Msgs /\ skipped \in SUBSET Msgs
    /\ restarts \in 0..MaxRestarts

Init ==
    /\ feed = Msgs
    /\ ch = <<>> /\ closed = FALSE /\ cancelled = FALSE
    /\ pc = "select" /\ held = 0
    /\ task = [m \in Msgs |-> "none"] /\ val = [m \in Msgs |-> 0]
    /\ processed = 0 /\ drained = {}
    /\ ckpt = 0 /\ pending = {}
    /\ succeeded = {} /\ failed = {} /\ skipped = {}
    /\ restarts = 0
-----------------------------------------------------------------------------
(* The producer and the context.                                           *)

Send ==
    /\ ~closed /\ Len(ch) < ChanCap
    /\ \E m \in feed :
         /\ \A k \in feed : m <= k
         /\ ch' = Append(ch, m)
         /\ feed' = feed \ {m}
    /\ UNCHANGED <<closed, skipped, cancelled, pc, held, task, val, processed, drained,
                   fileVars, succeeded, failed, restarts>>

Close ==
    /\ feed = {} /\ ~closed
    /\ closed' = TRUE
    /\ UNCHANGED <<feed, ch, skipped, cancelled, pc, held, task, val, processed, drained,
                   fileVars, succeeded, failed, restarts>>

Cancel ==
    /\ CanCancel /\ ~cancelled /\ pc # "exited"
    /\ cancelled' = TRUE
    /\ UNCHANGED <<chanVars, pc, held, task, val, processed, drained,
                   fileVars, succeeded, failed, restarts>>
-----------------------------------------------------------------------------
(* The loop.  Where both cases of a select are ready, either is taken.     *)

LoopReceive ==
    /\ pc = "select" /\ ch # <<>>
    /\ held' = Head(ch) /\ ch' = Tail(ch)
    /\ pc' = "dispatch"
    /\ UNCHANGED <<feed, closed, skipped, cancelled, task, val, processed, drained,
                   fileVars, succeeded, failed, restarts>>

LoopClosed ==
    /\ pc = "select" /\ ch = <<>> /\ closed
    /\ pc' = "wait"
    /\ UNCHANGED <<chanVars, cancelled, held, task, val, processed, drained,
                   fileVars, succeeded, failed, restarts>>

\* ctx.Done while waiting for a message, or for a slot: the message held is
\* given up.
LoopCancelled ==
    /\ pc \in {"select", "dispatch"} /\ cancelled
    /\ pc' = "drain" /\ drained' = {}
    /\ UNCHANGED <<chanVars, cancelled, held, task, val, processed,
                   fileVars, succeeded, failed, restarts>>

\* Mutant of Dispatch: no goroutine gives its slot back.
DispatchOnce ==
    /\ pc = "dispatch" /\ Cardinality({m \in Msgs : task[m] # "none"}) < MaxParallel
    /\ task' = [task EXCEPT ![held] = "process"]
    /\ pc' = "select"
    /\ UNCHANGED <<chanVars, cancelled, held, val, processed, drained,
                   fileVars, succeeded, failed, restarts>>

\* sem <- struct{}{}, then the goroutine is started.
Dispatch ==
    /\ pc = "dispatch" /\ Cardinality(Active) < MaxParallel
    /\ task' = [task EXCEPT ![held] = "process"]
    /\ pc' = "select"
    /\ UNCHANGED <<chanVars, cancelled, held, val, processed, drained,
                   fileVars, succeeded, failed, restarts>>

\* Mutant of DrainReceive: the channel is emptied, nothing is kept.
DrainDiscards ==
    /\ pc = "drain" /\ ch # <<>>
    /\ ch' = Tail(ch)
    /\ UNCHANGED <<feed, closed, skipped, cancelled, pc, held, task, val, processed, drained,
                   fileVars, succeeded, failed, restarts>>

DrainReceive ==
    /\ pc = "drain" /\ ch # <<>>
    /\ drained' = drained \cup {Head(ch)} /\ ch' = Tail(ch)
    /\ UNCHANGED <<feed, closed, skipped, cancelled, pc, held, task, val, processed,
                   fileVars, succeeded, failed, restarts>>

\* Mutant of DrainEnd: no deadline, and the drained messages are discarded.
DrainToClose ==
    /\ pc = "drain" /\ ch = <<>> /\ closed
    /\ pending' = {}
    /\ pc' = "wait"
    /\ UNCHANGED <<chanVars, cancelled, held, task, val, processed, drained,
                   ckpt, succeeded, failed, restarts>>

\* The channel is closed and empty, or the deadline fires; the pending file is
\* replaced, unless saving it fails.
DrainEnd ==
    /\ pc = "drain"
    /\ \/ pending' = drained
       \/ CanFail /\ pending' = pending
    /\ pc' = "wait"
    /\ UNCHANGED <<chanVars, cancelled, held, task, val, processed, drained,
                   ckpt, succeeded, failed, restarts>>

\* Mutant of WaitDone: the goroutines are not awaited.
WaitNot ==
    /\ pc = "wait"
    /\ pc' = "flush"
    /\ UNCHANGED <<chanVars, cancelled, held, task, val, processed, drained,
                   fileVars, succeeded, failed, restarts>>

\* wg.Wait()
WaitDone ==
    /\ pc = "wait" /\ Active = {}
    /\ pc' = "flush"
    /\ UNCHANGED <<chanVars, cancelled, held, task, val, processed, drained,
                   fileVars, succeeded, failed, restarts>>

\* Mutant of Flush: the last checkpoint is left to the goroutines.
FlushNothing ==
    /\ pc = "flush"
    /\ pc' = "exited"
    /\ UNCHANGED <<chanVars, cancelled, held, task, val, processed, drained,
                   fileVars, succeeded, failed, restarts>>

\* flushCheckpoint and return.
Flush ==
    /\ pc = "flush"
    /\ \/ ckpt' = processed
       \/ CanFailStamp /\ ckpt' = ckpt
    /\ pc' = "exited"
    /\ UNCHANGED <<chanVars, cancelled, held, task, val, processed, drained,
                   pending, succeeded, failed, restarts>>
-----------------------------------------------------------------------------
(* The goroutine of a message.                                             *)

\* ProcessDialogWithProvenance returns nil: extraction and the lookup of
\* matches succeeded.  An item that cannot be stored is only logged
\* (dialog.go:70-74) and does not show here.
ProcessOK(m) ==
    /\ task[m] = "process"
    /\ succeeded' = succeeded \cup {m}
    /\ task' = [task EXCEPT ![m] = "count"]
    /\ UNCHANGED <<chanVars, cancelled, pc, held, val, processed, drained,
                   fileVars, failed, restarts>>

\* Mutant of ProcessErr: the early return is missing.
ProcessErrCounted(m) ==
    /\ task[m] = "process" /\ (CanFail \/ cancelled)
    /\ failed' = failed \cup {m}
    /\ task' = [task EXCEPT ![m] = "count"]
    /\ UNCHANGED <<chanVars, cancelled, pc, held, val, processed, drained,
                   fileVars, succeeded, restarts>>

\* It returns an error: the message is logged and not counted.
ProcessErr(m) ==
    /\ task[m] = "process" /\ (CanFail \/ cancelled)
    /\ failed' = failed \cup {m}
    /\ task' = [task EXCEPT ![m] = "done"]
    /\ UNCHANGED <<chanVars, cancelled, pc, held, val, processed, drained,
                   fileVars, succeeded, restarts>>

\* Mutant of Count: the counter is the index of the message taken last.
CountTaken(m) ==
    /\ task[m] = "count"
    /\ processed' = held
    /\ task' = [task EXCEPT ![m] = "load"]
    /\ UNCHANGED <<chanVars, cancelled, pc, held, val, drained,
                   fileVars, succeeded, failed, restarts>>

\* processed.Add(1)
Count(m) ==
    /\ task[m] = "count"
    /\ processed' = processed + 1
    /\ task' = [task EXCEPT ![m] = "load"]
    /\ UNCHANGED <<chanVars, cancelled, pc, held, val, drained,
                   fileVars, succeeded, failed, restarts>>

\* processed.Load(), marshalled and written to a temporary file of its own.
Load(m) ==
    /\ task[m] = "load"
    /\ val' = [val EXCEPT ![m] = processed]
    /\ task' = [task EXCEPT ![m] = "save"]
    /\ UNCHANGED <<chanVars, cancelled, pc, held, processed, drained,
                   fileVars, succeeded, failed, restarts>>

\* The rename over the checkpoint file; a failure is only logged.
Save(m) ==
    /\ task[m] = "save"
    /\ \/ ckpt' = val[m]
       \/ CanFailStamp /\ ckpt' = ckpt
    /\ task' = [task EXCEPT ![m] = "done"]
    /\ UNCHANGED <<chanVars, cancelled, pc, held, val, processed, drained,
                   pending, succeeded, failed, restarts>>
-----------------------------------------------------------------------------
\* The process dies or has ended, and is started again.  The checkpoint that
\* LoadCheckpoint reads is not used: the counter starts from 0.
Restart ==
    /\ restarts < MaxRestarts
    /\ restarts' = restarts + 1
    /\ feed' = {m \in Msgs : m > ckpt \/ m \in pending}
    /\ skipped' = Msgs \ feed'
    /\ ch' = <<>> /\ closed' = FALSE /\ cancelled' = FALSE
    /\ pc' = "select" /\ held' = 0
    /\ task' = [m \in Msgs |-> "none"] /\ val' = [m \in Msgs |-> 0]
    /\ processed' = 0 /\ drained' = {}
    /\ UNCHANGED <<fileVars, succeeded, failed>>

Producer == Send \/ Close
Loop ==
    \/ LoopReceive \/ LoopClosed \/ LoopCancelled \/ Dispatch
    \/ DrainReceive \/ WaitDone \/ Flush
Goroutine(m) == ProcessOK(m) \/ ProcessErr(m) \/ Count(m) \/ Load(m) \/ Save(m)

Next == Producer \/ Cancel \/ Loop \/ DrainEnd \/ Restart
        \/ \E m \in Msgs : Goroutine(m)

Spec == Init /\ [][Next]_vars

\* The scheduler runs every goroutine and the drain timer fires; a message's
\* processing ends (it runs under a five minute timeout).  The producer need
\* not send or close.
FairSpec ==
    /\ Spec
    /\ WF_vars(Loop) /\ WF_vars(DrainEnd)
    /\ \A m \in Msgs : WF_vars(Goroutine(m))
-----------------------------------------------------------------------------
\* No more than MaxParallel messages are in flight (dialog.go:392).
SlotsRespected == Cardinality(Active) <= MaxParallel

\* Once the loop has returned no goroutine of it uses the database or the
\* files any more, so that the caller may close them (dialog.go:437-441).
NoGoroutineAfterReturn == pc = "exited" => Active = {}

\* The goroutines of the loop are bounded while it runs and gone when it is
\* over, on every path out of it (dialog.go:392-441).
GoroutinesBounded == SlotsRespected /\ NoGoroutineAfterReturn

\* The checkpoint left behind by a return is the number of messages this run
\* has processed, in whatever order the renames landed (checkpoint.go:70-72).
FinalCheckpointExact == pc = "exited" => ckpt = processed

\* The checkpoint never counts more messages than were processed successfully,
\* however the renames of the goroutines and of earlier runs overtake each
\* other (checkpoint.go:22-23, "after every successful
\* ProcessDialogWithProvenance").
CheckpointNotAhead == ckpt <= Cardinality(succeeded)

\* The file tells what happened: never too much, and exactly when the loop
\* ended in an orderly way (checkpoint.go:61-92).
CheckpointHonest == CheckpointNotAhead /\ FinalCheckpointExact

\* What checkpoint.go:22-27 promises of the checkpoint: a producer may skip the
\* first LastCommittedIndex messages, for they were processed.  The number is a
\* count of goroutines that finished in any order (dialog.go:466), so that with
\* two slots it already covers a message that is still in hand.
SkippedSucceeded == \A m \in Msgs : m <= ckpt => m \in succeeded

\* What the code does keep of that promise, with any number of slots, failing
\* messages, cancellation, crashes and restarts: of the messages the checkpoint
\* lets a producer skip, all but MaxParallel - 1 for every start of the process
\* were processed to an end, a success or a reported error; with one slot, all.
Missed(n) == {m \in Msgs : m <= n /\ m \notin succeeded \cup failed}
SkippedAccounted == Cardinality(Missed(ckpt)) <= (restarts + 1) * (MaxParallel - 1)

\* Of the messages that left the channel since the process was last started, at
\* most one is neither given to a goroutine nor drained for the pending file:
\* the one that waited for a slot when the context was cancelled
\* (checkpoint.go:94-96 promises the rest, dialog.go:448-454 drops this one).
Dropped == {m \in Msgs \ (feed \cup skipped) :
                /\ task[m] = "none" /\ m \notin drained
                /\ \A i \in 1..Len(ch) : ch[i] # m}
AtMostOneDropped == Cardinality(Dropped) <= (IF pc = "select" THEN 0 ELSE 1)

\* A cancelled loop returns, also when the producer does not close the channel
\* (checkpoint.go:174-178).
CancelledReturns == cancelled ~> pc = "exited" \/ ~cancelled

\* If the producer goes on, and nobody cancels, every message of the stream is
\* processed, fails, or is one the producer was told to skip, through crashes
\* and restarts.
StreamAccounted ==
    WF_vars(Producer) =>
        <>[](cancelled \/ Msgs \subseteq succeeded \cup failed \cup skipped)
=============================================================================
