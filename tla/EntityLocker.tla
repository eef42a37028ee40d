---------------------------- MODULE EntityLocker ----------------------------
(***************************************************************************)
(* The striped lock of src/internal/store/locker.go.  Every shard is a     *)
(* channel of capacity one that holds one token; taking the token locks    *)
(* the shard.  AcquireBatchCtx removes duplicate ids from a batch, sorts   *)
(* the ids and locks their shards one after the other; a cancelled context *)
(* gives back what was taken, last taken first.  LockCtx/Unlock on one id  *)
(* is a batch of one.                                                      *)
(*                                                                         *)
(* An entity id is its rank in the lexical order of the ids.               *)
(***************************************************************************)
EXTENDS Integers, FiniteSets, TLAPS

CONSTANTS Procs,      \* the calling goroutines
          IDs,          \* entity ids, as their lexical ranks
          Shards,       \* the shards of the locker
          ShardOf,      \* getShard: FNV-1a of the id, masked
          Batches       \* the sets of ids that callers ask for

ASSUME LockerAssumption ==
    /\ IDs \subseteq Nat
    /\ ShardOf \in [IDs -> Shards]
    /\ Batches \subseteq SUBSET IDs

VARIABLES sem,        \* tokens in the channel of each shard
          pc,         \* where each caller is
          todo,       \* ids of the batch not locked yet
          acquired,   \* ids of the batch locked so far
          batch,      \* ids the caller asked for
          cancelled   \* the caller's context is done

vars == <<sem, pc, todo, acquired, batch, cancelled>>

PCs == {"idle", "acquiring", "held", "rollback", "releasing"}

TypeOK ==
    /\ sem \in [Shards -> 0..1]
    /\ pc \in [Procs -> PCs]
    /\ todo \in [Procs -> SUBSET IDs]
    /\ acquired \in [Procs -> SUBSET IDs]
    /\ batch \in [Procs -> SUBSET IDs]
    /\ cancelled \in [Procs -> BOOLEAN]

Init ==
    /\ sem = [s \in Shards |-> 1]
    /\ pc = [p \in Procs |-> "idle"]
    /\ todo = [p \in Procs |-> {}]
    /\ acquired = [p \in Procs |-> {}]
    /\ batch = [p \in Procs |-> {}]
    /\ cancelled = [p \in Procs |-> FALSE]

\* Mutant of IsNext: the batch is not sorted.
AnyNext(p, id) == id \in todo[p]

\* sort.Strings(unique): ids are locked in ascending order.
IsNext(p, id) == id \in todo[p] /\ \A other \in todo[p] : id <= other

\* The deferred release and the rollback both walk acquired backwards.
IsLast(p, id) == id \in acquired[p] /\ \A other \in acquired[p] : other <= id

\* AcquireBatchCtx up to its loop; the empty batch returns a no-op release.
Call(p, b) ==
    /\ pc[p] = "idle"
    /\ batch' = [batch EXCEPT ![p] = b]
    /\ todo' = [todo EXCEPT ![p] = b]
    /\ pc' = [pc EXCEPT ![p] = IF b = {} THEN "held" ELSE "acquiring"]
    /\ cancelled' = [cancelled EXCEPT ![p] = FALSE]
    /\ UNCHANGED <<sem, acquired>>

\* Mutant of Lock: the token is looked at and not taken.
LockWithoutToken(p, id) ==
    /\ pc[p] = "acquiring"
    /\ IsNext(p, id)
    /\ sem[ShardOf[id]] = 1
    /\ todo' = [todo EXCEPT ![p] = @ \ {id}]
    /\ acquired' = [acquired EXCEPT ![p] = @ \cup {id}]
    /\ pc' = [pc EXCEPT ![p] = IF todo[p] = {id} THEN "held" ELSE "acquiring"]
    /\ UNCHANGED <<sem, batch, cancelled>>

\* LockCtx, first case of its select: the token of the shard is received.
Lock(p, id) ==
    /\ pc[p] = "acquiring"
    /\ IsNext(p, id)
    /\ sem[ShardOf[id]] = 1
    /\ sem' = [sem EXCEPT ![ShardOf[id]] = 0]
    /\ todo' = [todo EXCEPT ![p] = @ \ {id}]
    /\ acquired' = [acquired EXCEPT ![p] = @ \cup {id}]
    /\ pc' = [pc EXCEPT ![p] = IF todo[p] = {id} THEN "held" ELSE "acquiring"]
    /\ UNCHANGED <<batch, cancelled>>

\* Mutant of LockCancelled: the error is returned without the rollback.
CancelWithoutRollback(p) ==
    /\ pc[p] = "acquiring"
    /\ cancelled[p]
    /\ pc' = [pc EXCEPT ![p] = "idle"]
    /\ UNCHANGED <<sem, todo, acquired, batch, cancelled>>

\* Mutant of LockCancelled: the id is recorded before the error is looked at.
CancelRecordsId(p) ==
    /\ pc[p] = "acquiring"
    /\ cancelled[p]
    /\ \E id \in IDs : IsNext(p, id) /\ acquired' = [acquired EXCEPT ![p] = @ \cup {id}]
    /\ todo' = [todo EXCEPT ![p] = {}]
    /\ pc' = [pc EXCEPT ![p] = "rollback"]
    /\ UNCHANGED <<sem, batch, cancelled>>

\* LockCtx, second case: ctx.Done() wins, even when the token is there too.
LockCancelled(p) ==
    /\ pc[p] = "acquiring"
    /\ cancelled[p]
    /\ todo' = [todo EXCEPT ![p] = {}]
    /\ pc' = [pc EXCEPT ![p] = IF acquired[p] = {} THEN "idle" ELSE "rollback"]
    /\ UNCHANGED <<sem, acquired, batch, cancelled>>

\* The caller runs the release function it was given.
Release(p) ==
    /\ pc[p] = "held"
    /\ pc' = [pc EXCEPT ![p] = IF acquired[p] = {} THEN "idle" ELSE "releasing"]
    /\ UNCHANGED <<sem, todo, acquired, batch, cancelled>>

\* Mutant of Unlock: the token is added whatever the channel holds, and the
\* ids stay recorded.
UnlockAdds(p, id) ==
    /\ pc[p] \in {"rollback", "releasing"}
    /\ IsLast(p, id)
    /\ sem' = [sem EXCEPT ![ShardOf[id]] = @ + 1]
    /\ pc' = [pc EXCEPT ![p] = "idle"]
    /\ UNCHANGED <<todo, acquired, batch, cancelled>>

\* Unlock: a send on the shard's channel, which blocks while it is full.
Unlock(p, id) ==
    /\ pc[p] \in {"rollback", "releasing"}
    /\ IsLast(p, id)
    /\ sem[ShardOf[id]] = 0
    /\ sem' = [sem EXCEPT ![ShardOf[id]] = 1]
    /\ acquired' = [acquired EXCEPT ![p] = @ \ {id}]
    /\ pc' = [pc EXCEPT ![p] = IF acquired[p] = {id} THEN "idle" ELSE @]
    /\ UNCHANGED <<todo, batch, cancelled>>

\* The context of a call that has not returned its locks fires.
CtxDone(p) ==
    /\ pc[p] # "idle"
    /\ ~cancelled[p]
    /\ cancelled' = [cancelled EXCEPT ![p] = TRUE]
    /\ UNCHANGED <<sem, pc, todo, acquired, batch>>

Next ==
    \E p \in Procs :
        \/ \E b \in Batches : Call(p, b)
        \/ \E id \in IDs : Lock(p, id) \/ Unlock(p, id)
        \/ LockCancelled(p)
        \/ Release(p)
        \/ CtxDone(p)

Spec == Init /\ [][Next]_vars

(***************************************************************************)
(* Fairness.  The runtime schedules every goroutine, and callers defer the *)
(* release, so the local steps are weakly fair.  Goroutines blocked on a   *)
(* channel are queued in arrival order, hence a lock that keeps becoming   *)
(* free is eventually received: strong fairness of Lock.  Nothing obliges  *)
(* a caller to call or a context to fire.                                  *)
(***************************************************************************)
FairSpec ==
    /\ Spec
    /\ \A p \in Procs :
        /\ SF_vars(\E id \in IDs : Lock(p, id))
        /\ WF_vars(LockCancelled(p))
        /\ WF_vars(Release(p))
        /\ WF_vars(\E id \in IDs : Unlock(p, id))
-----------------------------------------------------------------------------
\* Mutual exclusion of entities: two callers that both hold their batch hold
\* disjoint sets of ids, and each of them holds every id it asked for
\* (locker.go:7-10, "serialising concurrent writes to the same entity").
EntityExclusive ==
    /\ \A p \in Procs : pc[p] = "held" => batch[p] \subseteq acquired[p]
    /\ \A p, q \in Procs : p # q => acquired[p] \cap acquired[q] = {}

\* No shard stays locked on behalf of nobody: a token that is out was taken
\* for exactly one id of one caller that has not returned yet, whichever way
\* cancellation interleaves with the batch (locker.go:152-156).
NoZombieShard ==
    \A s \in Shards :
        sem[s] = 0 <=> \E p \in Procs :
                          /\ pc[p] # "idle"
                          /\ \E id \in acquired[p] : ShardOf[id] = s

\* Release and rollback never block in the channel send of Unlock.
UnlockNeverBlocks ==
    \A p \in Procs, id \in IDs :
        pc[p] \in {"rollback", "releasing"} /\ IsLast(p, id)
            => sem[ShardOf[id]] = 0

\* Locks are given back by those who have them, once and without waiting,
\* cancelled batches included (locker.go:147-156, 196-210).
ShardsGivenBack == NoZombieShard /\ UnlockNeverBlocks

\* p is blocked in LockCtx on a shard that q has locked.
WaitsFor(p, q) ==
    /\ pc[p] = "acquiring"
    /\ \E id \in IDs, other \in acquired[q] :
         IsNext(p, id) /\ ShardOf[id] = ShardOf[other]

\* A batch never waits for itself (locker.go:163-167, 179-180: the ids are
\* deduplicated "so we don't lock a shard twice").
NoSelfDeadlock == \A p \in Procs : ~WaitsFor(p, p)

\* Two batches never wait for each other (locker.go:12-15 and 126-127: the
\* sorted acquisition order avoids ABBA deadlocks).
NoABBADeadlock == \A p, q \in Procs : p # q => ~(WaitsFor(p, q) /\ WaitsFor(q, p))

\* Every AcquireBatchCtx call returns: with its locks or with the
\* cancellation error and without any.
EveryCallReturns ==
    \A p \in Procs : pc[p] = "acquiring" ~> pc[p] \in {"held", "idle"}
-----------------------------------------------------------------------------
(* The inductive invariant.                                                *)

\* A shard is locked for at most one id of one caller.
OneHolder ==
    \A p, q \in Procs : \A i \in acquired[p], j \in acquired[q] :
        ShardOf[i] = ShardOf[j] => p = q /\ i = j

\* The token of a shard is out exactly while somebody has the shard locked.
TokenOut ==
    \A s \in Shards :
        sem[s] = 0 <=> \E p \in Procs : \E i \in acquired[p] : ShardOf[i] = s

\* What the program counter of a caller says of its batch.
BatchProgress ==
    \A p \in Procs :
        /\ pc[p] = "idle" => acquired[p] = {} /\ todo[p] = {}
        /\ pc[p] = "held" => batch[p] \subseteq acquired[p] /\ todo[p] = {}
        /\ pc[p] = "acquiring" => batch[p] \subseteq acquired[p] \cup todo[p]
        /\ pc[p] \in {"rollback", "releasing"} => todo[p] = {}

\* Ids are locked in ascending order.
Ascending ==
    \A p \in Procs : \A i \in acquired[p], j \in todo[p] : i < j

IInv == TypeOK /\ OneHolder /\ TokenOut /\ BatchProgress /\ Ascending
-----------------------------------------------------------------------------
LEMMA InitIInv == Init => IInv
  BY LockerAssumption
  DEF Init, IInv, TypeOK, PCs, OneHolder, TokenOut, BatchProgress, Ascending

\* AcquireBatchCtx starts from a caller that has nothing locked.
LEMMA CallIInv ==
  ASSUME IInv, NEW p \in Procs, NEW b \in Batches, Call(p, b)
  PROVE  IInv'
<1> USE LockerAssumption DEF Call, IInv
<1>1. TypeOK'
  BY DEF TypeOK, PCs
<1>2. OneHolder' /\ TokenOut'
  BY DEF OneHolder, TokenOut
<1>3. BatchProgress' /\ Ascending'
  BY DEF BatchProgress, Ascending, TypeOK, PCs
<1> QED BY <1>1, <1>2, <1>3

\* The token that Lock takes was there, so nobody had the shard.
LEMMA LockIInv ==
  ASSUME IInv, NEW p \in Procs, NEW id \in IDs, Lock(p, id)
  PROVE  IInv'
<1> USE LockerAssumption DEF Lock, IInv
<1>1. TypeOK'
  BY DEF TypeOK, PCs
<1>2. /\ acquired'[p] = acquired[p] \cup {id}
      /\ \A q \in Procs : q # p => acquired'[q] = acquired[q]
      /\ ShardOf[id] \in Shards
  BY DEF TypeOK
<1>3. \A q \in Procs : \A i \in acquired[q] : ShardOf[i] # ShardOf[id]
  BY <1>2 DEF TokenOut
<1>4. OneHolder'
  BY <1>2, <1>3 DEF OneHolder
<1>5. TokenOut'
  <2> SUFFICES ASSUME NEW s \in Shards
               PROVE  sem'[s] = 0 <=> \E q \in Procs : \E i \in acquired'[q] : ShardOf[i] = s
    BY DEF TokenOut
  <2>1. CASE s = ShardOf[id]
    BY <2>1, <1>2 DEF TypeOK
  <2>2. CASE s # ShardOf[id]
    BY <2>2, <1>2 DEF TypeOK, TokenOut
  <2> QED BY <2>1, <2>2
<1>6. BatchProgress'
  BY <1>2 DEF BatchProgress, TypeOK, PCs
<1>7. Ascending'
  BY <1>2 DEF Ascending, IsNext, TypeOK
<1> QED BY <1>1, <1>4, <1>5, <1>6, <1>7

\* Unlock gives back the one token that was taken for the id.
LEMMA UnlockIInv ==
  ASSUME IInv, NEW p \in Procs, NEW id \in IDs, Unlock(p, id)
  PROVE  IInv'
<1> USE LockerAssumption DEF Unlock, IInv
<1>1. TypeOK'
  BY DEF TypeOK, PCs
<1>2. /\ acquired'[p] = acquired[p] \ {id}
      /\ \A q \in Procs : q # p => acquired'[q] = acquired[q]
      /\ ShardOf[id] \in Shards
      /\ id \in acquired[p]
  BY DEF TypeOK, IsLast
<1>3. \A q \in Procs : \A i \in acquired'[q] : i \in acquired[q] /\ ShardOf[i] # ShardOf[id]
  BY <1>2 DEF OneHolder
<1>4. OneHolder'
  BY <1>3 DEF OneHolder
<1>5. TokenOut'
  <2> SUFFICES ASSUME NEW s \in Shards
               PROVE  sem'[s] = 0 <=> \E q \in Procs : \E i \in acquired'[q] : ShardOf[i] = s
    BY DEF TokenOut
  <2>1. CASE s = ShardOf[id]
    BY <2>1, <1>3 DEF TypeOK
  <2>2. CASE s # ShardOf[id]
    BY <2>2, <1>2 DEF TypeOK, TokenOut
  <2> QED BY <2>1, <2>2
<1>6. BatchProgress' /\ Ascending'
  BY <1>2 DEF BatchProgress, Ascending, TypeOK, PCs
<1> QED BY <1>1, <1>4, <1>5, <1>6

\* The steps that touch neither a token nor what is locked.
LEMMA LocalIInv ==
  ASSUME IInv, NEW p \in Procs, LockCancelled(p) \/ Release(p) \/ CtxDone(p)
  PROVE  IInv'
<1> USE LockerAssumption DEF IInv, LockCancelled, Release, CtxDone
<1>1. TypeOK'
  BY DEF TypeOK, PCs
<1>2. OneHolder' /\ TokenOut'
  BY DEF OneHolder, TokenOut
<1>3. BatchProgress' /\ Ascending'
  BY DEF BatchProgress, Ascending, TypeOK, PCs
<1> QED BY <1>1, <1>2, <1>3

LEMMA StepIInv == IInv /\ [Next]_vars => IInv'
<1> SUFFICES ASSUME IInv, [Next]_vars
             PROVE  IInv'
  OBVIOUS
<1>1. ASSUME NEW p \in Procs, NEW b \in Batches, Call(p, b)
      PROVE  IInv'
  BY <1>1, CallIInv
<1>2. ASSUME NEW p \in Procs, NEW id \in IDs, Lock(p, id)
      PROVE  IInv'
  BY <1>2, LockIInv
<1>3. ASSUME NEW p \in Procs, NEW id \in IDs, Unlock(p, id)
      PROVE  IInv'
  BY <1>3, UnlockIInv
<1>4. ASSUME NEW p \in Procs, LockCancelled(p) \/ Release(p) \/ CtxDone(p)
      PROVE  IInv'
  BY <1>4, LocalIInv
<1>5. CASE UNCHANGED vars
  BY <1>5 DEF vars, IInv, TypeOK, OneHolder, TokenOut, BatchProgress, Ascending
<1> QED BY <1>1, <1>2, <1>3, <1>4, <1>5 DEF Next

\* The inductive invariant, with the type invariant as its first part.
THEOREM Invariance == Spec => []IInv
<1>1. IInv /\ [Next]_vars => IInv'
  BY StepIInv
<1> QED BY InitIInv, <1>1, PTL DEF Spec

\* Type correctness of the locker (locker.go:44-58).
THEOREM TypeCorrect == Spec => []TypeOK
<1>1. IInv => TypeOK
  BY DEF IInv
<1> QED BY Invariance, <1>1, PTL

\* Two callers that hold their batches hold disjoint batches, whatever the
\* shard map and however cancellation interleaves (locker.go:7-10).
THEOREM Exclusion == Spec => []EntityExclusive
<1>1. IInv => EntityExclusive
  BY DEF IInv, BatchProgress, OneHolder, EntityExclusive
<1> QED BY Invariance, <1>1, PTL

\* Every shard whose token is out is locked by a call in progress, and
\* Unlock never blocks (locker.go:152-156).
THEOREM NothingLeaks == Spec => []ShardsGivenBack
<1>1. IInv => NoZombieShard
  BY DEF IInv, TokenOut, BatchProgress, NoZombieShard
<1>2. IInv => UnlockNeverBlocks
  BY LockerAssumption DEF IInv, TokenOut, TypeOK, UnlockNeverBlocks, IsLast
<1>3. NoZombieShard /\ UnlockNeverBlocks => ShardsGivenBack
  BY DEF ShardsGivenBack
<1> QED BY Invariance, <1>1, <1>2, <1>3, PTL

\* What the sorted order is there for (locker.go:12-15), with the assumption
\* it needs and locker.go does not state: no two ids share a shard.
THEOREM NoDeadlockWithoutCollisions ==
  ASSUME \A i, j \in IDs : ShardOf[i] = ShardOf[j] => i = j
  PROVE  Spec => [](NoSelfDeadlock /\ NoABBADeadlock)
<1>1. ASSUME IInv, NEW p \in Procs, NEW q \in Procs, WaitsFor(p, q)
      PROVE  \E id \in IDs : IsNext(p, id) /\ id \in acquired[q]
  BY <1>1 DEF WaitsFor, IInv, TypeOK
<1>2. IInv => NoSelfDeadlock
  <2> SUFFICES ASSUME IInv, NEW p \in Procs, WaitsFor(p, p)
               PROVE  FALSE
    BY DEF NoSelfDeadlock
  <2>1. PICK id \in IDs : IsNext(p, id) /\ id \in acquired[p]
    BY <1>1
  <2> QED BY <2>1, LockerAssumption DEF IInv, Ascending, IsNext
<1>3. IInv => NoABBADeadlock
  <2> SUFFICES ASSUME IInv, NEW p \in Procs, NEW q \in Procs,
                      WaitsFor(p, q), WaitsFor(q, p)
               PROVE  FALSE
    BY DEF NoABBADeadlock
  <2>1. PICK x \in IDs : IsNext(p, x) /\ x \in acquired[q]
    BY <1>1
  <2>2. PICK y \in IDs : IsNext(q, y) /\ y \in acquired[p]
    BY <1>1
  <2>3. y < x /\ x < y
    BY <2>1, <2>2 DEF IInv, Ascending, IsNext
  <2> QED BY <2>3, LockerAssumption
<1> QED BY Invariance, <1>2, <1>3, PTL
=============================================================================
