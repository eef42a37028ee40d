--------------------------- MODULE RetentionProofs ---------------------------
(***************************************************************************)
(* Proofs about Retention for every number of entities, storers and        *)
(* ingesters.  The types and the fate of the open transaction are those of *)
(* any number of sweepers; the other claims of retention/service.go hold   *)
(* of a single sweeper whose context is never cancelled.                   *)
(***************************************************************************)
EXTENDS Retention, TLAPS

-----------------------------------------------------------------------------
(* Type correctness.                                                       *)

LEMMA FlagType ==
  ASSUME NEW row \in Row
  PROVE  /\ [row EXCEPT !.archived = TRUE] \in Row
         /\ [row EXCEPT !.stale = TRUE] \in Row
  BY DEF Row

\* The sweep's UPDATE sets the flag of the rows that exist and nothing else.
LEMMA ArchiveFacts ==
  ASSUME work \in [Entities -> Row], NEW batch \in SUBSET Entities
  PROVE  /\ Archive(batch) \in [Entities -> Row]
         /\ \A e \in Entities :
              /\ Archive(batch)[e].ver = work[e].ver
              /\ Archive(batch)[e].stale = work[e].stale
              /\ e \in batch /\ work[e].ver # 0 => Archive(batch)[e].archived
<1>1. Archive(batch) \in [Entities -> Row]
  BY FlagType DEF Archive
<1>2. ASSUME NEW e \in Entities
      PROVE  /\ Archive(batch)[e].ver = work[e].ver
             /\ Archive(batch)[e].stale = work[e].stale
             /\ e \in batch /\ work[e].ver # 0 => Archive(batch)[e].archived
  BY DEF Archive, Row
<1> QED BY <1>1, <1>2

LEMMA UpsertType ==
  ASSUME NEW row \in Row, NEW v \in Vers
  PROVE  Upsert(row, v) \in Row
  BY DEF Upsert, Row

\* The steps of RunOnce keep the types.
LEMMA SweepType ==
  ASSUME TypeOK, NEW s \in Sweepers, SweepSelect(s) \/ SweepStep(s) \/ CtxDone(s)
  PROVE  TypeOK'
<1> USE RetentionAssumption DEF TypeOK, Procs, PCs, Goto, dbVars
<1>1. CASE SweepSelect(s)
  BY <1>1 DEF SweepSelect, Stale
<1>2. CASE SweepClear(s)
  BY <1>2 DEF SweepClear
<1>3. CASE SweepBegin(s)
  BY <1>3 DEF SweepBegin
<1>4. CASE SweepUpdate(s)
  <2> DEFINE table == Archive(ids[s])
  <2>1. table \in [Entities -> Row]
    BY ArchiveFacts DEF Row
  <2>2. CASE Write(table) /\ Goto(s, "commit")
    BY <1>4, <2>1, <2>2 DEF SweepUpdate, Write
  <2>3. CASE UNCHANGED dbVars /\ Goto(s, "rollback")
    BY <1>4, <2>3 DEF SweepUpdate
  <2> QED BY <1>4, <2>2, <2>3 DEF SweepUpdate
<1>5. CASE SweepCommit(s)
  BY <1>5 DEF SweepCommit
<1>6. CASE SweepRollback(s)
  BY <1>6 DEF SweepRollback
<1>7. CASE SweepVectors(s)
  BY <1>7 DEF SweepVectors, Vers
<1>8. CASE CtxDone(s)
  BY <1>8 DEF CtxDone
<1> QED BY <1>1, <1>2, <1>3, <1>4, <1>5, <1>6, <1>7, <1>8 DEF SweepStep

\* A write has its version from nextVer and its entity from the caller.
LEMMA WriterType ==
  ASSUME TypeOK, NEW w \in Storers \cup Ingesters, NEW e \in Entities,
         \/ w \in Storers /\ (StoreVector(w, e) \/ StoreStep(w))
         \/ w \in Ingesters /\ (IngestBegin(w, e) \/ IngestStep(w))
  PROVE  TypeOK'
<1> USE RetentionAssumption DEF TypeOK, Procs, PCs, Goto, dbVars
<1>1. arg[w].id \in Entities /\ arg[w].ver \in Vers
  OBVIOUS
<1>2. ASSUME nextVer <= MaxVer
      PROVE  nextVer \in Vers /\ nextVer + 1 \in 1..(MaxVer + 1)
  BY <1>2 DEF Vers
<1>3. [work EXCEPT ![arg[w].id] = Upsert(@, arg[w].ver)] \in [Entities -> Row]
  BY <1>1, UpsertType
<1>4. CASE w \in Storers /\ StoreVector(w, e)
  BY <1>2, <1>4 DEF StoreVector
<1>5. CASE w \in Storers /\ StoreRow(w)
  BY <1>1, <1>3, <1>5 DEF StoreRow, Write
<1>6. CASE w \in Storers /\ (StoreRowFails(w) \/ StoreUndo(w))
  BY <1>1, <1>6 DEF StoreRowFails, StoreUndo, Vers
<1>7. CASE w \in Ingesters /\ IngestBegin(w, e)
  BY <1>2, <1>7 DEF IngestBegin
<1>8. CASE w \in Ingesters /\ IngestCommit(w)
  BY <1>1, <1>3, <1>8 DEF IngestCommit
<1>9. CASE w \in Ingesters /\ (IngestRollback(w) \/ IngestVectors(w))
  BY <1>1, <1>9 DEF IngestRollback, IngestVectors
<1> QED BY <1>4, <1>5, <1>6, <1>7, <1>8, <1>9 DEF StoreStep, IngestStep

LEMMA AgeType ==
  ASSUME TypeOK, NEW e \in Entities, Age(e)
  PROVE  TypeOK'
<1>1. [work EXCEPT ![e].stale = TRUE] \in [Entities -> Row]
  BY FlagType DEF TypeOK
<1>2. [durable EXCEPT ![e].stale = TRUE] \in [Entities -> Row]
  BY FlagType DEF TypeOK
<1> QED BY <1>1, <1>2 DEF TypeOK, Age

LEMMA InitType == Init => TypeOK
<1> SUFFICES ASSUME Init PROVE TypeOK
  OBVIOUS
<1> USE RetentionAssumption DEF Init
<1>1. 0 \in Vers /\ 1 \in 1..(MaxVer + 1)
  BY DEF Vers
<1>2. Absent \in Row
  BY <1>1 DEF Absent, Row
<1>3. durable \in [Entities -> Row] /\ work \in [Entities -> Row]
  BY <1>2
<1>4. arg \in [Storers \cup Ingesters -> [id : Entities, ver : Vers]]
  BY <1>1
<1>5. vec \in [Entities -> Vers] /\ acked \in [Entities -> Vers]
  BY <1>1
<1> QED BY <1>1, <1>3, <1>4, <1>5 DEF TypeOK, PCs

\* Type correctness, whatever the sweepers, failures and cancellations.
THEOREM TypeCorrect == Spec => []TypeOK
<1>1. TypeOK /\ [Next]_vars => TypeOK'
  <2> SUFFICES ASSUME TypeOK, [Next]_vars
               PROVE  TypeOK'
    OBVIOUS
  <2>1. ASSUME NEW s \in Sweepers, SweepSelect(s) \/ SweepStep(s) \/ CtxDone(s)
        PROVE  TypeOK'
    BY <2>1, SweepType
  <2>2. ASSUME NEW c \in Storers, StoreStep(c) \/ \E e \in Entities : StoreVector(c, e)
        PROVE  TypeOK'
    BY <2>2, WriterType DEF StoreStep, StoreRow, StoreRowFails, StoreUndo, TypeOK
  <2>3. ASSUME NEW i \in Ingesters, IngestStep(i) \/ \E e \in Entities : IngestBegin(i, e)
        PROVE  TypeOK'
    BY <2>3, WriterType DEF TypeOK
  <2>4. ASSUME NEW e \in Entities, Age(e)
        PROVE  TypeOK'
    BY <2>4, AgeType
  <2>5. CASE UNCHANGED vars
    BY <2>5 DEF vars, TypeOK
  <2> QED BY <2>1, <2>2, <2>3, <2>4, <2>5 DEF Next
<1> QED BY InitType, <1>1, PTL DEF Spec
-----------------------------------------------------------------------------
(* The transaction of a sweep.                                             *)

\* s is in, or was cancelled in, the part of RunOnce that holds a transaction,
\* or is about to send the defensive ROLLBACK.
MayOwnTx(s) == ~live[s] \/ pc[s] \in {"selected", "update", "commit", "rollback"}

\* A sweep that may own the transaction gives it up only by ending it.
LEMMA StepOrphan ==
  ASSUME TypeOK, NoOrphanTx, [Next]_vars
  PROVE  NoOrphanTx'
<1> USE RetentionAssumption DEF TypeOK, Procs, Goto, dbVars
<1>1. ASSUME NEW s \in Sweepers, SweepSelect(s) \/ SweepStep(s) \/ CtxDone(s)
      PROVE  NoOrphanTx'
  <2>1. \A t \in Sweepers \ {s} : MayOwnTx(t)' <=> MayOwnTx(t)
    BY <1>1 DEF MayOwnTx, SweepSelect, SweepStep, SweepClear, SweepBegin, SweepUpdate,
                SweepCommit, SweepRollback, SweepVectors, CtxDone
  <2>2. ASSUME inTx', MayOwnTx(s) \/ ~inTx PROVE MayOwnTx(s)'
    <3>1. CASE SweepSelect(s) \/ SweepVectors(s) \/ CtxDone(s)
      BY <2>2, <3>1 DEF MayOwnTx, SweepSelect, SweepVectors, CtxDone
    <3>2. CASE SweepClear(s) \/ SweepBegin(s) \/ SweepRollback(s)
      BY <2>2, <3>2 DEF MayOwnTx, SweepClear, SweepBegin, SweepRollback
    <3>3. CASE SweepUpdate(s)
      BY <2>2, <3>3 DEF MayOwnTx, SweepUpdate
    <3>4. CASE SweepCommit(s)
      BY <2>2, <3>4 DEF MayOwnTx, SweepCommit
    <3> QED BY <1>1, <3>1, <3>2, <3>3, <3>4 DEF SweepStep
  <2> QED BY <2>1, <2>2 DEF NoOrphanTx, MayOwnTx
<1>2. ASSUME NEW c \in Storers, StoreStep(c) \/ \E e \in Entities : StoreVector(c, e)
      PROVE  NoOrphanTx'
  BY <1>2 DEF NoOrphanTx, StoreStep, StoreRow, StoreRowFails, StoreUndo, StoreVector, Write
<1>3. ASSUME NEW i \in Ingesters, IngestStep(i) \/ \E e \in Entities : IngestBegin(i, e)
      PROVE  NoOrphanTx'
  BY <1>3 DEF NoOrphanTx, IngestStep, IngestCommit, IngestRollback, IngestVectors, IngestBegin
<1>4. ASSUME NEW e \in Entities, Age(e)
      PROVE  NoOrphanTx'
  BY <1>4 DEF NoOrphanTx, Age
<1>5. CASE UNCHANGED vars
  BY <1>5 DEF NoOrphanTx, vars
<1> QED BY <1>1, <1>2, <1>3, <1>4, <1>5 DEF Next

\* Whatever statements fail and however many sweeps overlap, the connection is
\* inside a transaction only on behalf of a sweep that is in it, was cancelled,
\* or is about to clear it (service.go:137-144, 211-215).
THEOREM NoOrphan == Spec => []NoOrphanTx
<1>1. Init => NoOrphanTx
  BY DEF Init, NoOrphanTx
<1> QED BY <1>1, StepOrphan, TypeCorrect, PTL DEF Spec
-----------------------------------------------------------------------------
(* One sweeper whose context lasts.                                        *)

SingleSweeper == \A s, t \in Sweepers : s = t
NeverCancelled == Cancellable = {}

InSweepTx(s) == pc[s] \in {"update", "commit", "rollback"}

\* The raw transaction is the sweeper's, and excludes every sql.Tx.
TxShape ==
    /\ \A s \in Sweepers : live[s]
    /\ inTx <=> \E s \in Sweepers : InSweepTx(s)
    /\ txOwner # Nobody => ~inTx
    /\ ~inTx => durable = work

\* Only rows that exist are stale, and writers write real versions.
RowShape ==
    /\ \A e \in Entities : work[e].stale => work[e].ver # 0
    /\ \A e \in Entities : durable[e].stale => durable[e].ver # 0
    /\ \A c \in Storers : pc[c] = "insert" => arg[c].ver # 0
    /\ \A i \in Ingesters : pc[i] = "tx" => arg[i].ver # 0

\* What becomes of the rows of a batch.
BatchShape ==
    \A s \in Sweepers : \A e \in ids[s] :
        /\ pc[s] \in {"selected", "begin", "update"} => work[e].ver # 0
        /\ pc[s] \in {"commit", "vectors"} => work[e].archived

Shape == TxShape /\ RowShape /\ BatchShape

SInv == TypeOK /\ Shape

LEMMA InitSInv == Init => Shape
  BY RetentionAssumption
  DEF Init, Shape, TxShape, RowShape, BatchShape, Absent, Procs, InSweepTx

\* RunOnce up to its BEGIN IMMEDIATE: the defensive ROLLBACK finds nothing.
LEMMA SweepStartSInv ==
  ASSUME SingleSweeper, NeverCancelled, SInv, NEW s \in Sweepers,
         SweepSelect(s) \/ SweepClear(s) \/ SweepBegin(s)
  PROVE  Shape'
<1> USE RetentionAssumption DEF SInv, Shape, TypeOK, Procs, PCs, Goto, dbVars, SingleSweeper
<1>1. \A t \in Sweepers : t = s
  OBVIOUS
<1>2. CASE SweepSelect(s)
  <2>1. TxShape' /\ RowShape'
    BY <1>1, <1>2 DEF SweepSelect, TxShape, RowShape, InSweepTx
  <2>2. \A e \in ids'[s] : work'[e].ver # 0
    BY <1>2 DEF SweepSelect, Stale, RowShape
  <2>3. BatchShape'
    BY <1>1, <1>2, <2>2 DEF SweepSelect, BatchShape
  <2> QED BY <2>1, <2>3
<1>3. CASE SweepClear(s)
  <2>1. ~inTx
    BY <1>1, <1>3 DEF SweepClear, TxShape, InSweepTx
  <2> QED
    BY <1>1, <1>3, <2>1 DEF SweepClear, TxShape, RowShape, BatchShape, InSweepTx
<1>4. CASE SweepBegin(s)
  <2>1. ~inTx /\ live[s]
    BY <1>1, <1>4 DEF SweepBegin, TxShape, InSweepTx
  <2> QED
    BY <1>1, <1>4, <2>1 DEF SweepBegin, ConnFree, TxShape, RowShape, BatchShape, InSweepTx
<1> QED BY <1>2, <1>3, <1>4

\* RunOnce inside its transaction.
LEMMA SweepTxSInv ==
  ASSUME SingleSweeper, NeverCancelled, SInv, NEW s \in Sweepers,
         SweepUpdate(s) \/ SweepCommit(s) \/ SweepRollback(s) \/ SweepVectors(s) \/ CtxDone(s)
  PROVE  Shape'
<1> USE RetentionAssumption DEF SInv, Shape, TypeOK, Procs, PCs, Goto, dbVars, SingleSweeper
<1>1. \A t \in Sweepers : t = s
  OBVIOUS
<1>2. CASE SweepUpdate(s)
  <2>1. inTx /\ live[s] /\ txOwner = Nobody
    BY <1>1, <1>2 DEF SweepUpdate, TxShape, InSweepTx, ConnFree
  <2>2. CASE UNCHANGED <<durable, work, inTx>> /\ pc' = [pc EXCEPT ![s] = "rollback"]
    BY <1>1, <1>2, <2>1, <2>2 DEF SweepUpdate, TxShape, RowShape, BatchShape, InSweepTx
  <2>3. CASE Write(Archive(ids[s])) /\ pc' = [pc EXCEPT ![s] = "commit"]
    <3>1. work' = Archive(ids[s]) /\ durable' = durable /\ inTx' = inTx
      BY <2>1, <2>3 DEF Write
    <3>2. \A e \in Entities :
             /\ work'[e].ver = work[e].ver /\ work'[e].stale = work[e].stale
             /\ e \in ids[s] => work'[e].archived
      BY <1>2, <3>1, ArchiveFacts DEF SweepUpdate, BatchShape
    <3> QED BY <1>1, <1>2, <2>1, <2>3, <3>1, <3>2
            DEF SweepUpdate, TxShape, RowShape, BatchShape, InSweepTx
  <2> QED BY <1>2, <2>2, <2>3 DEF SweepUpdate
<1>3. CASE SweepCommit(s)
  BY <1>1, <1>3 DEF SweepCommit, TxShape, RowShape, BatchShape, InSweepTx
<1>4. CASE SweepRollback(s)
  BY <1>1, <1>4 DEF SweepRollback, TxShape, RowShape, BatchShape, InSweepTx
<1>5. CASE SweepVectors(s)
  BY <1>1, <1>5 DEF SweepVectors, TxShape, RowShape, BatchShape, InSweepTx
<1>6. CASE CtxDone(s)
  BY <1>6 DEF CtxDone, NeverCancelled
<1> QED BY <1>2, <1>3, <1>4, <1>5, <1>6

\* Writers keep the archived flag and add rows, they remove none.
LEMMA WriteSInv ==
  ASSUME SInv, NEW w \in Storers \cup Ingesters,
         \/ w \in Storers /\ (StoreStep(w) \/ \E e \in Entities : StoreVector(w, e))
         \/ w \in Ingesters /\ (IngestStep(w) \/ \E e \in Entities : IngestBegin(w, e))
  PROVE  Shape'
<1> USE RetentionAssumption DEF SInv, Shape, TypeOK, Procs, PCs, Goto, dbVars
<1> DEFINE table == [work EXCEPT ![arg[w].id] = Upsert(@, arg[w].ver)]
<1>1. arg[w].id \in Entities /\ w \notin Sweepers
  OBVIOUS
<1>2. \A e \in Entities : table[e].archived = work[e].archived
  BY DEF Upsert
<1>3. ASSUME arg[w].ver # 0
      PROVE  \A e \in Entities : /\ table[e].stale => table[e].ver # 0
                                 /\ work[e].ver # 0 => table[e].ver # 0
  BY <1>3 DEF Upsert, RowShape
<1> HIDE DEF table
<1>4. CASE w \in Storers /\ \E e \in Entities : StoreVector(w, e)
  <2>1. nextVer # 0
    OBVIOUS
  <2> QED BY <1>1, <1>4, <2>1 DEF StoreVector, TxShape, RowShape, BatchShape, InSweepTx
<1>5. CASE w \in Storers /\ StoreRow(w)
  <2>1. work' = table /\ inTx' = inTx /\ durable' = IF inTx THEN durable ELSE table
    BY <1>5 DEF StoreRow, Write, table
  <2>2. arg[w].ver # 0
    BY <1>5 DEF StoreRow, RowShape
  <2> QED BY <1>1, <1>2, <1>3, <1>5, <2>1, <2>2
          DEF StoreRow, TxShape, RowShape, BatchShape, InSweepTx
<1>6. CASE w \in Storers /\ (StoreRowFails(w) \/ StoreUndo(w))
  BY <1>1, <1>6 DEF StoreRowFails, StoreUndo, TxShape, RowShape, BatchShape, InSweepTx
<1>7. CASE w \in Ingesters /\ \E e \in Entities : IngestBegin(w, e)
  <2>1. nextVer # 0
    OBVIOUS
  <2> QED BY <1>1, <1>7, <2>1 DEF IngestBegin, TxShape, RowShape, BatchShape, InSweepTx
<1>8. CASE w \in Ingesters /\ IngestCommit(w)
  <2>1. work' = table /\ durable' = table /\ inTx' = inTx /\ txOwner' = Nobody
    BY <1>8 DEF IngestCommit, table
  <2>2. arg[w].ver # 0
    BY <1>8 DEF IngestCommit, RowShape
  <2> QED BY <1>1, <1>2, <1>3, <1>8, <2>1, <2>2
          DEF IngestCommit, TxShape, RowShape, BatchShape, InSweepTx
<1>9. CASE w \in Ingesters /\ (IngestRollback(w) \/ IngestVectors(w))
  BY <1>1, <1>9 DEF IngestRollback, IngestVectors, TxShape, RowShape, BatchShape, InSweepTx
<1> QED BY <1>4, <1>5, <1>6, <1>7, <1>8, <1>9 DEF StoreStep, IngestStep

LEMMA AgeSInv ==
  ASSUME SInv, NEW e \in Entities, Age(e)
  PROVE  Shape'
<1> USE DEF SInv, Shape, TypeOK, Age
<1>1. \A f \in Entities :
         /\ work'[f].ver = work[f].ver /\ work'[f].archived = work[f].archived
         /\ work'[f].stale => work[f].ver # 0
  BY DEF RowShape, Row
<1>2. \A f \in Entities :
         durable'[f].ver = durable[f].ver /\ (durable'[f].stale => durable[f].ver # 0)
  BY DEF RowShape, Row
<1>3. ~inTx => durable' = work'
  BY DEF TxShape
<1> QED BY <1>1, <1>2, <1>3 DEF TxShape, RowShape, BatchShape, InSweepTx

LEMMA StepSInv ==
  ASSUME SingleSweeper, NeverCancelled, SInv, [Next]_vars
  PROVE  Shape'
<1>1. ASSUME NEW s \in Sweepers, SweepSelect(s) \/ SweepStep(s) \/ CtxDone(s)
      PROVE  Shape'
  BY <1>1, SweepStartSInv, SweepTxSInv DEF SweepStep
<1>2. ASSUME NEW c \in Storers, StoreStep(c) \/ \E e \in Entities : StoreVector(c, e)
      PROVE  Shape'
  BY <1>2, WriteSInv
<1>3. ASSUME NEW i \in Ingesters, IngestStep(i) \/ \E e \in Entities : IngestBegin(i, e)
      PROVE  Shape'
  BY <1>3, WriteSInv
<1>4. ASSUME NEW e \in Entities, Age(e)
      PROVE  Shape'
  BY <1>4, AgeSInv
<1>5. CASE UNCHANGED vars
  BY <1>5 DEF vars, SInv, Shape, TxShape, RowShape, BatchShape, InSweepTx
<1> QED BY <1>1, <1>2, <1>3, <1>4, <1>5 DEF Next

LEMMA SweepInvariance ==
  ASSUME SingleSweeper, NeverCancelled
  PROVE  Spec => []SInv
<1>1. Init => Shape
  BY InitSInv
<1>2. TypeOK /\ Shape /\ [Next]_vars => Shape'
  BY StepSInv DEF SInv
<1>3. SInv <=> TypeOK /\ Shape
  BY DEF SInv
<1> QED BY <1>1, <1>2, <1>3, TypeCorrect, PTL DEF Spec

\* A single sweep takes vectors away only after the archiving is durable
\* (service.go:15-16).
THEOREM NoVectorDrift ==
  ASSUME SingleSweeper, NeverCancelled
  PROVE  Spec => VectorsGoAfterCommit
<1>1. ASSUME SInv, NEW s \in Sweepers, pc[s] = "vectors", NEW e \in ids[s]
      PROVE  durable[e].archived
  <2>1. ~inTx
    BY <1>1 DEF SInv, Shape, TxShape, InSweepTx, SingleSweeper
  <2> QED BY <1>1, <2>1 DEF SInv, Shape, TxShape, BatchShape
<1>2. SInv => \A s \in Sweepers :
                pc[s] = "vectors" /\ pc'[s] = "idle"
                   => \A e \in ids[s] : durable[e].archived \/ durable[e].ver = 0
  BY <1>1
<1> QED BY <1>2, SweepInvariance, PTL DEF VectorsGoAfterCommit

\* What the connection sees of a row and is not yet durable was written in the
\* raw transaction that is open, and its writer has been told.
Pending ==
    \A e \in Entities :
        work[e].ver # durable[e].ver => inTx /\ work[e].ver = acked[e]

Stays(e) ==
    \/ durable'[e].ver = acked'[e]
    \/ acked'[e] # acked[e] /\ inTx
    \/ acked'[e] = acked[e] /\ durable[e].ver # acked[e]

\* The sweep writes no version: it makes the pending ones durable or drops them.
LEMMA SweepPending ==
  ASSUME TypeOK, Pending, NEW s \in Sweepers, SweepSelect(s) \/ SweepStep(s) \/ CtxDone(s)
  PROVE  Pending' /\ \A e \in Entities : Stays(e)
<1> USE DEF TypeOK, dbVars, Pending, Stays
<1>1. acked' = acked
  BY DEF SweepSelect, SweepStep, SweepClear, SweepBegin, SweepUpdate, SweepCommit,
         SweepRollback, SweepVectors, CtxDone
<1>2. CASE SweepSelect(s) \/ SweepVectors(s) \/ CtxDone(s)
  BY <1>1, <1>2 DEF SweepSelect, SweepVectors, CtxDone
<1>3. CASE SweepClear(s) \/ SweepRollback(s)
  BY <1>1, <1>3 DEF SweepClear, SweepRollback
<1>4. CASE SweepBegin(s)
  BY <1>1, <1>4 DEF SweepBegin
<1>5. CASE SweepUpdate(s)
  <2>1. CASE UNCHANGED dbVars
    BY <1>1, <2>1
  <2>2. CASE Write(Archive(ids[s]))
    <3>1. \A e \in Entities : work'[e].ver = work[e].ver
      BY <2>2, ArchiveFacts DEF Write
    <3> QED BY <1>1, <2>2, <3>1 DEF Write
  <2> QED BY <1>5, <2>1, <2>2 DEF SweepUpdate
<1>6. CASE SweepCommit(s)
  BY <1>1, <1>6 DEF SweepCommit
<1> QED BY <1>2, <1>3, <1>4, <1>5, <1>6 DEF SweepStep

\* A writer is told of exactly the version it has put into its row.
LEMMA WritePending ==
  ASSUME TypeOK, Pending, NEW w \in Storers \cup Ingesters,
         \/ w \in Storers /\ (StoreStep(w) \/ \E e \in Entities : StoreVector(w, e))
         \/ w \in Ingesters /\ (IngestStep(w) \/ \E e \in Entities : IngestBegin(w, e))
  PROVE  Pending' /\ \A e \in Entities : Stays(e)
<1> USE DEF TypeOK, dbVars, Pending, Stays
<1> DEFINE table == [work EXCEPT ![arg[w].id] = Upsert(@, arg[w].ver)]
<1>1. /\ table[arg[w].id].ver = arg[w].ver
      /\ \A e \in Entities : e # arg[w].id => table[e] = work[e]
  BY DEF Upsert
<1> HIDE DEF table
<1>2. CASE w \in Storers /\ StoreRow(w)
  <2>1. /\ work' = table /\ durable' = (IF inTx THEN durable ELSE table) /\ inTx' = inTx
        /\ acked' = [acked EXCEPT ![arg[w].id] = arg[w].ver]
    BY <1>2 DEF StoreRow, Write, table
  <2> QED BY <1>1, <2>1
<1>3. CASE w \in Ingesters /\ IngestCommit(w)
  <2>1. /\ work' = table /\ durable' = table /\ inTx' = inTx
        /\ acked' = [acked EXCEPT ![arg[w].id] = arg[w].ver]
    BY <1>3 DEF IngestCommit, table
  <2> QED BY <1>1, <2>1
<1>4. CASE UNCHANGED <<durable, work, inTx, acked>>
  BY <1>4
<1> QED BY <1>2, <1>3, <1>4 DEF StoreStep, StoreRowFails, StoreUndo, StoreVector,
           IngestStep, IngestRollback, IngestVectors, IngestBegin

LEMMA StepPending ==
  ASSUME TypeOK, Pending, [Next]_vars
  PROVE  Pending' /\ \A e \in Entities : Stays(e)
<1>1. ASSUME NEW f \in Entities, Age(f) PROVE Pending' /\ \A e \in Entities : Stays(e)
  <2>1. /\ inTx' = inTx /\ acked' = acked
        /\ \A e \in Entities :
             work'[e].ver = work[e].ver /\ durable'[e].ver = durable[e].ver
    BY <1>1 DEF Age, TypeOK, Row
  <2> QED BY <2>1 DEF Pending, Stays
<1>2. CASE UNCHANGED vars
  BY <1>2 DEF vars, Pending, Stays
<1> QED BY <1>1, <1>2, SweepPending, WritePending DEF Next

\* For any number of sweepers, whatever statement fails and whichever context
\* ends, a rollback takes back only what was written while its raw transaction
\* was open (service.go:51-54).
THEOREM DurableStaysStored == Spec => DurableStays
<1>1. Init => Pending
  BY DEF Init, Pending
<1>2. TypeOK /\ Pending /\ [Next]_vars => Pending'
  BY StepPending
<1>3. TypeOK /\ Pending /\ [Next]_vars
        => [\A e \in Entities :
             \/ durable'[e].ver = acked'[e]
             \/ acked'[e] # acked[e] /\ inTx
             \/ acked'[e] = acked[e] /\ durable[e].ver # acked[e]]_vars
  BY StepPending DEF Stays
<1> QED BY <1>1, <1>2, <1>3, TypeCorrect, PTL DEF Spec, DurableStays

\* A single sweep that nobody cancels and no statement fails never rolls back.
NoRollback == \A s \in Sweepers : pc[s] # "rollback"

LEMMA StepNoRollback ==
  ASSUME SingleSweeper, NeverCancelled, CanFail = FALSE, SInv, NoRollback, [Next]_vars
  PROVE  NoRollback'
<1> USE RetentionAssumption DEF SInv, Shape, TypeOK, Procs, PCs, Goto, dbVars, NoRollback
<1>1. ASSUME NEW s \in Sweepers, SweepSelect(s) \/ SweepStep(s) \/ CtxDone(s)
      PROVE  NoRollback'
  <2>1. live[s] /\ (pc[s] \in {"update", "commit"} => inTx)
    BY DEF TxShape, InSweepTx, SingleSweeper
  <2>2. CASE SweepSelect(s) \/ SweepClear(s) \/ SweepBegin(s)
    BY <2>1, <2>2 DEF SweepSelect, SweepClear, SweepBegin
  <2>3. CASE SweepUpdate(s) \/ SweepCommit(s)
    BY <2>1, <2>3 DEF SweepUpdate, SweepCommit
  <2>4. CASE SweepRollback(s) \/ SweepVectors(s) \/ CtxDone(s)
    BY <2>4 DEF SweepRollback, SweepVectors, CtxDone
  <2> QED BY <1>1, <2>2, <2>3, <2>4 DEF SweepStep
<1>2. ASSUME NEW c \in Storers, StoreStep(c) \/ \E e \in Entities : StoreVector(c, e)
      PROVE  NoRollback'
  BY <1>2 DEF StoreStep, StoreRow, StoreRowFails, StoreUndo, StoreVector
<1>3. ASSUME NEW i \in Ingesters, IngestStep(i) \/ \E e \in Entities : IngestBegin(i, e)
      PROVE  NoRollback'
  BY <1>3 DEF IngestStep, IngestCommit, IngestRollback, IngestVectors, IngestBegin
<1>4. ASSUME NEW e \in Entities, Age(e) PROVE NoRollback'
  BY <1>4 DEF Age
<1>5. CASE UNCHANGED vars
  BY <1>5 DEF vars
<1> QED BY <1>1, <1>2, <1>3, <1>4, <1>5 DEF Next
-----------------------------------------------------------------------------
(* The index at rest.                                                      *)

\* A row that is not archived has its vector or an ingester that is about to
\* write it; what a storer is about to insert has its vector already, unless
\* a sweep has archived the row and taken it.
Findable ==
    /\ \A e \in Entities :
         work[e].ver # 0 =>
            \/ vec[e] # 0 \/ work[e].archived
            \/ \E i \in Ingesters : pc[i] = "vectors" /\ arg[i].id = e
    /\ \A i \in Ingesters : pc[i] \in {"tx", "vectors"} => arg[i].ver # 0
    /\ \A c \in Storers :
         pc[c] = "insert" => vec[arg[c].id] # 0 \/ work[arg[c].id].archived
    /\ \A c \in Storers : pc[c] # "undo"

\* The sweep takes vectors of archived rows only, and archives for good.
LEMMA SweepFindable ==
  ASSUME SingleSweeper, NeverCancelled, CanFail = FALSE, SInv, NoRollback, Findable,
         NEW s \in Sweepers, SweepSelect(s) \/ SweepStep(s) \/ CtxDone(s)
  PROVE  Findable'
<1> USE RetentionAssumption DEF SInv, Shape, TypeOK, Procs, PCs, Goto, dbVars
<1>1. /\ live[s] /\ pc[s] # "rollback"
      /\ pc[s] \in {"selected", "begin"} => ~inTx
      /\ pc[s] \in {"update", "commit"} => inTx
  BY DEF TxShape, InSweepTx, SingleSweeper, NoRollback
<1>2. /\ arg' = arg
      /\ \A p \in Storers \cup Ingesters : pc'[p] = pc[p]
  BY DEF SweepSelect, SweepStep, SweepClear, SweepBegin, SweepUpdate, SweepCommit,
         SweepRollback, SweepVectors, CtxDone
<1>3. CASE SweepVectors(s)
  <2>1. work' = work /\ vec' = [e \in Entities |-> IF e \in ids[s] THEN 0 ELSE vec[e]]
    BY <1>3 DEF SweepVectors
  <2>2. \A e \in ids[s] : work[e].archived
    BY <1>3 DEF SweepVectors, BatchShape
  <2> QED BY <1>2, <2>1, <2>2 DEF Findable
<1>4. CASE SweepUpdate(s)
  <2>1. work' = Archive(ids[s]) /\ vec' = vec
    BY <1>1, <1>4 DEF SweepUpdate, Write
  <2>2. \A e \in Entities :
          work'[e].ver = work[e].ver /\ (work[e].archived => work'[e].archived)
    <3>1. \A e \in Entities : work'[e].ver = work[e].ver
      BY <2>1, ArchiveFacts
    <3>2. \A e \in Entities : work[e].archived => work'[e].archived
      BY <2>1 DEF Archive, Row
    <3> QED BY <3>1, <3>2
  <2> QED BY <1>2, <2>1, <2>2 DEF Findable
<1>5. CASE SweepSelect(s) \/ SweepClear(s) \/ SweepBegin(s) \/ SweepCommit(s) \/ CtxDone(s)
  <2>1. work' = work /\ vec' = vec
    BY <1>1, <1>5 DEF SweepSelect, SweepClear, SweepBegin, SweepCommit, CtxDone
  <2> QED BY <1>2, <2>1 DEF Findable
<1>6. CASE SweepRollback(s)
  BY <1>1, <1>6 DEF SweepRollback
<1> QED BY <1>3, <1>4, <1>5, <1>6 DEF SweepStep

\* A storer writes the vector before the row, an ingester after it.
LEMMA WriteFindable ==
  ASSUME CanFail = FALSE, SInv, Findable, NEW w \in Storers \cup Ingesters,
         \/ w \in Storers /\ (StoreStep(w) \/ \E e \in Entities : StoreVector(w, e))
         \/ w \in Ingesters /\ (IngestStep(w) \/ \E e \in Entities : IngestBegin(w, e))
  PROVE  Findable'
<1> USE RetentionAssumption DEF SInv, Shape, TypeOK, Procs, PCs, Goto, dbVars
<1> DEFINE table == [work EXCEPT ![arg[w].id] = Upsert(@, arg[w].ver)]
<1>1. \A e \in Entities : table[e].archived = work[e].archived
  BY DEF Upsert
<1>2. \A e \in Entities : e # arg[w].id => table[e] = work[e]
  OBVIOUS
<1> HIDE DEF table
<1>3. CASE w \in Storers /\ \E e \in Entities : StoreVector(w, e)
  BY <1>3 DEF StoreVector, Findable
<1>4. CASE w \in Storers /\ StoreRow(w)
  <2>1. work' = table /\ vec' = vec /\ arg' = arg /\ pc' = [pc EXCEPT ![w] = "idle"]
    BY <1>4 DEF StoreRow, Write, table
  <2>2. vec[arg[w].id] # 0 \/ work[arg[w].id].archived
    BY <1>4 DEF StoreRow, Findable
  <2> QED BY <1>1, <1>2, <1>4, <2>1, <2>2 DEF Findable
<1>5. CASE w \in Storers /\ (StoreRowFails(w) \/ StoreUndo(w))
  BY <1>5 DEF StoreRowFails, StoreUndo, Findable
<1>6. CASE w \in Ingesters /\ \E e \in Entities : IngestBegin(w, e)
  BY <1>6 DEF IngestBegin, Findable
<1>7. CASE w \in Ingesters /\ IngestCommit(w)
  <2>1. work' = table /\ vec' = vec /\ arg' = arg /\ pc' = [pc EXCEPT ![w] = "vectors"]
    BY <1>7 DEF IngestCommit, table
  <2>2. pc[w] = "tx"
    BY <1>7 DEF IngestCommit
  <2> QED BY <1>1, <1>2, <1>7, <2>1, <2>2 DEF Findable
<1>8. CASE w \in Ingesters /\ IngestRollback(w)
  BY <1>8 DEF IngestRollback
<1>9. CASE w \in Ingesters /\ IngestVectors(w)
  <2>1. /\ vec' = [vec EXCEPT ![arg[w].id] = arg[w].ver] /\ UNCHANGED <<work, arg>>
        /\ pc' = [pc EXCEPT ![w] = "idle"] /\ arg[w].ver # 0
    BY <1>9 DEF IngestVectors, Findable
  <2> QED BY <1>9, <2>1 DEF Findable
<1> QED BY <1>3, <1>4, <1>5, <1>6, <1>7, <1>8, <1>9 DEF StoreStep, IngestStep

LEMMA StepFindable ==
  ASSUME SingleSweeper, NeverCancelled, CanFail = FALSE,
         SInv, NoRollback, Findable, [Next]_vars
  PROVE  Findable'
<1>1. ASSUME NEW e \in Entities, Age(e) PROVE Findable'
  <2>1. UNCHANGED <<vec, pc, arg>>
    BY <1>1 DEF Age
  <2>2. \A f \in Entities : work'[f].ver = work[f].ver /\ work'[f].archived = work[f].archived
    BY <1>1 DEF Age, SInv, TypeOK, Row
  <2>3. \A c \in Storers : arg[c].id \in Entities
    BY DEF SInv, TypeOK
  <2> QED BY <2>1, <2>2, <2>3 DEF Findable
<1>2. CASE UNCHANGED vars
  BY <1>2 DEF vars, Findable
<1> QED BY <1>1, <1>2, SweepFindable, WriteFindable DEF Next

\* With one sweeper, a lasting context and no failing statement, what is
\* durably visible can be found whenever all calls have returned
\* (memory/service.go:112-117).
THEOREM VisibleIsFound ==
  ASSUME SingleSweeper, NeverCancelled, CanFail = FALSE
  PROVE  Spec => []LiveIsSearchable
<1>1. Init => NoRollback /\ Findable
  BY RetentionAssumption DEF Init, NoRollback, Findable, Absent, Procs
<1>2. SInv /\ NoRollback /\ [Next]_vars => NoRollback'
  BY StepNoRollback
<1>3. SInv /\ NoRollback /\ Findable /\ [Next]_vars => Findable'
  BY StepFindable
<1>4. SInv /\ Findable => LiveIsSearchable
  <2> SUFFICES ASSUME SInv, Findable, Quiescent, NEW e \in Entities,
                      durable[e].ver # 0, ~durable[e].archived
               PROVE  vec[e] # 0
    BY DEF LiveIsSearchable
  <2>1. durable = work
    BY DEF SInv, Shape, TxShape, InSweepTx, Quiescent, Procs
  <2> QED BY <2>1 DEF Findable, Quiescent, Procs
<1> QED BY <1>1, <1>2, <1>3, <1>4, SweepInvariance, PTL DEF Spec
-----------------------------------------------------------------------------
(* One sweeper, whatever fails or is cancelled.                            *)

\* The rows of a batch are durably visible until its COMMIT.  A transaction
\* that a cancelled sweep has left open keeps what it wrote from the durable
\* table, and archived rows stay archived in the table the connection sees.
Atomic ==
    /\ ~inTx => durable = work
    /\ txOwner # Nobody => ~inTx
    /\ \A i \in Ingesters : pc[i] = "tx" => txOwner = i
    /\ \A e \in Entities : durable[e].archived => work[e].archived
    /\ \A s \in Sweepers : pc[s] = "update" => inTx
    /\ \A s \in Sweepers :
         pc[s] \in {"selected", "begin", "update", "commit", "rollback"}
            => \A e \in ids[s] : ~durable[e].archived

LEMMA SweepAtomic ==
  ASSUME SingleSweeper, TypeOK, Atomic,
         NEW s \in Sweepers, SweepSelect(s) \/ SweepStep(s) \/ CtxDone(s)
  PROVE  Atomic'
<1> USE RetentionAssumption DEF TypeOK, Procs, PCs, Goto, dbVars
<1>1. \A t \in Sweepers : t = s
  BY DEF SingleSweeper
<1>2. /\ txOwner' = txOwner
      /\ \A p \in Storers \cup Ingesters : pc'[p] = pc[p]
  BY DEF SweepSelect, SweepStep, SweepClear, SweepBegin, SweepUpdate, SweepCommit,
         SweepRollback, SweepVectors, CtxDone
<1>3. CASE SweepSelect(s)
  <2>1. \A e \in ids'[s] : ~durable[e].archived
    BY <1>3 DEF SweepSelect, Stale, Atomic
  <2> QED BY <1>1, <1>2, <1>3, <2>1 DEF SweepSelect, Atomic
<1>4. CASE SweepClear(s)
  BY <1>1, <1>2, <1>4 DEF SweepClear, Atomic
<1>5. CASE SweepBegin(s)
  BY <1>1, <1>2, <1>5 DEF SweepBegin, ConnFree, Atomic
<1>6. CASE SweepUpdate(s)
  <2>1. CASE UNCHANGED dbVars /\ Goto(s, "rollback")
    BY <1>1, <1>2, <1>6, <2>1 DEF SweepUpdate, Atomic
  <2>2. CASE Write(Archive(ids[s])) /\ Goto(s, "commit") /\ inTx
    <3>1. work' = Archive(ids[s]) /\ durable' = durable /\ inTx' = inTx
      BY <2>2 DEF Write
    <3>2. \A e \in Entities : work[e].archived => work'[e].archived
      BY <3>1 DEF Archive, Row
    <3> QED BY <1>1, <1>2, <1>6, <2>2, <3>1, <3>2 DEF SweepUpdate, Atomic
  <2>3. inTx
    BY <1>6 DEF SweepUpdate, Atomic
  <2> QED BY <1>6, <2>1, <2>2, <2>3 DEF SweepUpdate
<1>7. CASE SweepCommit(s)
  BY <1>1, <1>2, <1>7 DEF SweepCommit, Atomic
<1>8. CASE SweepRollback(s)
  BY <1>1, <1>2, <1>8 DEF SweepRollback, Atomic
<1>9. CASE SweepVectors(s) \/ CtxDone(s)
  BY <1>1, <1>2, <1>9 DEF SweepVectors, CtxDone, Atomic
<1> QED BY <1>3, <1>4, <1>5, <1>6, <1>7, <1>8, <1>9 DEF SweepStep

LEMMA WriteAtomic ==
  ASSUME TypeOK, Atomic, NEW w \in Storers \cup Ingesters,
         \/ w \in Storers /\ (StoreStep(w) \/ \E e \in Entities : StoreVector(w, e))
         \/ w \in Ingesters /\ (IngestStep(w) \/ \E e \in Entities : IngestBegin(w, e))
  PROVE  Atomic'
<1> USE RetentionAssumption DEF TypeOK, Procs, PCs, Goto, dbVars
<1> DEFINE table == [work EXCEPT ![arg[w].id] = Upsert(@, arg[w].ver)]
<1>1. \A e \in Entities : table[e].archived = work[e].archived
  BY DEF Upsert
<1> HIDE DEF table
<1>2. /\ ids' = ids /\ inTx' = inTx
      /\ \A s \in Sweepers : pc'[s] = pc[s]
  BY DEF StoreStep, StoreRow, StoreRowFails, StoreUndo, StoreVector, Write,
         IngestStep, IngestCommit, IngestRollback, IngestVectors, IngestBegin
<1>3. CASE w \in Storers /\ StoreRow(w)
  <2>1. /\ work' = table /\ durable' = IF inTx THEN durable ELSE table
        /\ txOwner' = txOwner /\ pc' = [pc EXCEPT ![w] = "idle"]
    BY <1>3 DEF StoreRow, Write, table
  <2> QED BY <1>1, <1>2, <1>3, <2>1 DEF Atomic
<1>4. CASE w \in Storers /\ (StoreRowFails(w) \/ StoreUndo(w) \/ \E e \in Entities : StoreVector(w, e))
  BY <1>2, <1>4 DEF StoreRowFails, StoreUndo, StoreVector, Atomic
<1>5. CASE w \in Ingesters /\ IngestCommit(w)
  <2>1. /\ work' = table /\ durable' = table
        /\ txOwner' = Nobody /\ pc' = [pc EXCEPT ![w] = "vectors"]
    BY <1>5 DEF IngestCommit, table
  <2>2. txOwner = w /\ ~inTx /\ durable = work
    BY <1>5 DEF IngestCommit, Atomic
  <2>3. \A i \in Ingesters : pc'[i] = "tx" => txOwner' = i
    BY <1>5, <2>1, <2>2 DEF Atomic
  <2> QED BY <1>1, <1>2, <2>1, <2>2, <2>3 DEF Atomic
<1>6. CASE w \in Ingesters /\ (IngestRollback(w) \/ IngestVectors(w) \/ \E e \in Entities : IngestBegin(w, e))
  BY <1>2, <1>6 DEF IngestRollback, IngestVectors, IngestBegin, ConnFree, Atomic
<1> QED BY <1>3, <1>4, <1>5, <1>6 DEF StoreStep, IngestStep

LEMMA StepAtomic ==
  ASSUME SingleSweeper, TypeOK, Atomic, [Next]_vars
  PROVE  Atomic'
<1>1. ASSUME NEW e \in Entities, Age(e) PROVE Atomic'
  <2>1. UNCHANGED <<inTx, txOwner, pc, ids>>
    BY <1>1 DEF Age
  <2>2. \A f \in Entities :
          work'[f].archived = work[f].archived /\ durable'[f].archived = durable[f].archived
    BY <1>1 DEF Age, TypeOK, Row
  <2>3. ~inTx => durable' = work'
    BY <1>1 DEF Age, Atomic, TypeOK
  <2>4. \A s \in Sweepers : ids[s] \subseteq Entities
    BY DEF TypeOK
  <2> QED BY <2>1, <2>2, <2>3, <2>4 DEF Atomic
<1>2. CASE UNCHANGED vars
  BY <1>2 DEF vars, Atomic
<1> QED BY <1>1, <1>2, SweepAtomic, WriteAtomic DEF Next

\* One sweeper archives a batch together or not at all, whatever statement
\* fails and whenever its context ends (service.go:83-105).
THEOREM ArchivedTogether ==
  ASSUME SingleSweeper
  PROVE  Spec => []ArchiveIsAtomic
<1>1. Init => Atomic
  BY RetentionAssumption DEF Init, Atomic, Absent, Procs
<1>2. TypeOK /\ Atomic /\ [Next]_vars => Atomic'
  BY StepAtomic
<1>3. Atomic => ArchiveIsAtomic
  BY DEF Atomic, ArchiveIsAtomic
<1> QED BY <1>1, <1>2, <1>3, TypeCorrect, PTL DEF Spec
=============================================================================
