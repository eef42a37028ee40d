------------------------ MODULE ResilientLoopProofs ------------------------
(***************************************************************************)
(* Proofs about ResilientLoop for every stream length, channel capacity    *)
(* and number of slots.                                                    *)
(***************************************************************************)
EXTENDS ResilientLoop, FiniteSetTheorems, TLAPS

(***************************************************************************)
(* No message is handed to two goroutines: a message still to be sent, in  *)
(* the channel or held by the loop is in one of these places only, and no  *)
(* goroutine has it.                                                       *)
(***************************************************************************)
Fresh ==
    /\ \A m \in feed : task[m] = "none"
    /\ \A i \in 1..Len(ch) :
         /\ ch[i] \notin feed /\ task[ch[i]] = "none"
         /\ \A j \in 1..Len(ch) : j # i => ch[j] # ch[i]
    /\ pc = "dispatch" =>
         /\ held \in Msgs \ feed /\ task[held] = "none"
         /\ \A i \in 1..Len(ch) : ch[i] # held

\* The messages the counter may have counted.
Counted == {m \in Msgs : task[m] \in {"load", "save", "done"}}

\* TypeOK but for the upper bound of the counter, which needs Counted.
TypeInv == TypeOK /\ Fresh /\ processed <= Cardinality(Counted)

-----------------------------------------------------------------------------
(* Sets of messages are finite.                                            *)

LEMMA MsgsFinite ==
  ASSUME NEW S \in SUBSET Msgs
  PROVE  IsFiniteSet(S) /\ Cardinality(S) \in 0..N
<1>1. IsFiniteSet(1..N) /\ Cardinality(1..N) = N
  BY FS_Interval, ResilientLoopAssumption
<1>2. IsFiniteSet(S) /\ Cardinality(S) <= N
  BY <1>1, FS_Subset DEF Msgs
<1> QED BY <1>2, FS_CardinalityType, ResilientLoopAssumption

LEMMA SmallerSet ==
  ASSUME NEW S \in SUBSET Msgs, NEW T \in SUBSET S
  PROVE  Cardinality(T) <= Cardinality(S)
  BY MsgsFinite, FS_Subset

LEMMA OneMore ==
  ASSUME NEW S \in SUBSET Msgs, NEW m \in Msgs \ S
  PROVE  Cardinality(S \cup {m}) = Cardinality(S) + 1
  BY MsgsFinite, FS_AddElement

-----------------------------------------------------------------------------
(* Fresh.                                                                  *)

LEMMA ChannelStep ==
  ASSUME TypeOK, Fresh, [Next]_vars
  PROVE  Fresh'
<1> USE ResilientLoopAssumption DEF TypeOK, Fresh, chanVars, fileVars, Msgs, Running
<1>1. CASE Send
  <2>1. PICK m \in feed : ch' = Append(ch, m) /\ feed' = feed \ {m}
    BY <1>1 DEF Send
  <2>2. /\ Len(ch') = Len(ch) + 1
        /\ \A i \in 1..Len(ch) : ch'[i] = ch[i]
        /\ ch'[Len(ch) + 1] = m
    BY <2>1
  <2>3. \A i \in 1..Len(ch') : i \in 1..Len(ch) \/ i = Len(ch) + 1
    BY <2>2
  <2>4. UNCHANGED <<pc, held, task>>
    BY <1>1 DEF Send
  <2>5. \A i \in 1..Len(ch) : ch'[i] # m
    BY <2>2
  <2>6. ASSUME NEW i \in 1..Len(ch')
        PROVE  /\ ch'[i] \notin feed' /\ task'[ch'[i]] = "none"
               /\ \A j \in 1..Len(ch') : j # i => ch'[j] # ch'[i]
    <3>1. CASE i \in 1..Len(ch)
      BY <3>1, <2>1, <2>2, <2>3, <2>4
    <3>2. CASE i = Len(ch) + 1
      BY <3>2, <2>1, <2>2, <2>3, <2>4
    <3> QED BY <3>1, <3>2, <2>3
  <2>7. ASSUME pc' = "dispatch"
        PROVE  /\ held' \in Msgs \ feed' /\ task'[held'] = "none"
               /\ \A i \in 1..Len(ch') : ch'[i] # held'
    BY <2>1, <2>2, <2>3, <2>4, <2>7
  <2> QED BY <2>1, <2>4, <2>6, <2>7
<1>2. CASE LoopReceive
  <2>1. ch # <<>> /\ held' = Head(ch) /\ ch' = Tail(ch)
    BY <1>2 DEF LoopReceive
  <2>2. /\ Len(ch) >= 1 /\ Len(ch') = Len(ch) - 1 /\ held' = ch[1]
        /\ \A i \in 1..Len(ch') : i + 1 \in 1..Len(ch) /\ ch'[i] = ch[i + 1]
    BY <2>1
  <2>3. UNCHANGED <<feed, task>>
    BY <1>2 DEF LoopReceive
  <2>4. held' \in Msgs
    BY <2>2
  <2>5. ASSUME NEW i \in 1..Len(ch')
        PROVE  /\ ch'[i] \notin feed' /\ task'[ch'[i]] = "none" /\ ch'[i] # held'
               /\ \A j \in 1..Len(ch') : j # i => ch'[j] # ch'[i]
    <3>1. i + 1 \in 1..Len(ch) /\ i + 1 # 1 /\ 1 \in 1..Len(ch) /\ ch'[i] = ch[i + 1]
      <4>1. i \in Int /\ Len(ch) \in Int /\ Len(ch') \in Int /\ Len(ch) >= 1
        BY <2>2
      <4>2. i + 1 # 1 /\ 1 \in 1..Len(ch)
        BY ONLY <4>1
      <4> QED BY ONLY <2>2, <4>2
    <3>2. \A j \in 1..Len(ch') : j # i => ch'[j] = ch[j + 1] /\ j + 1 # i + 1 /\ j + 1 \in 1..Len(ch)
      BY <2>2
    <3>3. ch[i + 1] \notin feed /\ task[ch[i + 1]] = "none" /\ ch[i + 1] # ch[1]
      BY <3>1
    <3>4. \A j \in 1..Len(ch) : j # i + 1 => ch[j] # ch[i + 1]
      BY <3>1
    <3>5. ch'[i] # held'
      BY <2>2, <3>1, <3>3
    <3>6. \A j \in 1..Len(ch') : j # i => ch'[j] # ch'[i]
      BY <3>1, <3>2, <3>4
    <3> QED BY <2>3, <3>1, <3>3, <3>5, <3>6
  <2>6. held' \notin feed' /\ task'[held'] = "none"
    BY <2>2, <2>3
  <2>7. \A m \in feed' : task'[m] = "none"
    BY <2>3
  <2> QED BY ONLY <2>4, <2>5, <2>6, <2>7 DEF Fresh
<1>3. CASE DrainReceive
  <2>1. ch # <<>> /\ ch' = Tail(ch)
    BY <1>3 DEF DrainReceive
  <2>2. /\ Len(ch') = Len(ch) - 1
        /\ \A i \in 1..Len(ch') : i + 1 \in 1..Len(ch) /\ ch'[i] = ch[i + 1]
    BY <2>1
  <2>3. UNCHANGED <<feed, task, pc>> /\ pc # "dispatch"
    BY <1>3 DEF DrainReceive
  <2>4. ASSUME NEW i \in 1..Len(ch')
        PROVE  /\ ch'[i] \notin feed' /\ task'[ch'[i]] = "none"
               /\ \A j \in 1..Len(ch') : j # i => ch'[j] # ch'[i]
    <3>1. i + 1 \in 1..Len(ch) /\ ch'[i] = ch[i + 1]
      BY <2>2
    <3>2. \A j \in 1..Len(ch') : j # i => ch'[j] = ch[j + 1] /\ j + 1 # i + 1 /\ j + 1 \in 1..Len(ch)
      BY <2>2
    <3>3. ch[i + 1] \notin feed /\ task[ch[i + 1]] = "none"
      BY <3>1
    <3> QED BY <2>3, <3>1, <3>2, <3>3
  <2> QED BY <2>3, <2>4
<1>4. CASE Dispatch
  <2>1. /\ task' = [task EXCEPT ![held] = "process"] /\ pc' = "select"
        /\ held \in Msgs \ feed /\ UNCHANGED <<feed, ch>>
    BY <1>4 DEF Dispatch
  <2>2. \A m \in Msgs : m # held => task'[m] = task[m]
    BY <2>1
  <2>3. \A i \in 1..Len(ch) : ch[i] \in Msgs /\ ch[i] # held
    BY <1>4 DEF Dispatch
  <2> QED BY <2>1, <2>2, <2>3
<1>5. ASSUME NEW m \in Msgs, Goroutine(m)
      PROVE  Fresh'
  <2>1. task[m] # "none" /\ UNCHANGED <<feed, ch, pc, held>>
    BY <1>5 DEF Goroutine, ProcessOK, ProcessErr, Count, Load, Save
  <2>2. \A k \in Msgs : k # m => task'[k] = task[k]
    BY <1>5 DEF Goroutine, ProcessOK, ProcessErr, Count, Load, Save
  <2>3. \A i \in 1..Len(ch) : ch[i] \in Msgs /\ ch[i] # m
    BY <2>1
  <2> QED BY <2>1, <2>2, <2>3
<1>6. CASE Restart
  <2>1. ch' = <<>> /\ pc' = "select" /\ feed' \subseteq Msgs
        /\ \A m \in Msgs : task'[m] = "none"
    BY <1>6 DEF Restart
  <2> QED BY <2>1
<1>7. CASE Close \/ Cancel \/ LoopClosed \/ LoopCancelled \/ WaitDone \/ Flush \/ DrainEnd
  BY <1>7 DEF Close, Cancel, LoopClosed, LoopCancelled, WaitDone, Flush, DrainEnd
<1>8. CASE UNCHANGED vars
  BY <1>8 DEF vars
<1> QED BY <1>1, <1>2, <1>3, <1>4, <1>5, <1>6, <1>7, <1>8 DEF Next, Producer, Loop

-----------------------------------------------------------------------------
(* The counter and the types.                                              *)

LEMMA CounterStep ==
  ASSUME TypeInv, [Next]_vars
  PROVE  processed' \in Nat /\ processed' <= Cardinality(Counted')
<1> USE DEF TypeInv, TypeOK, chanVars, fileVars
<1>0. Counted \in SUBSET Msgs /\ Counted' \in SUBSET Msgs
  BY DEF Counted
<1>1. ASSUME NEW m \in Msgs, Count(m)
      PROVE  processed' \in Nat /\ processed' <= Cardinality(Counted')
  <2>1. m \notin Counted /\ Counted' = Counted \cup {m}
    BY <1>1 DEF Count, Counted
  <2>2. Cardinality(Counted \cup {m}) = Cardinality(Counted) + 1
    BY <1>0, <2>1, OneMore
  <2>3. Cardinality(Counted) \in Nat
    BY <1>0, MsgsFinite, ResilientLoopAssumption
  <2>4. processed \in Nat /\ processed' = processed + 1
    BY <1>1, ResilientLoopAssumption DEF Count
  <2> QED BY <2>1, <2>2, <2>3, <2>4
<1>2. CASE Restart
  BY <1>0, <1>2, MsgsFinite DEF Restart
<1>3. ASSUME UNCHANGED processed, \A m \in Counted : task'[m] \in {"load", "save", "done"}
      PROVE  processed' \in Nat /\ processed' <= Cardinality(Counted')
  <2>1. Counted \subseteq Counted'
    BY <1>3 DEF Counted
  <2> QED BY <1>0, <1>3, <2>1, SmallerSet, MsgsFinite
<1>4. CASE Dispatch
  BY <1>3, <1>4 DEF Dispatch, Counted, Fresh
<1>5. ASSUME NEW m \in Msgs, ProcessOK(m) \/ ProcessErr(m) \/ Load(m) \/ Save(m)
      PROVE  processed' \in Nat /\ processed' <= Cardinality(Counted')
  BY <1>3, <1>5 DEF ProcessOK, ProcessErr, Load, Save, Counted
<1>6. CASE Producer \/ Cancel \/ LoopReceive \/ LoopClosed \/ LoopCancelled
           \/ DrainReceive \/ WaitDone \/ Flush \/ DrainEnd \/ UNCHANGED vars
  BY <1>3, <1>6 DEF Producer, Send, Close, Cancel, LoopReceive, LoopClosed, LoopCancelled,
       DrainReceive, WaitDone, Flush, DrainEnd, vars, Counted
<1> QED BY <1>1, <1>2, <1>4, <1>5, <1>6 DEF Next, Loop, Goroutine

LEMMA EmptyChannel == <<>> \in Seq(Msgs) /\ Len(<<>>) = 0
  OBVIOUS

LEMMA TypeStep ==
  ASSUME TypeInv, [Next]_vars
  PROVE  TypeInv'
<1> SUFFICES TypeOK'
  BY CounterStep, ChannelStep DEF TypeInv
<1> USE ResilientLoopAssumption DEF TypeInv, TypeOK, chanVars, fileVars, Msgs, Running
<1>0. processed' \in 0..N
  <2>1. Counted' \in SUBSET Msgs
    BY DEF Counted
  <2>2. processed' \in Nat /\ processed' <= Cardinality(Counted')
    BY ONLY CounterStep, TypeInv, [Next]_vars
  <2>3. Cardinality(Counted') \in 0..N
    BY <2>1, MsgsFinite
  <2> QED BY ONLY <2>2, <2>3, ResilientLoopAssumption
<1>1. CASE Send
  BY <1>1 DEF Send
<1>2. CASE Close \/ Cancel \/ LoopClosed \/ LoopCancelled \/ WaitDone \/ DrainEnd
  BY <1>2 DEF Close, Cancel, LoopClosed, LoopCancelled, WaitDone, DrainEnd
<1>a. ch # <<>> => Head(ch) \in Msgs /\ Tail(ch) \in Seq(Msgs) /\ Len(Tail(ch)) <= ChanCap
  OBVIOUS
<1>3. CASE LoopReceive
  <2>1. held' \in Msgs /\ ch' \in Seq(Msgs) /\ Len(ch') <= ChanCap
    BY <1>3, <1>a DEF LoopReceive
  <2>2. pc' = "dispatch"
        /\ UNCHANGED <<feed, closed, cancelled, task, val, processed, drained, ckpt, pending,
                       succeeded, failed, skipped, restarts>>
    BY <1>3 DEF LoopReceive
  <2> QED BY <2>1, <2>2
<1>4. CASE DrainReceive
  <2>1. drained' \in SUBSET Msgs /\ ch' \in Seq(Msgs) /\ Len(ch') <= ChanCap
    BY <1>4, <1>a DEF DrainReceive
  <2> QED BY <1>4, <2>1 DEF DrainReceive
<1>5. CASE Dispatch
  BY <1>5 DEF Dispatch
<1>6. CASE Flush
  BY <1>6 DEF Flush
<1>7. ASSUME NEW m \in Msgs, Goroutine(m)
      PROVE  TypeOK'
  <2>1. CASE ProcessOK(m) \/ ProcessErr(m)
    BY <2>1 DEF ProcessOK, ProcessErr
  <2>2. CASE Count(m)
    BY <1>0, <2>2 DEF Count
  <2>3. CASE Load(m)
    BY <2>3 DEF Load
  <2>4. CASE Save(m)
    BY <2>4 DEF Save
  <2> QED BY <1>7, <2>1, <2>2, <2>3, <2>4 DEF Goroutine
<1>8. CASE Restart
  <2>1. /\ restarts' \in 0..MaxRestarts /\ feed' \in SUBSET Msgs /\ ch' = <<>>
        /\ skipped' \in SUBSET Msgs /\ UNCHANGED <<ckpt, pending, succeeded, failed>>
    BY <1>8 DEF Restart
  <2>2. /\ closed' = FALSE /\ cancelled' = FALSE /\ pc' = "select" /\ held' = 0
        /\ task' = [m \in Msgs |-> "none"] /\ val' = [m \in Msgs |-> 0]
        /\ processed' = 0 /\ drained' = {}
    BY <1>8 DEF Restart
  <2>3. ch' \in Seq(Msgs) /\ Len(ch') <= ChanCap
    BY <2>1, EmptyChannel
  <2>4. val' \in [Msgs -> 0..N] /\ task' \in [Msgs -> Running \cup {"none", "done"}]
    BY <2>2
  <2>5. drained' \in SUBSET Msgs /\ held' \in 0..N /\ processed' \in 0..N
    BY <2>2
  <2>6. closed' \in BOOLEAN /\ cancelled' \in BOOLEAN
    BY <2>2
  <2> QED BY <2>1, <2>2, <2>3, <2>4, <2>5, <2>6
<1>9. CASE UNCHANGED vars
  BY <1>9 DEF vars
<1> QED
  BY <1>1, <1>2, <1>3, <1>4, <1>5, <1>6, <1>7, <1>8, <1>9 DEF Next, Producer, Loop

LEMMA TypeInit == Init => TypeInv
<1> SUFFICES ASSUME Init PROVE TypeInv
  OBVIOUS
<1>1. /\ ch \in Seq(Msgs) /\ Len(ch) = 0 /\ Len(ch) <= ChanCap
      /\ \A i \in 1..Len(ch) : FALSE
  BY EmptyChannel, ResilientLoopAssumption DEF Init
<1>3. TypeOK
  <2>1. val \in [Msgs -> 0..N] /\ task \in [Msgs -> Running \cup {"none", "done"}]
    BY ResilientLoopAssumption DEF Init
  <2>2. /\ feed \in SUBSET Msgs /\ drained \in SUBSET Msgs /\ pending \in SUBSET Msgs
        /\ succeeded \in SUBSET Msgs /\ failed \in SUBSET Msgs /\ skipped \in SUBSET Msgs
    BY DEF Init
  <2>3. /\ held \in 0..N /\ processed \in 0..N /\ ckpt \in 0..N
        /\ restarts \in 0..MaxRestarts
    BY ResilientLoopAssumption DEF Init
  <2>4. /\ closed \in BOOLEAN /\ cancelled \in BOOLEAN
        /\ pc \in {"select", "dispatch", "drain", "wait", "flush", "exited"}
    BY DEF Init
  <2> QED BY <1>1, <2>1, <2>2, <2>3, <2>4 DEF TypeOK
<1>4. Fresh
  BY <1>1 DEF Init, Fresh
<1>2. processed <= Cardinality(Counted)
  <2>1. Counted \in SUBSET Msgs
    BY DEF Counted
  <2> QED BY <2>1, MsgsFinite DEF Init
<1> QED BY <1>2, <1>3, <1>4 DEF TypeInv

LEMMA Invariance == Spec => []TypeInv
<1>1. Init => TypeInv
  BY TypeInit
<1>2. TypeInv /\ [Next]_vars => TypeInv'
  BY TypeStep
<1> QED BY <1>1, <1>2, PTL DEF Spec

\* Every variable keeps its type; in particular the counter never passes the
\* length of the stream, so that no message is counted twice in a run.
THEOREM TypeCorrect == Spec => []TypeOK
<1>1. TypeInv => TypeOK
  BY DEF TypeInv
<1> QED BY <1>1, Invariance, PTL

-----------------------------------------------------------------------------
(* The semaphore.                                                          *)

LEMMA SlotStep ==
  ASSUME TypeInv, SlotsRespected, [Next]_vars
  PROVE  SlotsRespected'
<1> USE ResilientLoopAssumption DEF TypeInv, TypeOK, chanVars, fileVars, Running
<1>0. Active \in SUBSET Msgs /\ Active' \in SUBSET Msgs
  BY DEF Active
<1>1. ASSUME Active' \subseteq Active PROVE SlotsRespected'
  BY <1>0, <1>1, SmallerSet, MsgsFinite DEF SlotsRespected
<1>2. CASE Dispatch
  <2>1. held \in Msgs \ Active /\ Active' = Active \cup {held}
    BY <1>2 DEF Dispatch, Active, Fresh
  <2>2. Cardinality(Active) < MaxParallel
    BY <1>2 DEF Dispatch
  <2> QED BY <1>0, <2>1, <2>2, OneMore, MsgsFinite DEF SlotsRespected
<1>3. CASE Restart
  BY <1>1, <1>3 DEF Restart, Active
<1>4. ASSUME NEW m \in Msgs, Goroutine(m) PROVE SlotsRespected'
  BY <1>1, <1>4 DEF Goroutine, ProcessOK, ProcessErr, Count, Load, Save, Active
<1>5. CASE Producer \/ Cancel \/ LoopReceive \/ LoopClosed \/ LoopCancelled
           \/ DrainReceive \/ WaitDone \/ Flush \/ DrainEnd \/ UNCHANGED vars
  BY <1>1, <1>5 DEF Producer, Send, Close, Cancel, LoopReceive, LoopClosed, LoopCancelled,
       DrainReceive, WaitDone, Flush, DrainEnd, vars, Active
<1> QED BY <1>2, <1>3, <1>4, <1>5 DEF Next, Loop

\* At most MaxParallel messages are processed at once.
THEOREM Slots == Spec => []SlotsRespected
<1>1. Init => SlotsRespected
  <2> SUFFICES ASSUME Init PROVE SlotsRespected
    OBVIOUS
  <2>1. Active = {}
    BY DEF Init, Active, Running
  <2> QED BY <2>1, FS_EmptySet, ResilientLoopAssumption DEF SlotsRespected
<1>2. TypeInv /\ SlotsRespected /\ [Next]_vars => SlotsRespected'
  BY SlotStep
<1> QED BY <1>1, <1>2, Invariance, PTL DEF Spec

-----------------------------------------------------------------------------
(* The return.                                                             *)

\* After wg.Wait nobody is left who could still write the checkpoint.
ReturnInv ==
    /\ pc \in {"flush", "exited"} => Active = {}
    /\ pc = "exited" /\ ~CanFailStamp => ckpt = processed

LEMMA ReturnStep ==
  ASSUME TypeOK, ReturnInv, [Next]_vars
  PROVE  ReturnInv'
<1> USE DEF ReturnInv, TypeOK, chanVars, fileVars
<1>1. ASSUME NEW m \in Msgs, Goroutine(m) PROVE ReturnInv'
  <2>1. m \in Active /\ UNCHANGED pc
    BY <1>1 DEF Goroutine, ProcessOK, ProcessErr, Count, Load, Save, Active, Running
  <2> QED BY <2>1
<1>2. CASE Loop \/ DrainEnd
  BY <1>2 DEF Loop, LoopReceive, LoopClosed, LoopCancelled, Dispatch, DrainReceive,
       WaitDone, Flush, DrainEnd, Active
<1>3. CASE Producer \/ Cancel \/ UNCHANGED vars
  BY <1>3 DEF Producer, Send, Close, Cancel, vars, Active
<1>4. CASE Restart
  BY <1>4 DEF Restart
<1> QED BY <1>1, <1>2, <1>3, <1>4 DEF Next

\* When the loop has returned no goroutine of it is left; and if files can be
\* written, the checkpoint is exact.
THEOREM ReturnIsClean ==
  Spec => [](NoGoroutineAfterReturn /\ (CanFailStamp \/ FinalCheckpointExact))
<1>1. Init => ReturnInv
  BY DEF Init, ReturnInv
<1>2. TypeInv /\ ReturnInv /\ [Next]_vars => ReturnInv'
  BY ReturnStep DEF TypeInv
<1>3. ReturnInv => NoGoroutineAfterReturn /\ (CanFailStamp \/ FinalCheckpointExact)
  BY DEF ReturnInv, NoGoroutineAfterReturn, FinalCheckpointExact
<1> QED BY <1>1, <1>2, <1>3, Invariance, PTL DEF Spec

-----------------------------------------------------------------------------
(* The checkpoint.                                                         *)

\* The messages counted in this run, all of which succeeded.
Sure == {m \in succeeded : task[m] \in {"load", "save", "done"}}

\* What a goroutine counts has succeeded, and no file or local copy is ahead.
SoundInv ==
    /\ \A m \in Msgs : task[m] \in {"count", "load", "save"} => m \in succeeded
    /\ \A m \in Msgs : task[m] = "save" => val[m] <= Cardinality(succeeded)
    /\ processed <= Cardinality(Sure)
    /\ ckpt <= Cardinality(succeeded)

LEMMA SoundStep ==
  ASSUME TypeInv, SoundInv, [Next]_vars
  PROVE  SoundInv'
<1> USE ResilientLoopAssumption DEF TypeInv, TypeOK, SoundInv, chanVars, fileVars
<1>0. /\ Sure \in SUBSET Msgs /\ Sure \subseteq succeeded
      /\ Cardinality(Sure) \in Nat /\ Cardinality(succeeded) \in Nat
      /\ Cardinality(Sure) <= Cardinality(succeeded)
  <2>1. Sure \in SUBSET Msgs /\ Sure \in SUBSET succeeded
    BY DEF Sure
  <2> QED BY <2>1, MsgsFinite, SmallerSet
<1>1. ASSUME NEW m \in Msgs, Count(m) PROVE SoundInv'
  <2>1. m \in succeeded \ Sure /\ Sure' = Sure \cup {m}
    BY <1>1 DEF Count, Sure
  <2>2. Cardinality(Sure \cup {m}) = Cardinality(Sure) + 1
    BY <1>0, <2>1, OneMore
  <2>3. processed' = processed + 1 /\ processed \in Nat
    BY <1>1 DEF Count
  <2>4. processed' <= Cardinality(Sure')
    BY <1>0, <2>1, <2>2, <2>3
  <2> QED BY <1>1, <2>4 DEF Count
<1>2. ASSUME NEW m \in Msgs, Load(m) PROVE SoundInv'
  <2>1. Sure' = Sure /\ UNCHANGED <<succeeded, processed, ckpt>>
    BY <1>2 DEF Load, Sure
  <2>2. \A k \in Msgs : task'[k] = "save" => val'[k] <= Cardinality(succeeded)
    <3>1. ASSUME NEW k \in Msgs, k # m, task'[k] = "save" PROVE val'[k] <= Cardinality(succeeded)
      BY <1>2, <3>1 DEF Load
    <3>2. val'[m] = processed
      BY <1>2 DEF Load
    <3>3. processed <= Cardinality(succeeded)
      BY <1>0
    <3> QED BY <3>1, <3>2, <3>3
  <2>3. \A k \in Msgs : task'[k] \in {"count", "load", "save"} => k \in succeeded
    BY <1>2 DEF Load
  <2> QED BY <2>1, <2>2, <2>3
<1>3. ASSUME NEW m \in Msgs, Save(m) PROVE SoundInv'
  <2>1. Sure' = Sure
    BY <1>3 DEF Save, Sure
  <2> QED BY <1>3, <2>1 DEF Save
<1>4. ASSUME NEW m \in Msgs, ProcessOK(m) PROVE SoundInv'
  <2>1. succeeded' = succeeded \cup {m} /\ UNCHANGED <<processed, ckpt, val>>
    BY <1>4 DEF ProcessOK
  <2>2. Sure' = Sure
    BY <1>4, <2>1 DEF ProcessOK, Sure
  <2>3. succeeded' \in SUBSET Msgs /\ succeeded \in SUBSET succeeded'
    BY <2>1
  <2>4. Cardinality(succeeded) <= Cardinality(succeeded') /\ Cardinality(succeeded') \in Nat
    BY <2>3, SmallerSet, MsgsFinite
  <2>5. ckpt' <= Cardinality(succeeded')
    BY <1>0, <2>1, <2>4
  <2>6. \A k \in Msgs : task'[k] = "save" => val'[k] <= Cardinality(succeeded')
    <3>1. ASSUME NEW k \in Msgs, task'[k] = "save" PROVE val'[k] <= Cardinality(succeeded')
      <4>1. task[k] = "save" /\ val'[k] = val[k] /\ val[k] \in Nat
        BY <1>4, <3>1 DEF ProcessOK
      <4> QED BY <1>0, <2>4, <4>1
    <3> QED BY <3>1
  <2>7. \A k \in Msgs : task'[k] \in {"count", "load", "save"} => k \in succeeded'
    BY <1>4, <2>1 DEF ProcessOK
  <2> QED BY <2>1, <2>2, <2>5, <2>6, <2>7
<1>5. ASSUME NEW m \in Msgs, ProcessErr(m) PROVE SoundInv'
  <2>1. Sure \in SUBSET Sure' /\ Sure' \in SUBSET Msgs
    BY <1>5 DEF ProcessErr, Sure
  <2>3. Cardinality(Sure) <= Cardinality(Sure') /\ Cardinality(Sure') \in Nat
    BY <2>1, SmallerSet, MsgsFinite
  <2>4. processed' = processed
    BY <1>5 DEF ProcessErr
  <2>2. processed' <= Cardinality(Sure')
    BY <1>0, <2>3, <2>4
  <2> QED BY <1>5, <2>2 DEF ProcessErr
<1>6. CASE Dispatch
  <2>1. Sure' = Sure
    BY <1>6 DEF Dispatch, Sure, Fresh
  <2> QED BY <1>6, <2>1 DEF Dispatch
<1>7. CASE Flush
  <2>1. Sure' = Sure
    BY <1>7 DEF Flush, Sure
  <2> QED BY <1>0, <1>7, <2>1 DEF Flush
<1>8. CASE Restart
  <2>1. Sure' \in SUBSET Msgs
    BY <1>8 DEF Restart, Sure
  <2>2. processed' <= Cardinality(Sure')
    BY <1>8, <2>1, MsgsFinite DEF Restart
  <2> QED BY <1>8, <2>2 DEF Restart
<1>9. CASE Producer \/ LoopReceive \/ LoopClosed \/ LoopCancelled
           \/ DrainReceive \/ WaitDone \/ DrainEnd \/ Cancel \/ UNCHANGED vars
  <2>1. UNCHANGED <<task, val, processed, succeeded, ckpt>>
    BY <1>9 DEF Producer, Send, Close, LoopReceive, LoopClosed, LoopCancelled,
         DrainReceive, WaitDone, DrainEnd, Cancel, vars
  <2> QED BY <2>1 DEF Sure
<1> QED
  BY <1>1, <1>2, <1>3, <1>4, <1>5, <1>6, <1>7, <1>8, <1>9 DEF Next, Loop, Goroutine

\* The checkpoint never counts more messages than were processed
\* successfully, however the goroutines and their renames interleave,
\* whatever fails, through cancellations, crashes and restarts.
THEOREM CheckpointSound == Spec => []CheckpointNotAhead
<1>1. Init => SoundInv
  <2> SUFFICES ASSUME Init PROVE SoundInv
    OBVIOUS
  <2>1. Sure = {}
    BY DEF Init, Sure
  <2> QED BY <2>1, FS_EmptySet DEF Init, SoundInv
<1>2. TypeInv /\ SoundInv /\ [Next]_vars => SoundInv'
  BY SoundStep
<1>3. SoundInv => CheckpointNotAhead
  BY DEF SoundInv, CheckpointNotAhead
<1> QED BY <1>1, <1>2, <1>3, Invariance, PTL DEF Spec

\* The goroutines are bounded and gone after the return (dialog.go:392-441).
THEOREM Bounded == Spec => []GoroutinesBounded
<1>1. /\ SlotsRespected
      /\ NoGoroutineAfterReturn /\ (CanFailStamp \/ FinalCheckpointExact)
      => GoroutinesBounded
  BY DEF GoroutinesBounded
<1> QED BY <1>1, Slots, ReturnIsClean, PTL

\* When the stamp can always be written, the checkpoint is never ahead and is
\* exact at the end (checkpoint.go:61-92).
THEOREM Honest ==
  ASSUME CanFailStamp = FALSE
  PROVE  Spec => []CheckpointHonest
<1>1. /\ CheckpointNotAhead
      /\ NoGoroutineAfterReturn /\ (CanFailStamp \/ FinalCheckpointExact)
      => CheckpointHonest
  BY DEF CheckpointHonest
<1> QED BY <1>1, CheckpointSound, ReturnIsClean, PTL

-----------------------------------------------------------------------------
(* The messages a cancelled loop gives up.                                 *)

\* Since the last start, a message that left the channel has a goroutine or is
\* drained, but for the one the loop holds.
DropInv ==
    /\ pc \in {"select", "dispatch"} => drained = {}
    /\ Dropped \subseteq (IF pc = "select" THEN {} ELSE {held})

LEMMA DropStep ==
  ASSUME TypeInv, DropInv, [Next]_vars
  PROVE  DropInv'
<1> USE ResilientLoopAssumption DEF TypeInv, TypeOK, DropInv, chanVars, fileVars, Running
<1>1. CASE Send
  <2>1. PICK m \in feed : ch' = Append(ch, m) /\ feed' = feed \ {m}
    BY <1>1 DEF Send
  <2>2. /\ Len(ch') = Len(ch) + 1 /\ ch'[Len(ch) + 1] = m
        /\ \A i \in 1..Len(ch) : i \in 1..Len(ch') /\ ch'[i] = ch[i]
    BY <2>1
  <2>3. UNCHANGED <<pc, held, task, drained, skipped>>
    BY <1>1 DEF Send
  <2>4. Dropped' \subseteq Dropped
    BY <2>1, <2>2, <2>3 DEF Dropped
  <2> QED BY <2>3, <2>4
<1>2. CASE LoopReceive
  <2>1. /\ Len(ch) >= 1 /\ Len(ch') = Len(ch) - 1 /\ held' = ch[1]
        /\ \A i \in 2..Len(ch) : i - 1 \in 1..Len(ch') /\ ch'[i - 1] = ch[i]
    BY <1>2 DEF LoopReceive
  <2>2. pc = "select" /\ pc' = "dispatch" /\ UNCHANGED <<feed, task, drained, skipped>>
    BY <1>2 DEF LoopReceive
  <2>5. \A i \in 1..Len(ch) : ch[i] = held' \/ \E j \in 1..Len(ch') : ch'[j] = ch[i]
    BY <2>1
  <2>3. Dropped' \subseteq Dropped \cup {held'}
    BY ONLY <2>2, <2>5 DEF Dropped
  <2>4. Dropped = {}
    BY <2>2
  <2> QED BY ONLY <2>2, <2>3, <2>4, DropInv DEF DropInv
<1>3. CASE DrainReceive
  <2>1. /\ Len(ch) >= 1 /\ Len(ch') = Len(ch) - 1 /\ drained' = drained \cup {ch[1]}
        /\ \A i \in 2..Len(ch) : i - 1 \in 1..Len(ch') /\ ch'[i - 1] = ch[i]
    BY <1>3 DEF DrainReceive
  <2>2. pc = "drain" /\ UNCHANGED <<pc, feed, task, held, skipped>>
    BY <1>3 DEF DrainReceive
  <2>3. Dropped' \subseteq Dropped
    BY <2>1, <2>2 DEF Dropped
  <2> QED BY <2>2, <2>3
<1>4. CASE Dispatch
  <2>1. /\ held \in Msgs /\ task' = [task EXCEPT ![held] = "process"]
        /\ pc = "dispatch" /\ pc' = "select"
        /\ UNCHANGED <<feed, ch, held, drained, skipped>>
    BY <1>4 DEF Dispatch, Fresh
  <2>2. Dropped' \subseteq Dropped \ {held}
    BY <2>1 DEF Dropped
  <2> QED BY <2>1, <2>2
<1>5. ASSUME NEW m \in Msgs, Goroutine(m) PROVE DropInv'
  <2>1. task'[m] # "none" /\ UNCHANGED <<feed, skipped, ch, pc, held, drained>>
    BY <1>5 DEF Goroutine, ProcessOK, ProcessErr, Count, Load, Save
  <2>2. \A k \in Msgs : k # m => task'[k] = task[k]
    BY <1>5 DEF Goroutine, ProcessOK, ProcessErr, Count, Load, Save
  <2>3. Dropped' \subseteq Dropped
    BY ONLY <2>1, <2>2 DEF Dropped
  <2> QED BY <2>1, <2>3
<1>6. CASE Restart
  <2>1. skipped' = Msgs \ feed' /\ drained' = {}
    BY <1>6 DEF Restart
  <2>2. Dropped' = {}
    BY <2>1 DEF Dropped
  <2> QED BY ONLY <2>1, <2>2 DEF DropInv
<1>7. CASE Close \/ Cancel \/ LoopClosed \/ LoopCancelled \/ WaitDone \/ Flush \/ DrainEnd
           \/ UNCHANGED vars
  <2>1. /\ UNCHANGED <<feed, ch, task, held, drained, skipped>>
        /\ pc' \in {"select", "dispatch"} => pc' = pc
        /\ pc # "select" => pc' # "select"
    BY <1>7 DEF Close, Cancel, LoopClosed, LoopCancelled, WaitDone, Flush, DrainEnd, vars
  <2>2. Dropped' = Dropped
    BY <2>1 DEF Dropped
  <2> QED BY <2>1, <2>2
<1> QED BY <1>1, <1>2, <1>3, <1>4, <1>5, <1>6, <1>7 DEF Next, Producer, Loop

\* Whenever the context is cancelled and whatever fails, in every run of the
\* process at most the message that waited for a slot is neither handed out nor
\* drained (checkpoint.go:94-96, dialog.go:448-454).
THEOREM OneDropped == Spec => []AtMostOneDropped
<1>1. Init => DropInv
  BY DEF Init, DropInv, Dropped
<1>2. TypeInv /\ DropInv /\ [Next]_vars => DropInv'
  BY DropStep
<1>3. DropInv => AtMostOneDropped
  <2> SUFFICES ASSUME DropInv
               PROVE  Cardinality(Dropped) <= (IF pc = "select" THEN 0 ELSE 1)
    BY DEF AtMostOneDropped
  <2>1. CASE pc = "select"
    BY <2>1, FS_EmptySet DEF DropInv
  <2>2. CASE pc # "select"
    <3>1. Dropped \subseteq {held}
      BY <2>2 DEF DropInv
    <3>2. IsFiniteSet({held}) /\ Cardinality({held}) = 1
      BY FS_Singleton
    <3> QED BY <2>2, <3>1, <3>2, FS_Subset
  <2> QED BY <2>1, <2>2
<1> QED BY <1>1, <1>2, <1>3, Invariance, PTL DEF Spec

-----------------------------------------------------------------------------
(* What the checkpoint lets a producer skip.                               *)

Unsettled == Msgs \ (succeeded \cup failed)
InHand == {m \in Msgs : task[m] = "process"}

\* Messages are handed out in the order of the stream: what has no goroutine
\* yet is ahead of what has one, and while the loop takes messages nothing of
\* this run is missing from the feed, the channel and its hand.
InOrder ==
    /\ \A m \in Msgs \ skipped : \A k \in Msgs : task[m] = "none" /\ task[k] # "none" => k < m
    /\ feed \cap skipped = {}
    /\ \A i \in 1..Len(ch) : ch[i] \notin skipped /\ \A k \in feed : ch[i] < k
    /\ \A i, j \in 1..Len(ch) : i < j => ch[i] < ch[j]
    /\ pc = "dispatch" =>
         /\ held \notin skipped /\ \A k \in feed : held < k
         /\ \A i \in 1..Len(ch) : held < ch[i]

\* What a goroutine leaves is settled; a number about to be saved covers, of
\* this run's messages, only such as are settled or in hand.
Settled ==
    /\ \A m \in Msgs : task[m] \in {"count", "load", "save", "done"} => m \notin Unsettled
    /\ \A m \in Msgs : task[m] = "save" => Missed(val[m]) \subseteq skipped \cup InHand

Slack(n) == n * (MaxParallel - 1)

\* Every start of the process may add MaxParallel - 1 messages to those given up.
Lost ==
    /\ Cardinality(Missed(ckpt)) <= Slack(restarts + 1)
    /\ Cardinality(Unsettled \cap skipped) <= Slack(restarts)

LEMMA SlackGrows ==
  ASSUME NEW n \in Nat
  PROVE  /\ Slack(n) \in Nat /\ Slack(n + 1) = Slack(n) + MaxParallel - 1
         /\ Slack(n) <= Slack(n + 1)
<1>1. MaxParallel - 1 \in Nat
  BY ResilientLoopAssumption
<1>2. \A k \in Nat : n * k \in Nat /\ (n + 1) * k = n * k + k
  OBVIOUS
<1> QED BY <1>1, <1>2 DEF Slack

LEMMA OrderStep ==
  ASSUME TypeInv, DropInv, InOrder, [Next]_vars
  PROVE  InOrder'
<1> USE DEF chanVars, fileVars
<1>t. /\ feed \subseteq Msgs /\ ch \in Seq(Msgs) /\ Len(ch) \in Nat /\ Msgs \subseteq Int
      /\ \A i \in 1..Len(ch) : ch[i] \in Msgs
  BY ResilientLoopAssumption DEF TypeInv, TypeOK, Msgs
<1>1. CASE Send
  <2>1. PICK m \in feed : /\ \A k \in feed : m <= k
                          /\ ch' = Append(ch, m) /\ feed' = feed \ {m}
    BY <1>1 DEF Send
  <2>2. /\ Len(ch') = Len(ch) + 1 /\ ch'[Len(ch) + 1] = m /\ m \in Int
        /\ \A i \in 1..Len(ch) : i \in 1..Len(ch') /\ ch'[i] = ch[i]
        /\ \A i \in 1..Len(ch') : i \in 1..Len(ch) \/ i = Len(ch) + 1
        /\ \A k \in feed' : k \in feed /\ m < k
    BY <2>1, <1>t
  <2>3. UNCHANGED <<skipped, pc, held, task>>
    BY <1>1 DEF Send
  <2>4. \A i, j \in 1..Len(ch') : i < j => ch'[i] < ch'[j]
    <3> SUFFICES ASSUME NEW i \in 1..Len(ch'), NEW j \in 1..Len(ch'), i < j
                 PROVE  ch'[i] < ch'[j]
      OBVIOUS
    <3>1. i \in 1..Len(ch) /\ ch'[i] = ch[i]
      BY <2>2, <1>t
    <3> QED BY <2>1, <2>2, <3>1 DEF InOrder
  <2>5. \A i \in 1..Len(ch') : ch'[i] \notin skipped /\ \A k \in feed' : ch'[i] < k
    <3> SUFFICES ASSUME NEW i \in 1..Len(ch')
                 PROVE  ch'[i] \notin skipped /\ \A k \in feed' : ch'[i] < k
      OBVIOUS
    <3>1. CASE i \in 1..Len(ch)
      BY <2>2, <3>1 DEF InOrder
    <3>2. CASE i = Len(ch) + 1
      BY <2>1, <2>2, <3>2 DEF InOrder
    <3> QED BY <2>2, <3>1, <3>2
  <2>6. pc' = "dispatch" => \A i \in 1..Len(ch') : held' < ch'[i]
    BY <2>1, <2>2, <2>3 DEF InOrder
  <2> QED BY <2>1, <2>2, <2>3, <2>4, <2>5, <2>6 DEF InOrder
<1>2. CASE LoopReceive
  <2>1. /\ Len(ch) >= 1 /\ Len(ch') = Len(ch) - 1 /\ held' = ch[1]
        /\ \A i \in 1..Len(ch') : i + 1 \in 1..Len(ch) /\ ch'[i] = ch[i + 1]
    BY <1>2, <1>t DEF LoopReceive
  <2>2. UNCHANGED <<feed, skipped, task>>
    BY <1>2 DEF LoopReceive
  <2>3. \A i, j \in 1..Len(ch') : i < j => ch'[i] < ch'[j]
    BY <2>1, <1>t DEF InOrder
  <2>4. \A i \in 1..Len(ch') : ch'[i] \notin skipped /\ \A k \in feed : ch'[i] < k
    BY <2>1 DEF InOrder
  <2>5. held' \notin skipped /\ \A k \in feed : held' < k
    BY <2>1, <1>t DEF InOrder
  <2>6. \A i \in 1..Len(ch') : held' < ch'[i]
    BY <2>1, <1>t DEF InOrder
  <2> QED BY <2>2, <2>3, <2>4, <2>5, <2>6 DEF InOrder
<1>3. CASE DrainReceive
  <2>1. /\ Len(ch) >= 1 /\ Len(ch') = Len(ch) - 1 /\ pc' = "drain"
        /\ \A i \in 1..Len(ch') : i + 1 \in 1..Len(ch) /\ ch'[i] = ch[i + 1]
    BY <1>3, <1>t DEF DrainReceive
  <2>2. UNCHANGED <<feed, skipped, task>>
    BY <1>3 DEF DrainReceive
  <2>3. \A i, j \in 1..Len(ch') : i < j => ch'[i] < ch'[j]
    BY <2>1, <1>t DEF InOrder
  <2>4. \A i \in 1..Len(ch') : ch'[i] \notin skipped /\ \A k \in feed : ch'[i] < k
    BY <2>1 DEF InOrder
  <2> QED BY <2>1, <2>2, <2>3, <2>4 DEF InOrder
<1>4. CASE Dispatch
  <2>1. /\ pc = "dispatch" /\ pc' = "select" /\ held \in Msgs /\ task[held] = "none"
        /\ \A k \in Msgs : task'[k] = IF k = held THEN "process" ELSE task[k]
        /\ UNCHANGED <<feed, ch, skipped, held>>
    BY <1>4 DEF Dispatch, TypeInv, TypeOK, Fresh
  <2>2. ASSUME NEW m \in Msgs \ skipped, task[m] = "none", m # held
        PROVE  held < m
    <3>1. m \in feed \/ \E i \in 1..Len(ch) : ch[i] = m
      BY <2>1, <2>2 DEF DropInv, Dropped
    <3> QED BY <2>1, <3>1 DEF InOrder
  <2>3. ASSUME NEW m \in Msgs \ skipped, NEW k \in Msgs, task'[m] = "none", task'[k] # "none"
        PROVE  k < m
    <3>1. task[m] = "none" /\ m # held
      BY <2>1, <2>3
    <3> QED BY <2>1, <2>2, <2>3, <3>1 DEF InOrder
  <2> QED BY <2>1, <2>3 DEF InOrder
<1>5. ASSUME NEW m \in Msgs, Goroutine(m) PROVE InOrder'
  <2>1. /\ task[m] # "none" /\ task'[m] # "none" /\ UNCHANGED <<feed, ch, skipped, pc, held>>
        /\ \A k \in Msgs : k # m => task'[k] = task[k]
    BY <1>5 DEF Goroutine, ProcessOK, ProcessErr, Count, Load, Save, TypeInv, TypeOK
  <2> QED BY <2>1 DEF InOrder
<1>6. CASE Restart
  <2>1. /\ skipped' = Msgs \ feed' /\ ch' = <<>> /\ pc' = "select"
        /\ \A m \in Msgs : task'[m] = "none"
    BY <1>6 DEF Restart
  <2> QED BY <2>1, EmptyChannel DEF InOrder
<1>7. CASE Close \/ Cancel \/ LoopClosed \/ LoopCancelled \/ WaitDone \/ Flush \/ DrainEnd
           \/ UNCHANGED vars
  <2>1. UNCHANGED <<feed, ch, skipped, task, held>> /\ (pc' = "dispatch" => pc = "dispatch")
    BY <1>7 DEF Close, Cancel, LoopClosed, LoopCancelled, WaitDone, Flush, DrainEnd, vars
  <2> QED BY <2>1 DEF InOrder
<1> QED BY <1>1, <1>2, <1>3, <1>4, <1>5, <1>6, <1>7 DEF Next, Producer, Loop

\* The counter covers, of this run's messages, only such as have a goroutine.
LEMMA CountedCovered ==
  ASSUME TypeInv, InOrder, Settled
  PROVE  Missed(processed) \subseteq skipped \cup InHand
<1> SUFFICES ASSUME NEW m \in Missed(processed), m \notin skipped, m \notin InHand
             PROVE  FALSE
  OBVIOUS
<1> USE ResilientLoopAssumption DEF Msgs
<1>1. m \in Msgs /\ m \in Unsettled /\ m <= processed
  BY DEF Missed, Unsettled
<1>2. task[m] = "none"
  BY <1>1 DEF TypeInv, TypeOK, Running, Settled, InHand
<1>3. Counted \subseteq 1..(m - 1)
  <2> SUFFICES ASSUME NEW k \in Counted PROVE k \in 1..(m - 1)
    OBVIOUS
  <2>1. k \in Msgs /\ task[k] # "none"
    BY DEF Counted
  <2> QED BY <1>1, <1>2, <2>1 DEF InOrder
<1>4. IsFiniteSet(1..(m - 1)) /\ Cardinality(1..(m - 1)) = m - 1
  BY <1>1, FS_Interval
<1>5. Cardinality(Counted) <= m - 1
  BY <1>3, <1>4, FS_Subset
<1>6. Cardinality(Counted) \in 0..N
  BY MsgsFinite DEF Counted
<1>7. processed <= Cardinality(Counted) /\ processed \in 0..N
  BY DEF TypeInv, TypeOK
<1> QED BY <1>1, <1>5, <1>6, <1>7

LEMMA SettledStep ==
  ASSUME TypeInv, InOrder, Settled, [Next]_vars
  PROVE  Settled'
<1> USE DEF TypeInv, TypeOK, chanVars, fileVars
<1>1. ASSUME NEW m \in Msgs, ProcessOK(m) \/ ProcessErr(m) PROVE Settled'
  <2>1. /\ task[m] = "process" /\ m \notin Unsettled' /\ Unsettled' \subseteq Unsettled
        /\ \A k \in Msgs : k # m => task'[k] = task[k]
        /\ task'[m] \in {"count", "done"} /\ UNCHANGED <<val, skipped>>
    BY <1>1 DEF ProcessOK, ProcessErr, Unsettled
  <2>2. \A n : Missed(n)' \subseteq Missed(n) \ {m}
    BY <2>1 DEF Missed, Unsettled
  <2>3. InHand \ {m} \subseteq InHand'
    BY <2>1 DEF InHand
  <2> QED BY <2>1, <2>2, <2>3 DEF Settled
<1>2. ASSUME NEW m \in Msgs, Count(m) \/ Load(m) \/ Save(m) PROVE Settled'
  <2>1. /\ task[m] \in {"count", "load", "save"} /\ task'[m] \in {"load", "save", "done"}
        /\ \A k \in Msgs : k # m => task'[k] = task[k] /\ val'[k] = val[k]
        /\ task'[m] = "save" => val'[m] = processed
        /\ UNCHANGED <<succeeded, failed, skipped>>
    BY <1>2 DEF Count, Load, Save
  <2>2. /\ Unsettled' = Unsettled /\ InHand' = InHand
        /\ \A n : Missed(n)' = Missed(n)
    BY <2>1 DEF Unsettled, InHand, Missed
  <2> QED BY <2>1, <2>2, CountedCovered DEF Settled
<1>3. CASE Dispatch
  <2>1. /\ held \in Msgs /\ task[held] = "none" /\ task' = [task EXCEPT ![held] = "process"]
        /\ UNCHANGED <<val, succeeded, failed, skipped>>
    BY <1>3 DEF Dispatch, Fresh
  <2>2. /\ Unsettled' = Unsettled /\ InHand \subseteq InHand'
        /\ \A n : Missed(n)' = Missed(n)
    BY <2>1 DEF Unsettled, InHand, Missed
  <2> QED BY <2>1, <2>2 DEF Settled
<1>4. CASE Restart
  BY <1>4 DEF Restart, Settled
<1>5. CASE Producer \/ LoopReceive \/ LoopClosed \/ LoopCancelled \/ DrainReceive
           \/ WaitDone \/ Flush \/ DrainEnd \/ Cancel \/ UNCHANGED vars
  <2>1. UNCHANGED <<task, val, succeeded, failed, skipped>>
    BY <1>5 DEF Producer, Send, Close, LoopReceive, LoopClosed, LoopCancelled,
         DrainReceive, WaitDone, DrainEnd, Flush, Cancel, vars
  <2> QED BY <2>1 DEF Settled, Unsettled, InHand, Missed
<1> QED BY <1>1, <1>2, <1>3, <1>4, <1>5 DEF Next, Loop, Goroutine

\* A number whose messages are skipped, settled or among MaxParallel - 1 in hand.
LEMMA Within ==
  ASSUME TypeInv, Lost, NEW n, NEW S \in SUBSET Msgs,
         Missed(n) \subseteq skipped \cup S, Cardinality(S) <= MaxParallel - 1
  PROVE  Cardinality(Missed(n)) <= Slack(restarts + 1)
<1>1. /\ Missed(n) \in SUBSET ((Unsettled \cap skipped) \cup S)
      /\ (Unsettled \cap skipped) \in SUBSET Msgs
      /\ ((Unsettled \cap skipped) \cup S) \in SUBSET Msgs
  BY DEF Missed, Unsettled
<1>2. /\ IsFiniteSet(Unsettled \cap skipped) /\ IsFiniteSet(S)
      /\ Cardinality(Unsettled \cap skipped) \in Nat /\ Cardinality(S) \in Nat
      /\ Cardinality((Unsettled \cap skipped) \cup S) \in Nat
      /\ Cardinality(Missed(n)) \in Nat
  BY <1>1, MsgsFinite, ResilientLoopAssumption
<1>3. Cardinality(Missed(n)) <= Cardinality((Unsettled \cap skipped) \cup S)
  BY <1>1, SmallerSet
<1>4. Cardinality((Unsettled \cap skipped) \cup S)
        <= Cardinality(Unsettled \cap skipped) + Cardinality(S)
  <2>1. Cardinality((Unsettled \cap skipped) \cup S)
          = Cardinality(Unsettled \cap skipped) + Cardinality(S)
            - Cardinality((Unsettled \cap skipped) \cap S)
    BY <1>2, FS_Union
  <2>2. Cardinality((Unsettled \cap skipped) \cap S) \in Nat
    BY <1>1, MsgsFinite, ResilientLoopAssumption
  <2> QED BY <1>2, <2>1, <2>2
<1>5. restarts \in Nat
  BY ResilientLoopAssumption DEF TypeInv, TypeOK
<1>6. Slack(restarts + 1) = Slack(restarts) + MaxParallel - 1 /\ Slack(restarts) \in Nat
  BY <1>5, SlackGrows
<1> QED BY <1>2, <1>3, <1>4, <1>6, ResilientLoopAssumption DEF Lost

LEMMA LostStep ==
  ASSUME TypeInv, SlotsRespected, ReturnInv, InOrder, Settled, Lost, [Next]_vars
  PROVE  Lost'
<1> USE DEF chanVars, fileVars
<1>0. /\ restarts \in Nat /\ (Unsettled \cap skipped) \in SUBSET Msgs
      /\ \A n : Missed(n) \in SUBSET Msgs
  BY ResilientLoopAssumption DEF TypeInv, TypeOK, Unsettled, Missed
<1>1. ASSUME NEW m \in Msgs, Save(m) PROVE Lost'
  <2>1. /\ task[m] = "save" /\ ckpt' \in {val[m], ckpt}
        /\ UNCHANGED <<succeeded, failed, skipped, restarts>>
    BY <1>1 DEF Save
  <2>2. Cardinality(InHand) <= MaxParallel - 1
    <3>1. /\ InHand \cup {m} \in SUBSET Active /\ Active \in SUBSET Msgs
          /\ InHand \in SUBSET Msgs /\ m \in Msgs \ InHand
      BY <2>1 DEF InHand, Active, Running
    <3>2. /\ Cardinality(InHand) + 1 = Cardinality(InHand \cup {m})
          /\ Cardinality(InHand \cup {m}) <= Cardinality(Active)
      BY <3>1, OneMore, SmallerSet
    <3>3. Cardinality(InHand) \in Nat /\ Cardinality(Active) \in Nat
      BY <3>1, MsgsFinite, ResilientLoopAssumption
    <3> QED BY <3>2, <3>3, ResilientLoopAssumption DEF SlotsRespected
  <2>3. Cardinality(Missed(val[m])) <= Slack(restarts + 1)
    <3>1. InHand \in SUBSET Msgs /\ Missed(val[m]) \subseteq skipped \cup InHand
      BY <2>1 DEF Settled, InHand
    <3> QED BY <2>2, <3>1, Within
  <2>4. Unsettled' = Unsettled /\ \A n : Missed(n)' = Missed(n)
    BY <2>1 DEF Unsettled, Missed
  <2>5. Missed(ckpt)' = Missed(ckpt')
    BY <2>1 DEF Missed
  <2> QED BY <2>1, <2>3, <2>4, <2>5 DEF Lost
<1>2. CASE Flush
  <2>1. /\ pc = "flush" /\ ckpt' \in {processed, ckpt}
        /\ UNCHANGED <<succeeded, failed, skipped, restarts>>
    BY <1>2 DEF Flush
  <2>2. InHand = {}
    BY <2>1 DEF ReturnInv, InHand, Active, Running
  <2>3. Cardinality(Missed(processed)) <= Slack(restarts + 1)
    <3>1. {} \in SUBSET Msgs /\ Cardinality({}) <= MaxParallel - 1
      BY FS_EmptySet, ResilientLoopAssumption
    <3>2. Missed(processed) \subseteq skipped \cup {}
      BY <2>2, CountedCovered
    <3> QED BY <3>1, <3>2, Within
  <2>4. Unsettled' = Unsettled /\ Missed(ckpt)' = Missed(ckpt')
    BY <2>1 DEF Unsettled, Missed
  <2> QED BY <2>1, <2>3, <2>4 DEF Lost
<1>3. CASE Restart
  <2>1. /\ restarts' = restarts + 1 /\ feed' = {m \in Msgs : m > ckpt \/ m \in pending}
        /\ skipped' = Msgs \ feed' /\ UNCHANGED <<ckpt, succeeded, failed>>
    BY <1>3 DEF Restart
  <2>2. Unsettled' = Unsettled /\ Missed(ckpt)' = Missed(ckpt)
    BY <2>1 DEF Unsettled, Missed
  <2>3. (Unsettled \cap skipped') \in SUBSET Missed(ckpt)
    BY <2>1, ResilientLoopAssumption DEF Unsettled, Missed, TypeInv, TypeOK, Msgs
  <2>4. Cardinality(Unsettled \cap skipped') <= Cardinality(Missed(ckpt))
    BY <1>0, <2>3, SmallerSet
  <2>5. Cardinality(Unsettled \cap skipped') \in Nat /\ Cardinality(Missed(ckpt)) \in Nat
    BY <1>0, <2>3, MsgsFinite, ResilientLoopAssumption
  <2>6. Slack(restarts + 1) \in Nat /\ Slack(restarts + 2) \in Nat
        /\ Slack(restarts + 1) <= Slack(restarts + 2)
    BY <1>0, SlackGrows
  <2>7. restarts' + 1 = restarts + 2
    BY <1>0, <2>1
  <2> QED BY <2>1, <2>2, <2>4, <2>5, <2>6, <2>7 DEF Lost
<1>4. ASSUME succeeded \subseteq succeeded', failed \subseteq failed',
             UNCHANGED <<ckpt, skipped, restarts>>
      PROVE  Lost'
  <2>1. /\ Missed(ckpt)' \in SUBSET Missed(ckpt)
        /\ (Unsettled \cap skipped)' \in SUBSET (Unsettled \cap skipped)
    BY <1>4 DEF Missed, Unsettled
  <2>2. /\ Cardinality(Missed(ckpt)') <= Cardinality(Missed(ckpt))
        /\ Cardinality((Unsettled \cap skipped)') <= Cardinality(Unsettled \cap skipped)
    BY <1>0, <2>1, SmallerSet
  <2>3. /\ Cardinality(Missed(ckpt)') \in Nat /\ Cardinality(Missed(ckpt)) \in Nat
        /\ Cardinality((Unsettled \cap skipped)') \in Nat
        /\ Cardinality(Unsettled \cap skipped) \in Nat
    BY <1>0, <2>1, MsgsFinite, ResilientLoopAssumption
  <2>4. Slack(restarts) \in Nat /\ Slack(restarts + 1) \in Nat
    BY <1>0, SlackGrows
  <2> QED BY <1>4, <2>2, <2>3, <2>4 DEF Lost
<1>5. ASSUME NEW m \in Msgs, ProcessOK(m) \/ ProcessErr(m) \/ Count(m) \/ Load(m) PROVE Lost'
  BY <1>4, <1>5 DEF ProcessOK, ProcessErr, Count, Load
<1>6. CASE Producer \/ LoopReceive \/ LoopClosed \/ LoopCancelled \/ Dispatch \/ DrainReceive
           \/ WaitDone \/ DrainEnd \/ Cancel \/ UNCHANGED vars
  BY <1>4, <1>6 DEF Producer, Send, Close, LoopReceive, LoopClosed, LoopCancelled, Dispatch,
       DrainReceive, WaitDone, DrainEnd, Cancel, vars
<1> QED BY <1>1, <1>2, <1>3, <1>5, <1>6 DEF Next, Loop, Goroutine

SkipInv == TypeInv /\ DropInv /\ SlotsRespected /\ ReturnInv /\ InOrder /\ Settled /\ Lost

\* Of the messages a checkpoint lets a producer skip, all but MaxParallel - 1
\* for every start of the process were processed to an end: for any number of
\* slots, whatever fails, through cancellations, crashes and restarts
\* (checkpoint.go:22-27, dialog.go:448-473).
THEOREM SkipIsBounded == Spec => []SkippedAccounted
<1>1. Init => SkipInv
  <2> SUFFICES ASSUME Init PROVE SkipInv
    OBVIOUS
  <2>1. /\ ch = <<>> /\ pc = "select" /\ ckpt = 0 /\ skipped = {} /\ restarts = 0
        /\ feed = Msgs /\ drained = {} /\ \A m \in Msgs : task[m] = "none"
    BY DEF Init
  <2>2. Active = {} /\ Missed(ckpt) = {} /\ Unsettled \cap skipped = {} /\ Dropped = {}
    BY <2>1, ResilientLoopAssumption DEF Active, Running, Missed, Msgs, Dropped
  <2>3. Slack(restarts) \in Nat /\ Slack(restarts + 1) \in Nat
    BY <2>1, SlackGrows
  <2>4. SlotsRespected /\ Lost
    BY <2>2, <2>3, FS_EmptySet, ResilientLoopAssumption DEF SlotsRespected, Lost
  <2>5. InOrder /\ Settled
    BY <2>1, EmptyChannel DEF InOrder, Settled
  <2>6. ReturnInv /\ DropInv
    BY <2>1, <2>2 DEF ReturnInv, DropInv
  <2> QED BY <2>4, <2>5, <2>6, TypeInit DEF SkipInv
<1>2. SkipInv /\ [Next]_vars => SkipInv'
  <2> SUFFICES ASSUME SkipInv, [Next]_vars PROVE SkipInv'
    OBVIOUS
  <2>1. TypeInv' /\ DropInv' /\ SlotsRespected'
    BY TypeStep, DropStep, SlotStep DEF SkipInv
  <2>2. ReturnInv'
    BY ReturnStep DEF SkipInv, TypeInv
  <2>3. InOrder' /\ Settled' /\ Lost'
    BY OrderStep, SettledStep, LostStep DEF SkipInv
  <2> QED BY <2>1, <2>2, <2>3 DEF SkipInv
<1>3. SkipInv => SkippedAccounted
  BY DEF SkipInv, Lost, Slack, SkippedAccounted
<1> QED BY <1>1, <1>2, <1>3, PTL DEF Spec
=============================================================================
