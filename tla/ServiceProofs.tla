---------------------------- MODULE ServiceProofs ----------------------------
(***************************************************************************)
(* What the machines of Service keep, for every value of the constants.    *)
(* Each machine has its part: its invariant (stated at the end of its own  *)
(* module) holds at the start, every action keeps it, and it implies what  *)
(* the machine promises.  The theorems at the end put the parts together:  *)
(* a step of Service is a step of the machine in its slots.                *)
(***************************************************************************)
EXTENDS Service, FiniteSetTheorems, SequenceTheorems, TLAPS

-----------------------------------------------------------------------------
(* Sequences and counting.                                                 *)

LEMMA AppendFacts ==
  ASSUME NEW S, NEW s \in Seq(S), NEW e \in S
  PROVE  /\ Append(s, e) \in Seq(S) /\ Append(s, e) # <<>>
         /\ Len(s) \in Nat /\ Len(Append(s, e)) = Len(s) + 1
         /\ \A k \in DOMAIN s : k \in DOMAIN Append(s, e) /\ Append(s, e)[k] = s[k]
         /\ Len(s) + 1 \in DOMAIN Append(s, e) /\ Append(s, e)[Len(s) + 1] = e
         /\ \A k \in DOMAIN Append(s, e) : k \in DOMAIN s \/ k = Len(s) + 1
<1>1. Append(s, e) # <<>>
  BY AppendProperties
<1> QED
  BY <1>1

LEMMA TailFacts ==
  ASSUME NEW S, NEW s \in Seq(S), s # <<>>
  PROVE  /\ Head(s) \in S /\ Head(s) = s[1] /\ 1 \in DOMAIN s
         /\ Tail(s) \in Seq(S) /\ Len(s) \in Nat /\ Len(Tail(s)) = Len(s) - 1
         /\ \A k \in DOMAIN Tail(s) : k \in Nat /\ k + 1 \in DOMAIN s /\ Tail(s)[k] = s[k + 1]
         /\ \A k \in DOMAIN s : k = 1 \/ (k - 1 \in DOMAIN Tail(s) /\ s[k] = Tail(s)[k - 1])
<1>1. Head(s) \in S /\ Tail(s) \in Seq(S)
  BY HeadTailProperties
<1>2. Len(s) \in Nat /\ Len(s) # 0
  BY EmptySeq
<1>3. Len(Tail(s)) = Len(s) - 1 /\ Head(s) = s[1] /\ \A k \in 1..(Len(s) - 1) : Tail(s)[k] = s[k + 1]
  BY <1>2
<1>4. DOMAIN s = 1..Len(s) /\ DOMAIN Tail(s) = 1..(Len(s) - 1)
  BY <1>1, <1>3, LenProperties
<1> QED
  BY <1>1, <1>2, <1>3, <1>4

\* A set of numbers that has at most one element more than another.
LEMMA OneMore ==
  ASSUME NEW n \in Nat, NEW S, S \subseteq 1..n, NEW T, NEW x, T \subseteq S \cup {x}
  PROVE  /\ Cardinality(S) \in Nat /\ Cardinality(T) \in Nat
         /\ Cardinality(T) <= Cardinality(S) + 1
         /\ x \in S \/ T \subseteq S => Cardinality(T) <= Cardinality(S)
<1>1. IsFiniteSet(S)
  <2>1. IsFiniteSet(1..n) /\ S \in SUBSET (1..n)
    BY FS_Interval
  <2> QED BY <2>1, FS_Subset
<1>2. IsFiniteSet(S \cup {x}) /\ Cardinality(S) \in Nat
      /\ Cardinality(S \cup {x}) = IF x \in S THEN Cardinality(S) ELSE Cardinality(S) + 1
  BY <1>1, FS_AddElement, FS_CardinalityType
<1>3. IsFiniteSet(T) /\ Cardinality(T) \in Nat /\ Cardinality(T) <= Cardinality(S \cup {x})
  BY <1>2, FS_Subset, FS_CardinalityType
<1>4. T \subseteq S => Cardinality(T) <= Cardinality(S)
  BY <1>1, FS_Subset
<1> QED
  BY <1>2, <1>3, <1>4

-----------------------------------------------------------------------------
(* The cascade and the agent (TaskRollback).                               *)

\* A cascade, and what Rollback!CascadeInv says of it with the edges E.
CascadeType ==
    [pc : {"visit", "roll", "ended"}, queue : Seq(Tasks), cur : Tasks \cup {NoGoal},
     visited : SUBSET Tasks, result : Seq(Tasks), err : BOOLEAN, shield : SUBSET Tasks]

Elements(s) == {s[i] : i \in DOMAIN s}
RolledOf(c) == Elements(c.result)
QueuedOf(c) == Elements(c.queue)
AtHandOf(c) == IF c.pc = "roll" THEN {c.cur} ELSE {}
Behind(t, E) == {d \in Tasks : <<t, d>> \in E}

Settled(c, E) ==
    /\ Cardinality(RolledOf(c)) = Len(c.result)
    /\ Len(c.result) <= CascadeLimit
    /\ c.pc = "roll" => c.cur \in Tasks /\ Len(c.result) < CascadeLimit
    /\ RolledOf(c) \cup c.shield \cup AtHandOf(c) \subseteq c.visited
    /\ RolledOf(c) \cap c.shield = {} /\ AtHandOf(c) \cap (RolledOf(c) \cup c.shield) = {}
    /\ ~c.err =>
          /\ c.visited \subseteq RolledOf(c) \cup c.shield \cup AtHandOf(c)
          /\ \A t \in RolledOf(c) : Behind(t, E) \subseteq c.visited \cup QueuedOf(c)
          /\ c.pc = "ended" => c.queue = <<>>

LEMMA CascadeInvIs == Rollback!CascadeInv <=> Settled(s4, s2)
<1>1. \A S : Rollback!Cardinality(S) = Cardinality(S)
  BY DEF Rollback!Cardinality, Cardinality
<1>2. Rollback!Rolled = RolledOf(s4) /\ Rollback!AtHand = AtHandOf(s4)
      /\ QueuedOf(s4) = {s4.queue[i] : i \in DOMAIN s4.queue}
      /\ \A t : Rollback!Children(t) = Behind(t, s2)
  BY DEF Rollback!Rolled, RolledOf, Rollback!AtHand, AtHandOf, QueuedOf, Elements, Rollback!Children, Behind
<1> QED
  BY <1>1, <1>2 DEF Rollback!CascadeInv, Settled

\* A set of tasks is put into some order with all of its elements.
LEMMA SeqsOf ==
  ASSUME NEW S, S \subseteq Tasks, NEW s \in Rollback!Listings(S)
  PROVE  s \in Seq(Tasks) /\ S \subseteq Elements(s)
<1>1. Cardinality(S) \in Nat /\ Rollback!Cardinality(S) = Cardinality(S)
  BY ServiceAssumption, FS_Subset, FS_CardinalityType DEF Rollback!Cardinality, Cardinality
<1>2. s \in [1..Cardinality(S) -> S] /\ \A d \in S : \E i \in 1..Cardinality(S) : s[i] = d
  BY <1>1 DEF Rollback!Listings, Rollback!Bijection, Rollback!Injection, Rollback!Surjection
<1>3. s \in Seq(Tasks)
  BY <1>1, <1>2
<1> QED
  BY <1>2, <1>3 DEF Elements

\* What a queue holds when something is put at its end, or its head is taken.
LEMMA AppendedTask ==
  ASSUME NEW s \in Seq(Tasks), NEW e \in Tasks
  PROVE  /\ Append(s, e) \in Seq(Tasks) /\ Len(Append(s, e)) = Len(s) + 1 /\ Len(s) \in Nat
         /\ Elements(Append(s, e)) = Elements(s) \cup {e}
<1> DEFINE t == Append(s, e)
<1>1. /\ t \in Seq(Tasks) /\ Len(t) = Len(s) + 1 /\ Len(s) \in Nat
      /\ \A k \in DOMAIN s : k \in DOMAIN t /\ t[k] = s[k]
      /\ Len(s) + 1 \in DOMAIN t /\ t[Len(s) + 1] = e
      /\ \A k \in DOMAIN t : k \in DOMAIN s \/ k = Len(s) + 1
  BY AppendFacts
<1> HIDE DEF t
<1>2. Elements(t) = Elements(s) \cup {e}
  BY <1>1 DEF Elements
<1> QED
  BY <1>1, <1>2 DEF t

LEMMA TakenTask ==
  ASSUME NEW s \in Seq(Tasks), s # <<>>
  PROVE  /\ Tail(s) \in Seq(Tasks) /\ Head(s) \in Tasks
         /\ Elements(s) \subseteq {Head(s)} \cup Elements(Tail(s))
<1> DEFINE t == Tail(s)
           h == Head(s)
<1>1. /\ t \in Seq(Tasks) /\ h \in Tasks /\ h = s[1]
      /\ \A k \in DOMAIN s : k = 1 \/ (k - 1 \in DOMAIN t /\ s[k] = t[k - 1])
  BY TailFacts
<1> HIDE DEF t, h
<1>2. Elements(s) \subseteq {h} \cup Elements(t)
  BY <1>1 DEF Elements
<1> QED
  BY <1>1, <1>2 DEF t, h

LEMMA ConcatTasks ==
  ASSUME NEW q \in Seq(Tasks), NEW s \in Seq(Tasks)
  PROVE  /\ q \o s \in Seq(Tasks)
         /\ Elements(q) \cup Elements(s) \subseteq Elements(q \o s)
<1> DEFINE t == q \o s
<1>1. /\ t \in Seq(Tasks) /\ Len(t) = Len(q) + Len(s)
      /\ \A i \in 1..(Len(q) + Len(s)) : t[i] = IF i <= Len(q) THEN q[i] ELSE s[i - Len(q)]
      /\ Len(q) \in Nat /\ Len(s) \in Nat
  BY ConcatProperties
<1>2. DOMAIN q = 1..Len(q) /\ DOMAIN s = 1..Len(s) /\ DOMAIN t = 1..(Len(q) + Len(s))
  BY <1>1
<1> HIDE DEF t
<1>3. ASSUME NEW i \in DOMAIN q
      PROVE  \E j \in DOMAIN t : t[j] = q[i]
  <2>1. i \in 1..(Len(q) + Len(s)) /\ i <= Len(q)
    BY <1>1, <1>2
  <2> QED BY <1>1, <1>2, <2>1
<1>4. ASSUME NEW i \in DOMAIN s
      PROVE  \E j \in DOMAIN t : t[j] = s[i]
  <2> DEFINE j == Len(q) + i
  <2>1. j \in 1..(Len(q) + Len(s)) /\ ~(j <= Len(q)) /\ j - Len(q) = i
    BY <1>1, <1>2
  <2> HIDE DEF j
  <2> QED BY <1>1, <1>2, <2>1
<1>5. Elements(q) \cup Elements(s) \subseteq Elements(t)
  BY <1>3, <1>4 DEF Elements
<1> QED
  BY <1>1, <1>5 DEF t

LEMMA TaskNumber ==
  ASSUME NEW c \in CascadeType
  PROVE  IsFiniteSet(RolledOf(c)) /\ RolledOf(c) \subseteq Tasks /\ Len(c.result) \in Nat
<1>1. c.result \in Seq(Tasks)
  BY DEF CascadeType
<1>2. RolledOf(c) \in SUBSET Tasks
  BY <1>1 DEF RolledOf, Elements
<1> QED
  BY <1>1, <1>2, ServiceAssumption, FS_Subset

LEMMA StartSettles ==
  ASSUME NEW E, NEW t \in Tasks, NEW d, d = [Rollback!Quiet EXCEPT !.pc = "visit", !.queue = <<t>>]
  PROVE  d \in CascadeType /\ Settled(d, E)
<1>1. /\ d.pc = "visit" /\ d.queue = <<t>> /\ d.cur = NoGoal /\ d.visited = {} /\ d.result = <<>>
      /\ d.err = FALSE /\ d.shield = {}
      /\ d = [pc |-> "visit", queue |-> <<t>>, cur |-> NoGoal, visited |-> {}, result |-> <<>>,
              err |-> FALSE, shield |-> {}]
  BY DEF Rollback!Quiet
<1>2. d \in CascadeType
  <2>1. <<t>> \in Seq(Tasks) /\ <<>> \in Seq(Tasks)
    OBVIOUS
  <2> QED BY <1>1, <2>1 DEF CascadeType
<1>3. RolledOf(d) = {} /\ AtHandOf(d) = {}
  BY <1>1 DEF RolledOf, Elements, AtHandOf
<1>4. Cardinality({}) = 0
  BY FS_EmptySet
<1>5. CascadeLimit \in Nat /\ Len(d.result) = 0
  BY <1>1, ServiceAssumption
<1>6. /\ Cardinality(RolledOf(d)) = Len(d.result)
      /\ Len(d.result) <= CascadeLimit
  <2>1. Cardinality(RolledOf(d)) = 0
    BY ONLY <1>3, <1>4
  <2> QED BY ONLY <1>5, <2>1
<1> HIDE DEF Rollback!Quiet
<1> QED
  BY <1>1, <1>2, <1>3, <1>6 DEF Settled

LEMMA QuietSettles ==
  ASSUME NEW E
  PROVE  Rollback!Quiet \in CascadeType /\ Settled(Rollback!Quiet, E)
<1> DEFINE d == Rollback!Quiet
<1>1. /\ d.pc = "ended" /\ d.queue = <<>> /\ d.cur = NoGoal /\ d.visited = {} /\ d.result = <<>>
      /\ d.err = FALSE /\ d.shield = {}
  BY DEF Rollback!Quiet
<1>2. d \in CascadeType
  BY DEF CascadeType, Rollback!Quiet
<1> HIDE DEF d
<1>3. RolledOf(d) = {} /\ AtHandOf(d) = {}
  BY <1>1 DEF RolledOf, Elements, AtHandOf
<1>4. Cardinality({}) = 0
  BY FS_EmptySet
<1>5. CascadeLimit \in Nat /\ Len(d.result) = 0
  BY <1>1, ServiceAssumption
<1>6. Settled(d, E)
  BY <1>1, <1>3, <1>4, <1>5 DEF Settled
<1> QED
  BY <1>2, <1>6 DEF d

\* Dequeue and read: the task was seen before, cannot be read, is taken to be
\* rolled back, or is to be rolled back.
LEMMA VisitSettles ==
  ASSUME NEW E, NEW c \in CascadeType, Settled(c, E), NEW d, NEW t,
         c.pc = "visit", c.queue # <<>>, t = Head(c.queue), Len(c.result) < CascadeLimit,
         \/ t \in c.visited /\ d = [c EXCEPT !.queue = Tail(@)]
         \/ /\ t \notin c.visited
            /\ \/ d = [[c EXCEPT !.queue = Tail(@), !.visited = @ \cup {t}] EXCEPT !.shield = @ \cup {t}]
               \/ d = [[c EXCEPT !.queue = Tail(@), !.visited = @ \cup {t}] EXCEPT !.pc = "roll", !.cur = t]
               \/ d = [[c EXCEPT !.queue = Tail(@), !.visited = @ \cup {t}] EXCEPT !.err = TRUE]
  PROVE  d \in CascadeType /\ Settled(d, E)
<1>1. /\ c.queue \in Seq(Tasks) /\ c.cur \in Tasks \cup {NoGoal} /\ c.visited \subseteq Tasks
      /\ c.result \in Seq(Tasks) /\ c.err \in BOOLEAN /\ c.shield \subseteq Tasks
  BY DEF CascadeType
<1>2. /\ t \in Tasks /\ Tail(c.queue) \in Seq(Tasks)
      /\ QueuedOf(c) \subseteq {t} \cup Elements(Tail(c.queue))
  BY <1>1, TakenTask DEF QueuedOf
<1>3. d.queue = Tail(c.queue) /\ d.result = c.result
  BY <1>2 DEF CascadeType
<1>4. RolledOf(d) = RolledOf(c)
  BY <1>3 DEF RolledOf
<1>5. \A x \in QueuedOf(c) : x = t \/ x \in QueuedOf(d)
  BY <1>2, <1>3 DEF QueuedOf
<1>6. AtHandOf(c) = {}
  BY DEF AtHandOf
<1> USE DEF Settled
<1>7. CASE t \in c.visited /\ d = [c EXCEPT !.queue = Tail(@)]
  <2>1. d.pc = c.pc /\ d.cur = c.cur /\ d.visited = c.visited /\ d.err = c.err /\ d.shield = c.shield
    BY <1>7 DEF CascadeType
  <2>0. d \in CascadeType
    BY <1>2, <1>7 DEF CascadeType
  <2>2. AtHandOf(d) = {}
    BY <2>1 DEF AtHandOf
  <2>3. ~d.err => \A u \in RolledOf(d) : Behind(u, E) \subseteq d.visited \cup QueuedOf(d)
    BY <1>4, <1>5, <1>7, <2>1
  <2> QED BY <1>3, <1>4, <1>6, <2>0, <2>1, <2>2, <2>3
<1>8. CASE t \notin c.visited /\ d = [[c EXCEPT !.queue = Tail(@), !.visited = @ \cup {t}] EXCEPT !.shield = @ \cup {t}]
  <2>1. d.pc = c.pc /\ d.cur = c.cur /\ d.visited = c.visited \cup {t} /\ d.err = c.err
        /\ d.shield = c.shield \cup {t}
    BY <1>8 DEF CascadeType
  <2>0. d \in CascadeType
    <3> DEFINE c1 == [c EXCEPT !.queue = Tail(c.queue)]
               c2 == [c1 EXCEPT !.visited = c.visited \cup {t}]
               c3 == [c2 EXCEPT !.shield = c.shield \cup {t}]
    <3>1. c1 \in CascadeType
      BY <1>2 DEF CascadeType
    <3>2. d = c3
      BY <1>8
    <3> HIDE DEF c1
    <3>3. c2 \in CascadeType
      BY <1>1, <1>2, <3>1 DEF CascadeType
    <3> HIDE DEF c2
    <3>4. c3 \in CascadeType
      BY <1>1, <1>2, <3>3 DEF CascadeType
    <3> QED BY <3>2, <3>4
  <2>2. AtHandOf(d) = {}
    BY <2>1 DEF AtHandOf
  <2>3. ~d.err => \A u \in RolledOf(d) : Behind(u, E) \subseteq d.visited \cup QueuedOf(d)
    BY <1>4, <1>5, <2>1
  <2>4. RolledOf(d) \cap d.shield = {}
    BY <1>4, <1>8, <2>1
  <2> QED BY <1>3, <1>4, <1>6, <2>0, <2>1, <2>2, <2>3, <2>4
<1>9. CASE t \notin c.visited /\ d = [[c EXCEPT !.queue = Tail(@), !.visited = @ \cup {t}] EXCEPT !.pc = "roll", !.cur = t]
  <2>1. d.pc = "roll" /\ d.cur = t /\ d.visited = c.visited \cup {t} /\ d.err = c.err
        /\ d.shield = c.shield
    BY <1>9 DEF CascadeType
  <2>0. d \in CascadeType
    <3> DEFINE c1 == [c EXCEPT !.queue = Tail(c.queue)]
               c2 == [c1 EXCEPT !.visited = c.visited \cup {t}]
               c3 == [c2 EXCEPT !.pc = "roll"]
               c4 == [c3 EXCEPT !.cur = t]
    <3>1. c1 \in CascadeType
      BY <1>2 DEF CascadeType
    <3>2. d = c4
      BY <1>9
    <3> HIDE DEF c1
    <3>3. c2 \in CascadeType
      BY <1>1, <1>2, <3>1 DEF CascadeType
    <3> HIDE DEF c2
    <3>4. c3 \in CascadeType
      BY <3>3 DEF CascadeType
    <3> HIDE DEF c3
    <3>5. c4 \in CascadeType
      BY <1>2, <3>4 DEF CascadeType
    <3> QED BY <3>2, <3>5
  <2>2. AtHandOf(d) = {t}
    BY <2>1 DEF AtHandOf
  <2>3. ~d.err => \A u \in RolledOf(d) : Behind(u, E) \subseteq d.visited \cup QueuedOf(d)
    BY <1>4, <1>5, <2>1
  <2>4. AtHandOf(d) \cap (RolledOf(d) \cup d.shield) = {}
    BY <1>4, <1>9, <2>1, <2>2
  <2> QED BY <1>2, <1>3, <1>4, <1>6, <2>0, <2>1, <2>2, <2>3, <2>4
<1>10. CASE t \notin c.visited /\ d = [[c EXCEPT !.queue = Tail(@), !.visited = @ \cup {t}] EXCEPT !.err = TRUE]
  <2>1. d.pc = c.pc /\ d.cur = c.cur /\ d.visited = c.visited \cup {t} /\ d.err = TRUE
        /\ d.shield = c.shield
    BY <1>10 DEF CascadeType
  <2>0. d \in CascadeType
    <3> DEFINE c1 == [c EXCEPT !.queue = Tail(c.queue)]
               c2 == [c1 EXCEPT !.visited = c.visited \cup {t}]
               c3 == [c2 EXCEPT !.err = TRUE]
    <3>1. c1 \in CascadeType
      BY <1>2 DEF CascadeType
    <3>2. d = c3
      BY <1>10
    <3> HIDE DEF c1
    <3>3. c2 \in CascadeType
      BY <1>1, <1>2, <3>1 DEF CascadeType
    <3> HIDE DEF c2
    <3>4. c3 \in CascadeType
      BY <3>3 DEF CascadeType
    <3> QED BY <3>2, <3>4
  <2>2. AtHandOf(d) = {}
    BY <2>1 DEF AtHandOf
  <2> QED BY <1>3, <1>4, <1>6, <2>0, <2>1, <2>2
<1> QED
  BY <1>7, <1>8, <1>9, <1>10

\* The update, with the dependents queued or not, or no update.
LEMMA RollSettles ==
  ASSUME NEW E, NEW c \in CascadeType, Settled(c, E), NEW d, c.pc = "roll",
         \/ \E s \in Rollback!Listings(Behind(c.cur, E) \ c.visited) :
               d = [[[c EXCEPT !.pc = "visit", !.cur = NoGoal] EXCEPT !.result = Append(@, c.cur)] EXCEPT !.queue = @ \o s]
         \/ d = [[[c EXCEPT !.pc = "visit", !.cur = NoGoal] EXCEPT !.result = Append(@, c.cur)] EXCEPT !.err = TRUE]
         \/ d = [[c EXCEPT !.pc = "visit", !.cur = NoGoal] EXCEPT !.err = TRUE]
  PROVE  d \in CascadeType /\ Settled(d, E)
<1>1. /\ c.queue \in Seq(Tasks) /\ c.cur \in Tasks /\ c.visited \subseteq Tasks
      /\ c.result \in Seq(Tasks) /\ c.err \in BOOLEAN /\ c.shield \subseteq Tasks
      /\ Len(c.result) < CascadeLimit /\ CascadeLimit \in Nat
  BY ServiceAssumption DEF CascadeType, Settled
<1>0. PICK t \in Tasks : t = c.cur
  BY <1>1
<1> DEFINE r == Append(c.result, t)
<1>2. AtHandOf(c) = {t} /\ t \notin RolledOf(c) /\ t \notin c.shield /\ t \in c.visited
  BY <1>0 DEF AtHandOf, Settled
<1>3. IsFiniteSet(RolledOf(c)) /\ Len(c.result) \in Nat
  BY TaskNumber
<1>4. r \in Seq(Tasks) /\ Len(r) = Len(c.result) + 1 /\ Elements(r) = RolledOf(c) \cup {t}
  BY <1>1, AppendedTask DEF RolledOf
<1> HIDE DEF r
<1>5. ASSUME d.result = r
      PROVE  RolledOf(d) = RolledOf(c) \cup {t} /\ Cardinality(RolledOf(d)) = Len(r)
  <2>1. RolledOf(d) = RolledOf(c) \cup {t}
    BY <1>4, <1>5 DEF RolledOf
  <2>2. Cardinality(RolledOf(c) \cup {t}) = Cardinality(RolledOf(c)) + 1
    BY <1>2, <1>3, FS_AddElement
  <2> QED BY <1>4, <2>1, <2>2 DEF Settled
<1>6. ASSUME d.pc = "visit"
      PROVE  AtHandOf(d) = {}
  BY <1>6 DEF AtHandOf
<1>7. CASE \E s \in Rollback!Listings(Behind(c.cur, E) \ c.visited) :
               d = [[[c EXCEPT !.pc = "visit", !.cur = NoGoal] EXCEPT !.result = Append(@, c.cur)] EXCEPT !.queue = @ \o s]
  <2>1. PICK s \in Rollback!Listings(Behind(c.cur, E) \ c.visited) :
               d = [[[c EXCEPT !.pc = "visit", !.cur = NoGoal] EXCEPT !.result = r] EXCEPT !.queue = @ \o s]
    <3>1. c.result = [c EXCEPT !.pc = "visit", !.cur = NoGoal].result
      BY DEF CascadeType
    <3> QED BY <1>0, <1>7, <3>1 DEF r
  <2>2. s \in Seq(Tasks) /\ Behind(t, E) \ c.visited \subseteq Elements(s)
    <3> DEFINE S == Behind(t, E) \ c.visited
    <3>1. S \subseteq Tasks
      BY DEF Behind
    <3>2. s \in Rollback!Listings(S)
      BY <1>0, <2>1
    <3> HIDE DEF S
    <3>3. s \in Seq(Tasks) /\ S \subseteq Elements(s)
      BY <3>1, <3>2, SeqsOf
    <3> QED BY <3>3 DEF S
  <2>3. c.queue \o s \in Seq(Tasks) /\ QueuedOf(c) \cup Elements(s) \subseteq Elements(c.queue \o s)
    BY <1>1, <2>2, ConcatTasks DEF QueuedOf
  <2> DEFINE q == c.queue \o s
  <2>4. /\ d.pc = "visit" /\ d.cur = NoGoal /\ d.result = r /\ d.queue = q
        /\ d.visited = c.visited /\ d.err = c.err /\ d.shield = c.shield
    BY <2>1 DEF CascadeType
  <2> HIDE DEF q
  <2>5. d \in CascadeType
    <3> DEFINE c1 == [c EXCEPT !.pc = "visit"]
               c2 == [c1 EXCEPT !.cur = NoGoal]
               c3 == [c2 EXCEPT !.result = r]
               c4 == [c3 EXCEPT !.queue = q]
    <3>1. c1 \in CascadeType
      BY DEF CascadeType
    <3>2. d = c4
      BY <2>1 DEF q
    <3> HIDE DEF c1
    <3>3. c2 \in CascadeType
      BY <3>1 DEF CascadeType
    <3> HIDE DEF c2
    <3>4. c3 \in CascadeType
      BY <1>4, <3>3 DEF CascadeType
    <3> HIDE DEF c3
    <3>5. c4 \in CascadeType
      BY <2>3, <3>4 DEF CascadeType, q
    <3> QED BY <3>2, <3>5
  <2>6. \A u \in QueuedOf(c) : u \in QueuedOf(d)
    BY <2>3, <2>4 DEF QueuedOf, q
  <2>7. \A u \in Behind(t, E) : u \in c.visited \/ u \in QueuedOf(d)
    BY <2>2, <2>3, <2>4 DEF QueuedOf, q
  <2>8. RolledOf(d) = RolledOf(c) \cup {t} /\ Cardinality(RolledOf(d)) = Len(r) /\ AtHandOf(d) = {}
    BY <1>5, <1>6, <2>4
  <2>9. ~d.err => \A u \in RolledOf(d) : Behind(u, E) \subseteq d.visited \cup QueuedOf(d)
    BY <2>4, <2>6, <2>7, <2>8 DEF Settled
  <2>10. Len(d.result) <= CascadeLimit /\ Cardinality(RolledOf(d)) = Len(d.result)
    <3>1. Len(r) <= CascadeLimit
      BY ONLY <1>1, <1>3, <1>4
    <3>2. d.result = r
      BY <2>4
    <3> QED BY ONLY <2>8, <3>1, <3>2
  <2>11. /\ RolledOf(d) \cup d.shield \cup AtHandOf(d) \subseteq d.visited
         /\ RolledOf(d) \cap d.shield = {}
    BY <1>2, <2>4, <2>8 DEF Settled
  <2>12. ~d.err => d.visited \subseteq RolledOf(d) \cup d.shield \cup AtHandOf(d)
    BY <1>2, <2>4, <2>8 DEF Settled
  <2> QED BY <2>4, <2>5, <2>8, <2>9, <2>10, <2>11, <2>12 DEF Settled
<1>8. CASE d = [[[c EXCEPT !.pc = "visit", !.cur = NoGoal] EXCEPT !.result = Append(@, c.cur)] EXCEPT !.err = TRUE]
  <2>1. /\ d.pc = "visit" /\ d.cur = NoGoal /\ d.result = r /\ d.queue = c.queue
        /\ d.visited = c.visited /\ d.err = TRUE /\ d.shield = c.shield
    BY <1>0, <1>8 DEF CascadeType, r
  <2>2. d \in CascadeType
    <3> DEFINE c1 == [c EXCEPT !.pc = "visit"]
               c2 == [c1 EXCEPT !.cur = NoGoal]
               c3 == [c2 EXCEPT !.result = r]
               c4 == [c3 EXCEPT !.err = TRUE]
    <3>1. c1 \in CascadeType
      BY DEF CascadeType
    <3>2. d = c4
      BY <1>0, <1>8 DEF r
    <3> HIDE DEF c1
    <3>3. c2 \in CascadeType
      BY <3>1 DEF CascadeType
    <3> HIDE DEF c2
    <3>4. c3 \in CascadeType
      BY <1>4, <3>3 DEF CascadeType
    <3> HIDE DEF c3
    <3>5. c4 \in CascadeType
      BY <3>4 DEF CascadeType
    <3> QED BY <3>2, <3>5
  <2>3. RolledOf(d) = RolledOf(c) \cup {t} /\ Cardinality(RolledOf(d)) = Len(r) /\ AtHandOf(d) = {}
    BY <1>5, <1>6, <2>1
  <2>4. Len(d.result) <= CascadeLimit /\ Cardinality(RolledOf(d)) = Len(d.result)
    <3>1. Len(r) <= CascadeLimit
      BY ONLY <1>1, <1>3, <1>4
    <3>2. d.result = r
      BY <2>1
    <3> QED BY ONLY <2>3, <3>1, <3>2
  <2>5. /\ RolledOf(d) \cup d.shield \cup AtHandOf(d) \subseteq d.visited
        /\ RolledOf(d) \cap d.shield = {}
    BY <1>2, <2>1, <2>3 DEF Settled
  <2> QED BY <2>1, <2>2, <2>3, <2>4, <2>5 DEF Settled
<1>9. CASE d = [[c EXCEPT !.pc = "visit", !.cur = NoGoal] EXCEPT !.err = TRUE]
  <2>1. /\ d.pc = "visit" /\ d.cur = NoGoal /\ d.result = c.result /\ d.queue = c.queue
        /\ d.visited = c.visited /\ d.err = TRUE /\ d.shield = c.shield
    BY <1>9 DEF CascadeType
  <2>2. d \in CascadeType
    BY <1>9 DEF CascadeType
  <2>3. RolledOf(d) = RolledOf(c) /\ AtHandOf(d) = {}
    BY <1>6, <2>1 DEF RolledOf
  <2> QED BY <2>1, <2>2, <2>3 DEF Settled
<1> QED
  BY <1>7, <1>8, <1>9

\* The end, with an error when something is left in the queue.
LEMMA EndSettles ==
  ASSUME NEW E, NEW c \in CascadeType, Settled(c, E), NEW d, c.pc = "visit",
         d = [c EXCEPT !.pc = "ended", !.err = @ \/ c.queue # <<>>]
  PROVE  d \in CascadeType /\ Settled(d, E)
<1>1. /\ d.pc = "ended" /\ d.cur = c.cur /\ d.result = c.result /\ d.queue = c.queue
      /\ d.visited = c.visited /\ d.err = (c.err \/ c.queue # <<>>) /\ d.shield = c.shield
  BY DEF CascadeType
<1>2. d \in CascadeType
  BY DEF CascadeType
<1>3. RolledOf(d) = RolledOf(c) /\ AtHandOf(d) = {} /\ AtHandOf(c) = {} /\ QueuedOf(d) = QueuedOf(c)
  BY <1>1 DEF RolledOf, AtHandOf, QueuedOf
<1> QED
  BY <1>1, <1>2, <1>3 DEF Settled

LEMMA CascadeKeeps ==
  ASSUME Rollback!RollbackTypes, Settled(s4, s2), [Rollback!Next]_(Rollback!vars)
  PROVE  s2' = s2 /\ s3' = s3 /\ s4' \in CascadeType /\ Settled(s4', s2)
<1>0. s4 \in CascadeType
  BY DEF Rollback!RollbackTypes, CascadeType
<1>1. ASSUME NEW t \in Tasks, Rollback!CascadeStart(t)
      PROVE  s2' = s2 /\ s3' = s3 /\ s4' \in CascadeType /\ Settled(s4', s2)
  <2>1. s4' = [Rollback!Quiet EXCEPT !.pc = "visit", !.queue = <<t>>] /\ s2' = s2 /\ s3' = s3
    BY <1>1 DEF Rollback!CascadeStart, Rollback!storeVars
  <2> QED BY <2>1, StartSettles
<1>2. CASE Rollback!Visit
  <2> DEFINE t == Head(s4.queue)
             read == [s4 EXCEPT !.queue = Tail(@), !.visited = @ \cup {t}]
  <2>1. /\ s4.pc = "visit" /\ s4.queue # <<>> /\ Len(s4.result) < CascadeLimit /\ s2' = s2 /\ s3' = s3
        /\ s4' \in IF t \in s4.visited THEN {[s4 EXCEPT !.queue = Tail(@)]}
                   ELSE {IF s1[t] = "completed" THEN [read EXCEPT !.shield = @ \cup {t}]
                         ELSE [read EXCEPT !.pc = "roll", !.cur = t]}
                        \cup (IF CanFail THEN {[read EXCEPT !.err = TRUE]} ELSE {})
    BY <1>2 DEF Rollback!Visit, Rollback!storeVars
  <2>2. \/ t \in s4.visited /\ s4' = [s4 EXCEPT !.queue = Tail(@)]
        \/ /\ t \notin s4.visited
           /\ \/ s4' = [read EXCEPT !.shield = @ \cup {t}]
              \/ s4' = [read EXCEPT !.pc = "roll", !.cur = t]
              \/ s4' = [read EXCEPT !.err = TRUE]
    <3> HIDE DEF t, read
    <3> QED BY <2>1
  <2> QED BY <1>0, <2>1, <2>2, VisitSettles
<1>3. CASE Rollback!Roll
  <2> DEFINE t == s4.cur
             next == [s4 EXCEPT !.pc = "visit", !.cur = NoGoal]
             rolled == [next EXCEPT !.result = Append(@, t)]
  <2>1. Rollback!Children(t) = Behind(t, s2)
    BY DEF Rollback!Children, Behind
  <2>2. /\ s4.pc = "roll" /\ s2' = s2 /\ s3' = s3
        /\ \/ \E s \in Rollback!Listings(Behind(t, s2) \ s4.visited) :
                 s4' = [rolled EXCEPT !.queue = @ \o s]
           \/ s4' = [rolled EXCEPT !.err = TRUE]
           \/ s4' = [next EXCEPT !.err = TRUE]
    BY <1>3, <2>1 DEF Rollback!Roll
  <2> QED BY <1>0, <2>2, RollSettles
<1>4. CASE Rollback!CascadeEnd
  <2>1. s4.pc = "visit" /\ s4' = [s4 EXCEPT !.pc = "ended", !.err = @ \/ s4.queue # <<>>]
        /\ s2' = s2 /\ s3' = s3
    BY <1>4 DEF Rollback!CascadeEnd, Rollback!storeVars
  <2> QED BY <1>0, <2>1, EndSettles
<1>5. CASE Rollback!AgentStep \/ UNCHANGED Rollback!vars
  <2>1. s2' = s2 /\ s3' = s3 /\ s4' = s4
    BY <1>5 DEF Rollback!AgentStep, Rollback!List, Rollback!Execute, Rollback!Report, Rollback!Abort,
                Rollback!More, Rollback!vars, Rollback!storeVars
  <2> QED BY <1>0, <2>1
<1> QED
  BY <1>1, <1>2, <1>3, <1>4, <1>5 DEF Rollback!Next, Rollback!CascadeStep

\* How many paths lead from the goal to a task.
LEMMA PathCount ==
  ASSUME NEW t \in Tasks
  PROVE  Rollback!Paths(Goal)[t] \in Nat
<1> DEFINE A == {u \in Tasks : Goal <= u /\ u <= t}
           B == {P \in SUBSET A : Goal \in P /\ t \in P /\ Rollback!IsPath(P)}
<1>1. IsFiniteSet(A)
  <2>1. A \in SUBSET Tasks
    OBVIOUS
  <2> QED BY <2>1, ServiceAssumption, FS_Subset
<1>2. IsFiniteSet(SUBSET A) /\ B \in SUBSET (SUBSET A)
  BY <1>1, FS_SUBSET
<1>3. Cardinality(B) \in Nat
  BY <1>2, FS_Subset, FS_CardinalityType
<1>4. Rollback!Cardinality(B) = Cardinality(B)
  BY DEF Rollback!Cardinality, Cardinality
<1>5. Rollback!Paths(Goal)[t] = Rollback!Cardinality(B)
  BY DEF Rollback!Paths
<1> QED
  BY <1>3, <1>4, <1>5

LEMMA PathsKept ==
  ASSUME s2' = s2
  PROVE  Rollback!Paths(Goal)' = Rollback!Paths(Goal)
BY DEF Rollback!Paths, Rollback!IsPath

\* The invariant of the agent, task by task.
AgentOk(a, ran, st, P) ==
    /\ \A t \in Tasks : ran[t] + a.todo[t] <= P[t]
    /\ \A t \in Tasks : ran[t] > 0 /\ st[t] = "pending" =>
          a.pc = "ended" \/ (a.pc = "report" /\ a.cur = t)
    /\ a.pc \in {"report", "abort"} => a.cur \in Tasks
    /\ a.pc = "list" => \A t \in Tasks : ~(a.todo[t] > 0)

AgentType ==
    [pc : {"list", "next", "report", "abort", "more", "ended"},
     todo : [Tasks -> Nat], cur : Tasks \cup {NoGoal}]

LEMMA AgentInvIs == Rollback!AgentInv <=> AgentOk(s5, s6, s1, Rollback!Paths(Goal))
BY DEF Rollback!AgentInv, AgentOk, Rollback!Listed

\* Nothing becomes pending.
LEMMA StatusKept ==
  ASSUME Rollback!RollbackTypes, Settled(s4, s2), AgentOk(s5, s6, s1, Rollback!Paths(Goal)),
         [Rollback!Next]_(Rollback!vars)
  PROVE  /\ s1' \in [Tasks -> Rollback!States]
         /\ \A t \in Tasks : s1'[t] = "pending" => s1[t] = "pending"
<1> DEFINE Kept == /\ s1' \in [Tasks -> Rollback!States]
                   /\ \A t \in Tasks : s1'[t] = "pending" => s1[t] = "pending"
<1>0. s1 \in [Tasks -> Rollback!States]
  BY DEF Rollback!RollbackTypes, Rollback!StoreTypeOK
<1>1. ASSUME UNCHANGED s1 PROVE Kept
  BY <1>0, <1>1
<1>2. ASSUME NEW t \in Tasks, NEW x \in {"completed", "failed"}, Rollback!SetStatus(t, x) PROVE Kept
  BY <1>0, <1>2 DEF Rollback!SetStatus, Rollback!States
<1>3. ASSUME NEW t \in Tasks, Rollback!AbortDependents(t) PROVE Kept
  <2>1. /\ s1' = [d \in Tasks |-> s1'[d]]
        /\ \A d \in Tasks : s1'[d] = "failed" \/ s1'[d] = s1[d]
    BY <1>3 DEF Rollback!AbortDependents
  <2>2. \A d \in Tasks : s1'[d] \in Rollback!States
    BY <1>0, <2>1 DEF Rollback!States
  <2> QED BY <2>1, <2>2
<1>4. CASE Rollback!Roll
  <2>1. s4.cur \in Tasks
    BY <1>4 DEF Rollback!Roll, Settled
  <2>2. Rollback!SetStatus(s4.cur, "completed") \/ UNCHANGED s1
    BY <1>4 DEF Rollback!Roll
  <2> QED BY <1>1, <1>2, <2>1, <2>2
<1>5. CASE Rollback!Report
  <2>1. s5.cur \in Tasks
    BY <1>5 DEF Rollback!Report, AgentOk
  <2>2. Rollback!SetStatus(s5.cur, "completed") \/ Rollback!SetStatus(s5.cur, "failed") \/ UNCHANGED s1
    BY <1>5 DEF Rollback!Report
  <2> QED BY <1>1, <1>2, <2>1, <2>2
<1>6. CASE Rollback!Abort
  <2>1. s5.cur \in Tasks
    BY <1>6 DEF Rollback!Abort, AgentOk
  <2> QED BY <1>3, <1>6, <2>1 DEF Rollback!Abort
<1>7. CASE \/ \E t \in Tasks : Rollback!CascadeStart(t)
           \/ Rollback!Visit \/ Rollback!CascadeEnd \/ Rollback!List \/ Rollback!More
           \/ \E t \in Tasks : Rollback!Execute(t)
           \/ UNCHANGED Rollback!vars
  <2>1. UNCHANGED s1
    BY <1>7 DEF Rollback!CascadeStart, Rollback!Visit, Rollback!CascadeEnd, Rollback!List, Rollback!More,
                Rollback!Execute, Rollback!vars, Rollback!storeVars
  <2> QED BY <1>1, <2>1
<1>8. Kept
  BY <1>4, <1>5, <1>6, <1>7 DEF Rollback!Next, Rollback!CascadeStep, Rollback!AgentStep
<1> QED
  BY <1>8 DEF Kept

LEMMA AgentKeeps ==
  ASSUME NEW P, \A t \in Tasks : P[t] \in Nat, P = Rollback!Paths(Goal),
         s5 \in AgentType, s6 \in [Tasks -> Nat], AgentOk(s5, s6, s1, P),
         s1 \in [Tasks -> Rollback!States],
         \A t \in Tasks : s1'[t] = "pending" => s1[t] = "pending",
         [Rollback!Next]_(Rollback!vars)
  PROVE  s5' \in AgentType /\ s6' \in [Tasks -> Nat] /\ AgentOk(s5', s6', s1', P)
<1>0. /\ s5.todo \in [Tasks -> Nat] /\ s5.cur \in Tasks \cup {NoGoal}
      /\ s5.pc \in {"list", "next", "report", "abort", "more", "ended"}
  BY DEF AgentType
<1>1. CASE Rollback!List
  <2> DEFINE todo == [t \in Tasks |-> IF t \in Rollback!Executable THEN P[t] ELSE 0]
             more == \E t \in Rollback!Executable : P[t] > 0
  <2>1. s5.pc = "list" /\ s6' = s6
        /\ s5' = [s5 EXCEPT !.todo = todo, !.pc = IF more THEN "next" ELSE "ended"]
    BY <1>1 DEF Rollback!List
  <2>2. todo \in [Tasks -> Nat] /\ \A t \in Tasks : todo[t] = IF t \in Rollback!Executable THEN P[t] ELSE 0
    OBVIOUS
  <2>3. \A t \in Rollback!Executable : s1[t] = "pending"
    BY DEF Rollback!Executable
  <2> HIDE DEF todo, more
  <2>4. s5'.todo = todo /\ s5'.cur = s5.cur /\ s5'.pc \in {"next", "ended"} /\ s5' \in AgentType
    BY <2>1, <2>2 DEF AgentType
  <2>5. ASSUME NEW t \in Tasks
        PROVE  /\ s6[t] + todo[t] <= P[t]
               /\ s6[t] > 0 => s1[t] # "pending"
    <3>1. s6[t] > 0 => s1[t] # "pending"
      BY <2>1 DEF AgentOk
    <3>2. s6[t] + s5.todo[t] <= P[t] /\ s6[t] \in Nat /\ s5.todo[t] \in Nat /\ P[t] \in Nat
      BY <1>0 DEF AgentOk
    <3>3. todo[t] = 0 \/ (todo[t] = P[t] /\ s6[t] = 0)
      BY <2>2, <2>3, <3>1, <3>2
    <3> QED BY <3>1, <3>2, <3>3
  <2> QED BY <2>1, <2>4, <2>5 DEF AgentOk
<1>2. ASSUME NEW t \in Tasks, Rollback!Execute(t)
      PROVE  s5' \in AgentType /\ s6' \in [Tasks -> Nat] /\ AgentOk(s5', s6', s1', P)
  <2>1. s5.pc = "next" /\ s6' = [s6 EXCEPT ![t] = @ + 1] /\ t \in Rollback!Listed
        /\ s5' = [s5 EXCEPT !.pc = "report", !.cur = t, !.todo[t] = @ - 1]
    BY <1>2 DEF Rollback!Execute, Rollback!IsBest
  <2>2. s5.todo[t] > 0
    BY <2>1 DEF Rollback!Listed
  <2> DEFINE todo == [s5.todo EXCEPT ![t] = @ - 1]
  <2>3. todo \in [Tasks -> Nat] /\ \A u \in Tasks : todo[u] = IF u = t THEN s5.todo[t] - 1 ELSE s5.todo[u]
    BY <1>0, <2>2
  <2>4. s5' = [pc |-> "report", todo |-> todo, cur |-> t]
    BY <2>1 DEF AgentType
  <2> HIDE DEF todo
  <2>5. s5' \in AgentType /\ s5'.todo = todo /\ s5'.cur = t /\ s5'.pc = "report"
    BY <2>3, <2>4 DEF AgentType
  <2>6. s6' \in [Tasks -> Nat] /\ \A u \in Tasks : s6'[u] = IF u = t THEN s6[t] + 1 ELSE s6[u]
    BY <2>1
  <2>7. \A u \in Tasks : s6'[u] + todo[u] <= P[u]
    BY <1>0, <2>3, <2>6 DEF AgentOk
  <2>8. \A u \in Tasks : s6'[u] > 0 /\ s1'[u] = "pending" => u = t
    BY <2>1, <2>6 DEF AgentOk
  <2> QED BY <2>5, <2>6, <2>7, <2>8 DEF AgentOk
<1>3. CASE Rollback!Report
  <2>1. /\ s5.pc = "report" /\ s6' = s6 /\ s5.cur \in Tasks
        /\ \/ Rollback!SetStatus(s5.cur, "completed") /\ s5' = [s5 EXCEPT !.pc = "more"]
           \/ Rollback!SetStatus(s5.cur, "failed") /\ s5' = [s5 EXCEPT !.pc = "abort"]
           \/ s5' = [s5 EXCEPT !.pc = "ended"]
    BY <1>3 DEF Rollback!Report, AgentOk
  <2>2. s5' \in AgentType /\ s5'.todo = s5.todo /\ s5'.cur = s5.cur /\ s5'.pc \in {"more", "abort", "ended"}
    BY <2>1 DEF AgentType
  <2>3. s5'.pc = "ended" \/ s1'[s5.cur] # "pending"
    BY <2>1, <2>2 DEF Rollback!SetStatus, AgentType
  <2> QED BY <2>1, <2>2, <2>3 DEF AgentOk
<1>4. CASE Rollback!Abort
  <2>1. s5.pc = "abort" /\ s6' = s6 /\ s5' = [s5 EXCEPT !.pc = "more"]
    BY <1>4 DEF Rollback!Abort
  <2>2. s5' \in AgentType /\ s5'.todo = s5.todo /\ s5'.cur = s5.cur /\ s5'.pc = "more"
    BY <2>1 DEF AgentType
  <2> QED BY <2>1, <2>2 DEF AgentOk
<1>5. CASE Rollback!More
  <2>1. /\ s5.pc = "more" /\ s6' = s6
        /\ \/ s5' = [s5 EXCEPT !.pc = "next"]
           \/ s5' = [s5 EXCEPT !.pc = "list"] /\ Rollback!Listed = {}
           \/ s5' = [s5 EXCEPT !.pc = "ended"]
    BY <1>5 DEF Rollback!More
  <2>2. s5' \in AgentType /\ s5'.todo = s5.todo /\ s5'.cur = s5.cur /\ s5'.pc \in {"next", "list", "ended"}
    BY <2>1 DEF AgentType
  <2>3. s5'.pc = "list" => \A t \in Tasks : ~(s5.todo[t] > 0)
    BY <2>1 DEF Rollback!Listed, AgentType
  <2> QED BY <2>1, <2>2, <2>3 DEF AgentOk
<1>6. CASE (\E t \in Tasks : Rollback!CascadeStart(t)) \/ Rollback!CascadeStep \/ UNCHANGED Rollback!vars
  <2>1. s5' = s5 /\ s6' = s6
    BY <1>6 DEF Rollback!CascadeStart, Rollback!CascadeStep, Rollback!Visit, Rollback!Roll,
                Rollback!CascadeEnd, Rollback!vars, Rollback!loopVars
  <2> QED BY <2>1 DEF AgentOk
<1> QED
  BY <1>1, <1>2, <1>3, <1>4, <1>5, <1>6 DEF Rollback!Next, Rollback!AgentStep

LEMMA RollbackInvIs ==
  Rollback!RollbackInv <=>
    /\ s1 \in [Tasks -> Rollback!States] /\ s2 \subseteq Tasks \X Tasks /\ s3 \in BOOLEAN
    /\ s4 \in CascadeType /\ Settled(s4, s2)
    /\ s5 \in AgentType /\ s6 \in [Tasks -> Nat] /\ AgentOk(s5, s6, s1, Rollback!Paths(Goal))
BY CascadeInvIs, AgentInvIs
   DEF Rollback!RollbackInv, Rollback!RollbackTypes, Rollback!StoreTypeOK, CascadeType, AgentType

LEMMA RollbackStart == Rollback!Init => Rollback!RollbackInv
<1> SUFFICES ASSUME Rollback!Init PROVE Rollback!RollbackInv
  OBVIOUS
<1>1. /\ s1 = [t \in Tasks |-> "pending"] /\ s2 \in Graphs /\ s3 = FALSE /\ s4 = Rollback!Quiet
      /\ s5 = [pc |-> "list", todo |-> [t \in Tasks |-> 0], cur |-> NoGoal]
      /\ s6 = [t \in Tasks |-> 0]
  BY DEF Rollback!Init
<1>2. s1 \in [Tasks -> Rollback!States] /\ s2 \subseteq Tasks \X Tasks /\ s3 \in BOOLEAN
  BY <1>1, ServiceAssumption DEF Rollback!States
<1>3. s4 \in CascadeType /\ Settled(s4, s2)
  BY <1>1, QuietSettles
<1>4. s5 \in AgentType /\ s6 \in [Tasks -> Nat]
  BY <1>1 DEF AgentType
<1>5. \A t \in Tasks : Rollback!Paths(Goal)[t] \in Nat
  BY PathCount
<1>6. AgentOk(s5, s6, s1, Rollback!Paths(Goal))
  <2> HIDE DEF Rollback!Paths
  <2>1. s5.pc = "list" /\ \A t \in Tasks : s6[t] = 0 /\ s5.todo[t] = 0
    BY <1>1
  <2> QED BY <1>5, <2>1 DEF AgentOk
<1> QED
  BY <1>2, <1>3, <1>4, <1>6, RollbackInvIs

LEMMA RollbackStep ==
  Rollback!RollbackInv /\ [Rollback!Next]_(Rollback!vars) => Rollback!RollbackInv'
<1> SUFFICES ASSUME Rollback!RollbackInv, [Rollback!Next]_(Rollback!vars)
             PROVE  Rollback!RollbackInv'
  OBVIOUS
<1> DEFINE P == Rollback!Paths(Goal)
<1>1. /\ s1 \in [Tasks -> Rollback!States] /\ s2 \subseteq Tasks \X Tasks /\ s3 \in BOOLEAN
      /\ s4 \in CascadeType /\ Settled(s4, s2)
      /\ s5 \in AgentType /\ s6 \in [Tasks -> Nat] /\ AgentOk(s5, s6, s1, P)
      /\ Rollback!RollbackTypes
  BY RollbackInvIs DEF Rollback!RollbackInv
<1>2. s2' = s2 /\ s3' = s3 /\ s4' \in CascadeType /\ Settled(s4', s2)
  BY <1>1, CascadeKeeps
<1>3. s1' \in [Tasks -> Rollback!States] /\ \A t \in Tasks : s1'[t] = "pending" => s1[t] = "pending"
  BY <1>1, StatusKept
<1>4. \A t \in Tasks : P[t] \in Nat
  BY PathCount
<1>5. s5' \in AgentType /\ s6' \in [Tasks -> Nat] /\ AgentOk(s5', s6', s1', P)
  <2> HIDE DEF P
  <2>1. PICK Q : Q = P
    OBVIOUS
  <2>2. \A t \in Tasks : Q[t] \in Nat
    BY <1>4, <2>1
  <2>3. Q = Rollback!Paths(Goal) /\ AgentOk(s5, s6, s1, Q)
    BY <1>1, <2>1 DEF P
  <2>4. s5' \in AgentType /\ s6' \in [Tasks -> Nat] /\ AgentOk(s5', s6', s1', Q)
    BY <1>1, <1>3, <2>2, <2>3, AgentKeeps
  <2> QED BY <2>1, <2>4
<1>6. P' = P
  BY <1>2, PathsKept
<1>7. (/\ s1 \in [Tasks -> Rollback!States] /\ s2 \subseteq Tasks \X Tasks /\ s3 \in BOOLEAN
       /\ s4 \in CascadeType /\ Settled(s4, s2)
       /\ s5 \in AgentType /\ s6 \in [Tasks -> Nat] /\ AgentOk(s5, s6, s1, Rollback!Paths(Goal)))'
  <2>1. AgentOk(s5, s6, s1, Rollback!Paths(Goal))'
    <3>1. AgentOk(s5', s6', s1', Rollback!Paths(Goal)')
      BY <1>5, <1>6
    <3> QED BY <3>1 DEF AgentOk
  <2>2. Settled(s4, s2)'
    BY <1>2 DEF Settled, RolledOf, QueuedOf, AtHandOf, Elements, Behind
  <2> QED BY <1>1, <1>2, <1>3, <1>5, <2>1, <2>2 DEF Rollback!States, CascadeType, AgentType
<1>8. (Rollback!RollbackInv <=>
        /\ s1 \in [Tasks -> Rollback!States] /\ s2 \subseteq Tasks \X Tasks /\ s3 \in BOOLEAN
        /\ s4 \in CascadeType /\ Settled(s4, s2)
        /\ s5 \in AgentType /\ s6 \in [Tasks -> Nat] /\ AgentOk(s5, s6, s1, Rollback!Paths(Goal)))'
  BY RollbackInvIs, PTL
<1> QED
  BY <1>7, <1>8

LEMMA RollbackSound == Rollback!RollbackInv => Rollback!RollbackKeepsGraph
<1> SUFFICES ASSUME Rollback!RollbackInv PROVE Rollback!RollbackKeepsGraph
  OBVIOUS
<1>1. /\ Settled(s4, s2) /\ AgentOk(s5, s6, s1, Rollback!Paths(Goal))
      /\ s5 \in AgentType /\ s6 \in [Tasks -> Nat]
  BY RollbackInvIs
<1>2. Rollback!CascadeSettles
  <2> DEFINE rolled == {s4.result[i] : i \in DOMAIN s4.result}
  <2>1. rolled = RolledOf(s4) /\ Rollback!Cardinality(rolled) = Cardinality(rolled)
        /\ \A t : Rollback!Children(t) = Behind(t, s2)
    BY DEF RolledOf, Elements, Rollback!Cardinality, Cardinality, Rollback!Children, Behind
  <2>2. Rollback!Cardinality(rolled) = Len(s4.result) /\ Len(s4.result) <= CascadeLimit
    BY <1>1, <2>1 DEF Settled
  <2>3. ASSUME s4.pc = "ended", ~s4.err
        PROVE  /\ \A t \in rolled : Rollback!Children(t) \subseteq rolled \cup s4.shield
               /\ rolled \cap s4.shield = {}
    <3>1. AtHandOf(s4) = {} /\ s4.queue = <<>>
      BY <1>1, <2>3 DEF AtHandOf, Settled
    <3>2. QueuedOf(s4) = {}
      BY <3>1 DEF QueuedOf, Elements
    <3> HIDE DEF rolled
    <3> QED BY <1>1, <2>1, <2>3, <3>1, <3>2 DEF Settled
  <2> HIDE DEF rolled
  <2>4. Rollback!CascadeSettles <=>
          /\ Rollback!Cardinality(rolled) = Len(s4.result)
          /\ Len(s4.result) <= CascadeLimit
          /\ s4.pc = "ended" /\ ~s4.err =>
               /\ \A t \in rolled : Rollback!Children(t) \subseteq rolled \cup s4.shield
               /\ rolled \cap s4.shield = {}
    BY DEF Rollback!CascadeSettles, rolled
  <2> QED BY <2>2, <2>3, <2>4
<1>3. Rollback!OncePerPath
  <2>1. \A t \in Tasks : Rollback!Paths(Goal)[t] \in Nat
    BY PathCount
  <2>2. \A t \in Tasks : s6[t] \in Nat /\ s5.todo[t] \in Nat /\ s6[t] + s5.todo[t] <= Rollback!Paths(Goal)[t]
    BY <1>1 DEF AgentOk, AgentType
  <2>3. ASSUME NEW t \in Tasks
        PROVE  s6[t] <= Rollback!Paths(Goal)[t]
    BY <2>1, <2>2
  <2> QED BY <2>3 DEF Rollback!OncePerPath
<1> QED
  BY <1>2, <1>3 DEF Rollback!RollbackKeepsGraph
-----------------------------------------------------------------------------
(* Re-embedding (ReEmbed).                                                 *)

LEMMA EmbCardinality == \A S : ReEmbed!Cardinality(S) = Cardinality(S)
BY DEF ReEmbed!Cardinality, Cardinality

LEMMA EmbInit ==
  ASSUME ReEmbed!Init
  PROVE  ReEmbed!EmbInv
<1>1. ReEmbed!EmbTypes
  BY ServiceAssumption DEF ReEmbed!Init, ReEmbed!EmbTypes, ReEmbed!NotStarted, ReEmbed!Works, ReEmbed!Rows
<1> QED
  BY <1>1 DEF ReEmbed!Init, ReEmbed!EmbInv, ReEmbed!NotStarted

\* A step sets one number of the call at a time.
LEMMA OneNumber ==
  ASSUME NEW w \in ReEmbed!Works
  PROVE  /\ \A t \in Nat : LET v == [w EXCEPT !.total = t] IN
              /\ v \in ReEmbed!Works /\ v.total = t
              /\ v.pc = w.pc /\ v.cursor = w.cursor /\ v.batch = w.batch
              /\ v.skipped = w.skipped /\ v.failed = w.failed /\ v.done = w.done
         /\ \A t \in Nat : LET v == [w EXCEPT !.skipped = t] IN
              /\ v \in ReEmbed!Works /\ v.skipped = t
              /\ v.pc = w.pc /\ v.cursor = w.cursor /\ v.batch = w.batch
              /\ v.total = w.total /\ v.failed = w.failed /\ v.done = w.done
         /\ \A t \in Nat : LET v == [w EXCEPT !.failed = t] IN
              /\ v \in ReEmbed!Works /\ v.failed = t
              /\ v.pc = w.pc /\ v.cursor = w.cursor /\ v.batch = w.batch
              /\ v.total = w.total /\ v.skipped = w.skipped /\ v.done = w.done
         /\ \A t \in Nat : LET v == [w EXCEPT !.done = t] IN
              /\ v \in ReEmbed!Works /\ v.done = t
              /\ v.pc = w.pc /\ v.cursor = w.cursor /\ v.batch = w.batch
              /\ v.total = w.total /\ v.skipped = w.skipped /\ v.failed = w.failed
BY DEF ReEmbed!Works

\* What is left of a batch, and where the call goes with it.
LEMMA NextItemType ==
  ASSUME NEW w \in ReEmbed!Works, w.batch # <<>>
  PROVE  /\ ReEmbed!NextItem(w) \in ReEmbed!Works
         /\ ReEmbed!NextItem(w).cursor = w.cursor /\ ReEmbed!NextItem(w).batch = Tail(w.batch)
         /\ ReEmbed!NextItem(w).total = w.total /\ ReEmbed!NextItem(w).skipped = w.skipped
         /\ ReEmbed!NextItem(w).failed = w.failed /\ ReEmbed!NextItem(w).done = w.done
         /\ ReEmbed!NextItem(w).pc =
              IF Tail(w.batch) # <<>> THEN "embed" ELSE IF s5 = "rows" THEN "fetch" ELSE "finish"
<1> DEFINE pc == IF Len(w.batch) > 1 THEN "embed" ELSE IF s5 = "rows" THEN "fetch" ELSE "finish"
           x == [w EXCEPT !.batch = Tail(@)]
           y == [x EXCEPT !.pc = pc]
<1>1. ReEmbed!NextItem(w) = y
  BY DEF ReEmbed!NextItem, ReEmbed!Works
<1>2. pc \in {"embed", "fetch", "finish"} /\ Tail(w.batch) \in Seq(ReEmbed!Rows)
  BY DEF ReEmbed!Works
<1>3. Len(w.batch) > 1 <=> Tail(w.batch) # <<>>
  <2>1. w.batch \in Seq(ReEmbed!Rows)
    BY DEF ReEmbed!Works
  <2>2. Len(Tail(w.batch)) = Len(w.batch) - 1 /\ Len(w.batch) \in Nat /\ Tail(w.batch) \in Seq(ReEmbed!Rows)
    BY <2>1, HeadTailProperties, LenProperties
  <2> QED BY <2>2, EmptySeq
<1>4. pc = IF Tail(w.batch) # <<>> THEN "embed" ELSE IF s5 = "rows" THEN "fetch" ELSE "finish"
  BY <1>3
<1> HIDE DEF pc
<1>5. x \in ReEmbed!Works /\ x.batch = Tail(w.batch) /\ x.pc = w.pc /\ x.cursor = w.cursor
      /\ x.total = w.total /\ x.skipped = w.skipped /\ x.failed = w.failed /\ x.done = w.done
  BY <1>2 DEF ReEmbed!Works
<1> HIDE DEF x
<1>6. y \in ReEmbed!Works /\ y.batch = x.batch /\ y.pc = pc /\ y.cursor = x.cursor
      /\ y.total = x.total /\ y.skipped = x.skipped /\ y.failed = x.failed /\ y.done = x.done
  BY <1>2, <1>5 DEF ReEmbed!Works
<1> QED
  BY <1>1, <1>4, <1>5, <1>6

-----------------------------------------------------------------------------
\* The parts of the invariant that most steps look at.
LEMMA EmbParts ==
  ASSUME ReEmbed!EmbInv
  PROVE  /\ s1 \in [Ids -> Nat] /\ s2 \in [Ids -> [of : Nat, by : {"old", "new"}]]
         /\ s4 \in {"old", "new"} /\ s5 \in {"free", "rows"} /\ s6 \in ReEmbed!Works
         /\ s6.total \in Nat /\ s6.skipped \in Nat /\ s6.failed \in Nat /\ s6.done \in Nat
         /\ s6.cursor \in Seq(ReEmbed!Rows) /\ s6.batch \in Seq(ReEmbed!Rows)
         /\ Cardinality(Ids) \in Nat /\ Ids = 1..Cardinality(Ids)
<1>1. Cardinality(Ids) \in Nat /\ Ids = 1..Cardinality(Ids)
  BY ServiceAssumption, FS_CardinalityType
<1> QED
  BY <1>1 DEF ReEmbed!EmbInv, ReEmbed!EmbTypes, ReEmbed!Works

\* What the report will say when one row more has been read, or tried.
LEMMA EmbSums ==
  ASSUME ReEmbed!EmbInv
  PROVE  /\ s6.total + 1 = (s6.skipped + 1) + s6.failed + s6.done + Len(s6.batch)
         /\ s6.total + 1 = s6.skipped + s6.failed + s6.done + (Len(s6.batch) + 1)
         /\ s6.total = s6.skipped + (s6.failed + 1) + s6.done + (Len(s6.batch) - 1)
         /\ s6.total = s6.skipped + s6.failed + (s6.done + 1) + (Len(s6.batch) - 1)
         /\ s6.total = s6.skipped + (s6.failed + Len(s6.batch)) + s6.done + 0
<1> DEFINE t == s6.total
           s == s6.skipped
           f == s6.failed
           d == s6.done
           b == Len(s6.batch)
<1>1. t \in Nat /\ s \in Nat /\ f \in Nat /\ d \in Nat /\ b \in Nat
  BY EmbParts, LenProperties
<1>2. t = s + f + d + b
  BY DEF ReEmbed!EmbInv
<1> HIDE DEF t, s, f, d, b
<1>3. /\ t + 1 = (s + 1) + f + d + b /\ t + 1 = s + f + d + (b + 1)
      /\ t = s + (f + 1) + d + (b - 1) /\ t = s + f + (d + 1) + (b - 1)
      /\ t = s + (f + b) + d + 0
  BY <1>1, <1>2
<1> QED
  BY <1>3 DEF t, s, f, d, b

LEMMA EmbStart ==
  ASSUME ReEmbed!EmbInv, ReEmbed!Start
  PROVE  ReEmbed!EmbInv'
<1> DEFINE n == Cardinality(Ids)
           row(i) == [id |-> i, says |-> s1[i]]
           cursor == [i \in 1..n |-> row(i)]
           x == [s6 EXCEPT !.pc = "fetch"]
           y == [x EXCEPT !.cursor = cursor]
<1>1. n \in Nat /\ Ids = 1..n /\ s1 \in [1..n -> Nat] /\ s6 \in ReEmbed!Works
  BY EmbParts
<1>2. s6 = ReEmbed!NotStarted /\ s5 = "free" /\ s5' = "rows" /\ UNCHANGED <<s1, s2, s3, s4, s7>>
  BY DEF ReEmbed!Start, ReEmbed!EmbInv
<1>3. \A i \in 1..n : row(i) \in ReEmbed!Rows /\ row(i).id = i
  BY <1>1 DEF ReEmbed!Rows
<1>4. s6' = y
  BY EmbCardinality DEF ReEmbed!Start, ReEmbed!Works
<1> HIDE DEF n, row
<1>5. cursor \in Seq(ReEmbed!Rows) /\ Len(cursor) = n /\ \A k \in DOMAIN cursor : cursor[k].id = k
  BY <1>1, <1>3
<1> HIDE DEF cursor
<1>6. /\ x \in ReEmbed!Works /\ x.pc = "fetch" /\ x.total = 0 /\ x.batch = <<>>
      /\ x.skipped = 0 /\ x.failed = 0 /\ x.done = 0
  BY <1>1, <1>2 DEF ReEmbed!Works, ReEmbed!NotStarted
<1> HIDE DEF x
<1>7. /\ s6' \in ReEmbed!Works /\ s6'.pc = "fetch" /\ s6'.cursor = cursor /\ s6'.total = 0
      /\ s6'.batch = <<>> /\ s6'.skipped = 0 /\ s6'.failed = 0 /\ s6'.done = 0
  BY <1>4, <1>5, <1>6 DEF ReEmbed!Works
<1>8. ReEmbed!InOrder'
  BY <1>1, <1>5, <1>7, EmbCardinality DEF ReEmbed!InOrder, n
<1>9. ReEmbed!OldAndTried' = {}
  BY <1>7 DEF ReEmbed!OldAndTried
<1>10. ReEmbed!Cardinality(ReEmbed!OldAndTried') = 0
  BY <1>9, FS_EmptySet, EmbCardinality
<1>11. ReEmbed!EmbTypes'
  BY <1>2, <1>7, EmbParts DEF ReEmbed!EmbTypes
<1>12. s4' # "new"
  BY <1>2 DEF ReEmbed!EmbInv, ReEmbed!NotStarted
<1> QED
  BY <1>2, <1>7, <1>8, <1>10, <1>11, <1>12 DEF ReEmbed!EmbInv

\* The rows that have been tried are among those read, so that they can be counted.
LEMMA EmbCount ==
  ASSUME ReEmbed!EmbInv, NEW x, ReEmbed!OldAndTried' \subseteq ReEmbed!OldAndTried \cup {x}
  PROVE  /\ ReEmbed!Cardinality(ReEmbed!OldAndTried) \in Nat
         /\ ReEmbed!Cardinality(ReEmbed!OldAndTried') \in Nat
         /\ ReEmbed!Cardinality(ReEmbed!OldAndTried') <= ReEmbed!Cardinality(ReEmbed!OldAndTried) + 1
         /\ ReEmbed!OldAndTried' \subseteq ReEmbed!OldAndTried =>
              ReEmbed!Cardinality(ReEmbed!OldAndTried') <= ReEmbed!Cardinality(ReEmbed!OldAndTried)
<1> DEFINE S == ReEmbed!OldAndTried
           T == ReEmbed!OldAndTried'
<1>1. s6.total \in Nat /\ S \subseteq 1..s6.total
  BY EmbParts DEF ReEmbed!OldAndTried
<1>2. T \subseteq S \cup {x}
  OBVIOUS
<1> HIDE DEF S, T
<1>3. /\ Cardinality(S) \in Nat /\ Cardinality(T) \in Nat
      /\ Cardinality(T) <= Cardinality(S) + 1
      /\ x \in S \/ T \subseteq S => Cardinality(T) <= Cardinality(S)
  BY <1>1, <1>2, OneMore
<1> QED
  BY <1>3, EmbCardinality DEF S, T

LEMMA EmbFetch ==
  ASSUME ReEmbed!EmbInv, ReEmbed!Fetch
  PROVE  ReEmbed!EmbInv'
<1> DEFINE r == Head(s6.cursor)
           rest == Tail(s6.cursor)
           x == [s6 EXCEPT !.cursor = rest]
           read == [x EXCEPT !.total = @ + 1]
           more == [read EXCEPT !.batch = Append(@, r)]
           pc == IF Len(s6.batch) + 1 >= BatchSize THEN "embed" ELSE "fetch"
<1>1. /\ s6 \in ReEmbed!Works /\ s6.total \in Nat /\ s6.skipped \in Nat /\ s6.failed \in Nat
      /\ s6.done \in Nat /\ s6.cursor \in Seq(ReEmbed!Rows) /\ s6.batch \in Seq(ReEmbed!Rows)
  BY EmbParts
<1>2. /\ s6.pc = "fetch" /\ s6.cursor # <<>> /\ s5 = "rows" /\ UNCHANGED <<s1, s2, s3, s4, s5, s7>>
      /\ s6.total = s6.skipped + s6.failed + s6.done + Len(s6.batch)
      /\ ReEmbed!InOrder /\ s4 # "new"
      /\ ReEmbed!Cardinality(ReEmbed!OldAndTried) <= s6.skipped + s6.failed
  BY DEF ReEmbed!Fetch, ReEmbed!EmbInv
<1>3. s6' = IF r.says = 0 THEN [read EXCEPT !.skipped = @ + 1] ELSE [more EXCEPT !.pc = pc]
  BY <1>1 DEF ReEmbed!Fetch, ReEmbed!Works
<1>4. /\ r \in ReEmbed!Rows /\ rest \in Seq(ReEmbed!Rows) /\ Len(rest) = Len(s6.cursor) - 1
      /\ r = s6.cursor[1] /\ \A k \in DOMAIN rest : rest[k] = s6.cursor[k + 1]
      /\ \A k \in DOMAIN rest : k \in Nat /\ k + 1 \in DOMAIN s6.cursor
      /\ 1 \in DOMAIN s6.cursor
  BY <1>1, <1>2, TailFacts
<1>5. r.id = s6.total + 1 /\ \A k \in DOMAIN rest : rest[k].id = s6.total + 1 + k
  BY <1>1, <1>2, <1>4 DEF ReEmbed!InOrder
<1>6. pc \in {"fetch", "embed"}
  OBVIOUS
<1> HIDE DEF r, rest, pc
<1>7. x \in ReEmbed!Works /\ x.cursor = rest /\ x.batch = s6.batch /\ x.pc = s6.pc
      /\ x.total = s6.total /\ x.skipped = s6.skipped /\ x.failed = s6.failed /\ x.done = s6.done
  BY <1>1, <1>4 DEF ReEmbed!Works
<1> HIDE DEF x
<1>8. read \in ReEmbed!Works /\ read.cursor = rest /\ read.batch = s6.batch /\ read.pc = s6.pc
      /\ read.total = s6.total + 1 /\ read.skipped = s6.skipped /\ read.failed = s6.failed
      /\ read.done = s6.done
  <2>1. x.total + 1 \in Nat
    BY <1>1, <1>7
  <2> QED BY <1>7, <2>1, OneNumber
<1> HIDE DEF read
<1>9. /\ more \in ReEmbed!Works /\ more.cursor = rest /\ more.batch = Append(s6.batch, r)
      /\ more.total = s6.total + 1 /\ more.skipped = s6.skipped /\ more.failed = s6.failed
      /\ more.done = s6.done
  <2>1. Append(s6.batch, r) \in Seq(ReEmbed!Rows)
    BY <1>1, <1>4
  <2> QED BY <1>8, <2>1 DEF ReEmbed!Works
<1> HIDE DEF more
<1>10. /\ s6'.cursor = rest /\ s6'.total = s6.total + 1
       /\ s6'.failed = s6.failed /\ s6'.done = s6.done /\ s6' \in ReEmbed!Works
       /\ \/ /\ s6'.pc = "fetch" /\ s6'.skipped = s6.skipped + 1 /\ s6'.batch = s6.batch
          \/ /\ s6'.pc \in {"fetch", "embed"} /\ s6'.skipped = s6.skipped /\ s6'.batch = Append(s6.batch, r)
  <2>1. CASE r.says = 0
    <3>1. s6' = [read EXCEPT !.skipped = @ + 1]
      BY <1>3, <2>1
    <3>2. read.skipped + 1 \in Nat
      BY <1>1, <1>8
    <3> QED BY <1>2, <1>8, <3>1, <3>2, OneNumber
  <2>2. CASE r.says # 0
    <3>1. s6' = [more EXCEPT !.pc = pc]
      BY <1>3, <2>2
    <3> QED BY <1>6, <1>9, <3>1 DEF ReEmbed!Works
  <2> QED BY <2>1, <2>2
<1>11. ReEmbed!InOrder'
  <2>1. Len(s6.cursor) + s6.total = Cardinality(Ids) /\ Cardinality(Ids) \in Nat
    BY <1>2, EmbCardinality, EmbParts DEF ReEmbed!InOrder
  <2>2. Len(rest) + s6'.total = Cardinality(Ids)
    BY <1>1, <1>4, <1>10, <2>1
  <2> QED BY <1>5, <1>10, <2>2, EmbCardinality DEF ReEmbed!InOrder
<1>12. /\ s6'.total = s6'.skipped + s6'.failed + s6'.done + Len(s6'.batch)
       /\ s6'.pc = "embed" => s6'.batch # <<>>
  <2>1. Len(Append(s6.batch, r)) = Len(s6.batch) + 1 /\ Append(s6.batch, r) # <<>> /\ Len(s6.batch) \in Nat
    BY <1>1, <1>4, AppendFacts
  <2>2. \/ Len(s6'.batch) = Len(s6.batch) + 1 /\ s6'.batch # <<>> /\ s6'.skipped = s6.skipped
        \/ s6'.skipped = s6.skipped + 1 /\ s6'.batch = s6.batch /\ s6'.pc = "fetch"
    BY <1>10, <2>1
  <2>3. /\ s6.total + 1 = (s6.skipped + 1) + s6.failed + s6.done + Len(s6.batch)
        /\ s6.total + 1 = s6.skipped + s6.failed + s6.done + (Len(s6.batch) + 1)
    BY EmbSums
  <2> QED BY ONLY <1>10, <2>2, <2>3
<1>13. /\ ReEmbed!OldAndTried' \subseteq ReEmbed!OldAndTried \cup {s6.total + 1}
       /\ s6'.skipped = s6.skipped => ReEmbed!OldAndTried' \subseteq ReEmbed!OldAndTried
  <2>1. \A i \in ReEmbed!OldAndTried' : /\ i \in 1..(s6.total + 1) /\ s2[i].by = "old"
                                        /\ \A k \in DOMAIN s6'.batch : s6'.batch[k].id # i
    BY <1>2, <1>10 DEF ReEmbed!OldAndTried
  <2>2. \A i : i \in ReEmbed!OldAndTried <=>
             i \in 1..s6.total /\ s2[i].by = "old" /\ \A k \in DOMAIN s6.batch : s6.batch[k].id # i
    BY DEF ReEmbed!OldAndTried
  <2>3. \A i \in 1..(s6.total + 1) : i \in 1..s6.total \/ i = s6.total + 1
    BY <1>1
  <2>4. CASE s6'.batch = s6.batch /\ s6'.skipped = s6.skipped + 1
    BY <1>1, <2>1, <2>2, <2>3, <2>4
  <2>5. CASE s6'.batch = Append(s6.batch, r)
    <3>1. /\ \A k \in DOMAIN s6.batch : k \in DOMAIN s6'.batch /\ s6'.batch[k] = s6.batch[k]
          /\ Len(s6.batch) + 1 \in DOMAIN s6'.batch /\ s6'.batch[Len(s6.batch) + 1] = r
      BY <1>1, <1>4, <2>5, AppendFacts
    <3>2. \A i \in ReEmbed!OldAndTried' : i # s6.total + 1
      BY <2>1, <3>1, <1>5
    <3> QED BY <2>1, <2>2, <2>3, <3>1, <3>2
  <2> QED BY <1>10, <2>4, <2>5
<1>14. ReEmbed!Cardinality(ReEmbed!OldAndTried') <= s6'.skipped + s6'.failed
  <2>1. /\ ReEmbed!Cardinality(ReEmbed!OldAndTried) \in Nat
        /\ ReEmbed!Cardinality(ReEmbed!OldAndTried') \in Nat
        /\ ReEmbed!Cardinality(ReEmbed!OldAndTried') <= ReEmbed!Cardinality(ReEmbed!OldAndTried) + 1
        /\ s6'.skipped = s6.skipped =>
             ReEmbed!Cardinality(ReEmbed!OldAndTried') <= ReEmbed!Cardinality(ReEmbed!OldAndTried)
    BY <1>13, EmbCount
  <2> QED BY <1>1, <1>2, <1>10, <2>1
<1>15. ReEmbed!EmbTypes'
  BY <1>2, <1>10, EmbParts DEF ReEmbed!EmbTypes
<1> QED
  BY <1>2, <1>10, <1>11, <1>12, <1>14, <1>15 DEF ReEmbed!EmbInv

LEMMA EmbFetchEnd ==
  ASSUME ReEmbed!EmbInv, ReEmbed!FetchEnd
  PROVE  ReEmbed!EmbInv'
<1> DEFINE pc == IF s6.batch = <<>> THEN "finish" ELSE "embed"
<1>1. /\ s6 \in ReEmbed!Works /\ s6.pc = "fetch" /\ s6.cursor = <<>> /\ s5' = "free"
      /\ UNCHANGED <<s1, s2, s3, s4, s7>> /\ ReEmbed!InOrder /\ s4 # "new"
      /\ s6' = [s6 EXCEPT !.pc = pc]
      /\ ReEmbed!Cardinality(ReEmbed!OldAndTried) <= s6.skipped + s6.failed
  BY EmbParts DEF ReEmbed!FetchEnd, ReEmbed!EmbInv
<1>2. pc \in {"finish", "embed"} /\ (pc = "finish" <=> s6.batch = <<>>)
  OBVIOUS
<1> HIDE DEF pc
<1>3. /\ s6' \in ReEmbed!Works /\ s6'.pc = pc /\ s6'.cursor = s6.cursor /\ s6'.batch = s6.batch
      /\ s6'.total = s6.total /\ s6'.skipped = s6.skipped /\ s6'.failed = s6.failed /\ s6'.done = s6.done
  BY <1>1, <1>2 DEF ReEmbed!Works
<1>4. ReEmbed!InOrder' /\ ReEmbed!OldAndTried' = ReEmbed!OldAndTried
  BY <1>1, <1>3 DEF ReEmbed!InOrder, ReEmbed!OldAndTried
<1>5. ReEmbed!EmbTypes'
  BY <1>1, <1>3, EmbParts DEF ReEmbed!EmbTypes
<1> QED
  BY <1>1, <1>2, <1>3, <1>4, <1>5 DEF ReEmbed!EmbInv

\* The first row of the batch is done with: it has failed, or it is by the
\* new model now.
LEMMA ItemDone ==
  ASSUME ReEmbed!EmbInv, s6.pc \in {"embed", "update"},
         UNCHANGED <<s1, s4, s5>>, s6' \in ReEmbed!Works,
         s2' \in [Ids -> [of : Nat, by : {"old", "new"}]],
         s6'.cursor = s6.cursor, s6'.batch = Tail(s6.batch), s6'.total = s6.total, s6'.skipped = s6.skipped,
         s6'.pc = IF Tail(s6.batch) # <<>> THEN "embed" ELSE IF s5 = "rows" THEN "fetch" ELSE "finish",
         \/ s6'.failed = s6.failed + 1 /\ s6'.done = s6.done /\ s2' = s2
         \/ /\ s6'.failed = s6.failed /\ s6'.done = s6.done + 1
            /\ s2'[Head(s6.batch).id].by = "new"
            /\ \A i \in Ids : i # Head(s6.batch).id => s2'[i] = s2[i]
  PROVE  ReEmbed!EmbInv'
<1> DEFINE first == Head(s6.batch).id
           rest == Tail(s6.batch)
           pc == IF rest # <<>> THEN "embed" ELSE IF s5 = "rows" THEN "fetch" ELSE "finish"
<1>1. /\ s6.total \in Nat /\ s6.skipped \in Nat /\ s6.failed \in Nat
      /\ s6.done \in Nat /\ s6.batch \in Seq(ReEmbed!Rows)
  BY EmbParts
<1>2. /\ s6.batch # <<>> /\ (s5 = "free" => s6.cursor = <<>>) /\ s4 # "new" /\ s5 \in {"free", "rows"}
      /\ s6.total = s6.skipped + s6.failed + s6.done + Len(s6.batch)
      /\ ReEmbed!InOrder /\ ReEmbed!Cardinality(ReEmbed!OldAndTried) <= s6.skipped + s6.failed
  BY EmbParts DEF ReEmbed!EmbInv
<1>3. /\ rest \in Seq(ReEmbed!Rows) /\ Len(rest) = Len(s6.batch) - 1 /\ Len(s6.batch) \in Nat
      /\ first = s6.batch[1].id /\ \A k \in DOMAIN rest : k + 1 \in DOMAIN s6.batch /\ rest[k] = s6.batch[k + 1]
      /\ \A k \in DOMAIN s6.batch : k = 1 \/ (k - 1 \in DOMAIN rest /\ s6.batch[k] = rest[k - 1])
  BY ONLY <1>1, <1>2, TailFacts
<1>4. s6'.pc = pc /\ s6'.batch = rest
  OBVIOUS
<1>5. pc \in {"embed", "fetch", "finish"} /\ (pc = "embed" <=> rest # <<>>)
      /\ (pc = "fetch" => s5 = "rows") /\ (pc = "finish" => s5 = "free")
  BY <1>2
<1> HIDE DEF first, rest, pc
<1>6. s6'.total = s6'.skipped + s6'.failed + s6'.done + Len(s6'.batch)
  <2>1. /\ s6.total = s6.skipped + (s6.failed + 1) + s6.done + (Len(s6.batch) - 1)
        /\ s6.total = s6.skipped + s6.failed + (s6.done + 1) + (Len(s6.batch) - 1)
    BY EmbSums
  <2> QED BY <1>3, <1>4, <2>1
<1>7. ReEmbed!InOrder'
  BY <1>2 DEF ReEmbed!InOrder
<1>8. \A i \in ReEmbed!OldAndTried' : /\ i \in 1..s6.total /\ s2'[i].by = "old"
                                      /\ i # first => \A k \in DOMAIN s6.batch : s6.batch[k].id # i
  <2>1. s6'.batch = rest /\ s6'.total = s6.total
    BY <1>4
  <2> QED BY ONLY <1>3, <2>1 DEF ReEmbed!OldAndTried
<1>9. 1..s6.total \subseteq Ids
  <2>1. Len(s6.cursor) + s6.total = Cardinality(Ids) /\ Cardinality(Ids) \in Nat
        /\ Ids = 1..Cardinality(Ids) /\ Len(s6.cursor) \in Nat
    BY <1>2, EmbCardinality, EmbParts DEF ReEmbed!InOrder
  <2> QED BY <1>1, <2>1
<1>10. /\ s2' = s2 => ReEmbed!OldAndTried' \subseteq ReEmbed!OldAndTried \cup {first}
       /\ (s2'[first].by = "new" /\ \A i \in Ids : i # first => s2'[i] = s2[i])
            => ReEmbed!OldAndTried' \subseteq ReEmbed!OldAndTried
  <2>1. ASSUME NEW i \in ReEmbed!OldAndTried', i # first, s2'[i] = s2[i]
        PROVE  i \in ReEmbed!OldAndTried
    <3>1. i \in 1..s6.total /\ s2[i].by = "old" /\ \A k \in DOMAIN s6.batch : s6.batch[k].id # i
      BY ONLY <1>8, <2>1
    <3> QED BY ONLY <3>1 DEF ReEmbed!OldAndTried
  <2>2. ASSUME s2' = s2
        PROVE  ReEmbed!OldAndTried' \subseteq ReEmbed!OldAndTried \cup {first}
    BY ONLY <2>1, <2>2
  <2>3. ASSUME s2'[first].by = "new", \A i \in Ids : i # first => s2'[i] = s2[i]
        PROVE  ReEmbed!OldAndTried' \subseteq ReEmbed!OldAndTried
    <3>1. ASSUME NEW i \in ReEmbed!OldAndTried'
          PROVE  i \in Ids /\ i # first
      BY ONLY <1>8, <1>9, <2>3, <3>1
    <3> QED BY ONLY <2>1, <2>3, <3>1
  <2> QED BY <2>2, <2>3
<1>11. ReEmbed!OldAndTried' \subseteq ReEmbed!OldAndTried \cup {first}
  BY <1>10 DEF first
<1>12. /\ ReEmbed!Cardinality(ReEmbed!OldAndTried) \in Nat
       /\ ReEmbed!Cardinality(ReEmbed!OldAndTried') \in Nat
       /\ ReEmbed!Cardinality(ReEmbed!OldAndTried') <= ReEmbed!Cardinality(ReEmbed!OldAndTried) + 1
       /\ ReEmbed!OldAndTried' \subseteq ReEmbed!OldAndTried =>
            ReEmbed!Cardinality(ReEmbed!OldAndTried') <= ReEmbed!Cardinality(ReEmbed!OldAndTried)
  BY <1>11, EmbCount
<1>13. ReEmbed!Cardinality(ReEmbed!OldAndTried') <= s6'.skipped + s6'.failed
  <2> DEFINE before == ReEmbed!Cardinality(ReEmbed!OldAndTried)
             after == ReEmbed!Cardinality(ReEmbed!OldAndTried')
  <2>1. /\ before \in Nat /\ after \in Nat /\ before <= s6.skipped + s6.failed /\ after <= before + 1
        /\ s6.skipped \in Nat /\ s6.failed \in Nat /\ s6'.skipped = s6.skipped
    BY <1>1, <1>2, <1>12
  <2>2. \/ s6'.failed = s6.failed + 1
        \/ s6'.failed = s6.failed /\ after <= before
    BY <1>10, <1>12 DEF first
  <2>3. ReEmbed!Cardinality(ReEmbed!OldAndTried)' = after
    OBVIOUS
  <2> HIDE DEF before, after
  <2> QED BY ONLY <2>1, <2>2, <2>3
<1>14. ReEmbed!EmbTypes'
  BY EmbParts DEF ReEmbed!EmbTypes
<1> QED
  BY <1>2, <1>4, <1>5, <1>6, <1>7, <1>13, <1>14 DEF ReEmbed!EmbInv

\* NextItem with one number counted up.
LEMMA NextItemCounted ==
  ASSUME ReEmbed!EmbInv, s6.pc \in {"embed", "update"}
  PROVE  LET w == ReEmbed!NextItem(s6)
             v == [w EXCEPT !.failed = @ + 1]
             u == [w EXCEPT !.done = @ + 1]
             pc == IF Tail(s6.batch) # <<>> THEN "embed" ELSE IF s5 = "rows" THEN "fetch" ELSE "finish"
         IN  /\ v \in ReEmbed!Works /\ v.cursor = s6.cursor /\ v.batch = Tail(s6.batch) /\ v.total = s6.total
             /\ v.skipped = s6.skipped /\ v.failed = s6.failed + 1 /\ v.done = s6.done /\ v.pc = pc
             /\ u \in ReEmbed!Works /\ u.cursor = s6.cursor /\ u.batch = Tail(s6.batch) /\ u.total = s6.total
             /\ u.skipped = s6.skipped /\ u.failed = s6.failed /\ u.done = s6.done + 1 /\ u.pc = pc
<1> DEFINE w == ReEmbed!NextItem(s6)
<1>1. s6 \in ReEmbed!Works /\ s6.batch # <<>> /\ s6.failed + 1 \in Nat /\ s6.done + 1 \in Nat
  <2>1. s6 \in ReEmbed!Works /\ s6.failed \in Nat /\ s6.done \in Nat
    BY EmbParts
  <2>2. s6.batch # <<>>
    BY DEF ReEmbed!EmbInv
  <2> QED BY ONLY <2>1, <2>2
<1>2. /\ w \in ReEmbed!Works
      /\ w.cursor = s6.cursor /\ w.batch = Tail(s6.batch)
      /\ w.total = s6.total /\ w.skipped = s6.skipped
      /\ w.failed = s6.failed /\ w.done = s6.done
      /\ w.pc = IF Tail(s6.batch) # <<>> THEN "embed" ELSE IF s5 = "rows" THEN "fetch" ELSE "finish"
  BY <1>1, NextItemType
<1> HIDE DEF w
<1>3. [w EXCEPT !.failed = @ + 1] = [w EXCEPT !.failed = s6.failed + 1]
      /\ [w EXCEPT !.done = @ + 1] = [w EXCEPT !.done = s6.done + 1]
  BY <1>2
<1> DEFINE v == [w EXCEPT !.failed = s6.failed + 1]
           u == [w EXCEPT !.done = s6.done + 1]
<1>4. /\ v \in ReEmbed!Works /\ v.failed = s6.failed + 1 /\ v.pc = w.pc /\ v.cursor = w.cursor
      /\ v.batch = w.batch /\ v.total = w.total /\ v.skipped = w.skipped /\ v.done = w.done
  BY ONLY <1>1, <1>2, OneNumber
<1>5. /\ u \in ReEmbed!Works /\ u.done = s6.done + 1 /\ u.pc = w.pc /\ u.cursor = w.cursor
      /\ u.batch = w.batch /\ u.total = w.total /\ u.skipped = w.skipped /\ u.failed = w.failed
  BY ONLY <1>1, <1>2, OneNumber
<1> HIDE DEF v, u
<1> QED
  BY <1>2, <1>3, <1>4, <1>5 DEF w, v, u

LEMMA EmbEmbed ==
  ASSUME ReEmbed!EmbInv, ReEmbed!Embed
  PROVE  ReEmbed!EmbInv'
<1>1. s6.pc = "embed" /\ UNCHANGED <<s1, s2, s3, s4, s5, s7>>
  BY DEF ReEmbed!Embed
<1>2. CASE s6' = [s6 EXCEPT !.pc = "update"]
  <2>1. /\ s6' \in ReEmbed!Works /\ s6'.pc = "update" /\ s6'.cursor = s6.cursor /\ s6'.batch = s6.batch
        /\ s6'.total = s6.total /\ s6'.skipped = s6.skipped /\ s6'.failed = s6.failed /\ s6'.done = s6.done
    BY <1>2, EmbParts DEF ReEmbed!Works
  <2>2. ReEmbed!InOrder' = ReEmbed!InOrder /\ ReEmbed!OldAndTried' = ReEmbed!OldAndTried
    BY <1>1, <2>1 DEF ReEmbed!InOrder, ReEmbed!OldAndTried
  <2>3. ReEmbed!EmbTypes'
    BY <1>1, <2>1, EmbParts DEF ReEmbed!EmbTypes
  <2> QED
    BY <1>1, <2>1, <2>2, <2>3 DEF ReEmbed!EmbInv
<1>3. CASE s6' = [ReEmbed!NextItem(s6) EXCEPT !.failed = @ + 1]
  <2>1. /\ s6' \in ReEmbed!Works /\ s6'.cursor = s6.cursor /\ s6'.batch = Tail(s6.batch)
        /\ s6'.total = s6.total /\ s6'.skipped = s6.skipped /\ s6'.failed = s6.failed + 1 /\ s6'.done = s6.done
        /\ s6'.pc = IF Tail(s6.batch) # <<>> THEN "embed" ELSE IF s5 = "rows" THEN "fetch" ELSE "finish"
    BY <1>1, <1>3, NextItemCounted
  <2>2. s2' \in [Ids -> [of : Nat, by : {"old", "new"}]]
    BY <1>1, EmbParts
  <2> QED
    BY <1>1, <2>1, <2>2, ItemDone
<1> QED
  BY <1>2, <1>3 DEF ReEmbed!Embed

LEMMA EmbUpdate ==
  ASSUME ReEmbed!EmbInv, ReEmbed!Update
  PROVE  ReEmbed!EmbInv'
<1> DEFINE r == Head(s6.batch)
           new == [of |-> r.says, by |-> "new"]
<1>1. s6.pc = "update" /\ UNCHANGED <<s1, s4, s5, s7>>
  BY DEF ReEmbed!Update
<1>2. s6.batch # <<>> /\ s6.batch \in Seq(ReEmbed!Rows)
  BY <1>1, EmbParts DEF ReEmbed!EmbInv
<1>3. r \in ReEmbed!Rows
  BY <1>2, TailFacts
<1>4. r.id \in Ids /\ new \in [of : Nat, by : {"old", "new"}] /\ new.by = "new"
  BY <1>3 DEF ReEmbed!Rows
<1>5. CASE s6' = [ReEmbed!NextItem(s6) EXCEPT !.done = @ + 1] /\ s2' = [s2 EXCEPT ![r.id] = new]
  <2>1. /\ s6' \in ReEmbed!Works /\ s6'.cursor = s6.cursor /\ s6'.batch = Tail(s6.batch)
        /\ s6'.total = s6.total /\ s6'.skipped = s6.skipped /\ s6'.failed = s6.failed /\ s6'.done = s6.done + 1
        /\ s6'.pc = IF Tail(s6.batch) # <<>> THEN "embed" ELSE IF s5 = "rows" THEN "fetch" ELSE "finish"
    BY <1>1, <1>5, NextItemCounted
  <2> HIDE DEF new
  <2>2. /\ s2' \in [Ids -> [of : Nat, by : {"old", "new"}]] /\ s2'[r.id] = new
        /\ \A i \in Ids : i # r.id => s2'[i] = s2[i]
    BY <1>4, <1>5, EmbParts
  <2> QED
    BY <1>1, <1>4, <2>1, <2>2, ItemDone
<1>6. CASE s6' = [ReEmbed!NextItem(s6) EXCEPT !.failed = @ + 1] /\ s2' = s2
  <2>1. /\ s6' \in ReEmbed!Works /\ s6'.cursor = s6.cursor /\ s6'.batch = Tail(s6.batch)
        /\ s6'.total = s6.total /\ s6'.skipped = s6.skipped /\ s6'.failed = s6.failed + 1 /\ s6'.done = s6.done
        /\ s6'.pc = IF Tail(s6.batch) # <<>> THEN "embed" ELSE IF s5 = "rows" THEN "fetch" ELSE "finish"
    BY <1>1, <1>6, NextItemCounted
  <2>2. s2' \in [Ids -> [of : Nat, by : {"old", "new"}]]
    BY <1>6, EmbParts
  <2> QED
    BY <1>1, <1>6, <2>1, <2>2, ItemDone
<1> QED
  BY <1>5, <1>6 DEF ReEmbed!Update

LEMMA EmbCancel ==
  ASSUME ReEmbed!EmbInv, ReEmbed!Cancel
  PROVE  ReEmbed!EmbInv'
<1>1. /\ s6.pc \in {"fetch", "embed", "update"} /\ s5' = "free" /\ UNCHANGED <<s1, s2, s3, s4, s7>>
      /\ s4 # "new" /\ s6 \in ReEmbed!Works
      /\ s6.total = s6.skipped + s6.failed + s6.done + Len(s6.batch)
  BY EmbParts DEF ReEmbed!Cancel, ReEmbed!EmbInv
<1>2. CASE s6.pc = "fetch"
  <2>1. s6' = [s6 EXCEPT !.pc = "error"]
    BY <1>2 DEF ReEmbed!Cancel
  <2>2. /\ s6' \in ReEmbed!Works /\ s6'.pc = "error" /\ s6'.batch = s6.batch /\ s6'.total = s6.total
        /\ s6'.skipped = s6.skipped /\ s6'.failed = s6.failed /\ s6'.done = s6.done
    BY <1>1, <2>1 DEF ReEmbed!Works
  <2>3. ReEmbed!EmbTypes'
    BY <1>1, <2>2, EmbParts DEF ReEmbed!EmbTypes
  <2> QED
    BY <1>1, <2>2, <2>3 DEF ReEmbed!EmbInv
<1>3. CASE s6.pc # "fetch"
  <2> DEFINE x == [s6 EXCEPT !.pc = "error"]
             y == [x EXCEPT !.batch = <<>>]
             k == s6.failed + Len(s6.batch)
  <2>1. k \in Nat
    BY EmbParts, LenProperties
  <2>2. s6' = [y EXCEPT !.failed = k]
    BY <1>1, <1>3 DEF ReEmbed!Cancel, ReEmbed!Works
  <2>3. /\ x \in ReEmbed!Works /\ x.pc = "error" /\ x.total = s6.total
        /\ x.skipped = s6.skipped /\ x.failed = s6.failed /\ x.done = s6.done
    BY <1>1 DEF ReEmbed!Works
  <2> HIDE DEF x
  <2>4. /\ y \in ReEmbed!Works /\ y.pc = "error" /\ y.batch = <<>> /\ y.total = s6.total
        /\ y.skipped = s6.skipped /\ y.failed = s6.failed /\ y.done = s6.done
    <3>1. <<>> \in Seq(ReEmbed!Rows)
      BY EmptySeq
    <3> QED BY <2>3, <3>1 DEF ReEmbed!Works
  <2> HIDE DEF y
  <2>5. /\ s6' \in ReEmbed!Works /\ s6'.pc = "error" /\ s6'.batch = <<>> /\ s6'.total = s6.total
        /\ s6'.skipped = s6.skipped /\ s6'.failed = k /\ s6'.done = s6.done
    <3> HIDE DEF k
    <3> QED BY <2>1, <2>2, <2>4, OneNumber
  <2>6. s6'.total = s6'.skipped + s6'.failed + s6'.done + Len(s6'.batch)
    <3>1. s6.total = s6.skipped + k + s6.done + 0 /\ Len(s6'.batch) = 0
      BY EmbSums, <2>5
    <3> QED BY ONLY <2>5, <3>1
  <2>7. ReEmbed!EmbTypes'
    BY <1>1, <2>5, EmbParts DEF ReEmbed!EmbTypes
  <2> QED
    BY <1>1, <2>5, <2>6, <2>7 DEF ReEmbed!EmbInv
<1> QED
  BY <1>2, <1>3

LEMMA EmbFinish ==
  ASSUME ReEmbed!EmbInv, ReEmbed!Finish
  PROVE  ReEmbed!EmbInv'
<1>1. /\ s6.pc = "finish" /\ s6' = [s6 EXCEPT !.pc = "done"] /\ UNCHANGED <<s1, s2, s3, s5, s7>>
      /\ s4' \in {"old", "new"}
  BY EmbParts DEF ReEmbed!Finish
<1>2. /\ s6' \in ReEmbed!Works /\ s6'.pc = "done" /\ s6'.cursor = s6.cursor /\ s6'.batch = s6.batch
      /\ s6'.total = s6.total /\ s6'.skipped = s6.skipped /\ s6'.failed = s6.failed /\ s6'.done = s6.done
  BY <1>1, EmbParts DEF ReEmbed!Works
<1>3. ReEmbed!InOrder' = ReEmbed!InOrder /\ ReEmbed!OldAndTried' = ReEmbed!OldAndTried
  BY <1>1, <1>2 DEF ReEmbed!InOrder, ReEmbed!OldAndTried
<1>4. ReEmbed!EmbTypes'
  BY <1>1, <1>2, EmbParts DEF ReEmbed!EmbTypes
<1> QED
  BY <1>1, <1>2, <1>3, <1>4 DEF ReEmbed!EmbInv

\* An edit leaves its row with an embedding by the new model.
LEMMA EmbEdit ==
  ASSUME ReEmbed!EmbInv, NEW i \in Ids, ReEmbed!Edit(i)
  PROVE  ReEmbed!EmbInv'
<1> DEFINE says == s1[i] + 1
           new == [of |-> says, by |-> "new"]
<1>1. says \in Nat /\ s1 \in [Ids -> Nat] /\ s2 \in [Ids -> [of : Nat, by : {"old", "new"}]]
  BY EmbParts
<1>2. UNCHANGED <<s4, s5, s6>> /\ s1' = [s1 EXCEPT ![i] = says] /\ s2' = [s2 EXCEPT ![i] = new]
  BY <1>1 DEF ReEmbed!Edit
<1>3. new \in [of : Nat, by : {"old", "new"}] /\ new.by = "new"
  BY <1>1
<1> HIDE DEF says, new
<1>4. /\ s1' \in [Ids -> Nat] /\ s2' \in [Ids -> [of : Nat, by : {"old", "new"}]]
      /\ \A j \in Ids : s2'[j].by = "old" => s2[j].by = "old"
  BY <1>1, <1>2, <1>3
<1>5. ReEmbed!EmbTypes'
  BY <1>2, <1>4, EmbParts DEF ReEmbed!EmbTypes
<1>6. ReEmbed!InOrder' = ReEmbed!InOrder
  BY <1>2 DEF ReEmbed!InOrder
<1>7. s6.pc \in {"fetch", "embed", "update", "finish", "done"} =>
        ReEmbed!Cardinality(ReEmbed!OldAndTried') <= s6.skipped + s6.failed
  <2> SUFFICES ASSUME s6.pc \in {"fetch", "embed", "update", "finish", "done"}
      PROVE  ReEmbed!Cardinality(ReEmbed!OldAndTried') <= s6.skipped + s6.failed
    OBVIOUS
  <2>1. ReEmbed!InOrder /\ ReEmbed!Cardinality(ReEmbed!OldAndTried) <= s6.skipped + s6.failed
    BY DEF ReEmbed!EmbInv
  <2>2. 1..s6.total \subseteq Ids
    <3>1. Len(s6.cursor) + s6.total = Cardinality(Ids) /\ Cardinality(Ids) \in Nat
          /\ Ids = 1..Cardinality(Ids) /\ Len(s6.cursor) \in Nat /\ s6.total \in Nat
      BY <2>1, EmbCardinality, EmbParts, LenProperties DEF ReEmbed!InOrder
    <3> QED BY <3>1
  <2>3. ReEmbed!OldAndTried' \subseteq ReEmbed!OldAndTried
    BY <1>2, <1>4, <2>2 DEF ReEmbed!OldAndTried
  <2>4. ReEmbed!OldAndTried' \subseteq ReEmbed!OldAndTried \cup {i}
    BY <2>3
  <2>5. /\ ReEmbed!Cardinality(ReEmbed!OldAndTried') <= ReEmbed!Cardinality(ReEmbed!OldAndTried)
        /\ ReEmbed!Cardinality(ReEmbed!OldAndTried') \in Nat /\ ReEmbed!Cardinality(ReEmbed!OldAndTried) \in Nat
    BY <2>3, <2>4, EmbCount
  <2> QED BY <2>1, <2>5, EmbParts
<1> QED
  BY <1>2, <1>5, <1>6, <1>7 DEF ReEmbed!EmbInv

LEMMA EmbStep ==
  ASSUME ReEmbed!EmbInv, [ReEmbed!Next]_(ReEmbed!embVars)
  PROVE  ReEmbed!EmbInv'
<1>1. CASE ReEmbed!EmbStep
  BY <1>1, EmbStart, EmbFetch, EmbFetchEnd, EmbEmbed, EmbUpdate, EmbFinish DEF ReEmbed!EmbStep
<1>2. CASE UNCHANGED ReEmbed!embVars
  BY <1>2 DEF ReEmbed!embVars, ReEmbed!EmbInv, ReEmbed!EmbTypes, ReEmbed!InOrder, ReEmbed!OldAndTried
<1> QED
  BY <1>1, <1>2, EmbCancel, EmbEdit DEF ReEmbed!Next

LEMMA EmbSound ==
  ASSUME ReEmbed!EmbInv
  PROVE  ReEmbed!ReEmbedAccounts
<1>1. s6.total = s6.skipped + s6.failed + s6.done + Len(s6.batch)
  BY DEF ReEmbed!EmbInv
<1>2. CASE s4 = "new"
  <2>1. /\ s6.pc = "done" /\ s6.batch = <<>> /\ s6.cursor = <<>> /\ ReEmbed!InOrder
        /\ ReEmbed!Cardinality(ReEmbed!OldAndTried) <= s6.skipped + s6.failed
    BY <1>2 DEF ReEmbed!EmbInv
  <2>2. s6.total = Cardinality(Ids)
    BY <2>1, EmbCardinality, EmbParts DEF ReEmbed!InOrder
  <2>3. ReEmbed!OldAndTried = {i \in Ids : s2[i].by = "old"}
    BY <2>1, <2>2, EmbParts DEF ReEmbed!OldAndTried
  <2> QED
    BY <1>1, <2>1, <2>2, <2>3, EmbCardinality DEF ReEmbed!ReEmbedAccounts
<1> QED
  BY <1>1, <1>2 DEF ReEmbed!ReEmbedAccounts
-----------------------------------------------------------------------------
(* The worker of the access metrics (MetricsWorker).                       *)

\* The elements of a queue when one is appended, and when the first leaves.
LEMMA QueueElements ==
  ASSUME NEW S, NEW s \in Seq(S)
  PROVE  /\ \A e \in S : {Append(s, e)[i] : i \in DOMAIN Append(s, e)} = {s[i] : i \in DOMAIN s} \cup {e}
         /\ s # <<>> => {s[i] : i \in DOMAIN s} = {Head(s)} \cup {Tail(s)[i] : i \in DOMAIN Tail(s)}
<1>1. ASSUME NEW e \in S
      PROVE  {Append(s, e)[i] : i \in DOMAIN Append(s, e)} = {s[i] : i \in DOMAIN s} \cup {e}
  <2> DEFINE t == Append(s, e)
  <2>1. /\ \A k \in DOMAIN s : k \in DOMAIN t /\ t[k] = s[k]
        /\ Len(s) + 1 \in DOMAIN t /\ t[Len(s) + 1] = e
        /\ \A k \in DOMAIN t : k \in DOMAIN s \/ k = Len(s) + 1
    BY AppendFacts
  <2> HIDE DEF t
  <2>2. {t[i] : i \in DOMAIN t} = {s[i] : i \in DOMAIN s} \cup {e}
    BY <2>1
  <2> QED BY <2>2 DEF t
<1>2. ASSUME s # <<>>
      PROVE  {s[i] : i \in DOMAIN s} = {Head(s)} \cup {Tail(s)[i] : i \in DOMAIN Tail(s)}
  <2> DEFINE t == Tail(s)
             h == Head(s)
  <2>1. /\ h = s[1] /\ 1 \in DOMAIN s
        /\ \A k \in DOMAIN t : k + 1 \in DOMAIN s /\ t[k] = s[k + 1]
        /\ \A k \in DOMAIN s : k = 1 \/ (k - 1 \in DOMAIN t /\ s[k] = t[k - 1])
    BY <1>2, TailFacts
  <2> HIDE DEF t, h
  <2>2. {s[i] : i \in DOMAIN s} = {h} \cup {t[i] : i \in DOMAIN t}
    BY <2>1
  <2> QED BY <2>2 DEF t, h
<1> QED
  BY <1>1, <1>2

LEMMA WorkerInit ==
  ASSUME Access!Init
  PROVE  Access!WorkerInv
<1>1. <<>> \in Seq(Accessed) /\ {s1[i] : i \in DOMAIN s1} = {}
  BY EmptySeq DEF Access!Init
<1> QED
  BY <1>1 DEF Access!Init, Access!WorkerInv

\* A flush takes accesses to the table, or leaves them in the buffer.
LEMMA FlushKeeps ==
  ASSUME NEW accesses, \E ok \in Access!Outcomes : Access!Flushed(accesses, ok)
  PROVE  /\ s3' \cup s7' = accesses \cup s7
         /\ ~s8' => s3' = {}
BY DEF Access!Outcomes, Access!Flushed

LEMMA WorkerStep ==
  ASSUME Access!WorkerInv, [Access!Next]_(Access!workerVars)
  PROVE  Access!WorkerInv'
<1> DEFINE Sent == {s1[i] : i \in DOMAIN s1}
<1>1. s1 \in Seq(Accessed)
  BY DEF Access!WorkerInv
<1>2. ASSUME NEW e \in Accessed, ~s10, Access!Touch(e)
      PROVE  Access!WorkerInv'
  <2>1. UNCHANGED <<s2, s3, s4, s5, s7, s8>> /\ s6' = s6 \cup {e}
    BY <1>2 DEF Access!Touch
  <2>2. CASE s2
    BY <1>2, <2>1, <2>2 DEF Access!Touch, Access!WorkerInv
  <2>3. CASE ~s2 /\ Len(s1) < BufferSize
    <3>1. s1' = Append(s1, e) /\ UNCHANGED <<s9, s10>>
      BY <1>2, <2>3 DEF Access!Touch
    <3>2. s1' \in Seq(Accessed) /\ Sent' = Sent \cup {e}
      BY <1>1, <3>1, AppendFacts, QueueElements
    <3> QED BY <1>2, <2>1, <2>3, <3>1, <3>2 DEF Access!WorkerInv
  <2>4. CASE ~s2 /\ ~(Len(s1) < BufferSize)
    <3>1. s9' = s9 \cup {e} /\ UNCHANGED <<s1, s10>>
      BY <1>2, <2>4 DEF Access!Touch
    <3> QED BY <1>2, <2>1, <2>4, <3>1 DEF Access!WorkerInv
  <2> QED BY <2>2, <2>3, <2>4
<1>3. ASSUME ~s10, Access!Receive
      PROVE  Access!WorkerInv'
  <2> DEFINE accesses == s3 \cup {Head(s1)}
  <2>1. /\ s1 # <<>> /\ s1' = Tail(s1) /\ s4 = "run" /\ UNCHANGED <<s2, s4, s5, s6, s9, s10>>
    BY <1>3 DEF Access!Receive
  <2>2. s1' \in Seq(Accessed) /\ Sent = {Head(s1)} \cup Sent'
    BY <1>1, <2>1, TailFacts, QueueElements
  <2>3. s3' \cup s7' = accesses \cup s7
    <3>1. CASE \E ok \in Access!Outcomes : Access!Flushed(accesses, ok)
      BY <3>1, FlushKeeps
    <3>2. CASE s3' = accesses /\ UNCHANGED <<s7, s8>>
      BY <3>2
    <3> QED BY <1>3, <3>1, <3>2 DEF Access!Receive
  <2>4. s6 = Sent \cup s3 \cup s7 \cup s9
    BY <1>3 DEF Access!WorkerInv
  <2>5. s6' = Sent' \cup s3' \cup s7' \cup s9'
    <3> HIDE DEF Sent
    <3> QED BY <2>1, <2>2, <2>3, <2>4
  <2> QED BY <2>1, <2>2, <2>5 DEF Access!WorkerInv
<1>4. ASSUME ~s10, Access!Tick \/ Access!ReceiveClosed
      PROVE  Access!WorkerInv'
  <2>1. /\ s4 = "run" /\ UNCHANGED <<s1, s2, s5, s6, s9, s10>>
        /\ s4' = "run" \/ (s4' = "done" /\ s2 /\ s1 = <<>>)
        /\ \E ok \in Access!Outcomes : Access!Flushed(s3, ok)
    BY <1>4 DEF Access!Tick, Access!ReceiveClosed
  <2>2. s3' \cup s7' = s3 \cup s7 /\ (~s8' => s3' = {})
    BY <2>1, FlushKeeps
  <2>3. s6 = Sent \cup s3 \cup s7 \cup s9
    BY <1>4 DEF Access!WorkerInv
  <2>4. Sent' = Sent
    BY <2>1
  <2>5. s6' = Sent' \cup s3' \cup s7' \cup s9'
    <3> HIDE DEF Sent
    <3> QED BY <2>1, <2>2, <2>3, <2>4
  <2> QED BY <2>1, <2>2, <2>5 DEF Access!WorkerInv
<1>5. ASSUME Access!Stop \/ Access!StopReturns
      PROVE  Access!WorkerInv'
  BY <1>5 DEF Access!Stop, Access!StopReturns, Access!WorkerInv
<1>6. CASE UNCHANGED Access!workerVars
  BY <1>6 DEF Access!workerVars, Access!WorkerInv
<1> QED
  BY <1>2, <1>3, <1>4, <1>5, <1>6 DEF Access!Next, Access!WorkerStep

LEMMA WorkerSound == Access!WorkerInv => Access!AccessesAccounted
BY DEF Access!WorkerInv, Access!AccessesAccounted
-----------------------------------------------------------------------------
(* The environments (EnvManager).                                          *)

SingleWriter == \A v, w \in Writers : v = w

LEMMA EnvInit ==
  ASSUME Environment!Init
  PROVE  Environment!EnvInv
<1>1. MaxEnvs \in Nat \ {0}
  BY ServiceAssumption
<1> QED
  BY <1>1 DEF Environment!Init, Environment!EnvInv, Environment!EnvTypes, Environment!Places, Environment!Idle

\* A generation that is published comes last; env is it, and its context is
\* the one the writer has read, or a new one.
LEMMA EnvPublish ==
  ASSUME SingleWriter, Environment!EnvInv, NEW w \in Writers, NEW env \in [ctx : Nat, db : Nat],
         Environment!Publish(w, env), UNCHANGED <<s6, s7>>,
         \/ env.ctx = s1[s2].ctx /\ s5' = s5
         \/ env.ctx = s3 + 1 /\ env.db = s1[s2].db /\ s5' = s5 \cup {<<s2, s3 + 1>>}
  PROVE  Environment!EnvInv'
<1>1. /\ s3 \in Nat /\ s3 + 1 \in Environment!Places /\ s3 \in Environment!Places
      /\ s2 = s3 /\ s3' = s3 + 1 /\ s2' = s3 + 1
      /\ s1' = [s1 EXCEPT ![s3 + 1] = env] /\ s4' = [s4 EXCEPT ![w] = Environment!Idle]
  BY ServiceAssumption DEF Environment!Publish, Environment!EnvInv, Environment!EnvTypes, Environment!Places
<1>2. s1 \in [Environment!Places -> [ctx : Nat, db : Nat]]
      /\ s5 \subseteq Environment!Places \X Environment!Places
  BY DEF Environment!EnvInv, Environment!EnvTypes
<1>3. s1' \in [Environment!Places -> [ctx : Nat, db : Nat]] /\ s1'[s2'] = env
      /\ \A e \in Environment!Places : e <= s3 => s1'[e] = s1[e]
  BY <1>1, <1>2 DEF Environment!Places
<1>4. s4' \in [Writers -> [op : {"idle", "reload", "mutate"}, from : Nat]]
      /\ \A v \in Writers : s4'[v].op = "idle"
  BY <1>1 DEF Environment!EnvInv, Environment!EnvTypes, Environment!Idle, SingleWriter
<1>5. /\ s1[s2].ctx \in Nat /\ env.ctx \in Nat /\ s1[s2].ctx <= env.ctx /\ env.ctx <= s3 + 1
  BY <1>1, <1>2 DEF Environment!EnvInv
<1>6. s5' \subseteq Environment!Places \X Environment!Places
  BY <1>1, <1>2
<1>7. s6 \subseteq Nat /\ \A c \in s6 : c < s1[s2].ctx
  BY DEF Environment!EnvInv, Environment!EnvTypes
<1>8. ASSUME NEW c \in s6
      PROVE  c < env.ctx
  <2>1. PICK x \in Nat, y \in Nat : x = s1[s2].ctx /\ y = env.ctx /\ x <= y
    BY <1>5
  <2>2. c \in Nat /\ c < x
    BY <1>7, <2>1
  <2>3. c < y
    BY ONLY <2>1, <2>2
  <2> QED BY <2>1, <2>3
<1>9. \A d \in s5' : /\ d[1] <= s3' /\ d[2] <= s3'
                     /\ s1'[d[1]].ctx < env.ctx /\ s1'[d[1]].db = s1'[d[2]].db
  <2>1. ASSUME NEW d \in s5
        PROVE  /\ d[1] <= s3' /\ d[2] <= s3'
               /\ s1'[d[1]].ctx < env.ctx /\ s1'[d[1]].db = s1'[d[2]].db
    <3>1. d[1] \in Environment!Places /\ d[2] \in Environment!Places
      BY <1>2
    <3>2. d[1] <= s3 /\ d[2] <= s3 /\ s1[d[1]].ctx < s1[s2].ctx /\ s1[d[1]].db = s1[d[2]].db
      BY DEF Environment!EnvInv
    <3>3. s1[d[1]].ctx \in Nat
      BY <1>2, <3>1
    <3>4. d[1] \in Nat /\ d[2] \in Nat
      BY <3>1 DEF Environment!Places
    <3> QED BY <1>1, <1>3, <1>5, <3>1, <3>2, <3>3, <3>4
  <2>2. ASSUME env.ctx = s3 + 1, env.db = s1[s2].db
        PROVE  /\ s2 <= s3' /\ s3 + 1 <= s3'
               /\ s1'[s2].ctx < env.ctx /\ s1'[s2].db = s1'[s3 + 1].db
    <3>1. s1[s2].ctx <= s3
      BY <1>1 DEF Environment!EnvInv
    <3> QED BY <1>1, <1>3, <1>5, <2>2, <3>1
  <2>3. CASE s5' = s5
    BY <2>1, <2>3
  <2>4. CASE env.ctx = s3 + 1 /\ env.db = s1[s2].db /\ s5' = s5 \cup {<<s2, s3 + 1>>}
    <3>1. ASSUME NEW d \in s5'
          PROVE  d \in s5 \/ (d[1] = s2 /\ d[2] = s3 + 1)
      BY <2>4
    <3> QED BY <2>1, <2>2, <2>4, <3>1
  <2> QED BY <2>3, <2>4
<1> QED
  BY <1>1, <1>3, <1>4, <1>5, <1>6, <1>8, <1>9 DEF Environment!EnvInv, Environment!EnvTypes

LEMMA EnvStep ==
  ASSUME SingleWriter, Environment!EnvInv, [Environment!Next]_(Environment!envMgrVars)
  PROVE  Environment!EnvInv'
<1>1. /\ s2 = s3 /\ s3 \in Nat /\ s2 \in Environment!Places
      /\ s1[s2] \in [ctx : Nat, db : Nat] /\ s3 + 1 \in Nat
      /\ \A w \in Writers : s4[w].op # "idle" => s4[w].from = s2
  BY DEF Environment!EnvInv, Environment!EnvTypes, Environment!Places
<1>2. ASSUME NEW w \in Writers, NEW op \in {"reload", "mutate"}, Environment!BeginWrite(w, op)
      PROVE  Environment!EnvInv'
  BY <1>1, <1>2 DEF Environment!BeginWrite, Environment!EnvInv, Environment!EnvTypes
<1>3. ASSUME NEW w \in Writers, Environment!Abandon(w)
      PROVE  Environment!EnvInv'
  BY <1>3 DEF Environment!Abandon, Environment!EnvInv, Environment!EnvTypes, Environment!Idle
<1>4. ASSUME NEW w \in Writers, Environment!Reload(w)
      PROVE  Environment!EnvInv'
  <2> DEFINE env == [s1[s2] EXCEPT !.ctx = s3 + 1]
  <2>1. s4[w].op = "reload" /\ s4[w].from = s2 /\ UNCHANGED <<s6, s7>>
    BY <1>1, <1>4 DEF Environment!Reload
  <2>2. Environment!Publish(w, env) /\ s5' = s5 \cup {<<s2, s3 + 1>>}
    BY <1>4, <2>1 DEF Environment!Reload, Environment!Publish
  <2>3. env \in [ctx : Nat, db : Nat] /\ env.ctx = s3 + 1 /\ env.db = s1[s2].db
    BY <1>1
  <2> HIDE DEF env
  <2> QED BY <2>1, <2>2, <2>3, EnvPublish
<1>5. ASSUME NEW w \in Writers, Environment!MutateSet(w)
      PROVE  Environment!EnvInv'
  <2>1. s4[w].op = "mutate" /\ s4[w].from = s2 /\ UNCHANGED <<s5, s6, s7>>
    BY <1>1, <1>5 DEF Environment!MutateSet
  <2>2. PICK db \in {s1[s2].db, s3 + 1} : Environment!Publish(w, [s1[s2] EXCEPT !.db = db])
    BY <1>5, <2>1 DEF Environment!MutateSet
  <2> DEFINE env == [s1[s2] EXCEPT !.db = db]
  <2>3. env \in [ctx : Nat, db : Nat] /\ env.ctx = s1[s2].ctx
    BY <1>1, <2>2
  <2>4. Environment!Publish(w, env)
    BY <2>2
  <2> HIDE DEF env
  <2> QED BY <2>1, <2>3, <2>4, EnvPublish
<1>6. ASSUME NEW d \in s5, Environment!GracefulDrain(d[1], d[2])
      PROVE  Environment!EnvInv'
  <2>1. /\ s1[d[1]].ctx < s1[s2].ctx /\ s1[d[1]].db = s1[d[2]].db /\ s7 = {}
        /\ s1[d[1]].ctx \in Nat
    BY DEF Environment!EnvInv, Environment!EnvTypes
  <2> QED BY <1>6, <2>1 DEF Environment!GracefulDrain, Environment!EnvInv, Environment!EnvTypes
<1>7. CASE UNCHANGED Environment!envMgrVars
  BY <1>7 DEF Environment!envMgrVars, Environment!EnvInv, Environment!EnvTypes
<1> QED
  BY <1>2, <1>3, <1>4, <1>5, <1>6, <1>7 DEF Environment!Next

LEMMA EnvSound ==
  ASSUME Environment!EnvInv
  PROVE  Environment!LiveEnvStays
<1>1. s1[s2].ctx \in Nat /\ (\A c \in s6 : c < s1[s2].ctx) /\ s7 = {}
  BY DEF Environment!EnvInv, Environment!EnvTypes, Environment!Places
<1> QED
  BY <1>1 DEF Environment!LiveEnvStays
-----------------------------------------------------------------------------
(* One run of the program (Process).                                       *)

LEMMA ProcInit ==
  ASSUME Process!Init
  PROVE  Process!ProcessInv
BY DEF Process!Init, Process!ProcessInv, Process!ProcessTypes, Process!Owners, Process!Background,
       Process!None, Process!Components

\* Sequences of components, written out.
Named == {"http", "gc", "consolidation"}

LEMMA AppendIs ==
  ASSUME NEW s \in Seq(Named), NEW t \in Seq(Named), NEW e \in Named,
         Len(t) = Len(s) + 1, t[Len(t)] = e, \A i \in 1..Len(s) : t[i] = s[i]
  PROVE  Append(s, e) = t
<1> DEFINE u == Append(s, e)
<1>1. /\ u \in Seq(Named) /\ Len(u) = Len(t) /\ Len(s) \in Nat /\ u[Len(s) + 1] = e
      /\ \A i \in 1..Len(s) : u[i] = s[i]
  BY AppendProperties
<1>2. \A i \in 1..Len(u) : u[i] = t[i]
  BY <1>1
<1> HIDE DEF u
<1>3. u = t
  BY <1>1, <1>2, SeqEqual
<1> QED
  BY <1>3 DEF u

LEMMA Appended ==
  /\ Append(<<>>, "http") = <<"http">>
  /\ Append(<<"http">>, "gc") = <<"http", "gc">>
  /\ Append(<<"http", "gc">>, "consolidation") = <<"http", "gc", "consolidation">>
<1>1. Append(<<>>, "http") = <<"http">>
  OBVIOUS
<1>2. Append(<<"http">>, "gc") = <<"http", "gc">>
  <2> DEFINE s == <<"http">>
             t == <<"http", "gc">>
  <2>1. s \in Seq(Named) /\ t \in Seq(Named)
    BY DEF Named
  <2>2. Len(s) = 1 /\ Len(t) = 2 /\ t[1] = s[1] /\ t[2] = "gc"
    OBVIOUS
  <2> HIDE DEF s, t
  <2>3. Append(s, "gc") = t
    BY <2>1, <2>2, AppendIs DEF Named
  <2> QED BY <2>3 DEF s, t
<1>3. Append(<<"http", "gc">>, "consolidation") = <<"http", "gc", "consolidation">>
  <2> DEFINE s == <<"http", "gc">>
             t == <<"http", "gc", "consolidation">>
  <2>1. s \in Seq(Named) /\ t \in Seq(Named)
    BY DEF Named
  <2>2. Len(s) = 2 /\ Len(t) = 3 /\ t[1] = s[1] /\ t[2] = s[2] /\ t[3] = "consolidation"
    OBVIOUS
  <2> HIDE DEF s, t
  <2>4. t[Len(t)] = "consolidation" /\ Len(t) = Len(s) + 1 /\ \A i \in 1..Len(s) : t[i] = s[i]
    BY <2>2
  <2>5. "consolidation" \in Named
    BY DEF Named
  <2>3. Append(s, "consolidation") = t
    BY <2>1, <2>4, <2>5, AppendIs
  <2> QED BY <2>3 DEF s, t
<1> QED
  BY <1>1, <1>2, <1>3

\* What opening and closing the handle of an owner does.
LEMMA HandleFacts ==
  ASSUME Process!ProcessTypes, NEW o \in Process!Owners
  PROVE  /\ Process!Opens(o) =>
              /\ s5' \in [Process!Owners -> {"none", "open", "closed"}]
              /\ s6' \in [Process!Owners -> {"none", "open", "closed"}]
              /\ s5'[o] = "open" /\ \A u \in Process!Owners : u # o => s5'[u] = s5[u] /\ s6'[u] = s6[u]
         /\ Process!Closes(o) =>
              /\ s5' \in [Process!Owners -> {"none", "open", "closed"}]
              /\ s6' \in [Process!Owners -> {"none", "open", "closed"}]
              /\ s5'[o] # "open" /\ s6'[o] # "open"
              /\ \A u \in Process!Owners : u # o => s5'[u] = s5[u] /\ s6'[u] = s6[u]
BY DEF Process!ProcessTypes, Process!Opens, Process!Closes

LEMMA ProcStart ==
  ASSUME Process!ProcessInv, Process!Leaf \/ Process!BadConfig \/ Process!NewApplication
  PROVE  Process!ProcessInv'
<1>1. Process!ProcessTypes /\ s4 = "main" /\ s8 = <<>> /\ s14 = Process!None
  BY DEF Process!ProcessInv, Process!Leaf, Process!BadConfig, Process!NewApplication
<1>2. Process!ExitCode("0") # Process!None /\ Process!ExitCode("1") # Process!None
  BY DEF Process!ExitCode, Process!None
<1>3. CASE s4' = "exited" /\ s14' # Process!None /\ UNCHANGED <<s5, s6, s7>> /\ UNCHANGED Process!serving
  BY <1>1, <1>3 DEF Process!ProcessInv, Process!ProcessTypes, Process!serving
<1>4. CASE /\ Process!Opens("app") /\ s7' = [s7 EXCEPT !.db = "app", !.keepOpen = TRUE]
           /\ s4' = "preRun" /\ UNCHANGED s14 /\ UNCHANGED Process!serving
  <2>1. /\ s5' \in [Process!Owners -> {"none", "open", "closed"}]
        /\ s6' \in [Process!Owners -> {"none", "open", "closed"}]
    BY <1>1, <1>4, HandleFacts DEF Process!Owners
  <2>2. /\ s7' \in [db : {Process!None, "app", "env"}, keepOpen : BOOLEAN, initDone : BOOLEAN]
        /\ s7'.keepOpen
    BY <1>1, <1>4 DEF Process!ProcessTypes
  <2> QED BY <1>1, <1>4, <2>1, <2>2 DEF Process!ProcessInv, Process!ProcessTypes, Process!serving
<1> QED
  BY <1>2, <1>3, <1>4 DEF Process!Leaf, Process!BadConfig, Process!NewApplication, Process!Leaves,
     Process!handles, Process!None

LEMMA ProcDB ==
  ASSUME Process!ProcessInv, Process!EnsureDB
  PROVE  Process!ProcessInv'
<1>1. Process!ProcessTypes /\ s4 = "preRun" /\ s8 = <<>> /\ s14 = Process!None /\ UNCHANGED s14
      /\ UNCHANGED Process!serving /\ s7.keepOpen
  BY DEF Process!ProcessInv, Process!EnsureDB
<1>2. CASE /\ Process!Opens("env") /\ s7' = [s7 EXCEPT !.db = "env", !.initDone = TRUE]
           /\ s4' \in {"run", "failed"}
  <2>1. /\ s5' \in [Process!Owners -> {"none", "open", "closed"}]
        /\ s6' \in [Process!Owners -> {"none", "open", "closed"}]
        /\ s5'["env"] = "open"
    BY <1>1, <1>2, HandleFacts DEF Process!Owners
  <2>2. /\ s7' \in [db : {Process!None, "app", "env"}, keepOpen : BOOLEAN, initDone : BOOLEAN]
        /\ s7'.keepOpen /\ s7'.db = "env"
    BY <1>1, <1>2 DEF Process!ProcessTypes
  <2> QED BY <1>1, <1>2, <2>1, <2>2 DEF Process!ProcessInv, Process!ProcessTypes, Process!serving
<1>3. CASE s4' = "failed" /\ s7' = [s7 EXCEPT !.initDone = TRUE] /\ UNCHANGED <<s5, s6>>
  <2>1. s7' \in [db : {Process!None, "app", "env"}, keepOpen : BOOLEAN, initDone : BOOLEAN]
    BY <1>1, <1>3 DEF Process!ProcessTypes
  <2> QED BY <1>1, <1>3, <2>1 DEF Process!ProcessInv, Process!ProcessTypes, Process!serving
<1> QED
  BY <1>2, <1>3 DEF Process!EnsureDB

LEMMA ProcServe ==
  ASSUME Process!ProcessInv,
         Process!RunCommand \/ Process!Serve \/ Process!Await \/ Process!Shutdown
  PROVE  Process!ProcessInv'
<1>1. UNCHANGED <<s14, s5, s6, s7, s8, s9, s10, s12>>
  BY DEF Process!RunCommand, Process!Serve, Process!Await, Process!Shutdown, Process!handles, Process!serving
<1>2. \/ s4 = "run" /\ s4' \in {"postRun", "failed", "starting"}
      \/ s4 = "ready" /\ s4' = "stopping"
      \/ s4 = "shutdown" /\ s4' = "postRun"
  BY DEF Process!RunCommand, Process!Serve, Process!Await, Process!Shutdown
<1> QED
  BY <1>1, <1>2 DEF Process!ProcessInv, Process!ProcessTypes, Process!Components

LEMMA ProcStartComponent ==
  ASSUME Process!ProcessInv, Process!StartComponent
  PROVE  Process!ProcessInv'
<1> DEFINE c == Process!Components[Len(s8) + 1]
<1>1. /\ s4 = "starting" /\ s8' = Append(s8, c) /\ s12' = (s12 \/ c = "http")
      /\ s9' = (IF c \in Process!Background THEN [s9 EXCEPT ![c] = "idle"] ELSE s9)
      /\ s4' = (IF Len(s8') = Len(Process!Components) THEN "ready" ELSE s4)
      /\ UNCHANGED <<s14, s5, s6, s7, s10>>
  BY DEF Process!StartComponent, Process!handles
<1>2. Process!ProcessTypes /\ s8 \in {<<>>, <<"http">>, <<"http", "gc">>}
  BY <1>1 DEF Process!ProcessInv
<1>3. s9' \in [Process!Background -> {"none", "idle", "working", "ended"}] /\ s12' \in BOOLEAN
  BY <1>1, <1>2 DEF Process!ProcessTypes
<1>4. CASE s8 = <<>>
  <2>1. s8' = <<"http">> /\ s4' = "starting" /\ s8' # <<>>
    BY <1>1, <1>4 DEF Process!Components
  <2> QED BY <1>1, <1>2, <1>3, <2>1 DEF Process!ProcessInv, Process!ProcessTypes
<1>5. CASE s8 = <<"http">>
  <2>1. Len(s8) + 1 = 2 /\ c = "gc"
    BY <1>5 DEF Process!Components
  <2>2. s8' = <<"http", "gc">> /\ s8' # <<>> /\ Len(s8') = 2 /\ Len(Process!Components) = 3
    BY <1>1, <1>5, <2>1, Appended DEF Process!Components
  <2>3. s4' = "starting"
    BY <1>1, <2>2
  <2> QED BY <1>1, <1>2, <1>3, <2>2, <2>3 DEF Process!ProcessInv, Process!ProcessTypes
<1>6. CASE s8 = <<"http", "gc">>
  <2>1. Len(s8) + 1 = 3 /\ c = "consolidation"
    BY <1>6 DEF Process!Components
  <2>2. s8' = Process!Components /\ s8' # <<>>
    BY <1>1, <1>6, <2>1, Appended DEF Process!Components
  <2>3. s4' = "ready"
    BY <1>1, <2>2
  <2> QED BY <1>1, <1>2, <1>3, <2>2, <2>3 DEF Process!ProcessInv, Process!ProcessTypes
<1> QED
  BY <1>2, <1>4, <1>5, <1>6

\* The components that are left when the last one has stopped.
LEMMA FrontIs ==
  ASSUME NEW s \in Seq(Named), NEW t \in Seq(Named), NEW n \in Nat,
         n <= Len(s), Len(t) = n, \A i \in 1..n : t[i] = s[i]
  PROVE  SubSeq(s, 1, n) = t
<1>1. \A i \in 1..n : s[i] \in Named
  BY ElementOfSeq
<1>2. /\ SubSeq(s, 1, n) \in Seq(Named) /\ Len(SubSeq(s, 1, n)) = n
      /\ \A i \in 1..n : SubSeq(s, 1, n)[i] = s[i]
  <2>1. /\ SubSeq(s, 1, n) \in Seq(Named)
        /\ Len(SubSeq(s, 1, n)) = IF 1 <= n THEN n - 1 + 1 ELSE 0
        /\ \A i \in 1..(n - 1 + 1) : SubSeq(s, 1, n)[i] = s[1 + i - 1]
    BY <1>1, SubSeqProperties
  <2> QED BY <2>1
<1> DEFINE u == SubSeq(s, 1, n)
<1>3. /\ u \in Seq(Named) /\ Len(u) = Len(t) /\ \A i \in 1..Len(u) : u[i] = t[i]
  BY <1>2
<1> HIDE DEF u
<1>4. u = t
  BY <1>3, SeqEqual
<1> QED
  BY <1>4 DEF u

LEMMA Fronts ==
  /\ SubSeq(<<"http">>, 1, 0) = <<>>
  /\ SubSeq(<<"http", "gc">>, 1, 1) = <<"http">>
  /\ SubSeq(<<"http", "gc", "consolidation">>, 1, 2) = <<"http", "gc">>
<1>1. SubSeq(<<"http">>, 1, 0) = <<>>
  BY SubSeqEmpty
<1>2. SubSeq(<<"http", "gc">>, 1, 1) = <<"http">>
  <2> DEFINE s == <<"http", "gc">>
             t == <<"http">>
  <2>0. s \in Seq(Named) /\ t \in Seq(Named)
    BY DEF Named
  <2>1. Len(s) = 2 /\ Len(t) = 1 /\ t[1] = s[1]
    OBVIOUS
  <2>2. \A i \in 1..1 : t[i] = s[i]
    BY <2>1
  <2> HIDE DEF s, t
  <2>3. SubSeq(s, 1, 1) = t
    BY <2>0, <2>1, <2>2, FrontIs
  <2> QED BY <2>3 DEF s, t
<1>3. SubSeq(<<"http", "gc", "consolidation">>, 1, 2) = <<"http", "gc">>
  <2> DEFINE s == <<"http", "gc", "consolidation">>
             t == <<"http", "gc">>
  <2>0. s \in Seq(Named) /\ t \in Seq(Named)
    BY DEF Named
  <2>1. Len(s) = 3 /\ Len(t) = 2 /\ t[1] = s[1] /\ t[2] = s[2]
    OBVIOUS
  <2>2. \A i \in 1..2 : t[i] = s[i]
    BY <2>1
  <2> HIDE DEF s, t
  <2>3. SubSeq(s, 1, 2) = t
    BY <2>0, <2>1, <2>2, FrontIs
  <2> QED BY <2>3 DEF s, t
<1> QED
  BY <1>1, <1>2, <1>3

LEMMA ProcStopComponent ==
  ASSUME Process!ProcessInv, Process!StopComponent
  PROVE  Process!ProcessInv'
<1> DEFINE c == s8[Len(s8)]
<1>1. /\ s4 = "stopping" /\ s8' = SubSeq(s8, 1, Len(s8) - 1) /\ s12' = (s12 /\ c # "http")
      /\ s4' = (IF c = "http" THEN "shutdown" ELSE s4)
      /\ UNCHANGED <<s14, s5, s6, s7, s9, s10>>
  BY DEF Process!StopComponent, Process!handles
<1>2. Process!ProcessTypes /\ s8 \in {<<"http">>, <<"http", "gc">>, Process!Components} /\ s12' \in BOOLEAN
  BY <1>1 DEF Process!ProcessInv
<1>4. CASE s8 = <<"http">>
  <2>1. Len(s8) = 1 /\ Len(s8) - 1 = 0 /\ c = "http"
    BY <1>4
  <2>2. s8' = <<>> /\ s4' = "shutdown" /\ ~s12'
    BY <1>1, <1>4, <2>1, Fronts
  <2> HIDE DEF c
  <2> QED BY <1>1, <1>2, <2>2 DEF Process!ProcessInv, Process!ProcessTypes
<1>5. CASE s8 = <<"http", "gc">>
  <2>1. Len(s8) = 2 /\ Len(s8) - 1 = 1 /\ c = "gc"
    BY <1>5
  <2>2. s8' = <<"http">> /\ s4' = "stopping" /\ s8' # <<>>
    BY <1>1, <1>5, <2>1, Fronts
  <2> HIDE DEF c
  <2> QED BY <1>1, <1>2, <2>2 DEF Process!ProcessInv, Process!ProcessTypes
<1>6. CASE s8 = Process!Components
  <2>1. Len(s8) = 3 /\ Len(s8) - 1 = 2 /\ c = "consolidation"
    BY <1>6 DEF Process!Components
  <2>2. s8' = <<"http", "gc">> /\ s4' = "stopping" /\ s8' # <<>>
    BY <1>1, <1>6, <2>1, Fronts DEF Process!Components
  <2> HIDE DEF c
  <2> QED BY <1>1, <1>2, <2>2 DEF Process!ProcessInv, Process!ProcessTypes
<1> QED
  BY <1>2, <1>4, <1>5, <1>6

LEMMA ProcEnd ==
  ASSUME Process!ProcessInv, Process!PostRun \/ Process!Exit
  PROVE  Process!ProcessInv'
<1>1. Process!ProcessTypes
  BY DEF Process!ProcessInv
<1>2. CASE Process!PostRun
  <2>1. s7.keepOpen
    BY <1>2 DEF Process!PostRun, Process!ProcessInv
  <2>2. s4 = "postRun" /\ s4' = "returned" /\ UNCHANGED <<s14, s5, s6, s7, s8, s9, s10, s12>>
    BY <1>2, <2>1 DEF Process!PostRun, Process!serving
  <2> QED BY <2>2 DEF Process!ProcessInv, Process!ProcessTypes
<1>3. CASE Process!Exit
  <2>1. /\ s4 \in {"returned", "failed"} /\ s4' = "exited" /\ Process!Closes("app")
        /\ UNCHANGED <<s7, s8, s9, s10, s12>> /\ s14' # Process!None
    BY <1>3 DEF Process!Exit, Process!Leaves, Process!ExitCode, Process!None, Process!serving
  <2>2. /\ s5' \in [Process!Owners -> {"none", "open", "closed"}]
        /\ s6' \in [Process!Owners -> {"none", "open", "closed"}]
        /\ s5'["app"] # "open" /\ s6'["app"] # "open"
    BY <1>1, <2>1, HandleFacts DEF Process!Owners
  <2> QED BY <2>1, <2>2 DEF Process!ProcessInv, Process!ProcessTypes
<1> QED
  BY <1>2, <1>3

\* The handlers, the jobs and the signals.
LEMMA ProcOthers ==
  ASSUME Process!ProcessInv,
         \/ Process!Request \/ Process!Respond \/ Process!Signal
         \/ \E j \in Process!Background : Process!Job(j)
         \/ UNCHANGED Process!processVars
  PROVE  Process!ProcessInv'
<1>1. Process!ProcessTypes
  BY DEF Process!ProcessInv
<1>2. CASE Process!Request
  <2>1. s12 /\ s10' = s10 + 1 /\ UNCHANGED <<s14, s4, s5, s6, s7, s8, s9, s12>>
    BY <1>2 DEF Process!Request, Process!handles
  <2>2. s8 # <<>>
    BY <2>1 DEF Process!ProcessInv
  <2>3. s4 \notin {"main", "preRun", "run", "failed"}
    BY <2>2 DEF Process!ProcessInv
  <2> QED BY <1>1, <2>1, <2>3 DEF Process!ProcessInv, Process!ProcessTypes
<1>3. CASE Process!Respond
  <2>1. s10 > 0 /\ s10' = s10 - 1 /\ UNCHANGED <<s14, s4, s5, s6, s7, s8, s9, s12>>
    BY <1>3 DEF Process!Respond, Process!handles
  <2>2. s10' \in Nat /\ s10 # 0
    BY <1>1, <2>1 DEF Process!ProcessTypes
  <2> QED BY <2>1, <2>2 DEF Process!ProcessInv, Process!ProcessTypes
<1>4. CASE Process!Signal
  BY <1>4 DEF Process!Signal, Process!handles, Process!serving, Process!ProcessInv, Process!ProcessTypes
<1>5. ASSUME NEW j \in Process!Background, Process!Job(j)
      PROVE  Process!ProcessInv'
  <2>1. /\ s9[j] # "none" /\ s9' \in [Process!Background -> {"none", "idle", "working", "ended"}]
        /\ UNCHANGED <<s14, s4, s5, s6, s7, s8, s10, s12>>
    BY <1>1, <1>5 DEF Process!Job, Process!handles, Process!ProcessTypes
  <2> QED BY <1>5, <2>1 DEF Process!ProcessInv, Process!ProcessTypes
<1>6. CASE UNCHANGED Process!processVars
  BY <1>6 DEF Process!processVars, Process!ProcessInv, Process!ProcessTypes
<1> QED
  BY <1>2, <1>3, <1>4, <1>5, <1>6

LEMMA ProcStep ==
  ASSUME Process!ProcessInv, [Process!Next]_(Process!processVars)
  PROVE  Process!ProcessInv'
BY ProcStart, ProcDB, ProcServe, ProcStartComponent, ProcStopComponent, ProcEnd, ProcOthers
   DEF Process!Next, Process!MainStep

LEMMA ProcSound ==
  ASSUME Process!ProcessInv
  PROVE  Process!ShutdownIsSafe
<1>1. ASSUME s14 = Process!None, s10 > 0 \/ \E j \in Process!Background : s9[j] = "working"
      PROVE  s5[s7.db] = "open"
  <2>1. s4 # "exited"
    BY <1>1 DEF Process!ProcessInv
  <2>2. s4 \notin {"main", "preRun", "run", "failed"}
    BY <1>1 DEF Process!ProcessInv
  <2> QED BY <2>1, <2>2 DEF Process!ProcessInv
<1>2. s14 # Process!None => s5["app"] # "open" /\ s6["app"] # "open"
  BY DEF Process!ProcessInv
<1>3. s4 \in {"postRun", "returned"} => s8 = <<>> /\ ~s12
  BY DEF Process!ProcessInv, Process!ProcessTypes
<1> QED
  BY <1>1, <1>2, <1>3 DEF Process!ShutdownIsSafe
-----------------------------------------------------------------------------
(* A call of a model (AiClient).                                           *)

\* Ascending lists a finite set of numbers: every one has a rank of its own,
\* and so every rank has its number.
LEMMA Ascends ==
  ASSUME NEW S, IsFiniteSet(S), S \subseteq Int
  PROVE  /\ Cardinality(S) \in Nat /\ Model!Ascending(S) \in [1..Cardinality(S) -> S]
         /\ \A i \in S : \E k \in 1..Cardinality(S) : Model!Ascending(S)[k] = i
<1> DEFINE n == Cardinality(S)
           below(i) == {j \in S : j < i}
           rank == [i \in S |-> Cardinality(below(i))]
           A == Model!Ascending(S)
<1>1. n \in Nat
  BY FS_CardinalityType
<1>2. ASSUME NEW i \in S
      PROVE  IsFiniteSet(below(i)) /\ rank[i] = Cardinality(below(i)) /\ rank[i] \in Nat /\ rank[i] < n
  <2>1. below(i) \in SUBSET S /\ i \notin below(i)
    OBVIOUS
  <2>2. IsFiniteSet(below(i)) /\ Cardinality(below(i)) <= n /\ Cardinality(below(i)) # n
    BY <2>1, FS_Subset
  <2>3. Cardinality(below(i)) \in Nat
    BY <2>2, FS_CardinalityType
  <2>4. rank[i] = Cardinality(below(i))
    OBVIOUS
  <2> HIDE DEF n, below, rank
  <2> QED BY <1>1, <2>2, <2>3, <2>4
<1>3. ASSUME NEW i \in S, NEW j \in S, i < j
      PROVE  rank[i] < rank[j]
  <2>1. below(i) \cup {i} \in SUBSET below(j) /\ i \notin below(i)
    <3>1. ASSUME NEW k \in S, k < i
          PROVE  k < j
      BY <1>3, <3>1
    <3>2. i \notin below(i)
      <4>1. i \in Int /\ ~(i < i)
        OBVIOUS
      <4> QED BY <4>1
    <3>3. \A k \in below(i) \cup {i} : k \in below(j)
      BY <1>3, <3>1
    <3> HIDE DEF below
    <3> QED BY <3>2, <3>3
  <2>2. Cardinality(below(i) \cup {i}) <= Cardinality(below(j))
    BY <1>2, <2>1, FS_Subset
  <2>3. Cardinality(below(i) \cup {i}) = Cardinality(below(i)) + 1
    BY <1>2, <2>1, FS_AddElement
  <2>4. /\ rank[i] = Cardinality(below(i)) /\ rank[i] \in Nat
        /\ rank[j] = Cardinality(below(j)) /\ rank[j] \in Nat
    BY <1>2
  <2> HIDE DEF below, rank
  <2> QED BY <2>2, <2>3, <2>4
<1> HIDE DEF n
<1>4. rank \in Injection(S, 0..(n - 1))
  <2>1. rank \in [S -> 0..(n - 1)]
    <3>1. \A i \in S : rank[i] \in 0..(n - 1)
      BY <1>1, <1>2
    <3> QED BY <3>1
  <2>2. \A i, j \in S : rank[i] = rank[j] => i = j
    <3>1. ASSUME NEW i \in S, NEW j \in S, rank[i] = rank[j]
          PROVE  i = j
      <4>1. ~(i < j) /\ ~(j < i)
        BY <1>2, <1>3, <3>1
      <4> QED BY <4>1
    <3> QED BY <3>1
  <2> HIDE DEF rank
  <2> QED BY <2>1, <2>2 DEF Injection, IsInjective
<1>5. rank \in Surjection(S, 0..(n - 1))
  <2>1. IsFiniteSet(0..(n - 1)) /\ Cardinality(0..(n - 1)) = n
    BY <1>1, FS_Interval
  <2> HIDE DEF rank
  <2> QED BY <1>4, <2>1, FS_Injection DEF n
<1>6. \A k \in 1..n : \E i \in S : rank[i] = k - 1
  <2>1. \A m \in 0..(n - 1) : \E i \in S : rank[i] = m
    <3> HIDE DEF rank
    <3> QED BY <1>5 DEF Surjection
  <2>2. \A k \in 1..n : k - 1 \in 0..(n - 1)
    BY <1>1
  <2> HIDE DEF rank
  <2> QED BY <2>1, <2>2
<1>7. ASSUME NEW k \in 1..n
      PROVE  A[k] \in S /\ rank[A[k]] = k - 1
  <2>1. \A T : Model!Cardinality(T) = Cardinality(T)
    BY DEF Model!Cardinality, Cardinality
  <2>2. A[k] = CHOOSE i \in S : Cardinality(below(i)) = k - 1
    BY <2>1 DEF Model!Ascending, n
  <2>3. \E i \in S : Cardinality(below(i)) = k - 1
    BY <1>2, <1>6
  <2>4. A[k] \in S /\ Cardinality(below(A[k])) = k - 1
    <3> HIDE DEF below, A
    <3> QED BY <2>2, <2>3
  <2> QED BY <1>2, <2>4
<1>8. A \in [1..n -> S]
  <2>1. Model!Cardinality(S) = n
    BY DEF Model!Cardinality, Cardinality, n
  <2>2. DOMAIN A = 1..n /\ A = [k \in DOMAIN A |-> A[k]]
    BY <2>1 DEF Model!Ascending
  <2> HIDE DEF A, rank
  <2> QED BY <1>7, <2>2
<1>9. ASSUME NEW i \in S
      PROVE  \E k \in 1..n : A[k] = i
  <2> DEFINE k == rank[i] + 1
  <2>1. k \in 1..n /\ k - 1 = rank[i]
    BY <1>1, <1>2
  <2>2. rank[A[k]] = rank[i] /\ A[k] \in S
    BY <1>7, <2>1
  <2> HIDE DEF A, rank, k
  <2>3. A[k] = i
    BY <1>4, <2>2 DEF Injection, IsInjective
  <2> QED BY <2>1, <2>3
<1> QED
  BY <1>1, <1>8, <1>9 DEF n

\* What a sequence has at the chosen positions.
LEMMA ChosenIs ==
  ASSUME NEW T, NEW s, NEW P, IsFiniteSet(P), P \subseteq Int, \A i \in P : s[i] \in T
  PROVE  /\ Model!Chosen(s, P) \in Seq(T) /\ Len(Model!Chosen(s, P)) = Cardinality(P)
         /\ Cardinality(P) \in Nat
<1> DEFINE n == Cardinality(P)
           A == Model!Ascending(P)
           C == Model!Chosen(s, P)
<1>1. n \in Nat /\ A \in [1..n -> P] /\ \A i \in P : \E k \in 1..n : A[k] = i
  BY Ascends
<1>2. C = [k \in 1..n |-> s[A[k]]]
  <2>1. Model!Cardinality(P) = Cardinality(P)
    BY DEF Model!Cardinality, Cardinality
  <2> QED BY <2>1 DEF Model!Chosen
<1> HIDE DEF n, A, C
<1>3. C \in [1..n -> T] /\ \A k \in 1..n : C[k] = s[A[k]]
  BY <1>1, <1>2
<1>4. C \in Seq(T) /\ Len(C) = n
  BY <1>1, <1>3
<1> QED
  BY <1>1, <1>4 DEF n, C

\* What a reranker gives back when the call fails.
LEMMA AllOfIs ==
  ASSUME NEW n \in Nat
  PROVE  Model!IsPermutation(Model!AllOf(n), n) /\ (n # 0 => Model!AllOf(n) # <<>>)
<1> DEFINE A == Model!AllOf(n)
<1>1. A \in [1..n -> 0..(n - 1)] /\ \A i \in 1..n : A[i] = i - 1
  BY DEF Model!AllOf
<1> HIDE DEF A
<1>2. A \in Seq(0..(n - 1)) /\ Len(A) = n /\ DOMAIN A = 1..n
  BY <1>1
<1>3. {A[i] : i \in DOMAIN A} = 0..(n - 1)
  <2>1. ASSUME NEW m \in 0..(n - 1)
        PROVE  \E i \in 1..n : A[i] = m
    <3>1. m + 1 \in 1..n /\ (m + 1) - 1 = m
      OBVIOUS
    <3> QED BY <1>1, <3>1
  <2>2. \A i \in 1..n : A[i] \in 0..(n - 1)
    BY <1>1
  <2> QED BY <1>2, <2>1, <2>2
<1>4. n # 0 => A # <<>>
  BY <1>2, EmptySeq
<1> QED
  BY <1>2, <1>3, <1>4 DEF A, Model!IsPermutation

\* The positions of an answer that name a candidate.
LEMMA ValidIs ==
  ASSUME NEW order \in Seq(Int), NEW n \in Nat
  PROVE  /\ IsFiniteSet(Model!Valid(order, n)) /\ Model!Valid(order, n) \subseteq Int
         /\ \A i \in Model!Valid(order, n) : order[i] \in 0..(n - 1)
<1>1. Model!Valid(order, n) \in SUBSET (1..Len(order)) /\ Len(order) \in Nat
  BY DEF Model!Valid
<1>2. IsFiniteSet(1..Len(order))
  BY <1>1, FS_Interval
<1> QED
  BY <1>1, <1>2, FS_Subset DEF Model!Valid

\* Ollama: something comes back whenever something was asked about.
LEMMA OllamaOrderIs ==
  ASSUME NEW order \in Seq(Int), NEW n \in Nat, n # 0
  PROVE  Model!OllamaOrder(order, n) # <<>>
<1> DEFINE P == Model!Valid(order, n)
<1>1. IsFiniteSet(P) /\ P \subseteq Int /\ \A i \in P : order[i] \in 0..(n - 1)
  BY ValidIs
<1> HIDE DEF P
<1>2. Model!Chosen(order, P) \in Seq(0..(n - 1)) /\ Len(Model!Chosen(order, P)) = Cardinality(P)
  <2> DEFINE T == 0..(n - 1)
  <2>1. \A i \in P : order[i] \in T
    BY <1>1
  <2> HIDE DEF T
  <2>2. Model!Chosen(order, P) \in Seq(T) /\ Len(Model!Chosen(order, P)) = Cardinality(P)
    BY <1>1, <2>1, ChosenIs
  <2> QED BY <2>2 DEF T
<1>3. P # {} => Cardinality(P) # 0
  BY <1>1, FS_EmptySet
<1>4. P # {} => Model!Chosen(order, P) # <<>>
  BY <1>2, <1>3, EmptySeq
<1>5. Model!AllOf(n) # <<>>
  BY AllOfIs
<1> QED
  BY <1>4, <1>5 DEF Model!OllamaOrder, P

\* OpenAI: every candidate comes back once, whatever the answer says.
LEMMA OpenAIOrderIs ==
  ASSUME NEW order \in Seq(Int), NEW n \in Nat
  PROVE  Model!IsPermutation(Model!OpenAIOrder(order, n), n)
<1> DEFINE V == Model!Valid(order, n)
           F == {i \in V : \A j \in V : j < i => order[j] # order[i]}
           N == {order[i] : i \in F}
           R == 0..(n - 1) \ N
           C == Model!Chosen(order, F)
           A == Model!Ascending(R)
<1>1. IsFiniteSet(F) /\ F \subseteq Int /\ \A i \in F : order[i] \in 0..(n - 1)
  <2>1. IsFiniteSet(V) /\ V \subseteq Int /\ \A i \in V : order[i] \in 0..(n - 1)
    BY ValidIs
  <2>2. F \in SUBSET V
    OBVIOUS
  <2> HIDE DEF V
  <2> QED BY <2>1, <2>2, FS_Subset
<1>2. \A i, j \in F : order[i] = order[j] => i = j
  <2>1. ASSUME NEW i \in F, NEW j \in F, order[i] = order[j]
        PROVE  i = j
    <3>1. i \in Int /\ j \in Int /\ ~(i < j) /\ ~(j < i)
      BY <1>1, <2>1
    <3> QED BY <3>1
  <2> QED BY <2>1
<1> HIDE DEF F, V
<1>3. IsFiniteSet(0..(n - 1)) /\ Cardinality(0..(n - 1)) = n
  BY FS_Interval
<1>4. N \in SUBSET (0..(n - 1)) /\ IsFiniteSet(N)
  <2>1. N \in SUBSET (0..(n - 1))
    BY <1>1
  <2> QED BY <1>3, <2>1, FS_Subset
<1>5. Cardinality(N) = Cardinality(F)
  <2> DEFINE f == [i \in F |-> order[i]]
  <2>1. f \in Bijection(F, N)
    BY <1>2 DEF Bijection, Injection, IsInjective, Surjection
  <2>2. ExistsBijection(F, N)
    BY <2>1 DEF ExistsBijection
  <2> QED BY <1>1, <2>2, FS_Bijection
<1>6. IsFiniteSet(R) /\ R \subseteq Int /\ Cardinality(R) = n - Cardinality(N)
      /\ Cardinality(R) \in Nat /\ Cardinality(N) \in Nat
  <2>1. R \in SUBSET (0..(n - 1)) /\ R \subseteq Int
    OBVIOUS
  <2>2. IsFiniteSet(R)
    BY <1>3, <2>1, FS_Subset
  <2>3. R \cup N = 0..(n - 1) /\ R \cap N = {}
    BY <1>4
  <2> HIDE DEF R, N
  <2>4. Cardinality(R \cup N) = Cardinality(R) + Cardinality(N) - Cardinality(R \cap N)
    BY <1>4, <2>2, FS_Union
  <2>5. Cardinality(R) \in Nat /\ Cardinality(N) \in Nat
    BY <1>4, <2>2, FS_CardinalityType
  <2>6. Cardinality(R \cup N) = n /\ Cardinality(R \cap N) = 0
    BY <1>3, <2>3, FS_EmptySet
  <2>7. Cardinality(R) = n - Cardinality(N)
    BY <2>4, <2>5, <2>6
  <2> QED BY <2>1, <2>2, <2>5, <2>7
<1>7. /\ C \in Seq(0..(n - 1)) /\ Len(C) = Cardinality(F) /\ Cardinality(F) \in Nat
      /\ \A i \in F : \E k \in 1..Cardinality(F) : C[k] = order[i]
  <2> DEFINE T == 0..(n - 1)
  <2>1. \A i \in F : order[i] \in T
    BY <1>1
  <2> HIDE DEF T
  <2> HIDE DEF C
  <2>2. /\ Model!Chosen(order, F) \in Seq(T) /\ Len(Model!Chosen(order, F)) = Cardinality(F)
        /\ Cardinality(F) \in Nat
    BY <1>1, <2>1, ChosenIs
  <2>3. \A k \in 1..Cardinality(F) : Model!Chosen(order, F)[k] = order[Model!Ascending(F)[k]]
    <3>1. Model!Cardinality(F) = Cardinality(F)
      BY DEF Model!Cardinality, Cardinality
    <3> QED BY <3>1 DEF Model!Chosen
  <2> DEFINE B == Model!Ascending(F)
             m == Cardinality(F)
  <2>4. \A i \in F : \E k \in 1..m : B[k] = i
    BY <1>1, Ascends
  <2>5. \A k \in 1..m : C[k] = order[B[k]]
    BY <2>3 DEF C
  <2> HIDE DEF B, m
  <2>6. \A i \in F : \E k \in 1..m : C[k] = order[i]
    BY <2>4, <2>5
  <2> QED BY <2>2, <2>6 DEF T, C, m
<1>8. /\ A \in [1..Cardinality(R) -> R]
      /\ \A i \in R : \E k \in 1..Cardinality(R) : A[k] = i
  BY <1>6, Ascends
<1>9. A \in Seq(0..(n - 1)) /\ Len(A) = Cardinality(R)
  BY <1>6, <1>8
<1> DEFINE s == C \o A
<1>10. Model!OpenAIOrder(order, n) = s
  BY DEF Model!OpenAIOrder, F, V
<1> HIDE DEF C, A
<1>11. /\ s \in Seq(0..(n - 1)) /\ Len(s) = n
       /\ \A i \in 1..n : s[i] = IF i <= Len(C) THEN C[i] ELSE A[i - Len(C)]
  <2>1. /\ s \in Seq(0..(n - 1)) /\ Len(s) = Len(C) + Len(A)
        /\ \A i \in 1..(Len(C) + Len(A)) : s[i] = IF i <= Len(C) THEN C[i] ELSE A[i - Len(C)]
    BY <1>7, <1>9, ConcatProperties
  <2>2. Len(C) + Len(A) = n
    <3> HIDE DEF R, N
    <3> QED BY <1>5, <1>6, <1>7, <1>9
  <2> HIDE DEF s, R, N
  <2> QED BY <2>1, <2>2
<1>12. \A i \in 1..n : s[i] \in 0..(n - 1)
  <2> HIDE DEF s
  <2> QED BY ONLY <1>11
<1>13. ASSUME NEW m \in 0..(n - 1)
       PROVE  \E i \in 1..n : s[i] = m
  <2>1. CASE m \in N
    <3>1. PICK k \in 1..Cardinality(F) : C[k] = m
      BY <1>7, <2>1
    <3>2. k \in 1..n /\ k <= Len(C)
      <4> HIDE DEF R, N
      <4> QED BY <1>5, <1>6, <1>7
    <3> HIDE DEF s
    <3> QED BY <1>11, <3>1, <3>2
  <2>2. CASE m \notin N
    <3>1. PICK k \in 1..Cardinality(R) : A[k] = m
      BY <1>8, <2>2
    <3> DEFINE i == Len(C) + k
    <3>2. i \in 1..n /\ ~(i <= Len(C)) /\ i - Len(C) = k
      <4> HIDE DEF R, N
      <4> QED BY <1>5, <1>6, <1>7
    <3> HIDE DEF s, i
    <3> QED BY <1>11, <3>1, <3>2
  <2> QED BY <2>1, <2>2
<1>14. {s[i] : i \in DOMAIN s} = 0..(n - 1)
  <2>1. DOMAIN s = 1..n
    BY <1>11
  <2> HIDE DEF s
  <2>2. {s[i] : i \in 1..n} \subseteq 0..(n - 1)
    BY <1>12
  <2>3. 0..(n - 1) \subseteq {s[i] : i \in 1..n}
    BY <1>13
  <2> QED BY <2>1, <2>2, <2>3
<1> HIDE DEF s
<1> QED
  BY <1>10, <1>11, <1>14 DEF Model!IsPermutation

\* What a call may return when the answer was a, with n candidates.
ReturnsWell(k, n, a, r) ==
    /\ k \notin Model!Rerankers => (r = <<"value">> <=> a = "ok")
    /\ k \in Model!Rerankers =>
          /\ r # <<>> \/ n = 0
          /\ (k = "openaiRerank" \/ a # "ok") => Model!IsPermutation(r, n)

\* A call that fails, and one that asks nobody.
LEMMA FailsWell ==
  ASSUME NEW k, NEW n \in Nat, NEW a, a # "ok"
  PROVE  /\ ReturnsWell(k, n, a, IF k \in Model!Rerankers THEN Model!AllOf(n) ELSE <<"error">>)
         /\ k \in Model!Rerankers => ReturnsWell(k, n, a, Model!AllOf(n))
<1>1. Model!IsPermutation(Model!AllOf(n), n) /\ (n # 0 => Model!AllOf(n) # <<>>)
  BY AllOfIs
<1>2. <<"error">> # <<"value">>
  OBVIOUS
<1> QED
  BY <1>1, <1>2 DEF ReturnsWell

\* A reranker that got an answer.
LEMMA ReordersWell ==
  ASSUME NEW k \in Model!Rerankers, NEW n \in Nat, NEW order \in Seq(Int), NEW r,
         r = IF k = "ollamaRerank" THEN Model!OllamaOrder(order, n) ELSE Model!OpenAIOrder(order, n)
  PROVE  ReturnsWell(k, n, "ok", r)
<1>1. CASE k = "ollamaRerank"
  <2>1. r = Model!OllamaOrder(order, n)
    BY <1>1
  <2>2. r # <<>> \/ n = 0
    BY <2>1, OllamaOrderIs
  <2>3. k # "openaiRerank"
    BY <1>1
  <2> QED BY <2>2, <2>3 DEF ReturnsWell
<1>2. CASE k # "ollamaRerank"
  <2>1. Model!IsPermutation(r, n)
    BY <1>2, OpenAIOrderIs
  <2>2. r # <<>> \/ n = 0
    BY <2>1 DEF Model!IsPermutation
  <2> QED BY <2>1, <2>2 DEF ReturnsWell
<1> QED
  BY <1>1, <1>2

LEMMA SoundIs ==
  Model!CallIsSound <=> /\ s4 <= Attempts[s1] /\ ~s10 /\ s9 <= 1
                        /\ s3 = "returned" => ReturnsWell(s1, s2, s6, s11)
BY DEF Model!CallIsSound, ReturnsWell

LEMMA CallStart == Model!Init => Model!CallInv
<1> SUFFICES ASSUME Model!Init PROVE Model!CallInv
  OBVIOUS
<1>1. s1 \in Kinds /\ Attempts[s1] \in Nat \ {0} /\ s2 \in Nat
  BY ServiceAssumption DEF Model!Init
<1>2. Model!CallTypes
  BY <1>1 DEF Model!Init, Model!CallTypes, Model!None, Model!Transient
<1>3. Model!CallIsSound
  BY <1>1 DEF Model!Init, Model!CallIsSound
<1> QED
  BY <1>1, <1>2, <1>3 DEF Model!Init, Model!CallInv

\* The part of the invariant that is about the requests, not about results.
RequestInv ==
    /\ s4 <= Attempts[s1] /\ ~s10 /\ s9 <= 1
    /\ s3 \in {"execute", "prepare"} => s4 < Attempts[s1]
    /\ s3 = "execute" => s5 # "used" /\ s6 \in Model!Transient \cup {Model!None}
    /\ s3 \in {"wait", "prepare"} => s6 \in Model!Transient
    /\ s9 = 1 => /\ s8 \/ (s7 /\ s1 \in Guarded)
                 /\ s3 \in {"classify", "decode", "returned"}

LEMMA CallInvIs ==
  Model!CallInv <=> /\ Model!CallTypes /\ RequestInv
                    /\ s3 = "returned" => ReturnsWell(s1, s2, s6, s11)
BY SoundIs DEF Model!CallInv, RequestInv

LEMMA RequestStep ==
  ASSUME Model!CallTypes, RequestInv, [Model!Next]_(Model!callVars)
  PROVE  (Model!CallTypes /\ RequestInv)'
<1>1. Attempts[s1] \in Nat \ {0}
  BY ServiceAssumption DEF Model!CallTypes
<1> USE DEF Model!CallTypes, RequestInv, Model!Returns, Model!Fails, Model!Transient, Model!None
<1>2. CASE Model!NothingToRerank
  BY <1>1, <1>2 DEF Model!NothingToRerank
<1>3. ASSUME NEW a \in {"ok", "junk", "client", "busy", "network"}, Model!Execute(a)
      PROVE  (Model!CallTypes /\ RequestInv)'
  <2>1. Model!CallTypes'
    BY <1>1, <1>3 DEF Model!Execute
  <2>2. s4' <= Attempts[s1] /\ s1' = s1 /\ s3' = "classify"
    BY <1>1, <1>3 DEF Model!Execute
  <2>3. ~s10'
    BY <1>3 DEF Model!Execute
  <2>4. s9 = 0 /\ s9' = IF s8 \/ (s7 /\ s1 \in Guarded) THEN 1 ELSE 0
    BY <1>3 DEF Model!Execute
  <2>5. s7' = s7 /\ s8' = s8
    BY <1>3 DEF Model!Execute
  <2> QED BY <2>1, <2>2, <2>3, <2>4, <2>5
<1>4. CASE Model!Classify
  <2>1. CASE s6 \notin Model!Transient
    BY <1>1, <1>4, <2>1 DEF Model!Classify
  <2>2. CASE s6 \in Model!Transient /\ (s8 \/ (s7 /\ s1 \in Guarded))
    BY <1>1, <1>4, <2>2 DEF Model!Classify
  <2>3. CASE s6 \in Model!Transient /\ ~(s8 \/ (s7 /\ s1 \in Guarded))
    <3>1. s3' = "wait" /\ UNCHANGED s11
      BY <1>4, <2>3 DEF Model!Classify
    <3> QED BY <1>1, <1>4, <2>3, <3>1 DEF Model!Classify
  <2> QED BY <2>1, <2>2, <2>3
<1>5. CASE Model!Wait
  BY <1>1, <1>5 DEF Model!Wait
<1>6. CASE Model!Prepare
  BY <1>1, <1>6 DEF Model!Prepare
<1>7. CASE Model!Decode
  <2>1. s3' = "returned" /\ UNCHANGED <<s1, s2, s4, s5, s6, s7, s8, s9, s10>>
    BY <1>7 DEF Model!Decode
  <2> QED BY <1>1, <2>1
<1>8. CASE Model!Deadline
  BY <1>1, <1>8 DEF Model!Deadline
<1>9. CASE Model!Cancel
  BY <1>1, <1>9 DEF Model!Cancel
<1>10. CASE UNCHANGED Model!callVars
  BY <1>1, <1>10 DEF Model!callVars
<1> QED
  BY <1>2, <1>3, <1>4, <1>5, <1>6, <1>7, <1>8, <1>9, <1>10 DEF Model!Next, Model!CallStep

\* What is returned fits the answer.
LEMMA ResultStep ==
  ASSUME Model!CallTypes, RequestInv, [Model!Next]_(Model!callVars),
         s3 = "returned" => ReturnsWell(s1, s2, s6, s11), s3' = "returned"
  PROVE  ReturnsWell(s1, s2, s6, s11)'
<1>1. CASE s3 = "returned"
  <2>1. UNCHANGED Model!callVars
    BY <1>1 DEF Model!Next, Model!CallStep, Model!NothingToRerank, Model!Execute, Model!Classify,
                Model!Wait, Model!Prepare, Model!Decode, Model!Deadline, Model!Cancel
  <2> QED BY <1>1, <2>1 DEF Model!callVars, ReturnsWell
<1>2. CASE s3 # "returned"
  <2>1. ASSUME Model!Fails, UNCHANGED <<s1, s2, s6>>, s6 # "ok"
        PROVE  ReturnsWell(s1, s2, s6, s11)'
    <3>1. s2 \in Nat /\ s11' = IF s1 \in Model!Rerankers THEN Model!AllOf(s2) ELSE <<"error">>
      BY <2>1 DEF Model!CallTypes, Model!Fails, Model!Returns
    <3>2. ReturnsWell(s1, s2, s6, s11')
      BY <2>1, <3>1, FailsWell
    <3> QED BY <2>1, <3>2 DEF ReturnsWell
  <2>2. CASE Model!NothingToRerank
    <3>1. s2 \in Nat /\ s11' = Model!AllOf(s2) /\ s1 \in Model!Rerankers /\ s6 # "ok"
      BY <2>2 DEF Model!NothingToRerank, Model!TooFew, Model!CallTypes, Model!Returns, RequestInv,
                  Model!Rerankers, Model!Transient, Model!None
    <3>2. ReturnsWell(s1, s2, s6, s11')
      BY <3>1, FailsWell
    <3> QED BY <2>2, <3>2 DEF ReturnsWell, Model!NothingToRerank
  <2>3. CASE Model!Classify
    <3>1. Model!Fails /\ s6 # "ok"
      BY <1>2, <2>3 DEF Model!Classify, Model!Transient
    <3> QED BY <2>1, <2>3, <3>1 DEF Model!Classify
  <2>4. CASE Model!Wait
    <3>1. Model!Fails /\ s6 # "ok"
      BY <1>2, <2>4 DEF Model!Wait, Model!Transient, RequestInv
    <3> QED BY <2>1, <2>4, <3>1 DEF Model!Wait
  <2>5. CASE Model!Prepare
    <3>1. Model!Fails /\ s6 # "ok"
      BY <1>2, <2>5 DEF Model!Prepare, Model!Transient, RequestInv
    <3> QED BY <2>1, <2>5, <3>1 DEF Model!Prepare
  <2>6. CASE Model!Decode
    <3>1. CASE s6 # "ok"
      BY <2>1, <2>6, <3>1 DEF Model!Decode
    <3>2. CASE s6 = "ok" /\ s1 \notin Model!Rerankers
      <4>1. s11' = <<"value">>
        BY <2>6, <3>2 DEF Model!Decode, Model!Returns
      <4> QED BY <2>6, <3>2, <4>1 DEF Model!Decode, ReturnsWell
    <3>3. CASE s6 = "ok" /\ s1 \in Model!Rerankers
      <4>1. PICK order \in Orders : s11' = Model!Reordered(order)
        BY <2>6, <3>3 DEF Model!Decode, Model!Returns
      <4>2. order \in Seq(Int) /\ s2 \in Nat
        BY ServiceAssumption DEF Model!CallTypes
      <4>3. ReturnsWell(s1, s2, "ok", s11')
        BY <3>3, <4>1, <4>2, ReordersWell DEF Model!Reordered
      <4> QED BY <2>6, <3>3, <4>3 DEF Model!Decode, ReturnsWell
    <3> QED BY <3>1, <3>2, <3>3
  <2> QED
    BY <1>2, <2>2, <2>3, <2>4, <2>5, <2>6
       DEF Model!Next, Model!CallStep, Model!Execute, Model!Deadline, Model!Cancel, Model!callVars
<1> QED
  BY <1>1, <1>2

LEMMA CallStep ==
  Model!CallInv /\ [Model!Next]_(Model!callVars) => Model!CallInv'
<1> SUFFICES ASSUME Model!CallInv, [Model!Next]_(Model!callVars) PROVE Model!CallInv'
  OBVIOUS
<1>1. Model!CallTypes /\ RequestInv /\ (s3 = "returned" => ReturnsWell(s1, s2, s6, s11))
  BY CallInvIs
<1>2. (Model!CallTypes /\ RequestInv)'
  BY <1>1, RequestStep
<1>3. s3' = "returned" => ReturnsWell(s1, s2, s6, s11)'
  BY <1>1, ResultStep
<1>4. (Model!CallInv <=> /\ Model!CallTypes /\ RequestInv
                         /\ s3 = "returned" => ReturnsWell(s1, s2, s6, s11))'
  BY CallInvIs, PTL
<1> QED
  BY <1>2, <1>3, <1>4

LEMMA CallSound == Model!CallInv => Model!CallIsSound
BY DEF Model!CallInv
-----------------------------------------------------------------------------
(* ConfigFile: the file, what was told, the values in use, the edits, what    *)
(* was lost and the file at the start are s1 to s6.                            *)

LEMMA FileCounting ==
  \A S : (File!IsFiniteSet(S) <=> IsFiniteSet(S)) /\ File!Cardinality(S) = Cardinality(S)
BY DEF File!IsFiniteSet, IsFiniteSet, File!Cardinality, Cardinality

\* The fields of a line.
LEMMA LineFacts ==
  /\ File!Section("server").kind = "section" /\ File!Section("server").name = "server"
  /\ File!Section("server").keys = {}
  /\ File!Setting.kind = "setting" /\ File!Setting.keys = {}
  /\ File!Blank.kind = "blank" /\ File!Blank.keys = {}
  /\ \A ks : File!KeysLine(ks).kind = "keys" /\ File!KeysLine(ks).name = "" /\ File!KeysLine(ks).keys = ks
BY DEF File!Section, File!Setting, File!Blank, File!KeysLine

LEMMA LinesFacts ==
  ASSUME NEW f, File!IsLines(f)
  PROVE  Len(f) \in Nat /\ DOMAIN f = 1..Len(f) /\ f \in Seq({f[i] : i \in 1..Len(f)} \cup {File!Blank})
<1>1. PICK n \in Nat : n = Len(f)
  BY DEF File!IsLines
<1>2. f = [i \in 1..n |-> f[i]]
  BY <1>1 DEF File!IsLines
<1>3. DOMAIN f = 1..n
  BY <1>2
<1>4. f \in [1..n -> {f[i] : i \in 1..n} \cup {File!Blank}]
  BY <1>2
<1>5. f \in Seq({f[i] : i \in 1..n} \cup {File!Blank})
  BY <1>4
<1> QED BY <1>1, <1>3, <1>5

\* What a line belongs to depends on the headings only.
LEMMA SameSections ==
  ASSUME NEW f, NEW g, NEW n \in Nat,
         \A i \in 1..n : /\ f[i].kind = "section" <=> g[i].kind = "section"
                         /\ f[i].kind = "section" => f[i].name = g[i].name,
         NEW i \in 1..n
  PROVE  File!InSection(f, i, "server") <=> File!InSection(g, i, "server")
<1>1. \A h \in 1..i : h \in 1..n /\ \A j \in (h + 1)..i : j \in 1..n
  OBVIOUS
<1> QED BY <1>1 DEF File!InSection

\* What is loaded from a file that has the list once.
LEMMA LoadedOnce ==
  ASSUME NEW f, File!IsLines(f), File!Once(f)
  PROVE  /\ File!Of(f, "single") # {} => File!Loaded(f) = {}
         /\ File!Of(f, "keys") = {} => File!Loaded(f) = {}
         /\ \A i \in File!Of(f, "keys") : File!Of(f, "single") = {} => File!Loaded(f) = f[i].keys
<1>1. File!Of(f, "keys") = {} => File!Last(File!Of(f, "keys")) = {}
  BY DEF File!Last
<1>2. ASSUME NEW i \in File!Of(f, "keys") PROVE File!Last(File!Of(f, "keys")) = {i}
  <2>1. i \in Nat
    BY LinesFacts DEF File!Of
  <2>2. File!Of(f, "keys") = {i}
    BY DEF File!Once
  <2> QED BY <2>1, <2>2 DEF File!Last
<1> QED BY <1>1, <1>2 DEF File!Loaded

\* Lines whose kinds stay, as their headings do.
LEMMA SameKinds ==
  ASSUME NEW f, NEW g, File!IsLines(f), DOMAIN g = DOMAIN f,
         \A i \in DOMAIN f : /\ f[i].kind = g[i].kind
                             /\ f[i].kind = "section" => f[i].name = g[i].name
  PROVE  (\A kind : File!Of(g, kind) = File!Of(f, kind)) /\ (File!Once(f) => File!Once(g))
<1>1. \A i \in DOMAIN f : File!InSection(f, i, "server") <=> File!InSection(g, i, "server")
  BY LinesFacts, SameSections
<1>2. \A kind : File!Of(g, kind) = File!Of(f, kind)
  BY <1>1 DEF File!Of
<1> QED BY <1>2 DEF File!Once

\* What an addition may do to what is loaded, and to the headings.
Gains(f, g, k) ==
  /\ File!IsLines(g)
  /\ File!Spoiled(f) => File!Spoiled(g)
  /\ File!Once(f) => File!Once(g) /\ File!Loaded(g) \in {File!Loaded(f), File!Loaded(f) \cup {k}}

LEMMA HangGains ==
  ASSUME NEW f, File!IsLines(f), NEW p \in 1..Len(f), NEW k
  PROVE  Gains(f, File!Hang(f, p, k), k)
<1> DEFINE g == File!Hang(f, p, k)
           line == [kind |-> f[p].kind, name |-> f[p].name, keys |-> f[p].keys \cup {k}]
<1>1. DOMAIN f = 1..Len(f) /\ Len(f) \in Nat /\ f = [i \in 1..Len(f) |-> f[i]]
  BY LinesFacts DEF File!IsLines
<1>2. g = [i \in 1..Len(f) |-> IF i = p THEN line ELSE f[i]]
  BY <1>1 DEF File!Hang
<1>3. line.kind = f[p].kind /\ line.name = f[p].name /\ line.keys = f[p].keys \cup {k}
  OBVIOUS
<1> HIDE DEF g, line
<1>4. DOMAIN g = DOMAIN f /\ File!IsLines(g) /\ \A i \in DOMAIN f : g[i] = IF i = p THEN line ELSE f[i]
  BY <1>1, <1>2 DEF File!IsLines
<1>5. \A i \in DOMAIN f : /\ f[i].kind = g[i].kind /\ f[i].name = g[i].name
                          /\ g[i].keys = IF i = p THEN f[i].keys \cup {k} ELSE f[i].keys
  BY <1>3, <1>4
<1>6. (\A kind : File!Of(g, kind) = File!Of(f, kind)) /\ (File!Once(f) => File!Once(g))
  BY <1>4, <1>5, SameKinds
<1>7. File!Spoiled(f) => File!Spoiled(g)
  <2>1. \A i \in DOMAIN f : f[i].keys # {} => g[i].keys # {}
    BY <1>5
  <2> QED BY <1>4, <1>5, <2>1 DEF File!Spoiled
<1>8. ASSUME File!Once(f) PROVE File!Loaded(g) \in {File!Loaded(f), File!Loaded(f) \cup {k}}
  <2>1. CASE File!Of(f, "single") # {} \/ File!Of(f, "keys") = {}
    BY <1>4, <1>6, <1>8, <2>1, LoadedOnce
  <2>2. CASE File!Of(f, "single") = {} /\ File!Of(f, "keys") # {}
    <3>1. PICK i \in File!Of(f, "keys") : TRUE
      BY <2>2
    <3>2. File!Loaded(f) = f[i].keys /\ File!Loaded(g) = g[i].keys /\ i \in DOMAIN f
      BY <1>4, <1>6, <1>8, <2>2, <3>1, LoadedOnce DEF File!Of
    <3> QED BY <1>5, <3>2
  <2> QED BY <2>1, <2>2
<1> QED BY <1>4, <1>6, <1>7, <1>8 DEF Gains, g

\* An empty line at the end changes nothing.
LEMMA ClosedSame ==
  ASSUME NEW f, File!IsLines(f), NEW g, g = Append(f, File!Blank)
  PROVE  /\ File!IsLines(g) /\ Len(g) = Len(f) + 1 /\ g[Len(g)] = File!Blank
         /\ \A i \in 1..Len(f) : g[i] = f[i]
         /\ File!Spoiled(f) => File!Spoiled(g)
         /\ File!Of(g, "keys") = File!Of(f, "keys") /\ File!Of(g, "single") = File!Of(f, "single")
         /\ File!Once(f) => File!Once(g) /\ File!Loaded(g) = File!Loaded(f)
<1>1. PICK n \in Nat : n = Len(f)
  BY LinesFacts
<1>2. f \in Seq({f[i] : i \in 1..n} \cup {File!Blank}) /\ DOMAIN f = 1..n
  BY <1>1, LinesFacts
<1>3. g \in Seq({f[i] : i \in 1..n} \cup {File!Blank}) /\ Len(g) = n + 1
      /\ \A i \in 1..(n + 1) : g[i] = IF i = n + 1 THEN File!Blank ELSE f[i]
  BY <1>1, <1>2, AppendProperties
<1>4. File!IsLines(g) /\ DOMAIN g = 1..(n + 1)
  <2>1. g \in [1..(n + 1) -> {f[i] : i \in 1..n} \cup {File!Blank}]
    BY <1>3, LenProperties
  <2>2. g = [i \in 1..(n + 1) |-> g[i]]
    BY <2>1
  <2>3. DOMAIN g = 1..(n + 1) /\ Len(g) = n + 1 /\ Len(g) \in Nat
    BY <1>3, <2>1
  <2>4. g = [i \in 1..Len(g) |-> g[i]]
    BY <2>2, <2>3, Zenon
  <2> QED BY <2>3, <2>4 DEF File!IsLines
<1>5. g[n + 1] = File!Blank /\ \A i \in 1..n : g[i] = f[i] /\ i \in DOMAIN g
  BY <1>3, <1>4
<1>6. \A i \in 1..n : File!InSection(f, i, "server") <=> File!InSection(g, i, "server")
  BY <1>5, SameSections
<1>7. ASSUME NEW kind, kind # "blank" PROVE File!Of(g, kind) = File!Of(f, kind)
  <2>1. ASSUME NEW i \in DOMAIN g, g[i].kind = kind PROVE i \in 1..n
    <3>1. g[n + 1].kind # kind
      BY <1>5, <1>7, LineFacts
    <3>2. i # n + 1
      BY <2>1, <3>1
    <3> QED BY <1>4, <3>2
  <2> QED BY <1>2, <1>5, <1>6, <2>1 DEF File!Of
<1>8. File!Of(g, "keys") = File!Of(f, "keys") /\ File!Of(g, "single") = File!Of(f, "single")
  BY <1>7
<1>9. File!Once(f) => File!Once(g)
  BY <1>8 DEF File!Once
<1>10. ASSUME File!Once(f) PROVE File!Loaded(g) = File!Loaded(f)
  <2>1. CASE File!Of(f, "single") # {} \/ File!Of(f, "keys") = {}
    BY <1>4, <1>8, <1>9, <1>10, <2>1, LoadedOnce
  <2>2. CASE File!Of(f, "single") = {} /\ File!Of(f, "keys") # {}
    <3>1. PICK i \in File!Of(f, "keys") : TRUE
      BY <2>2
    <3>2. File!Loaded(f) = f[i].keys
      BY <1>10, <2>2, <3>1, LoadedOnce
    <3>3. File!Loaded(g) = g[i].keys
      BY <1>4, <1>8, <1>9, <1>10, <2>2, <3>1, LoadedOnce
    <3>4. i \in 1..n
      BY <1>2, <3>1 DEF File!Of
    <3> QED BY <1>5, <3>2, <3>3, <3>4
  <2> QED BY <2>1, <2>2
<1>11. File!Spoiled(f) => File!Spoiled(g)
  BY <1>2, <1>5 DEF File!Spoiled
<1> QED BY <1>1, <1>3, <1>4, <1>5, <1>8, <1>9, <1>10, <1>11

\* A new line at the end, in a file that has none to load.
LEMMA EndGains ==
  ASSUME NEW f, File!IsLines(f), Len(f) # 0, File!Of(f, "keys") = {}, NEW k
  PROVE  Gains(f, File!AtEnd(f, k), k)
<1>1. PICK n \in Nat \ {0} : n = Len(f)
  BY LinesFacts
<1>2. DOMAIN f = 1..n /\ n \in 1..n /\ f = [i \in 1..n |-> f[i]]
  BY <1>1, LinesFacts DEF File!IsLines
<1>3. File!Once(f) /\ File!Loaded(f) = {}
  <2>1. File!Once(f)
    BY DEF File!Once
  <2> QED BY <2>1, LoadedOnce
<1>4. CASE f[n] # File!Blank
  <2> DEFINE h == File!Hang(f, n, k)
  <2>1. File!AtEnd(f, k) = Append(h, File!Blank)
    BY <1>1, <1>4 DEF File!AtEnd
  <2>2. Gains(f, h, k)
    BY <1>1, <1>2, HangGains
  <2> HIDE DEF h
  <2>3. PICK g : g = Append(h, File!Blank)
    OBVIOUS
  <2>4. Gains(f, g, k)
    BY <2>2, <2>3, ClosedSame DEF Gains
  <2> QED BY <2>1, <2>3, <2>4
<1>5. CASE f[n] = File!Blank
  <2> DEFINE h == [f EXCEPT ![n] = File!KeysLine({k})]
  <2>1. File!AtEnd(f, k) = Append(h, File!Blank)
    BY <1>1, <1>5 DEF File!AtEnd
  <2>2. h = [i \in 1..n |-> IF i = n THEN File!KeysLine({k}) ELSE f[i]]
    BY <1>2
  <2> HIDE DEF h
  <2>3. File!IsLines(h) /\ DOMAIN h = 1..n /\ h[n] = File!KeysLine({k})
        /\ \A i \in 1..n : i # n => h[i] = f[i]
    BY <1>2, <2>2 DEF File!IsLines
  <2>4. \A i \in 1..n : /\ f[i].kind = "section" <=> h[i].kind = "section"
                        /\ f[i].kind = "section" => f[i].name = h[i].name
    <3>1. f[n].kind # "section" /\ h[n].kind # "section"
      BY <1>5, <2>3, LineFacts
    <3> QED BY <2>3, <3>1
  <2>5. \A i \in 1..n : File!InSection(f, i, "server") <=> File!InSection(h, i, "server")
    BY <2>4, SameSections
  <2>6. \A i \in File!Of(h, "keys") : i = n
    BY <1>2, <2>3, <2>5 DEF File!Of
  <2>7. File!Once(h)
    BY <2>6 DEF File!Once
  <2>8. File!Loaded(h) \in {{}, {k}}
    <3>1. h[n].keys = {k}
      BY <2>3, LineFacts
    <3>2. CASE File!Of(h, "single") # {} \/ File!Of(h, "keys") = {}
      BY <2>3, <2>7, <3>2, LoadedOnce
    <3>3. CASE File!Of(h, "single") = {} /\ File!Of(h, "keys") # {}
      <4>1. n \in File!Of(h, "keys")
        BY <2>6, <3>3
      <4> QED BY <2>3, <2>7, <3>1, <3>3, <4>1, LoadedOnce
    <3> QED BY <3>2, <3>3
  <2>9. File!Spoiled(f) => File!Spoiled(h)
    <3>1. f[n].kind # "section"
      BY <1>5, LineFacts
    <3> QED BY <1>2, <2>3, <3>1 DEF File!Spoiled
  <2>10. PICK g : g = Append(h, File!Blank)
    OBVIOUS
  <2>11. /\ File!IsLines(g) /\ (File!Spoiled(f) => File!Spoiled(g))
         /\ File!Once(g) /\ File!Loaded(g) \in {{}, {k}}
    BY <2>3, <2>7, <2>8, <2>9, <2>10, ClosedSame
  <2>12. Gains(f, g, k)
    BY <1>3, <2>11 DEF Gains
  <2> QED BY <2>1, <2>10, <2>12
<1> QED BY <1>4, <1>5

\* The section that is made when there is none.
LEMMA SectionGains ==
  ASSUME NEW f, File!IsLines(f), NEW k, NEW g,
         g = f \o <<File!Section("server"), File!Blank, File!KeysLine({k}), File!Blank>>,
         \A i \in DOMAIN f : ~(f[i].kind = "section" /\ f[i].name = "server")
  PROVE  File!IsLines(g) /\ File!Once(g) /\ File!Loaded(g) = {k}
<1>1. PICK n \in Nat : n = Len(f)
  BY LinesFacts
<1> DEFINE more == <<File!Section("server"), File!Blank, File!KeysLine({k}), File!Blank>>
           S == {f[i] : i \in 1..n} \cup {File!Section("server"), File!Blank, File!KeysLine({k})}
<1>2. f \in Seq(S) /\ DOMAIN f = 1..n
  <2>1. f \in Seq({f[i] : i \in 1..n} \cup {File!Blank}) /\ DOMAIN f = 1..n
    BY <1>1, LinesFacts
  <2> QED BY <2>1
<1>3. more \in Seq(S) /\ Len(more) = 4 /\ more[1] = File!Section("server") /\ more[2] = File!Blank
      /\ more[3] = File!KeysLine({k}) /\ more[4] = File!Blank
  OBVIOUS
<1> HIDE DEF more
<1>4. g \in Seq(S) /\ Len(g) = n + 4
      /\ \A i \in 1..(n + 4) : g[i] = IF i <= n THEN f[i] ELSE more[i - n]
  <2>1. g = f \o more
    BY DEF more
  <2> HIDE DEF S
  <2> QED BY <1>1, <1>2, <1>3, <2>1, ConcatProperties
<1>5. File!IsLines(g) /\ DOMAIN g = 1..(n + 4)
  <2>1. g \in [1..(n + 4) -> S]
    BY <1>4, LenProperties
  <2>2. g = [i \in 1..(n + 4) |-> g[i]]
    BY <2>1
  <2>3. DOMAIN g = 1..(n + 4) /\ Len(g) = n + 4 /\ Len(g) \in Nat
    BY <1>4, <2>1
  <2>4. g = [i \in 1..Len(g) |-> g[i]]
    BY <2>2, <2>3, Zenon
  <2> QED BY <2>3, <2>4 DEF File!IsLines
<1>6. /\ g[n + 1] = File!Section("server") /\ g[n + 2] = File!Blank
      /\ g[n + 3] = File!KeysLine({k}) /\ g[n + 4] = File!Blank
      /\ \A i \in 1..n : g[i] = f[i]
  <2>1. ASSUME NEW j \in 1..4 PROVE g[n + j] = more[j]
    <3>1. n + j \in 1..(n + 4) /\ ~(n + j <= n) /\ (n + j) - n = j
      OBVIOUS
    <3> QED BY <1>4, <3>1, Zenon
  <2>2. 1 \in 1..4 /\ 2 \in 1..4 /\ 3 \in 1..4 /\ 4 \in 1..4
    OBVIOUS
  <2>3. ASSUME NEW i \in 1..n PROVE g[i] = f[i]
    <3>1. i \in 1..(n + 4) /\ i <= n
      OBVIOUS
    <3> QED BY <1>4, <3>1, Zenon
  <2> QED BY <1>3, <2>1, <2>2, <2>3, Zenon
<1> HIDE DEF S
<1>7. \A i \in 1..(n + 4) : g[i].kind = "section" /\ g[i].name = "server" => i = n + 1
  <2>1. \A i \in 1..(n + 4) : i \in 1..n \/ i = n + 1 \/ i = n + 2 \/ i = n + 3 \/ i = n + 4
    OBVIOUS
  <2>2. g[n + 1].kind = "section" /\ g[n + 2].kind = "blank" /\ g[n + 3].kind = "keys" /\ g[n + 4].kind = "blank"
    BY <1>6, LineFacts, Zenon
  <2>3. ASSUME NEW i \in 1..(n + 4), g[i].kind = "section" /\ g[i].name = "server" PROVE i = n + 1
    <3>1. CASE i \in 1..n
      BY <1>2, <1>6, <2>3, <3>1, Zenon
    <3>2. i # n + 2 /\ i # n + 3 /\ i # n + 4
      BY <2>2, <2>3
    <3> QED BY <2>1, <3>1, <3>2, Zenon
  <2> QED BY <2>3
<1>8. \A i \in 1..n : ~File!InSection(g, i, "server")
  <2>1. \A i \in 1..n : \A h \in 1..i : h \in 1..(n + 4) /\ h # n + 1
    OBVIOUS
  <2> QED BY <1>7, <2>1 DEF File!InSection
<1>9. File!InSection(g, n + 3, "server")
  <2>1. n + 1 \in 1..(n + 3) /\ \A j \in ((n + 1) + 1)..(n + 3) : j = n + 2 \/ j = n + 3
    OBVIOUS
  <2>2. g[n + 1].kind = "section" /\ g[n + 1].name = "server"
        /\ g[n + 2].kind # "section" /\ g[n + 3].kind # "section"
    BY <1>6, LineFacts
  <2> QED BY <2>1, <2>2 DEF File!InSection
<1>10. ASSUME NEW i \in 1..(n + 4), File!InSection(g, i, "server"), g[i].kind \in {"keys", "single"}
       PROVE  i = n + 3
  <2>1. i \notin 1..n
    BY <1>8, <1>10
  <2>2. i \notin {n + 1, n + 2, n + 4}
    BY <1>6, <1>10, LineFacts
  <2> QED BY <2>1, <2>2
<1>11. g[n + 3].kind = "keys" /\ g[n + 3].keys = {k} /\ n + 3 \in 1..(n + 4)
  <2>1. g[n + 3].kind = "keys" /\ g[n + 3].keys = {k}
    BY <1>6, LineFacts, Zenon
  <2>2. n + 3 \in 1..(n + 4)
    OBVIOUS
  <2> QED BY <2>1, <2>2, Zenon
<1>12. File!Of(g, "keys") = {n + 3} /\ File!Of(g, "single") = {}
  BY <1>5, <1>9, <1>10, <1>11 DEF File!Of
<1>13. File!Once(g)
  BY <1>12 DEF File!Once
<1> QED BY <1>5, <1>11, <1>12, <1>13, LoadedOnce

\* An addition makes the entry one that is loaded, or changes nothing of what is.
LEMMA AddingGains ==
  ASSUME NEW f, File!IsLines(f), NEW k, NEW g \in File!Adding(f, k)
  PROVE  Gains(f, g, k)
<1> DEFINE ls == IF f = <<>> THEN <<File!Blank>> ELSE f
           heads == {i \in DOMAIN ls : ls[i].kind = "section" /\ ls[i].name = "server"}
           Below(h) == {i \in DOMAIN ls : ls[i].kind = "keys" /\ i >= h}
           closed == IF ls[Len(ls)] = File!Blank THEN ls ELSE Append(ls, File!Blank)
<1>1. g \in IF heads = {}
            THEN {closed \o <<File!Section("server"), File!Blank, File!KeysLine({k}), File!Blank>>}
            ELSE UNION {IF Below(h) = {} THEN {File!AtEnd(ls, k)}
                        ELSE {File!Hang(ls, i - h + 1, k) : i \in File!Leading(Below(h))} : h \in File!Leading(heads)}
  BY DEF File!Adding
<1>2. File!IsLines(ls) /\ \A i \in DOMAIN ls : i \in DOMAIN f \/ ls[i].kind = "blank"
  <2>1. CASE f = <<>>
    <3>1. ls = <<File!Blank>> /\ Len(ls) = 1 /\ DOMAIN ls = {1} /\ ls[1].kind = "blank"
      <4>1. ls = <<File!Blank>>
        BY <2>1
      <4> HIDE DEF ls
      <4>2. Len(ls) = 1 /\ DOMAIN ls = {1} /\ ls[1] = File!Blank
        BY <4>1
      <4> QED BY <4>1, <4>2, LineFacts
    <3>2. ls = [i \in 1..1 |-> ls[i]]
      BY <3>1
    <3> QED BY <3>1, <3>2 DEF File!IsLines
  <2>2. CASE f # <<>>
    BY <2>2
  <2> QED BY <2>1, <2>2
<1>3. f # <<>> => ls = f /\ Len(f) # 0
  <2>1. Len(f) = 0 => f = <<>>
    BY DEF File!IsLines
  <2> QED BY <2>1
<1>5. f = <<>> => DOMAIN f = {}
  OBVIOUS
<1>4. f = <<>> => \A i \in DOMAIN ls : ls[i].kind = "blank"
  BY <1>2, <1>5
<1> HIDE DEF ls
<1>6. CASE heads = {}
  <2>1. g = closed \o <<File!Section("server"), File!Blank, File!KeysLine({k}), File!Blank>>
    BY <1>1, <1>6
  <2>5a. closed = ls \/ closed = Append(ls, File!Blank)
    OBVIOUS
  <2>2. File!IsLines(closed) /\ \A i \in DOMAIN closed : ~(closed[i].kind = "section" /\ closed[i].name = "server")
    <3>1. CASE closed = ls
      BY <1>2, <1>6, <3>1
    <3>2. CASE closed = Append(ls, File!Blank)
      <4>1. PICK c : c = Append(ls, File!Blank)
        OBVIOUS
      <4>2. /\ File!IsLines(c) /\ Len(c) = Len(ls) + 1 /\ c[Len(c)] = File!Blank
            /\ \A i \in 1..Len(ls) : c[i] = ls[i]
        BY <1>2, <4>1, ClosedSame
      <4>3. DOMAIN c = 1..Len(c) /\ DOMAIN ls = 1..Len(ls) /\ Len(ls) \in Nat
        BY <1>2, <4>2, LinesFacts
      <4>4. \A i \in DOMAIN c : i \in 1..Len(ls) \/ i = Len(c)
        BY <4>2, <4>3
      <4>5. ASSUME NEW i \in DOMAIN c PROVE ~(c[i].kind = "section" /\ c[i].name = "server")
        <5>1. CASE i \in 1..Len(ls)
          BY <1>6, <4>2, <4>3, <5>1
        <5>2. CASE i = Len(c)
          <6>1. c[i].kind = "blank"
            BY <4>2, <5>2, LineFacts, Zenon
          <6> QED BY <6>1
        <5> QED BY <4>4, <5>1, <5>2
      <4>6. closed = c
        BY <3>2, <4>1, Zenon
      <4> HIDE DEF closed
      <4> QED BY <4>2, <4>5, <4>6
    <3> QED BY <2>5a, <3>1, <3>2
  <2> HIDE DEF closed
  <2>3. File!IsLines(g) /\ File!Once(g) /\ File!Loaded(g) = {k}
    BY <2>1, <2>2, SectionGains
  <2>4. \A i \in DOMAIN f : ~(f[i].kind = "section" /\ f[i].name = "server")
    BY <1>3, <1>5, <1>6
  <2>5. ~File!Spoiled(f) /\ \A kind : File!Of(f, kind) = {}
    <3>1. \A i \in DOMAIN f : \A h \in 1..i : h \in DOMAIN f
      BY LinesFacts
    <3> QED BY <2>4, <3>1 DEF File!Spoiled, File!Of, File!InSection
  <2>6. File!Once(f) => File!Loaded(f) = {}
    BY <2>5, LoadedOnce
  <2> QED BY <2>3, <2>5, <2>6 DEF Gains
<1>7. CASE heads # {}
  <2>1. PICK h \in File!Leading(heads) :
           g \in IF Below(h) = {} THEN {File!AtEnd(ls, k)}
                 ELSE {File!Hang(ls, i - h + 1, k) : i \in File!Leading(Below(h))}
    BY <1>1, <1>7
  <2>2. f # <<>> /\ ls = f
    BY <1>3, <1>4, <1>7
  <2>3. h \in heads /\ (\A j \in heads : h <= j) /\ h \in 1..Len(f) /\ Len(f) \in Nat /\ DOMAIN f = 1..Len(f)
    BY <2>1, <2>2, LinesFacts DEF File!Leading
  <2>4. CASE Below(h) = {}
    <3>1. ASSUME NEW i \in File!Of(f, "keys") PROVE FALSE
      <4>1. i \in 1..Len(f) /\ f[i].kind = "keys"
        BY <2>3 DEF File!Of
      <4>2. PICK j \in 1..i : f[j].kind = "section" /\ f[j].name = "server"
        BY DEF File!Of, File!InSection
      <4>3. j \in heads
        BY <2>2, <2>3, <4>1, <4>2
      <4>4. h <= j
        BY <2>3, <4>3
      <4>5. i \in Below(h)
        BY <2>2, <2>3, <4>1, <4>2, <4>4
      <4> QED BY <2>4, <4>5
    <3>2. g = File!AtEnd(f, k)
      BY <2>1, <2>2, <2>4
    <3> QED BY <1>3, <2>2, <3>1, <3>2, EndGains
  <2>5. CASE Below(h) # {}
    <3>1. PICK i \in File!Leading(Below(h)) : g = File!Hang(f, i - h + 1, k)
      BY <2>1, <2>2, <2>5
    <3>2. i \in 1..Len(f) /\ i >= h
      BY <2>2, <2>3, <3>1 DEF File!Leading
    <3>3. i - h + 1 \in 1..Len(f)
      BY <2>3, <3>2
    <3> QED BY <3>1, <3>3, HangGains
  <2> QED BY <2>4, <2>5
<1> QED BY <1>6, <1>7

\* A file that is the lines of another at some places, in their order.
TakenAt(g, f, places, m, at) ==
  /\ g = [k \in 1..m |-> f[at[k]]]
  /\ \A i \in places : \E k \in 1..m : at[k] = i
  /\ \A j, k \in 1..m : j < k => at[j] < at[k]

LEMMA InOrderAt ==
  ASSUME NEW n \in Nat, NEW f, NEW places \in SUBSET (1..n), NEW g \in File!At(f, places)
  PROVE  \E m \in Nat : \E at \in [1..m -> places] : TakenAt(g, f, places, m, at)
<1>1. PICK at : /\ at = File!Order(places)
                /\ g = [k \in DOMAIN at |-> f[at[k]]]
                /\ \A k \in DOMAIN at : at[k] \in places
                /\ \A i \in places : \E k \in DOMAIN at : at[k] = i
                /\ \A j, k \in DOMAIN at : j < k => at[j] < at[k]
  BY DEF File!At
<1>2. IsFiniteSet(places)
  <2>1. IsFiniteSet(1..n)
    BY FS_Interval
  <2> QED BY <2>1, FS_Subset
<1>3. PICK m \in Nat : m = File!Cardinality(places)
  BY <1>2, FS_CardinalityType, FileCounting
<1>4. DOMAIN at = 1..m /\ at = [k \in 1..m |-> at[k]]
  BY <1>1, <1>3 DEF File!Order
<1>5. at \in [1..m -> places]
  BY <1>1, <1>4
<1>6. /\ g = [k \in 1..m |-> f[at[k]]]
      /\ \A i \in places : \E k \in 1..m : at[k] = i
      /\ \A j, k \in 1..m : j < k => at[j] < at[k]
  BY <1>1, <1>4
<1>7. TakenAt(g, f, places, m, at)
  BY <1>6 DEF TakenAt
<1> QED BY <1>5, <1>7

\* The line that is loaded is one that a removal and a rotation find.
LEMMA EditedLines ==
  ASSUME NEW f, File!IsLines(f), ~File!Spoiled(f)
  PROVE  File!Of(f, "keys") \subseteq File!Edited(f)
<1> SUFFICES ASSUME NEW i \in File!Of(f, "keys") PROVE i \in File!Edited(f)
  OBVIOUS
<1>1. i \in DOMAIN f /\ f[i].kind = "keys" /\ DOMAIN f = 1..Len(f) /\ Len(f) \in Nat
  BY LinesFacts DEF File!Of
<1>2. PICK h \in 1..i : /\ f[h].kind = "section" /\ f[h].name = "server"
                        /\ \A j \in (h + 1)..i : f[j].kind # "section"
  BY DEF File!Of, File!InSection
<1>3. f[h].keys = {}
  <2>1. h \in DOMAIN f
    BY <1>1
  <2> QED BY <1>2, <2>1 DEF File!Spoiled
<1>4. File!Heading(f[h]) /\ \A j \in (h + 1)..i : ~File!Heading(f[j])
  BY <1>2, <1>3 DEF File!Heading
<1> QED BY <1>1, <1>2, <1>4 DEF File!Edited

\* What a removal leaves of a file: the lines that are not lines of keys, and
\* of those what was not removed.
LEMMA RemovingKeeps ==
  ASSUME NEW f, File!IsLines(f), NEW who, NEW g \in File!Removing(f, who)
  PROVE  /\ File!IsLines(g)
         /\ File!Once(f) =>
              /\ File!Once(g)
              /\ \/ File!Spoiled(g)
                 \/ ~File!Spoiled(f) /\ File!Loaded(g) = {k \in File!Loaded(f) : ~File!Matches(k, who)}
<1>0. PICK n \in Nat : Len(f) = n /\ DOMAIN f = 1..n
  BY LinesFacts
<1> DEFINE Kept(i) == {k \in f[i].keys : ~File!Matches(k, who)}
           thinned == [i \in DOMAIN f |-> IF i \in File!Edited(f) THEN File!KeysLine(Kept(i)) ELSE f[i]]
           places == {i \in DOMAIN f : i \in File!Edited(f) => Kept(i) # {}}
<1>1. g \in File!At(thinned, places)
  BY DEF File!Removing
<1>2. places \in SUBSET (1..n) /\ \A i \in 1..n : i \notin File!Edited(f) => i \in places
  BY <1>0
<1>3. \A i \in 1..n : i \in File!Edited(f) => f[i].kind = "keys"
  BY DEF File!Edited
<1>3a. \A i \in 1..n : thinned[i] = IF i \in File!Edited(f) THEN File!KeysLine(Kept(i)) ELSE f[i]
  BY <1>0
<1>3b. \A i \in 1..n : i \in places /\ i \in File!Edited(f) => Kept(i) # {}
  OBVIOUS
<1>3c. \A i \in 1..n : Kept(i) # {} => i \in places
  BY <1>0
<1> HIDE DEF places, thinned
<1>4. PICK m \in Nat : \E at \in [1..m -> places] : TakenAt(g, thinned, places, m, at)
  <2>1. places \in SUBSET (1..n)
    BY <1>2
  <2> QED BY <1>0, <1>1, <2>1, InOrderAt
<1>5. PICK at \in [1..m -> places] :
           /\ g = [k \in 1..m |-> thinned[at[k]]]
           /\ \A i \in places : \E k \in 1..m : at[k] = i
           /\ \A j, k \in 1..m : j < k => at[j] < at[k]
  BY <1>4 DEF TakenAt
<1>6. File!IsLines(g) /\ DOMAIN g = 1..m
  <2>1. DOMAIN g = 1..m /\ Len(g) = m
    BY <1>5
  <2>2. g = [k \in 1..m |-> g[k]]
    BY <1>5
  <2> QED BY <2>1, <2>2 DEF File!IsLines
<1> HIDE DEF Kept
<1>7. ASSUME NEW a \in 1..m
      PROVE  /\ at[a] \in 1..n /\ at[a] \in places
             /\ at[a] \in File!Edited(f) => g[a] = File!KeysLine(Kept(at[a]))
             /\ at[a] \notin File!Edited(f) => g[a] = f[at[a]]
             /\ g[a].kind = f[at[a]].kind
             /\ f[at[a]].kind = "section" => g[a] = f[at[a]]
  <2>1. at[a] \in places /\ at[a] \in 1..n
    BY <1>2
  <2>2. g[a] = thinned[at[a]]
    BY <1>5
  <2>3. g[a] = IF at[a] \in File!Edited(f) THEN File!KeysLine(Kept(at[a])) ELSE f[at[a]]
    BY <1>3a, <2>1, <2>2
  <2>4. at[a] \in File!Edited(f) => g[a].kind = "keys"
    BY <2>3, LineFacts
  <2> QED BY <1>3, <2>1, <2>3, <2>4
<1>8. \A a, b \in 1..m : /\ a < b <=> at[a] < at[b]
                         /\ at[a] = at[b] => a = b
  <2> SUFFICES ASSUME NEW a \in 1..m, NEW b \in 1..m
               PROVE  (a < b <=> at[a] < at[b]) /\ (at[a] = at[b] => a = b)
    OBVIOUS
  <2>1. at[a] \in 1..n /\ at[b] \in 1..n
    BY <1>7
  <2>2. (a < b => at[a] < at[b]) /\ (b < a => at[b] < at[a])
    BY <1>5
  <2> QED BY <2>1, <2>2
<1>9. ASSUME NEW j \in 1..n, f[j].kind # "keys" PROVE \E b \in 1..m : at[b] = j
  BY <1>2, <1>3, <1>5, <1>9
<1>10. ASSUME NEW a \in 1..m
       PROVE  File!InSection(g, a, "server") <=> File!InSection(f, at[a], "server")
  <2>0. at[a] \in 1..n
    BY <1>7
  <2>1. ASSUME File!InSection(f, at[a], "server") PROVE File!InSection(g, a, "server")
    <3>1. PICK h \in 1..at[a] : /\ f[h].kind = "section" /\ f[h].name = "server"
                                /\ \A j \in (h + 1)..at[a] : f[j].kind # "section"
      BY <2>1 DEF File!InSection
    <3>2. h \in 1..n /\ h <= at[a]
      BY <2>0
    <3>3. PICK b \in 1..m : at[b] = h
      BY <1>9, <3>1, <3>2
    <3>4. b \in 1..a
      <4>1. ~(a < b)
        BY <1>8, <2>0, <3>2, <3>3
      <4> QED BY <4>1
    <3>5. g[b].kind = "section" /\ g[b].name = "server"
      BY <1>7, <3>1, <3>3
    <3>6. ASSUME NEW j \in (b + 1)..a PROVE g[j].kind # "section"
      <4>1. j \in 1..m /\ b < j
        OBVIOUS
      <4>2. h < at[j]
        BY <1>8, <3>3, <4>1
      <4>3. at[j] <= at[a]
        <5>1. j = a \/ j < a
          OBVIOUS
        <5>2. at[j] \in 1..n
          BY <1>7, <4>1
        <5> QED BY <1>8, <2>0, <4>1, <5>1, <5>2
      <4>4. at[j] \in 1..n
        BY <1>7, <4>1
      <4>5. at[j] \in (h + 1)..at[a]
        BY <2>0, <4>2, <4>3, <4>4
      <4> QED BY <1>7, <3>1, <4>1, <4>5
    <3> QED BY <3>4, <3>5, <3>6 DEF File!InSection
  <2>2. ASSUME File!InSection(g, a, "server") PROVE File!InSection(f, at[a], "server")
    <3>1. PICK b \in 1..a : /\ g[b].kind = "section" /\ g[b].name = "server"
                            /\ \A j \in (b + 1)..a : g[j].kind # "section"
      BY <2>2 DEF File!InSection
    <3>2. b \in 1..m
      OBVIOUS
    <3>3. at[b] \in 1..at[a]
      <4>1. b = a \/ b < a
        OBVIOUS
      <4>2. at[b] \in 1..n
        BY <1>7, <3>2
      <4> QED BY <1>8, <2>0, <3>2, <4>1, <4>2
    <3>4. f[at[b]].kind = "section" /\ f[at[b]].name = "server"
      BY <1>7, <3>1, <3>2
    <3>5. ASSUME NEW j \in (at[b] + 1)..at[a], f[j].kind = "section" PROVE FALSE
      <4>1. j \in 1..n /\ at[b] < j /\ j <= at[a]
        BY <2>0, <3>3
      <4>2. PICK c \in 1..m : at[c] = j
        BY <1>9, <3>5, <4>1
      <4>3. b < c
        BY <1>8, <3>2, <4>1, <4>2
      <4>4. ~(a < c)
        BY <1>8, <2>0, <4>1, <4>2
      <4>5. c \in (b + 1)..a
        BY <4>3, <4>4
      <4>6. g[c].kind = "section"
        BY <1>7, <3>5, <4>2
      <4> QED BY <3>1, <4>5, <4>6
    <3> QED BY <3>3, <3>4, <3>5 DEF File!InSection
  <2> QED BY <2>1, <2>2
<1>11. ASSUME NEW kind, NEW a \in 1..m
       PROVE  a \in File!Of(g, kind) <=> at[a] \in File!Of(f, kind)
  BY <1>0, <1>6, <1>7, <1>10 DEF File!Of
<1>12. \A kind : \A a \in File!Of(g, kind) : a \in 1..m
  BY <1>6 DEF File!Of
<1>13. File!Of(f, "single") # {} <=> File!Of(g, "single") # {}
  <2>1. ASSUME NEW i \in File!Of(f, "single") PROVE File!Of(g, "single") # {}
    <3>1. i \in 1..n /\ f[i].kind # "keys"
      BY <1>0 DEF File!Of
    <3>2. PICK a \in 1..m : at[a] = i
      BY <1>9, <3>1
    <3> QED BY <1>11, <3>2
  <2>2. ASSUME NEW a \in File!Of(g, "single") PROVE File!Of(f, "single") # {}
    BY <1>11, <1>12
  <2> QED BY <2>1, <2>2
<1>14. File!Spoiled(f) => File!Spoiled(g)
  <2>1. ASSUME NEW i \in DOMAIN f, f[i].kind = "section" /\ f[i].name = "server" /\ f[i].keys # {}
        PROVE  File!Spoiled(g)
    <3>1. PICK a \in 1..m : at[a] = i
      BY <1>0, <1>9, <2>1
    <3>2. g[a] = f[i] /\ a \in DOMAIN g
      BY <1>6, <1>7, <2>1, <3>1
    <3> QED BY <2>1, <3>2 DEF File!Spoiled
  <2> QED BY <2>1 DEF File!Spoiled
<1>15. ASSUME File!Once(f) PROVE File!Once(g)
  <2>1. ASSUME NEW a \in File!Of(g, "keys"), NEW b \in File!Of(g, "keys") PROVE a = b
    <3>1. a \in 1..m /\ b \in 1..m
      BY <1>12
    <3>2. at[a] = at[b]
      BY <1>11, <1>15, <3>1 DEF File!Once
    <3> QED BY <1>8, <3>1, <3>2
  <2> QED BY <2>1 DEF File!Once
<1>16. ASSUME File!Once(f), ~File!Spoiled(f)
       PROVE  File!Loaded(g) = {k \in File!Loaded(f) : ~File!Matches(k, who)}
  <2>1. CASE File!Of(f, "single") # {}
    BY <1>6, <1>13, <1>15, <1>16, <2>1, LoadedOnce
  <2>2. CASE File!Of(f, "keys") = {}
    <3>1. File!Of(g, "keys") = {}
      BY <1>11, <1>12, <2>2
    <3> QED BY <1>6, <1>15, <1>16, <2>2, <3>1, LoadedOnce
  <2>3. CASE File!Of(f, "single") = {} /\ File!Of(f, "keys") # {}
    <3>1. PICK i \in File!Of(f, "keys") : TRUE
      BY <2>3
    <3>2. File!Loaded(f) = f[i].keys /\ i \in 1..n /\ File!Of(f, "keys") = {i}
      BY <1>0, <1>16, <2>3, <3>1, LoadedOnce DEF File!Of, File!Once
    <3>3. i \in File!Edited(f)
      BY <1>16, <3>1, EditedLines
    <3>4. Kept(i) = {k \in File!Loaded(f) : ~File!Matches(k, who)}
      BY <3>2 DEF Kept
    <3>5. CASE Kept(i) # {}
      <4>1. PICK a \in 1..m : at[a] = i
        BY <1>3c, <1>5, <3>2, <3>5
      <4>2. a \in File!Of(g, "keys") /\ g[a].keys = Kept(i)
        BY <1>7, <1>11, <3>1, <3>3, <4>1, LineFacts
      <4>3. File!Loaded(g) = g[a].keys
        BY <1>6, <1>13, <1>15, <1>16, <2>3, <4>2, LoadedOnce
      <4> QED BY <3>4, <4>2, <4>3
    <3>6. CASE Kept(i) = {}
      <4>1. ASSUME NEW a \in File!Of(g, "keys") PROVE FALSE
        <5>1. a \in 1..m /\ at[a] = i
          BY <1>11, <1>12, <3>2
        <5> QED BY <1>3b, <1>7, <3>2, <3>3, <3>6, <5>1
      <4>2. File!Loaded(g) = {}
        BY <1>6, <1>15, <1>16, <4>1, LoadedOnce
      <4> QED BY <3>4, <3>6, <4>2
    <3> QED BY <3>5, <3>6
  <2> QED BY <2>1, <2>2, <2>3
<1> QED BY <1>6, <1>14, <1>15, <1>16

\* A rotation changes the entries of the lines of keys, and nothing else.
LEMMA RotatingKeeps ==
  ASSUME NEW f, File!IsLines(f), NEW who, NEW v
  PROVE  /\ File!IsLines(File!Rotating(f, who, v))
         /\ File!Once(f) =>
              /\ File!Once(File!Rotating(f, who, v))
              /\ \/ File!Spoiled(File!Rotating(f, who, v))
                 \/ /\ ~File!Spoiled(f)
                    /\ File!Loaded(File!Rotating(f, who, v)) = {File!Rotated(k, who, v) : k \in File!Loaded(f)}
<1> DEFINE g == File!Rotating(f, who, v)
           New(i) == {File!Rotated(k, who, v) : k \in f[i].keys}
<1>0. PICK n \in Nat : Len(f) = n /\ DOMAIN f = 1..n
  BY LinesFacts
<1>1. g = [i \in 1..n |-> IF i \in File!Edited(f) THEN File!KeysLine(New(i)) ELSE f[i]]
  BY <1>0 DEF File!Rotating
<1>2. \A i \in 1..n : i \in File!Edited(f) => f[i].kind = "keys"
  BY DEF File!Edited
<1> HIDE DEF g, New
<1>3. DOMAIN g = 1..n /\ File!IsLines(g)
  <2>1. DOMAIN g = 1..n /\ Len(g) = n
    BY <1>1
  <2>2. g = [k \in 1..n |-> g[k]]
    BY <1>1
  <2> QED BY <2>1, <2>2 DEF File!IsLines
<1>4. ASSUME NEW i \in 1..n
      PROVE  /\ g[i].kind = f[i].kind
             /\ i \in File!Edited(f) => g[i].keys = New(i)
             /\ f[i].kind = "section" => g[i] = f[i]
  <2>1. g[i] = IF i \in File!Edited(f) THEN File!KeysLine(New(i)) ELSE f[i]
    BY <1>1
  <2>2. i \in File!Edited(f) => g[i].kind = "keys" /\ g[i].keys = New(i)
    BY <2>1, LineFacts
  <2> QED BY <1>2, <2>1, <2>2
<1>5. (\A kind : File!Of(g, kind) = File!Of(f, kind)) /\ (File!Once(f) => File!Once(g))
  BY <1>0, <1>3, <1>4, SameKinds
<1>6. File!Spoiled(f) => File!Spoiled(g)
  BY <1>0, <1>3, <1>4 DEF File!Spoiled
<1>7. ASSUME File!Once(f), ~File!Spoiled(f)
      PROVE  File!Loaded(g) = {File!Rotated(k, who, v) : k \in File!Loaded(f)}
  <2>1. CASE File!Of(f, "single") # {} \/ File!Of(f, "keys") = {}
    <3>1. File!Loaded(f) = {} /\ File!Loaded(g) = {}
      BY <1>3, <1>5, <1>7, <2>1, LoadedOnce
    <3> QED BY <3>1
  <2>2. CASE File!Of(f, "single") = {} /\ File!Of(f, "keys") # {}
    <3>1. PICK i \in File!Of(f, "keys") : TRUE
      BY <2>2
    <3>2. File!Loaded(f) = f[i].keys
      BY <1>7, <2>2, <3>1, LoadedOnce
    <3>3. File!Loaded(g) = g[i].keys
      BY <1>3, <1>5, <1>7, <2>2, <3>1, LoadedOnce
    <3>4. i \in 1..n /\ i \in File!Edited(f)
      BY <1>0, <1>7, <3>1, EditedLines DEF File!Of
    <3> QED BY <1>4, <3>2, <3>3, <3>4 DEF New
  <2> QED BY <2>1, <2>2
<1> QED BY <1>3, <1>5, <1>6, <1>7 DEF g

\* A file that begins with [server], line by line.
LEMMA KindsOfLines ==
  ASSUME NEW f, File!ServerFirst(f)
  PROVE  /\ File!IsLines(f) /\ Len(f) \in Nat \ {0} /\ DOMAIN f = 1..Len(f) /\ 1 \in DOMAIN f
         /\ f[1].kind = "section" /\ f[1].name = "server" /\ f[1].keys = {}
         /\ f[Len(f)].kind = "blank" /\ Len(f) # 1
         /\ \A i \in DOMAIN f : i # 1 =>
              /\ f[i].kind \in {"keys", "setting", "blank"}
              /\ f[i].kind # "keys" => f[i].keys = {}
<1>1. Len(f) \in Nat \ {0} /\ DOMAIN f = 1..Len(f) /\ 1 \in DOMAIN f
  BY LinesFacts DEF File!ServerFirst
<1>2. f[1].kind = "section" /\ f[1].name = "server" /\ f[1].keys = {} /\ f[Len(f)].kind = "blank"
  BY LineFacts DEF File!ServerFirst
<1>3. ASSUME NEW i \in DOMAIN f, i # 1
      PROVE  f[i].kind \in {"keys", "setting", "blank"} /\ (f[i].kind # "keys" => f[i].keys = {})
  <2>1. i \in 2..Len(f)
    BY <1>1, <1>3
  <2>2. CASE f[i] = File!KeysLine(f[i].keys)
    BY <2>2, LineFacts
  <2>3. CASE f[i] = File!Setting
    BY <2>3, LineFacts
  <2>4. CASE f[i] = File!Blank
    BY <2>4, LineFacts
  <2> QED BY <2>1, <2>2, <2>3, <2>4 DEF File!ServerFirst
<1> QED BY <1>1, <1>2, <1>3 DEF File!ServerFirst

\* Every line is of the section; the list is there once at most.
LEMMA AllServer ==
  ASSUME NEW f, File!ServerFirst(f)
  PROVE  /\ File!Of(f, "keys") = {i \in DOMAIN f : f[i].kind = "keys"}
         /\ File!Of(f, "single") = {}
         /\ File!Edited(f) = {i \in DOMAIN f : f[i].kind = "keys"}
         /\ File!Once(f) /\ ~File!Spoiled(f)
<1>1. ASSUME NEW i \in DOMAIN f
      PROVE  1 \in 1..i /\ \A j \in (1 + 1)..i : j \in DOMAIN f /\ f[j].kind # "section"
  BY KindsOfLines
<1>2. \A i \in DOMAIN f : File!InSection(f, i, "server")
  BY <1>1, KindsOfLines DEF File!InSection
<1>3. File!Of(f, "keys") = {i \in DOMAIN f : f[i].kind = "keys"}
  BY <1>2 DEF File!Of
<1>4. File!Of(f, "single") = {}
  <2>1. \A i \in DOMAIN f : f[i].kind # "single"
    BY KindsOfLines
  <2> QED BY <2>1 DEF File!Of
<1>5. File!Heading(f[1]) /\ \A i \in DOMAIN f : \A j \in (1 + 1)..i : ~File!Heading(f[j])
  BY <1>1, KindsOfLines DEF File!Heading
<1>6. File!Edited(f) = {i \in DOMAIN f : f[i].kind = "keys"}
  BY <1>1, <1>5, KindsOfLines DEF File!Edited
<1>7. File!Once(f)
  BY <1>3 DEF File!Once, File!ServerFirst
<1>8. ~File!Spoiled(f)
  BY KindsOfLines DEF File!Spoiled
<1> QED BY <1>3, <1>4, <1>6, <1>7, <1>8

\* What is loaded is what the line of keys has.
LEMMA LoadedLine ==
  ASSUME NEW f, File!ServerFirst(f)
  PROVE  /\ \A i \in DOMAIN f : f[i].kind = "keys" => File!Loaded(f) = f[i].keys
         /\ (\A i \in DOMAIN f : f[i].kind # "keys") => File!Loaded(f) = {}
<1>1. File!IsLines(f) /\ File!Once(f) /\ File!Of(f, "single") = {}
  BY AllServer, KindsOfLines
<1>2. ASSUME NEW i \in DOMAIN f, f[i].kind = "keys" PROVE File!Loaded(f) = f[i].keys
  <2>1. i \in File!Of(f, "keys")
    BY <1>2, AllServer
  <2> QED BY <1>1, <2>1, LoadedOnce
<1>3. ASSUME \A i \in DOMAIN f : f[i].kind # "keys" PROVE File!Loaded(f) = {}
  <2>1. File!Of(f, "keys") = {}
    BY <1>3, AllServer
  <2> QED BY <1>1, <2>1, LoadedOnce
<1> QED BY <1>2, <1>3

Lined(g, m) == g = [j \in 1..m |-> g[j]]

\* Lines that make such a file: one of them, at, may be the line of keys.
LEMMA ServerFirstOf ==
  ASSUME NEW g, NEW m \in Nat \ {0}, NEW at \in 2..m, NEW ks,
         Lined(g, m), g[1] = File!Section("server"), g[m] = File!Blank,
         g[at] = File!KeysLine(ks),
         \A j \in 2..m : j # at => g[j] \in {File!Setting, File!Blank}
  PROVE  File!ServerFirst(g) /\ File!Loaded(g) = ks
<1>1. Len(g) = m /\ DOMAIN g = 1..m /\ g = [j \in 1..m |-> g[j]] /\ File!IsLines(g)
  <2>1. g = [j \in 1..m |-> g[j]]
    BY DEF Lined
  <2>2. Len(g) = m /\ DOMAIN g = 1..m
    BY <2>1
  <2> QED BY <2>1, <2>2 DEF File!IsLines
<1>2. g[at].kind = "keys" /\ g[at].keys = ks
  BY LineFacts
<1>3. ASSUME NEW a \in 1..m, g[a].kind = "keys" PROVE a = at
  <2>1. g[a] \notin {File!Section("server"), File!Setting, File!Blank}
    BY <1>3, LineFacts
  <2>2. a # 1
    BY <2>1
  <2>3. a \in 2..m
    BY <2>2
  <2> QED BY <2>1, <2>3
<1>4. File!ServerFirst(g)
  <2>1. \A j \in 2..Len(g) : g[j] \in {File!Setting, File!Blank} \/ g[j] = File!KeysLine(g[j].keys)
    BY <1>1, <1>2
  <2>2. \A a, b \in DOMAIN g : g[a].kind = "keys" /\ g[b].kind = "keys" => a = b
    BY <1>1, <1>3
  <2> QED BY <1>1, <2>1, <2>2 DEF File!ServerFirst
<1>5. at \in DOMAIN g
  BY <1>1
<1> QED BY <1>2, <1>4, <1>5, LoadedLine

LEMMA NoKeysOf ==
  ASSUME NEW g, NEW m \in Nat \ {0},
         Lined(g, m), g[1] = File!Section("server"), g[m] = File!Blank,
         \A j \in 2..m : g[j] \in {File!Setting, File!Blank}
  PROVE  File!ServerFirst(g) /\ File!Loaded(g) = {}
<1>1. Len(g) = m /\ DOMAIN g = 1..m /\ File!IsLines(g)
  <2>1. g = [j \in 1..m |-> g[j]]
    BY DEF Lined
  <2>2. Len(g) = m /\ DOMAIN g = 1..m
    BY <2>1
  <2> QED BY <2>1, <2>2 DEF File!IsLines
<1>2. ASSUME NEW a \in 1..m PROVE g[a].kind # "keys"
  <2>1. a = 1 \/ a \in 2..m
    OBVIOUS
  <2> QED BY <2>1, LineFacts
<1>3. File!ServerFirst(g)
  BY <1>1, <1>2 DEF File!ServerFirst
<1> QED BY <1>1, <1>2, <1>3, LoadedLine

\* The lines of such a file.
LEMMA LinesOf ==
  ASSUME NEW f, File!ServerFirst(f)
  PROVE  /\ \A i \in DOMAIN f : f[i].kind = "keys" =>
              /\ i \in 2..Len(f) /\ i # Len(f) /\ f[i] = File!KeysLine(f[i].keys)
              /\ f[i].name = "" /\ File!Loaded(f) = f[i].keys
              /\ \A j \in 2..Len(f) : j # i => f[j] \in {File!Setting, File!Blank}
         /\ (\A i \in DOMAIN f : f[i].kind # "keys") =>
              \A j \in 2..Len(f) : f[j] \in {File!Setting, File!Blank}
<1>0. \A j \in 2..Len(f) : j \in DOMAIN f
  BY KindsOfLines
<1>1. \A j \in 2..Len(f) : f[j].kind # "keys" => f[j] \in {File!Setting, File!Blank}
  <2> SUFFICES ASSUME NEW j \in 2..Len(f), f[j] = File!KeysLine(f[j].keys) PROVE f[j].kind = "keys"
    BY DEF File!ServerFirst
  <2> QED BY LineFacts
<1>2. ASSUME NEW i \in DOMAIN f, f[i].kind = "keys"
      PROVE  /\ i \in 2..Len(f) /\ i # Len(f) /\ f[i] = File!KeysLine(f[i].keys) /\ f[i].name = ""
             /\ \A j \in 2..Len(f) : j # i => f[j] \in {File!Setting, File!Blank}
  <2>1. i \in 2..Len(f) /\ i # Len(f)
    BY <1>2, KindsOfLines
  <2>2. f[i] \notin {File!Setting, File!Blank}
    BY <1>2, LineFacts
  <2>3. f[i] = File!KeysLine(f[i].keys)
    BY <2>1, <2>2 DEF File!ServerFirst
  <2>4. f[i].name = ""
    BY <2>3, LineFacts
  <2>5. \A j \in 2..Len(f) : j # i => f[j].kind # "keys"
    BY <1>0, <1>2 DEF File!ServerFirst
  <2> QED BY <2>1, <2>3, <2>4, <2>5, <1>1
<1> QED BY <1>0, <1>1, <1>2, LoadedLine

\* An added entry goes into the line of keys, or becomes one.
LEMMA AddingSound ==
  ASSUME NEW f, File!ServerFirst(f), NEW k,
         NEW g \in File!Adding(f, k)
  PROVE  File!ServerFirst(g) /\ File!Loaded(g) = File!Loaded(f) \cup {k}
<1>0. PICK n \in Nat \ {0} : Len(f) = n /\ n # 1 /\ DOMAIN f = 1..n
  BY KindsOfLines
<1> DEFINE heads == {i \in DOMAIN f : f[i].kind = "section" /\ f[i].name = "server"}
           Below(h) == {i \in DOMAIN f : f[i].kind = "keys" /\ i >= h}
<1>1. heads = {1} /\ File!Leading(heads) = {1}
  <2>1. heads = {1}
    BY <1>0, KindsOfLines
  <2> QED BY <2>1 DEF File!Leading
<1>2. Below(1) = {i \in 1..n : f[i].kind = "keys"}
  BY <1>0
<1>3. g \in IF Below(1) = {} THEN {File!AtEnd(f, k)} ELSE {File!Hang(f, i - 1 + 1, k) : i \in File!Leading(Below(1))}
  <2>1. f # <<>>
    BY <1>0
  <2>3. PICK h \in File!Leading(heads) :
           g \in IF Below(h) = {} THEN {File!AtEnd(f, k)}
                 ELSE {File!Hang(f, i - h + 1, k) : i \in File!Leading(Below(h))}
    <3> DEFINE ls == IF f = <<>> THEN <<File!Blank>> ELSE f
               hs == {i \in DOMAIN ls : ls[i].kind = "section" /\ ls[i].name = "server"}
               Bs(h) == {i \in DOMAIN ls : ls[i].kind = "keys" /\ i >= h}
               closed == IF ls[Len(ls)] = File!Blank THEN ls ELSE Append(ls, File!Blank)
    <3>1. g \in IF hs = {}
                THEN {closed \o <<File!Section("server"), File!Blank, File!KeysLine({k}), File!Blank>>}
                ELSE UNION {IF Bs(h) = {} THEN {File!AtEnd(ls, k)}
                            ELSE {File!Hang(ls, i - h + 1, k) : i \in File!Leading(Bs(h))} : h \in File!Leading(hs)}
      BY DEF File!Adding
    <3>2. ls = f
      BY <2>1
    <3> HIDE DEF ls
    <3>3. hs = heads
      BY <3>2
    <3>4. PICK h \in File!Leading(hs) :
             g \in IF Bs(h) = {} THEN {File!AtEnd(ls, k)}
                   ELSE {File!Hang(ls, i - h + 1, k) : i \in File!Leading(Bs(h))}
      BY <1>1, <3>1, <3>3
    <3>5. Bs(h) = Below(h)
      BY <3>2
    <3> HIDE DEF hs, heads, Bs, Below
    <3> QED BY <3>2, <3>3, <3>4, <3>5
  <2>4. h = 1
    BY <1>1, <2>3
  <2> QED BY <2>3, <2>4
<1> HIDE DEF heads
<1>4. CASE Below(1) # {}
  <2>1. PICK i \in File!Leading(Below(1)) : g = File!Hang(f, i - 1 + 1, k)
    BY <1>3, <1>4
  <2>2. i \in 1..n /\ f[i].kind = "keys" /\ i - 1 + 1 = i
    BY <1>2, <2>1 DEF File!Leading
  <2>4. g = File!Hang(f, i, k)
    BY <2>1, <2>2
  <2>5. [kind |-> f[i].kind, name |-> f[i].name, keys |-> f[i].keys \cup {k}] = File!KeysLine(f[i].keys \cup {k})
    BY <1>0, <2>2, LinesOf DEF File!KeysLine
  <2>6. f = [j \in 1..n |-> f[j]]
    BY <1>0 DEF File!ServerFirst, File!IsLines
  <2>7. /\ Lined(g, n) /\ g[i] = File!KeysLine(f[i].keys \cup {k})
        /\ \A j \in 1..n : j # i => g[j] = f[j]
    BY <2>2, <2>4, <2>5, <2>6 DEF File!Hang, Lined
  <2>8. i \in 2..n /\ i # n /\ File!Loaded(f) = f[i].keys
        /\ \A j \in 2..n : j # i => f[j] \in {File!Setting, File!Blank}
    BY <1>0, <2>2, LinesOf
  <2>9. f[1] = File!Section("server") /\ f[n] = File!Blank
    BY <1>0 DEF File!ServerFirst
  <2>10. g[1] = File!Section("server") /\ g[n] = File!Blank
         /\ \A j \in 2..n : j # i => g[j] \in {File!Setting, File!Blank}
    <3> QED BY <1>0, <2>7, <2>8, <2>9
  <2>11. File!ServerFirst(g) /\ File!Loaded(g) = f[i].keys \cup {k}
    BY <2>7, <2>8, <2>10, ServerFirstOf
  <2> QED BY <2>8, <2>11
<1>5. CASE Below(1) = {}
  <2> DEFINE h == [f EXCEPT ![n] = File!KeysLine({k})]
  <2>1. g = Append(h, File!Blank)
    <3>1. f[Len(f)] = File!Blank
      BY DEF File!ServerFirst
    <3> QED BY <1>0, <1>3, <1>5, <3>1 DEF File!AtEnd
  <2>2. f = [j \in 1..n |-> f[j]] /\ f[1] = File!Section("server")
    BY <1>0 DEF File!ServerFirst, File!IsLines
  <2>3. h = [j \in 1..n |-> h[j]] /\ h[n] = File!KeysLine({k}) /\ \A j \in 1..n : j # n => h[j] = f[j]
    <3>1. n \in 1..n
      OBVIOUS
    <3>2. h = [j \in 1..n |-> IF j = n THEN File!KeysLine({k}) ELSE f[j]]
      BY <2>2, <3>1, <1>0
    <3> HIDE DEF h
    <3> QED BY <3>1, <3>2
  <2> HIDE DEF h
  <2>4. h \in Seq({h[j] : j \in 1..n} \cup {File!Blank}) /\ Len(h) = n
    BY <2>3
  <2>5. g \in Seq({h[j] : j \in 1..n} \cup {File!Blank}) /\ Len(g) = n + 1
        /\ \A j \in 1..(n + 1) : g[j] = IF j = n + 1 THEN File!Blank ELSE h[j]
    <3> QED BY <2>1, <2>4, AppendProperties
  <2>6. g = [j \in 1..(n + 1) |-> g[j]] /\ g[n + 1] = File!Blank /\ \A j \in 1..n : g[j] = h[j]
    BY <2>5
  <2>7. \A j \in 2..n : f[j] \in {File!Setting, File!Blank}
    BY <1>0, <1>2, <1>5, LinesOf
  <2>8. g[1] = File!Section("server") /\ g[n] = File!KeysLine({k})
        /\ \A j \in 2..(n + 1) : j # n => g[j] \in {File!Setting, File!Blank}
    <3>1. 1 \in 1..n /\ n \in 1..n /\ 1 # n
      BY <1>0
    <3>2. g[1] = File!Section("server") /\ g[n] = File!KeysLine({k})
      BY <2>2, <2>3, <2>6, <3>1
    <3>3. ASSUME NEW j \in 2..(n + 1), j # n PROVE g[j] \in {File!Setting, File!Blank}
      <4>1. CASE j = n + 1
        BY <2>6, <4>1
      <4>2. CASE j # n + 1
        <5>1. j \in 2..n /\ j \in 1..n
          BY <3>3, <4>2
        <5> QED BY <2>3, <2>6, <2>7, <3>3, <5>1
      <4> QED BY <4>1, <4>2
    <3> QED BY <3>2, <3>3
  <2>9. File!ServerFirst(g) /\ File!Loaded(g) = {k}
    <3>1. PICK m \in Nat \ {0} : m = n + 1 /\ n \in 2..m
      BY <1>0
    <3>2. /\ Lined(g, m) /\ g[m] = File!Blank
          /\ \A j \in 2..m : j # n => g[j] \in {File!Setting, File!Blank}
      BY <2>6, <2>8, <3>1 DEF Lined
    <3> QED BY <2>8, <3>1, <3>2, ServerFirstOf
  <2>10. File!Loaded(f) = {}
    BY <1>0, <1>2, <1>5, LoadedLine
  <2> QED BY <2>9, <2>10
<1> QED BY <1>4, <1>5

\* With the first and the last line among those that are taken.
LEMMA InOrderEnds ==
  ASSUME NEW n \in Nat \ {0}, n # 1, NEW f, NEW places \in SUBSET (1..n), 1 \in places, n \in places,
         NEW g \in File!At(f, places)
  PROVE  \E m \in Nat \ {0} : \E at \in [1..m -> places] :
           /\ g = [k \in 1..m |-> f[at[k]]] /\ at[1] = 1 /\ at[m] = n /\ m # 1
           /\ \A i \in places : \E k \in 1..m : at[k] = i
           /\ \A j, k \in 1..m : j < k => at[j] < at[k]
<1>1. PICK m \in Nat : \E at \in [1..m -> places] : TakenAt(g, f, places, m, at)
  <2>1. n \in Nat
    OBVIOUS
  <2> QED BY <2>1, InOrderAt
<1>4. PICK at \in [1..m -> places] :
           /\ g = [k \in 1..m |-> f[at[k]]]
           /\ \A i \in places : \E k \in 1..m : at[k] = i
           /\ \A j, k \in 1..m : j < k => at[j] < at[k]
  BY <1>1 DEF TakenAt
<1>5. PICK a \in 1..m : at[a] = 1
  BY <1>4
<1>6. PICK b \in 1..m : at[b] = n
  BY <1>4
<1>7. m # 0 /\ m # 1
  <2>1. a # b
    BY <1>5, <1>6
  <2> QED BY <1>5, <1>6, <2>1
<1>8. 1 \in 1..m /\ m \in 1..m
  BY <1>7
<1>9. at[1] = 1
  <2>1. at[1] \in 1..n
    BY <1>8
  <2>2. a # 1 => at[1] < at[a]
    BY <1>4, <1>5, <1>8
  <2> QED BY <2>1, <2>2, <1>5
<1>10. at[m] = n
  <2>1. at[m] \in 1..n
    BY <1>8
  <2>2. b # m => b < m
    BY <1>6, <1>8
  <2>3. b # m => at[b] < at[m]
    BY <1>4, <1>6, <1>8, <2>2
  <2> QED BY <2>1, <2>3, <1>6
<1> QED BY <1>4, <1>7, <1>9, <1>10

\* What a removal leaves of the entries.
LEMMA RemovingSound ==
  ASSUME NEW f, File!ServerFirst(f), NEW who, NEW g \in File!Removing(f, who)
  PROVE  File!ServerFirst(g) /\ File!Loaded(g) = {k \in File!Loaded(f) : ~File!Matches(k, who)}
<1>0. PICK n \in Nat \ {0} : Len(f) = n /\ n # 1 /\ DOMAIN f = 1..n
  BY KindsOfLines
<1> DEFINE Kept(i) == {k \in f[i].keys : ~File!Matches(k, who)}
           thinned == [i \in DOMAIN f |-> IF i \in File!Edited(f) THEN File!KeysLine(Kept(i)) ELSE f[i]]
           places == {i \in DOMAIN f : i \in File!Edited(f) => Kept(i) # {}}
<1>1. g \in File!At(thinned, places)
  BY DEF File!Removing
<1>2. File!Edited(f) = {i \in 1..n : f[i].kind = "keys"}
  BY <1>0, AllServer
<1>3. 1 \in places /\ n \in places /\ places \in SUBSET (1..n) /\ 1 \notin File!Edited(f) /\ n \notin File!Edited(f)
  <2>1. 1 \in 1..n /\ n \in 1..n /\ f[1].kind # "keys" /\ f[n].kind # "keys"
    BY <1>0, KindsOfLines
  <2> QED BY <1>0, <1>2, <2>1
<1> HIDE DEF places
<1>4. PICK m \in Nat \ {0} : \E at \in [1..m -> places] :
           /\ g = [k \in 1..m |-> thinned[at[k]]] /\ at[1] = 1 /\ at[m] = n /\ m # 1
           /\ \A i \in places : \E k \in 1..m : at[k] = i
           /\ \A j, k \in 1..m : j < k => at[j] < at[k]
  <2> HIDE DEF thinned
  <2> QED BY <1>0, <1>1, <1>3, InOrderEnds
<1>4a. PICK at \in [1..m -> places] :
           /\ g = [k \in 1..m |-> thinned[at[k]]] /\ at[1] = 1 /\ at[m] = n /\ m # 1
           /\ \A i \in places : \E k \in 1..m : at[k] = i
           /\ \A j, k \in 1..m : j < k => at[j] < at[k]
  BY <1>4
<1>5. ASSUME NEW k \in 1..m
      PROVE  /\ at[k] \in 1..n /\ at[k] \in places
             /\ at[k] \in File!Edited(f) => g[k] = File!KeysLine(Kept(at[k]))
             /\ at[k] \notin File!Edited(f) => g[k] = f[at[k]]
  BY <1>0, <1>3, <1>4a
<1>6. 1 \in 1..m /\ m \in 1..m /\ Lined(g, m)
  BY <1>4a DEF Lined
<1>7. g[1] = File!Section("server") /\ g[m] = File!Blank
  <2>1. f[1] = File!Section("server") /\ f[n] = File!Blank
    BY <1>0 DEF File!ServerFirst
  <2> HIDE DEF thinned, Kept
  <2> QED BY <1>3, <1>4a, <1>5, <1>6, <2>1
<1>8. ASSUME NEW k \in 2..m PROVE k \in 1..m /\ at[k] \in 2..n
  <2>1. k \in 1..m /\ 1 < k
    OBVIOUS
  <2>2. at[1] < at[k]
    BY <1>4a, <1>6, <2>1
  <2>3. at[k] \in 1..n
    BY <1>5, <2>1
  <2> QED BY <1>4a, <2>1, <2>2, <2>3
<1>9. CASE \E i \in 1..n : f[i].kind = "keys" /\ Kept(i) # {}
  <2>1. PICK i \in 1..n : f[i].kind = "keys" /\ Kept(i) # {}
    BY <1>9
  <2>2. i \in places
    BY <1>0, <2>1 DEF places
  <2>3. PICK a \in 1..m : at[a] = i
    BY <1>4a, <2>2
  <2>4. File!Loaded(f) = f[i].keys /\ \A j \in 2..n : j # i => f[j] \in {File!Setting, File!Blank}
    BY <1>0, <2>1, LinesOf
  <2>5. g[a] = File!KeysLine(Kept(i)) /\ a # 1
    <3> HIDE DEF thinned, Kept
    <3> QED BY <1>2, <1>3, <1>4a, <1>5, <2>1, <2>3
  <2>6. ASSUME NEW k \in 2..m, k # a PROVE g[k] \in {File!Setting, File!Blank}
    <3>1. k \in 1..m /\ at[k] \in 2..n
      BY <1>8
    <3>2. at[k] # i
      <4>1. k < a \/ a < k
        BY <2>6, <2>3
      <4> QED BY <1>4a, <1>5, <2>3, <3>1, <4>1
    <3>3. at[k] \notin File!Edited(f)
      <4>1. f[at[k]].kind # "keys"
        BY <2>4, <3>1, <3>2, LineFacts
      <4> QED BY <1>2, <4>1
    <3> HIDE DEF thinned, Kept
    <3> QED BY <1>5, <2>4, <3>1, <3>2, <3>3
  <2>7. a \in 2..m
    BY <2>5
  <2> HIDE DEF thinned
  <2>8. File!ServerFirst(g) /\ File!Loaded(g) = Kept(i)
    <3>1. PICK ks : ks = Kept(i)
      OBVIOUS
    <3>2. g[a] = File!KeysLine(ks)
      BY <2>5, <3>1
    <3>3. \A k \in 2..m : k # a => g[k] \in {File!Setting, File!Blank}
      BY <2>6
    <3> HIDE DEF Kept
    <3>4. File!ServerFirst(g) /\ File!Loaded(g) = ks
      BY <1>6, <1>7, <2>7, <3>2, <3>3, ServerFirstOf
    <3> QED BY <3>1, <3>4
  <2> QED BY <2>4, <2>8
<1>10. CASE \A i \in 1..n : f[i].kind = "keys" => Kept(i) = {}
  <2>1. ASSUME NEW i \in 1..n, f[i].kind = "keys" PROVE i \notin places
    <3>1. i \in File!Edited(f) /\ Kept(i) = {}
      BY <1>2, <1>10, <2>1
    <3> HIDE DEF Kept, thinned
    <3> QED BY <3>1 DEF places
  <2>2. ASSUME NEW k \in 2..m PROVE g[k] \in {File!Setting, File!Blank}
    <3>1. k \in 1..m /\ at[k] \in 2..n /\ at[k] \in 1..n /\ at[k] \in places
      BY <1>5, <1>8
    <3>2. at[k] \notin File!Edited(f)
      BY <1>2, <2>1, <3>1
    <3>3. f[at[k]].kind # "keys"
      BY <1>2, <3>1, <3>2
    <3>4. f[at[k]] \in {File!Setting, File!Blank}
      <4>1. f[at[k]] \in {File!Setting, File!Blank} \/ f[at[k]] = File!KeysLine(f[at[k]].keys)
        BY <1>0, <3>1 DEF File!ServerFirst
      <4> QED BY <3>3, <4>1, LineFacts
    <3> HIDE DEF thinned, Kept
    <3> QED BY <1>5, <3>1, <3>2, <3>4
  <2> HIDE DEF thinned
  <2>3. File!ServerFirst(g) /\ File!Loaded(g) = {}
    BY <1>4a, <1>6, <1>7, <2>2, NoKeysOf
  <2>4. File!Loaded(f) = {} \/ \E i \in 1..n : f[i].kind = "keys" /\ File!Loaded(f) = f[i].keys
    BY <1>0, LoadedLine
  <2> QED BY <1>10, <2>3, <2>4
<1> QED BY <1>9, <1>10

\* A rotation changes the entries of the line of keys.
LEMMA RotatingSound ==
  ASSUME NEW f, File!ServerFirst(f), NEW who, NEW v
  PROVE  /\ File!ServerFirst(File!Rotating(f, who, v))
         /\ File!Loaded(File!Rotating(f, who, v)) = {File!Rotated(k, who, v) : k \in File!Loaded(f)}
<1> DEFINE g == File!Rotating(f, who, v)
           New(i) == {File!Rotated(k, who, v) : k \in f[i].keys}
<1>0. PICK n \in Nat \ {0} : Len(f) = n /\ n # 1 /\ DOMAIN f = 1..n
  BY KindsOfLines
<1>1. File!Edited(f) = {i \in 1..n : f[i].kind = "keys"}
  BY <1>0, AllServer
<1>2. g = [i \in 1..n |-> IF i \in File!Edited(f) THEN File!KeysLine(New(i)) ELSE f[i]]
  BY <1>0 DEF File!Rotating
<1> HIDE DEF g, New
<1>3. Lined(g, n) /\ 1 \in 1..n /\ n \in 1..n
  BY <1>2 DEF Lined
<1>4. ASSUME NEW i \in 1..n
      PROVE  (f[i].kind = "keys" => g[i] = File!KeysLine(New(i))) /\ (f[i].kind # "keys" => g[i] = f[i])
  BY <1>1, <1>2
<1>5. g[1] = File!Section("server") /\ g[n] = File!Blank
  <2>1. f[1] = File!Section("server") /\ f[n] = File!Blank
    BY <1>0 DEF File!ServerFirst
  <2>2. f[1].kind # "keys" /\ f[n].kind # "keys"
    BY <2>1, LineFacts
  <2> QED BY <1>3, <1>4, <2>1, <2>2
<1>6. CASE \E i \in 1..n : f[i].kind = "keys"
  <2>1. PICK i \in 1..n : f[i].kind = "keys"
    BY <1>6
  <2>2. i \in 2..n /\ File!Loaded(f) = f[i].keys /\ \A j \in 2..n : j # i => f[j] \in {File!Setting, File!Blank}
    BY <1>0, <2>1, LinesOf
  <2>3. ASSUME NEW j \in 2..n, j # i PROVE g[j] \in {File!Setting, File!Blank}
    <3>1. j \in 1..n /\ f[j] \in {File!Setting, File!Blank}
      BY <2>2, <2>3
    <3>2. f[j].kind # "keys"
      BY <3>1, LineFacts
    <3> QED BY <1>4, <3>1, <3>2
  <2>4. File!ServerFirst(g) /\ File!Loaded(g) = New(i)
    BY <1>3, <1>4, <1>5, <2>1, <2>2, <2>3, ServerFirstOf
  <2> QED BY <2>2, <2>4 DEF g, New
<1>7. CASE \A i \in 1..n : f[i].kind # "keys"
  <2>1. ASSUME NEW j \in 2..n PROVE j \in 1..n /\ f[j] \in {File!Setting, File!Blank}
    <3>1. \A i \in DOMAIN f : f[i].kind # "keys"
      BY <1>0, <1>7
    <3>2. j \in 2..Len(f)
      BY <1>0
    <3>3. f[j] \in {File!Setting, File!Blank}
      BY <3>1, <3>2, LinesOf
    <3> QED BY <3>3
  <2>2. File!ServerFirst(g) /\ File!Loaded(g) = {}
    BY <1>0, <1>3, <1>4, <1>5, <1>7, <2>1, NoKeysOf
  <2>3. File!Loaded(f) = {}
    BY <1>0, <1>7, LoadedLine
  <2> QED BY <2>2, <2>3 DEF g
<1> QED BY <1>6, <1>7
LEMMA FileStart == File!FileInit => File!FileInv
<1> SUFFICES ASSUME File!FileInit PROVE File!FileInv
  OBVIOUS
<1>1. File!IsLines(s1)
  BY ServiceAssumption DEF File!FileInit
<1> QED BY <1>1 DEF File!FileInit, File!FileInv, File!KeysAsTold

LEMMA FileStep ==
  ASSUME File!FileInv, [File!FileNext]_(File!fileVars)
  PROVE  File!FileInv'
<1>1. ASSUME NEW k \in NewKeys, File!AddKey(k) PROVE File!FileInv'
  <2>1. s1' \in File!Adding(s1, k) /\ s6' = s6 /\ File!IsLines(s1)
    BY <1>1 DEF File!AddKey, File!FileInv
  <2>2. /\ k \in File!Loaded(s1') => s2' = s2 \cup {k} /\ s5' = s5
        /\ k \notin File!Loaded(s1') => s2' = s2
    BY <1>1 DEF File!AddKey
  <2>3. Gains(s1, s1', k)
    BY <2>1, AddingGains
  <2>4. ASSUME File!Once(s6) PROVE File!Once(s1') /\ (File!Spoiled(s1') \/ File!Loaded(s1') = s2')
    <3>1. File!Once(s1) /\ (File!Spoiled(s1) \/ File!Loaded(s1) = s2)
      BY <2>4 DEF File!FileInv, File!KeysAsTold
    <3> QED BY <2>2, <2>3, <3>1 DEF Gains
  <2>5. ASSUME File!ServerFirst(s6) PROVE File!ServerFirst(s1') /\ File!Loaded(s1') = s2' /\ s5' = {}
    <3>1. File!ServerFirst(s1) /\ File!Loaded(s1) = s2 /\ s5 = {}
      BY <2>5 DEF File!FileInv
    <3>2. File!ServerFirst(s1') /\ File!Loaded(s1') = s2 \cup {k}
      BY <2>1, <3>1, AddingSound
    <3> QED BY <2>2, <3>1, <3>2
  <2> QED BY <2>1, <2>3, <2>4, <2>5 DEF File!FileInv, File!KeysAsTold, Gains
<1>2. ASSUME NEW who, File!RemoveKey(who) PROVE File!FileInv'
  <2>1. s1' \in File!Removing(s1, who) /\ s6' = s6 /\ s5' = s5 /\ File!IsLines(s1)
        /\ s2' = {k \in s2 : ~File!Matches(k, who)}
    BY <1>2 DEF File!RemoveKey, File!FileInv
  <2>2. File!IsLines(s1')
    BY <2>1, RemovingKeeps
  <2>3. ASSUME File!Once(s6) PROVE File!Once(s1') /\ (File!Spoiled(s1') \/ File!Loaded(s1') = s2')
    <3>1. File!Once(s1) /\ (File!Spoiled(s1) \/ File!Loaded(s1) = s2)
      BY <2>3 DEF File!FileInv, File!KeysAsTold
    <3>2. /\ File!Once(s1')
          /\ \/ File!Spoiled(s1')
             \/ ~File!Spoiled(s1) /\ File!Loaded(s1') = {k \in File!Loaded(s1) : ~File!Matches(k, who)}
      BY <2>1, <3>1, RemovingKeeps
    <3> QED BY <2>1, <3>1, <3>2
  <2>4. ASSUME File!ServerFirst(s6) PROVE File!ServerFirst(s1') /\ File!Loaded(s1') = s2' /\ s5' = {}
    <3>1. File!ServerFirst(s1) /\ File!Loaded(s1) = s2 /\ s5 = {}
      BY <2>4 DEF File!FileInv
    <3> QED BY <2>1, <3>1, RemovingSound
  <2> QED BY <2>1, <2>2, <2>3, <2>4 DEF File!FileInv, File!KeysAsTold
<1>3. ASSUME NEW who, NEW v, File!RotateKey(who, v) PROVE File!FileInv'
  <2>1. s1' = File!Rotating(s1, who, v) /\ s6' = s6 /\ s5' = s5 /\ File!IsLines(s1)
        /\ s2' = {File!Rotated(k, who, v) : k \in s2}
    BY <1>3 DEF File!RotateKey, File!FileInv
  <2>2. File!IsLines(s1')
    BY <2>1, RotatingKeeps
  <2>3. ASSUME File!Once(s6) PROVE File!Once(s1') /\ (File!Spoiled(s1') \/ File!Loaded(s1') = s2')
    <3>1. File!Once(s1) /\ (File!Spoiled(s1) \/ File!Loaded(s1) = s2)
      BY <2>3 DEF File!FileInv, File!KeysAsTold
    <3>2. /\ File!Once(s1')
          /\ \/ File!Spoiled(s1')
             \/ ~File!Spoiled(s1) /\ File!Loaded(s1') = {File!Rotated(k, who, v) : k \in File!Loaded(s1)}
      BY <2>1, <3>1, RotatingKeeps
    <3> QED BY <2>1, <3>1, <3>2
  <2>4. ASSUME File!ServerFirst(s6) PROVE File!ServerFirst(s1') /\ File!Loaded(s1') = s2' /\ s5' = {}
    <3>1. File!ServerFirst(s1) /\ File!Loaded(s1) = s2 /\ s5 = {}
      BY <2>4 DEF File!FileInv
    <3> QED BY <2>1, <3>1, RotatingSound
  <2> QED BY <2>1, <2>2, <2>3, <2>4 DEF File!FileInv, File!KeysAsTold
<1>4. CASE UNCHANGED File!fileVars
  BY <1>4 DEF File!FileInv, File!KeysAsTold, File!fileVars
<1> QED BY <1>1, <1>2, <1>3, <1>4 DEF File!FileNext

LEMMA FileSound == File!FileInv => File!ConfigSound
<1> SUFFICES ASSUME File!FileInv, File!ServerFirst(s6) PROVE File!KeysAsTold /\ File!OthersUntouched
  BY DEF File!FileInv, File!ConfigSound
<1>1. File!ServerFirst(s1) /\ File!KeysAsTold
  BY DEF File!FileInv, File!KeysAsTold
<1>2. \A i \in DOMAIN s1 : s1[i].kind # "keys" => s1[i].keys = {}
  BY <1>1, KindsOfLines
<1> QED BY <1>1, <1>2 DEF File!OthersUntouched
-----------------------------------------------------------------------------
(* ConfigLoad: the files, how the process was started, its state, what it   *)
(* was wired with, what is live and the edits are s1 to s7.                 *)

SettingsFields ==
    {"dim", "timeout", "dedup", "limited", "rps", "burst", "keyBy", "apiKey", "apiKeys", "schema"}

\* What is read of a file tells its keys in one way, and its parts of a schema
\* refer to each other where validation does not look.
LEMMA LoadedFields ==
  ASSUME NEW f
  PROVE  LET c == Settings!Applied(f) IN
         /\ SettingsFields \subseteq DOMAIN c
         /\ c.apiKey = "" \/ c.apiKeys = {}
         /\ c.schema = Settings!ParsedSchema(f.schema)
<1> DEFINE c == Settings!Applied(f)
           apiKey == Settings!GetStr(f.apiKey, Settings!Defaults.apiKey)
<1>1. SettingsFields \subseteq DOMAIN c
  BY DEF Settings!Applied, SettingsFields
<1>2. c.schema = Settings!ParsedSchema(f.schema)
  BY DEF Settings!Applied
<1>3. c.apiKey = apiKey
  BY DEF Settings!Applied
<1>4. apiKey # "" => c.apiKeys = {}
  BY DEF Settings!Applied
<1> QED BY <1>1, <1>2, <1>3, <1>4

LEMMA DefaultFields ==
  LET c == Settings!Defaults IN
  /\ SettingsFields \subseteq DOMAIN c
  /\ c.apiKey = "" \/ c.apiKeys = {}
  /\ c.schema = Settings!DefaultSchema
BY DEF Settings!Defaults, SettingsFields

LEMMA StatefulHasCategory ==
  ASSUME NEW s
  PROVE  Settings!ParsedSchema(s).stateful \subseteq Settings!ParsedSchema(s).categories
<1> DEFINE cats == Settings!Range(Settings!GetList(s.categories))
           stateful == Settings!Range(Settings!GetList(s.stateful))
<1>1. CASE s = Absent \/ Settings!WrongSection(s)
  BY <1>1 DEF Settings!ParsedSchema, Settings!DefaultSchema
<1>2. CASE s # Absent /\ ~Settings!WrongSection(s)
  <2>1. stateful \subseteq cats
    BY <1>2 DEF Settings!WrongSection
  <2>2. Settings!ParsedSchema(s).stateful = stateful /\ Settings!ParsedSchema(s).categories = cats
    BY <1>2 DEF Settings!ParsedSchema
  <2> QED BY <2>1, <2>2
<1> QED BY <1>1, <1>2

\* What LoadConfig returns is usable once it is validated and coerced.
LEMMA ValidIsUsable ==
  ASSUME NEW c, SettingsFields \subseteq DOMAIN c, c.apiKey = "" \/ c.apiKeys = {},
         c.schema.stateful \subseteq c.schema.categories, Settings!Validate(c)
  PROVE  Settings!UsableConfig(Settings!Coerced(c))
<1> DEFINE d == Settings!Coerced(c)
<1>1. /\ d.dim = c.dim /\ d.timeout = c.timeout /\ d.dedup = c.dedup /\ d.limited = c.limited
      /\ d.rps = c.rps /\ d.burst = c.burst /\ d.apiKey = c.apiKey /\ d.apiKeys = c.apiKeys
      /\ d.schema = c.schema
  BY DEF Settings!Coerced, SettingsFields
<1>2. c.dim > 0 /\ c.timeout > 0 /\ c.dedup \in 0..100
  BY DEF Settings!Validate
<1>3. c.limited => c.rps > 0 /\ c.burst >= 1 /\ d.keyBy \in Settings!KeyByNames \ {""}
  <2>1. CASE c.limited /\ c.keyBy = ""
    BY <2>1 DEF Settings!Coerced, Settings!Validate, Settings!KeyByNames, SettingsFields
  <2>2. CASE ~(c.limited /\ c.keyBy = "")
    BY <2>2 DEF Settings!Coerced, Settings!Validate, Settings!KeyByNames, SettingsFields
  <2> QED BY <2>1, <2>2
<1>4. {c.schema.blocking} \ {""} \subseteq c.schema.relations
  BY DEF Settings!Validate, Settings!ValidateSchema
<1> HIDE DEF d
<1>5. Settings!UsableConfig(d)
  BY <1>1, <1>2, <1>3, <1>4 DEF Settings!UsableConfig
<1> QED BY <1>5 DEF d

LEMMA LoadedIsUsable ==
  ASSUME NEW source, Settings!Validate(Settings!LoadConfig(source))
  PROVE  Settings!UsableConfig(Settings!Coerced(Settings!LoadConfig(source)))
<1>1. CASE s1[source] = Unset
  <2>1. Settings!LoadConfig(source) = Settings!Defaults
    BY <1>1 DEF Settings!LoadConfig
  <2>2. Settings!DefaultSchema.stateful \subseteq Settings!DefaultSchema.categories
    BY DEF Settings!DefaultSchema
  <2> QED BY <2>1, <2>2, DefaultFields, ValidIsUsable
<1>2. CASE s1[source] # Unset
  <2>1. Settings!LoadConfig(source) = Settings!Applied(s1[source])
    BY <1>2 DEF Settings!LoadConfig
  <2> QED BY <2>1, LoadedFields, StatefulHasCategory, ValidIsUsable
<1> QED BY <1>1, <1>2

\* A start is refused and a reload changes nothing when validation fails.
LEMMA SettingsStep ==
  ASSUME Settings!RunsOnUsable, [Settings!Next]_(Settings!configVars)
  PROVE  Settings!RunsOnUsable'
<1> USE DEF Settings!RunsOnUsable
<1>1. CASE Settings!Start
  BY <1>1, LoadedIsUsable DEF Settings!Start
<1>2. CASE Settings!Hup
  BY <1>2, LoadedIsUsable DEF Settings!Hup
<1>3. CASE Settings!Stop
  BY <1>3 DEF Settings!Stop
<1>4. CASE \E s \in Settings!Sources, f \in IniContents : Settings!Edit(s, f)
  BY <1>4 DEF Settings!Edit
<1>5. CASE UNCHANGED Settings!configVars
  BY <1>5 DEF Settings!configVars
<1> QED
  BY <1>1, <1>2, <1>3, <1>4, <1>5 DEF Settings!Next
-----------------------------------------------------------------------------
(* The counters of the daemon (Metrics).                                   *)

CallerFields == [at : {"idle", "work", "observe", "add", "inc", "answer"},
                 endpoint : Endpoints \cup {"store"}, counter : Counters!Counters,
                 outcome : Counters!Outcomes \cup {"none"}]

IsBetween(r, n) == r.at = "inc" /\ r.counter = n
IsCounted(r, n) == r.at \in {"inc", "answer"} /\ r.counter = n /\ r.outcome # "none"
IsUnobserved(r, e) == r.at \in {"work", "observe"} /\ r.endpoint = e

\* The size of a set before and after one element has changed sides or not.
Changed(was, is, before, after) ==
  /\ before \in Nat /\ after \in Nat
  /\ (was <=> is) => after = before
  /\ was /\ ~is => before = after + 1
  /\ ~was /\ is => after = before + 1

LEMMA CountedNames ==
  /\ Counters!Counters = {"store", "edge", "errors", "schema_conflict", "graph_communities"}
  /\ \A i \in 1..5 : Counters!Order[i] \in Counters!Counters
  /\ Len(Counters!Order) = 5
<1>1. Len(Counters!Order) = 5 /\ DOMAIN Counters!Order = 1..5
  BY DEF Counters!Order
<1>2. \A i \in 1..5 : i = 1 \/ i = 2 \/ i = 3 \/ i = 4 \/ i = 5
  OBVIOUS
<1>3. /\ Counters!Order[1] = "store" /\ Counters!Order[2] = "edge" /\ Counters!Order[3] = "errors"
      /\ Counters!Order[4] = "schema_conflict" /\ Counters!Order[5] = "graph_communities"
  BY DEF Counters!Order
<1>4. 1 \in 1..5 /\ 2 \in 1..5 /\ 3 \in 1..5 /\ 4 \in 1..5 /\ 5 \in 1..5
  OBVIOUS
<1>5. Counters!Counters = {Counters!Order[i] : i \in 1..5}
  BY <1>1 DEF Counters!Counters
<1>6. Counters!Counters = {"store", "edge", "errors", "schema_conflict", "graph_communities"}
  BY <1>2, <1>3, <1>4, <1>5
<1>7. \A i \in 1..5 : Counters!Order[i] \in Counters!Counters
  BY <1>5
<1> QED
  BY <1>1, <1>6, <1>7

\* What the assumptions say of the names of the endpoints.
LEMMA EndpointNames ==
  /\ First \subseteq Endpoints /\ Timed \subseteq First
  /\ \A e \in Endpoints : /\ e \in Counters!Counters
                          /\ e \notin {"errors", "schema_conflict", "error", "conflict", "none"}
  /\ {"errors", "schema_conflict"} \subseteq Counters!Counters
  /\ "none" \notin Counters!Counters
<1>1. Endpoints \subseteq Counters!Counters \ {"errors", "schema_conflict"}
      /\ First \subseteq Endpoints /\ Timed \subseteq First
  BY ServiceAssumption
<1>2. /\ {"errors", "schema_conflict"} \subseteq Counters!Counters
      /\ "none" \notin Counters!Counters /\ "error" \notin Counters!Counters
      /\ "conflict" \notin Counters!Counters
  BY CountedNames
<1> QED
  BY <1>1, <1>2

LEMMA OneMoves ==
  ASSUME NEW c \in Callers, NEW P, NEW Q, P \subseteq Callers, Q \subseteq Callers,
         \A d \in Callers : d # c => (d \in P <=> d \in Q)
  PROVE  Changed(c \in P, c \in Q, Counters!Cardinality(P), Counters!Cardinality(Q))
<1>1. \A S : Counters!Cardinality(S) = Cardinality(S)
  BY DEF Counters!Cardinality, Cardinality
<1>2. IsFiniteSet(P) /\ IsFiniteSet(Q)
  BY ServiceAssumption, FS_Subset
<1>3. Cardinality(P) \in Nat /\ Cardinality(Q) \in Nat
  BY <1>2, FS_CardinalityType
<1>4. (c \in P <=> c \in Q) => P = Q
  OBVIOUS
<1>5. ASSUME c \in P, c \notin Q
      PROVE  Cardinality(P) = Cardinality(Q) + 1
  <2>1. P = Q \cup {c}
    BY <1>5
  <2> QED BY <1>2, <1>5, <2>1, FS_AddElement
<1>6. ASSUME c \notin P, c \in Q
      PROVE  Cardinality(Q) = Cardinality(P) + 1
  <2>1. Q = P \cup {c}
    BY <1>6
  <2> QED BY <1>2, <1>6, <2>1, FS_AddElement
<1> QED
  BY <1>1, <1>3, <1>4, <1>5, <1>6 DEF Changed

\* A step of one caller, and the three ways to count the callers.
LEMMA CallerMoves ==
  ASSUME Counters!MetricsTypes, NEW c \in Callers, NEW r \in CallerFields, s4' = [s4 EXCEPT ![c] = r]
  PROVE  /\ s4' \in [Callers -> CallerFields] /\ s4'[c] = r
         /\ \A d \in Callers : d # c => s4'[d] = s4[d]
         /\ \A n : /\ Changed(IsBetween(s4[c], n), IsBetween(r, n),
                              Counters!Between(n), Counters!Between(n)')
                   /\ Changed(IsCounted(s4[c], n), IsCounted(r, n),
                              Counters!Counted(n), Counters!Counted(n)')
                   /\ Changed(IsUnobserved(s4[c], n), IsUnobserved(r, n),
                              Counters!Unobserved(n), Counters!Unobserved(n)')
<1>1. s4 \in [Callers -> CallerFields]
  BY DEF Counters!MetricsTypes, CallerFields
<1>2. /\ s4' \in [Callers -> CallerFields] /\ s4'[c] = r
      /\ \A d \in Callers : d # c => s4'[d] = s4[d]
  BY <1>1
<1>3. ASSUME NEW n
      PROVE  Changed(IsBetween(s4[c], n), IsBetween(r, n), Counters!Between(n), Counters!Between(n)')
  <2> DEFINE P == {d \in Callers : s4[d].at = "inc" /\ s4[d].counter = n}
             Q == {d \in Callers : s4'[d].at = "inc" /\ s4'[d].counter = n}
  <2>1. P \subseteq Callers /\ Q \subseteq Callers /\ \A d \in Callers : d # c => (d \in P <=> d \in Q)
    BY <1>2
  <2>2. (c \in P <=> IsBetween(s4[c], n)) /\ (c \in Q <=> IsBetween(r, n))
    BY <1>2 DEF IsBetween
  <2>3. Counters!Between(n) = Counters!Cardinality(P) /\ Counters!Between(n)' = Counters!Cardinality(Q)
    BY DEF Counters!Between
  <2> HIDE DEF P, Q
  <2>4. Changed(c \in P, c \in Q, Counters!Cardinality(P), Counters!Cardinality(Q))
    BY <2>1, OneMoves
  <2> QED BY <2>2, <2>3, <2>4 DEF Changed
<1>4. ASSUME NEW n
      PROVE  Changed(IsCounted(s4[c], n), IsCounted(r, n), Counters!Counted(n), Counters!Counted(n)')
  <2> DEFINE P == {d \in Callers : s4[d].at \in {"inc", "answer"} /\ s4[d].counter = n /\ s4[d].outcome # "none"}
             Q == {d \in Callers : s4'[d].at \in {"inc", "answer"} /\ s4'[d].counter = n /\ s4'[d].outcome # "none"}
  <2>1. P \subseteq Callers /\ Q \subseteq Callers /\ \A d \in Callers : d # c => (d \in P <=> d \in Q)
    BY <1>2
  <2>2. (c \in P <=> IsCounted(s4[c], n)) /\ (c \in Q <=> IsCounted(r, n))
    BY <1>2 DEF IsCounted
  <2>3. Counters!Counted(n) = Counters!Cardinality(P) /\ Counters!Counted(n)' = Counters!Cardinality(Q)
    BY DEF Counters!Counted
  <2> HIDE DEF P, Q
  <2>4. Changed(c \in P, c \in Q, Counters!Cardinality(P), Counters!Cardinality(Q))
    BY <2>1, OneMoves
  <2> QED BY <2>2, <2>3, <2>4 DEF Changed
<1>5. ASSUME NEW n
      PROVE  Changed(IsUnobserved(s4[c], n), IsUnobserved(r, n), Counters!Unobserved(n), Counters!Unobserved(n)')
  <2> DEFINE P == {d \in Callers : s4[d].at \in {"work", "observe"} /\ s4[d].endpoint = n}
             Q == {d \in Callers : s4'[d].at \in {"work", "observe"} /\ s4'[d].endpoint = n}
  <2>1. P \subseteq Callers /\ Q \subseteq Callers /\ \A d \in Callers : d # c => (d \in P <=> d \in Q)
    BY <1>2
  <2>2. (c \in P <=> IsUnobserved(s4[c], n)) /\ (c \in Q <=> IsUnobserved(r, n))
    BY <1>2 DEF IsUnobserved
  <2>3. Counters!Unobserved(n) = Counters!Cardinality(P) /\ Counters!Unobserved(n)' = Counters!Cardinality(Q)
    BY DEF Counters!Unobserved
  <2> HIDE DEF P, Q
  <2>4. Changed(c \in P, c \in Q, Counters!Cardinality(P), Counters!Cardinality(Q))
    BY <2>1, OneMoves
  <2> QED BY <2>2, <2>3, <2>4 DEF Changed
<1> QED
  BY <1>2, <1>3, <1>4, <1>5

LEMMA OneUp ==
  ASSUME NEW S, NEW f \in [S -> Nat], NEW k \in S
  PROVE  LET g == [f EXCEPT ![k] = @ + 1] IN
         /\ g \in [S -> Nat] /\ g[k] = f[k] + 1
         /\ \A n \in S : f[n] \in Nat /\ g[n] \in Nat /\ (n # k => g[n] = f[n]) /\ f[n] <= g[n]
OBVIOUS

LEMMA MetricsStart ==
  ASSUME Counters!Init
  PROVE  Counters!MetricsInv
<1>1. \A n : Counters!Between(n) = 0 /\ Counters!Counted(n) = 0 /\ Counters!Unobserved(n) = 0
  <2>1. Counters!Cardinality({}) = 0
    BY FS_EmptySet DEF Counters!Cardinality, Cardinality
  <2>2. \A c \in Callers : s4[c].at = "idle"
    BY DEF Counters!Init, Counters!Idle
  <2>3. ASSUME NEW n
        PROVE  /\ {c \in Callers : s4[c].at = "inc" /\ s4[c].counter = n} = {}
               /\ {c \in Callers : s4[c].at \in {"inc", "answer"} /\ s4[c].counter = n /\ s4[c].outcome # "none"} = {}
               /\ {c \in Callers : s4[c].at \in {"work", "observe"} /\ s4[c].endpoint = n} = {}
    BY <2>2
  <2> QED BY <2>1, <2>3 DEF Counters!Between, Counters!Counted, Counters!Unobserved
<1>2. Counters!MetricsTypes
  BY CountedNames DEF Counters!Init, Counters!MetricsTypes, Counters!Idle, Counters!Zero, Counters!Outcomes
<1>3. \A c \in Callers : Counters!Fits(s4[c])
  BY DEF Counters!Init, Counters!Idle, Counters!Fits
<1>4. Counters!Lockstep
  BY <1>1 DEF Counters!Init, Counters!Zero, Counters!Lockstep
<1>5. Counters!AddsUp
  BY <1>1, EndpointNames DEF Counters!Init, Counters!Zero, Counters!AddsUp
<1>6. Counters!ShownIsReached
  BY DEF Counters!Init, Counters!Zero, Counters!ShownIsReached, Counters!View
<1>7. \A e \in Timed : s2[e] = s3[e] + Counters!Unobserved(e)
  BY <1>1, EndpointNames DEF Counters!Init, Counters!Zero
<1> QED
  BY <1>2, <1>3, <1>4, <1>5, <1>6, <1>7 DEF Counters!MetricsInv

\* What is left to show of a step of one caller.
LEMMA CallerKeeps ==
  ASSUME Counters!MetricsInv, NEW c \in Callers, NEW r \in CallerFields, s4' = [s4 EXCEPT ![c] = r],
         Counters!Fits(r), UNCHANGED <<s5, s6>>,
         s1' \in [Counters!Counters -> Nat], s2' \in [Counters!Counters -> Nat],
         s3' \in [Timed -> Nat], s7' \in [Endpoints \cup {"error", "conflict"} -> Nat],
         \A n \in Counters!Counters :
            /\ s1[n] <= s1'[n] /\ s2[n] <= s2'[n]
            /\ s1'[n] = s2'[n] + Counters!Between(n)',
         \A e \in Endpoints \ First : s1'[e] = s7'[e] + Counters!Counted(e)',
         s1'["errors"] = s7'["error"] + Counters!Counted("errors")',
         s1'["schema_conflict"] = s7'["conflict"] + Counters!Counted("schema_conflict")',
         \A e \in Timed : s2'[e] = s3'[e] + Counters!Unobserved(e)'
  PROVE  Counters!MetricsInv'
<1>1. /\ s4' \in [Callers -> CallerFields] /\ s4'[c] = r
      /\ \A d \in Callers : d # c => s4'[d] = s4[d]
      /\ \A n : Counters!Unobserved(n)' \in Nat
  BY CallerMoves DEF Counters!MetricsInv, Changed
<1>2. Counters!MetricsTypes'
  BY <1>1 DEF Counters!MetricsInv, Counters!MetricsTypes, CallerFields
<1>3. \A d \in Callers : Counters!Fits(s4'[d])
  <2>1. \A d \in Callers : Counters!Fits(s4[d])
    BY DEF Counters!MetricsInv
  <2> QED BY <1>1, <2>1
<1>4. Counters!Lockstep'
  BY DEF Counters!Lockstep
<1>5. \A e \in Timed : s3'[e] <= s2'[e]
  <2>1. ASSUME NEW e \in Timed
        PROVE  s3'[e] <= s2'[e]
    <3>1. s3'[e] \in Nat /\ Counters!Unobserved(e)' \in Nat /\ s2'[e] = s3'[e] + Counters!Unobserved(e)'
      BY <1>1
    <3> HIDE DEF Counters!Unobserved
    <3> QED BY <3>1
  <2> QED BY <2>1
<1>6. Counters!AddsUp'
  BY <1>5 DEF Counters!AddsUp
<1>7. Counters!ShownIsReached'
  <2>1. ASSUME NEW d \in DOMAIN Readers, NEW n \in Counters!Counters
        PROVE  s6'[d][n] <= Counters!View(d)'[n]
    <3>1. s6[d][n] \in Nat /\ s1[n] \in Nat /\ s2[n] \in Nat /\ s1'[n] \in Nat /\ s2'[n] \in Nat
          /\ s6[d][n] <= Counters!View(d)[n]
      BY DEF Counters!MetricsInv, Counters!MetricsTypes, Counters!ShownIsReached
    <3>2. s6'[d][n] = s6[d][n]
      OBVIOUS
    <3>3. CASE Readers[d] = "legacy"
      <4>1. Counters!View(d) = s1 /\ Counters!View(d)' = s1'
        BY <3>3 DEF Counters!View
      <4>2. s1[n] <= s1'[n]
        OBVIOUS
      <4> QED BY <3>1, <3>2, <4>1, <4>2
    <3>4. CASE Readers[d] # "legacy"
      <4>1. Counters!View(d) = s2 /\ Counters!View(d)' = s2'
        BY <3>4 DEF Counters!View
      <4>2. s2[n] <= s2'[n]
        OBVIOUS
      <4> QED BY <3>1, <3>2, <4>1, <4>2
    <3> QED BY <3>3, <3>4
  <2> QED BY <2>1 DEF Counters!ShownIsReached
<1> QED
  BY <1>2, <1>3, <1>4, <1>6, <1>7 DEF Counters!MetricsInv

\* A request of the invariant, field by field.
LEMMA RequestFacts ==
  ASSUME Counters!MetricsInv, NEW c \in Callers
  PROVE  /\ s4[c] \in CallerFields /\ Counters!Fits(s4[c])
         /\ s1 \in [Counters!Counters -> Nat] /\ s2 \in [Counters!Counters -> Nat]
         /\ s3 \in [Timed -> Nat] /\ s7 \in [Endpoints \cup {"error", "conflict"} -> Nat]
         /\ \A n \in Counters!Counters : s1[n] = s2[n] + Counters!Between(n)
         /\ \A e \in Endpoints \ First : s1[e] = s7[e] + Counters!Counted(e)
         /\ s1["errors"] = s7["error"] + Counters!Counted("errors")
         /\ s1["schema_conflict"] = s7["conflict"] + Counters!Counted("schema_conflict")
         /\ \A e \in Timed : s2[e] = s3[e] + Counters!Unobserved(e)
BY DEF Counters!MetricsInv, Counters!MetricsTypes, Counters!Lockstep, Counters!AddsUp, CallerFields

\* A step of one caller that counts nothing for the books.
LEMMA CallerQuiet ==
  ASSUME Counters!MetricsInv, NEW c \in Callers, NEW r \in CallerFields, s4' = [s4 EXCEPT ![c] = r],
         Counters!Fits(r), UNCHANGED <<s1, s2, s3, s5, s6, s7>>,
         \A n : IsBetween(s4[c], n) <=> IsBetween(r, n),
         \A n \in (Endpoints \ First) \cup {"errors", "schema_conflict"} : IsCounted(s4[c], n) <=> IsCounted(r, n),
         \A e \in Timed : IsUnobserved(s4[c], e) <=> IsUnobserved(r, e)
  PROVE  Counters!MetricsInv'
<1>1. /\ \A n \in Counters!Counters : s1[n] \in Nat /\ s2[n] \in Nat
      /\ \A n : Counters!Between(n)' = Counters!Between(n)
      /\ \A n \in (Endpoints \ First) \cup {"errors", "schema_conflict"} : Counters!Counted(n)' = Counters!Counted(n)
      /\ \A e \in Timed : Counters!Unobserved(e)' = Counters!Unobserved(e)
  <2>1. \A n \in Counters!Counters : s1[n] \in Nat /\ s2[n] \in Nat
    BY RequestFacts
  <2>2. \A n : /\ Changed(IsBetween(s4[c], n), IsBetween(r, n), Counters!Between(n), Counters!Between(n)')
               /\ Changed(IsCounted(s4[c], n), IsCounted(r, n), Counters!Counted(n), Counters!Counted(n)')
               /\ Changed(IsUnobserved(s4[c], n), IsUnobserved(r, n), Counters!Unobserved(n), Counters!Unobserved(n)')
    BY CallerMoves DEF Counters!MetricsInv
  <2>3. \A was, is, before, after : Changed(was, is, before, after) /\ (was <=> is) => after = before
    BY DEF Changed
  <2>4. \A n : Counters!Between(n)' = Counters!Between(n)
    BY <2>2, <2>3
  <2>5. \A n \in (Endpoints \ First) \cup {"errors", "schema_conflict"} : Counters!Counted(n)' = Counters!Counted(n)
    BY <2>2, <2>3
  <2>6. \A e \in Timed : Counters!Unobserved(e)' = Counters!Unobserved(e)
    BY <2>2, <2>3
  <2> QED BY <2>1, <2>4, <2>5, <2>6
<1>2. /\ s1' \in [Counters!Counters -> Nat] /\ s2' \in [Counters!Counters -> Nat]
      /\ s3' \in [Timed -> Nat] /\ s7' \in [Endpoints \cup {"error", "conflict"} -> Nat]
      /\ \A n \in Counters!Counters : s1[n] <= s1'[n] /\ s2[n] <= s2'[n]
  <2>1. /\ s1 \in [Counters!Counters -> Nat] /\ s2 \in [Counters!Counters -> Nat]
        /\ s3 \in [Timed -> Nat] /\ s7 \in [Endpoints \cup {"error", "conflict"} -> Nat]
    BY RequestFacts
  <2>2. s1' = s1 /\ s2' = s2 /\ s3' = s3 /\ s7' = s7
    OBVIOUS
  <2>3. \A n \in Counters!Counters : s1[n] <= s1[n] /\ s2[n] <= s2[n]
    BY <1>1
  <2> QED BY <2>1, <2>2, <2>3
<1>3. \A n \in Counters!Counters : s1'[n] = s2'[n] + Counters!Between(n)'
  BY <1>1, RequestFacts
<1>4. \A e \in Endpoints \ First : s1'[e] = s7'[e] + Counters!Counted(e)'
  BY <1>1, RequestFacts
<1>5. /\ s1'["errors"] = s7'["error"] + Counters!Counted("errors")'
      /\ s1'["schema_conflict"] = s7'["conflict"] + Counters!Counted("schema_conflict")'
  BY <1>1, RequestFacts
<1>6. \A e \in Timed : s2'[e] = s3'[e] + Counters!Unobserved(e)'
  BY <1>1, RequestFacts
<1> QED
  BY <1>2, <1>3, <1>4, <1>5, <1>6, CallerKeeps

LEMMA MetricsBegin ==
  ASSUME Counters!MetricsInv, NEW c \in Callers, Counters!Begin(c)
  PROVE  Counters!MetricsInv'
<1>1. PICK e \in Endpoints :
        s4' = [s4 EXCEPT ![c] = [Counters!Idle EXCEPT !.endpoint = e, !.counter = e,
                                    !.at = IF e \in First THEN "add" ELSE "work"]]
  BY DEF Counters!Begin
<1> DEFINE r == [at |-> IF e \in First THEN "add" ELSE "work", endpoint |-> e, counter |-> e, outcome |-> "none"]
<1>2. s4' = [s4 EXCEPT ![c] = r] /\ s4[c].at = "idle" /\ UNCHANGED <<s1, s2, s3, s5, s6, s7>>
  BY <1>1 DEF Counters!Begin, Counters!Idle
<1>3. r \in CallerFields /\ Counters!Fits(r)
  BY <1>1, EndpointNames DEF CallerFields, Counters!Fits
<1>4. /\ r.at \in {"add", "work"} /\ (r.at = "work" => e \notin First) /\ r.outcome = "none" /\ r.endpoint = e
  OBVIOUS
<1> HIDE DEF r
<1>5. /\ \A n : IsBetween(s4[c], n) <=> IsBetween(r, n)
      /\ \A n : IsCounted(s4[c], n) <=> IsCounted(r, n)
      /\ \A n \in Timed : IsUnobserved(s4[c], n) <=> IsUnobserved(r, n)
  BY <1>2, <1>4, EndpointNames DEF IsBetween, IsCounted, IsUnobserved
<1> QED
  BY <1>2, <1>3, <1>5, CallerQuiet

\* A request with some of its fields replaced, written out.
Request(at, e, n, o) == [at |-> at, endpoint |-> e, counter |-> n, outcome |-> o]

LEMMA RequestFields ==
  ASSUME NEW q \in CallerFields
  PROVE  q = Request(q.at, q.endpoint, q.counter, q.outcome)
BY DEF CallerFields, Request

\* Count, written out.
LEMMA CountIs ==
  ASSUME NEW c \in Callers, s4[c] \in CallerFields, NEW n
  PROVE  Counters!Count(c, n) = Request(IF n = "none" THEN "answer" ELSE "add", s4[c].endpoint,
                                        IF n = "none" THEN s4[c].counter ELSE n, s4[c].outcome)
<1> DEFINE q == s4[c]
           e == q.endpoint
           k == q.counter
           u == q.outcome
<1>1. q = Request(q.at, e, k, u)
  BY RequestFields
<1>2. CASE n = "none"
  <2>1. Counters!Count(c, n) = [q EXCEPT !.at = "answer"]
    BY <1>2 DEF Counters!Count
  <2> HIDE DEF q, e, k, u
  <2>2. [q EXCEPT !.at = "answer"] = Request("answer", e, k, u)
    BY <1>1 DEF Request
  <2>3. Counters!Count(c, n) = Request(IF n = "none" THEN "answer" ELSE "add", e,
                                       IF n = "none" THEN k ELSE n, u)
    BY <1>2, <2>1, <2>2
  <2> QED BY <2>3 DEF q, e, k, u
<1>3. CASE n # "none"
  <2> DEFINE x == [q EXCEPT !.at = "add"]
  <2>1. Counters!Count(c, n) = [x EXCEPT !.counter = n]
    BY <1>3 DEF Counters!Count
  <2> HIDE DEF q, e, k, u
  <2>2. x = Request("add", e, k, u)
    BY <1>1 DEF Request
  <2> HIDE DEF x
  <2>3. [x EXCEPT !.counter = n] = Request("add", e, n, u)
    BY <2>2 DEF Request
  <2>4. Counters!Count(c, n) = Request(IF n = "none" THEN "answer" ELSE "add", e,
                                       IF n = "none" THEN k ELSE n, u)
    BY <1>3, <2>1, <2>3
  <2> QED BY <2>4 DEF q, e, k, u
<1> QED
  BY <1>2, <1>3

\* What is counted for a request, and where it stands then.
LEMMA CountFacts ==
  ASSUME NEW e \in Endpoints, NEW o \in {"ok", "error", "conflict"}
  PROVE  /\ o = "error" => Counters!CounterOf(e, o) = "errors"
         /\ o = "conflict" => Counters!CounterOf(e, o) = "schema_conflict"
         /\ o = "ok" => Counters!CounterOf(e, o) = IF e \in First THEN "none" ELSE e
BY DEF Counters!CounterOf

\* The request when its handler is done: r, with the outcome o.
LEMMA CountDone ==
  ASSUME NEW e \in Endpoints, NEW o \in {"ok", "error", "conflict"}, NEW r,
         LET n == Counters!CounterOf(e, o) IN
         r = Request(IF n = "none" THEN "answer" ELSE "add", e, IF n = "none" THEN e ELSE n, o)
  PROVE  /\ r \in CallerFields /\ Counters!Fits(r)
         /\ \A n : ~IsBetween(r, n) /\ ~IsUnobserved(r, n)
         /\ \A n \in (Endpoints \ First) \cup {"errors", "schema_conflict"} : ~IsCounted(r, n)
<1> DEFINE n == Counters!CounterOf(e, o)
<1>1. n \in Counters!Counters \cup {"none"} /\ (n = "none" => e \in First)
  BY CountFacts, EndpointNames
<1>2. /\ r.at = (IF n = "none" THEN "answer" ELSE "add") /\ r.endpoint = e
      /\ r.counter = (IF n = "none" THEN e ELSE n) /\ r.outcome = o
      /\ r = [at |-> IF n = "none" THEN "answer" ELSE "add", endpoint |-> e,
              counter |-> IF n = "none" THEN e ELSE n, outcome |-> o]
  BY DEF Request
<1>3. Counters!CounterOf(r.endpoint, r.outcome) = n
  BY <1>2
<1> HIDE DEF n
<1>4. r \in CallerFields
  BY <1>1, <1>2, EndpointNames DEF CallerFields, Counters!Outcomes
<1>5. Counters!Fits(r)
  BY <1>2, <1>3 DEF Counters!Fits
<1>6. \A m : ~IsBetween(r, m) /\ ~IsUnobserved(r, m)
  BY <1>2 DEF IsBetween, IsUnobserved
<1>7. \A m \in (Endpoints \ First) \cup {"errors", "schema_conflict"} : ~IsCounted(r, m)
  BY <1>1, <1>2, EndpointNames DEF IsCounted
<1> QED
  BY <1>4, <1>5, <1>6, <1>7

LEMMA MetricsWork ==
  ASSUME Counters!MetricsInv, NEW c \in Callers, Counters!Work(c)
  PROVE  Counters!MetricsInv'
<1> DEFINE e == s4[c].endpoint
<1>1. PICK o \in Counters!Outcomes :
        s4' = [s4 EXCEPT ![c] =
             IF s4[c].endpoint \in Timed
             THEN [s4[c] EXCEPT !.outcome = o, !.at = "observe"]
             ELSE [Counters!Count(c, Counters!CounterOf(s4[c].endpoint, o)) EXCEPT !.outcome = o]]
  BY DEF Counters!Work
<1>2. /\ s4[c].at = "work" /\ UNCHANGED <<s1, s2, s3, s5, s6, s7>>
      /\ s4[c] \in CallerFields /\ Counters!Fits(s4[c])
  BY RequestFacts DEF Counters!Work
<1>3. s4[c].outcome = "none" /\ s4[c].counter = e /\ e \in Endpoints
  BY <1>2 DEF Counters!Fits
<1>4. \A n : ~IsBetween(s4[c], n) /\ ~IsCounted(s4[c], n) /\ (IsUnobserved(s4[c], n) <=> n = e)
  BY <1>2 DEF IsBetween, IsCounted, IsUnobserved
<1>5. CASE e \in Timed
  <2> DEFINE r == Request("observe", e, e, o)
  <2>1. s4' = [s4 EXCEPT ![c] = r]
    <3> DEFINE q == s4[c]
               x == [q EXCEPT !.outcome = o]
               y == [x EXCEPT !.at = "observe"]
    <3>2. s4' = [s4 EXCEPT ![c] = y]
      BY <1>1, <1>5
    <3>3. q = Request("work", e, e, "none")
      BY <1>2, <1>3, RequestFields
    <3> HIDE DEF q, e
    <3>4. x = Request("work", e, e, o)
      BY <3>3 DEF Request
    <3> HIDE DEF x
    <3>5. y = r
      BY <3>4 DEF Request
    <3> HIDE DEF y, r
    <3> QED BY <3>2, <3>5
  <2>2. r \in CallerFields /\ Counters!Fits(r)
    BY <1>1, <1>3, <1>5, EndpointNames DEF CallerFields, Counters!Fits, Counters!Outcomes, Request
  <2>3. \A n : ~IsBetween(r, n) /\ ~IsCounted(r, n) /\ (IsUnobserved(r, n) <=> n = e)
    BY DEF Request, IsBetween, IsCounted, IsUnobserved
  <2> HIDE DEF r, e
  <2> QED BY <1>2, <1>4, <2>1, <2>2, <2>3, CallerQuiet
<1>6. CASE e \notin Timed
  <2> DEFINE n == Counters!CounterOf(e, o)
             r == Request(IF n = "none" THEN "answer" ELSE "add", e, IF n = "none" THEN e ELSE n, o)
  <2>1. s4' = [s4 EXCEPT ![c] = [Counters!Count(c, n) EXCEPT !.outcome = o]]
    BY <1>1, <1>6
  <2>2. [Counters!Count(c, n) EXCEPT !.outcome = o] = r
    <3> DEFINE x == Counters!Count(c, n)
    <3>1. x = Request(IF n = "none" THEN "answer" ELSE "add", e, IF n = "none" THEN e ELSE n, "none")
      BY <1>2, <1>3, CountIs
    <3> HIDE DEF x, n, e
    <3>2. [x EXCEPT !.outcome = o] = r
      BY <3>1 DEF Request
    <3> QED BY <3>2 DEF x
  <2>3. s4' = [s4 EXCEPT ![c] = r]
    BY <2>1, <2>2
  <2>4. o \in {"ok", "error", "conflict"}
    BY <1>1 DEF Counters!Outcomes
  <2>5. /\ r \in CallerFields /\ Counters!Fits(r)
        /\ \A m : ~IsBetween(r, m) /\ ~IsUnobserved(r, m)
        /\ \A m \in (Endpoints \ First) \cup {"errors", "schema_conflict"} : ~IsCounted(r, m)
    BY <1>3, <2>4, CountDone
  <2> HIDE DEF r, n, e
  <2> QED BY <1>2, <1>4, <1>6, <2>3, <2>5, CallerQuiet
<1> QED
  BY <1>5, <1>6

\* One of the books when one caller moves.
LEMMA BetweenMoves ==
  ASSUME Counters!MetricsInv, NEW c \in Callers, NEW r \in CallerFields, s4' = [s4 EXCEPT ![c] = r], NEW n
  PROVE  /\ Counters!Between(n) \in Nat /\ Counters!Between(n)' \in Nat
         /\ (IsBetween(s4[c], n) <=> IsBetween(r, n)) => Counters!Between(n)' = Counters!Between(n)
         /\ IsBetween(s4[c], n) /\ ~IsBetween(r, n) => Counters!Between(n) = Counters!Between(n)' + 1
         /\ ~IsBetween(s4[c], n) /\ IsBetween(r, n) => Counters!Between(n)' = Counters!Between(n) + 1
<1>1. Changed(IsBetween(s4[c], n), IsBetween(r, n), Counters!Between(n), Counters!Between(n)')
  BY CallerMoves DEF Counters!MetricsInv
<1> QED
  BY ONLY <1>1 DEF Changed

LEMMA CountedMoves ==
  ASSUME Counters!MetricsInv, NEW c \in Callers, NEW r \in CallerFields, s4' = [s4 EXCEPT ![c] = r], NEW n
  PROVE  /\ Counters!Counted(n) \in Nat /\ Counters!Counted(n)' \in Nat
         /\ (IsCounted(s4[c], n) <=> IsCounted(r, n)) => Counters!Counted(n)' = Counters!Counted(n)
         /\ IsCounted(s4[c], n) /\ ~IsCounted(r, n) => Counters!Counted(n) = Counters!Counted(n)' + 1
         /\ ~IsCounted(s4[c], n) /\ IsCounted(r, n) => Counters!Counted(n)' = Counters!Counted(n) + 1
<1>1. Changed(IsCounted(s4[c], n), IsCounted(r, n), Counters!Counted(n), Counters!Counted(n)')
  BY CallerMoves DEF Counters!MetricsInv
<1> QED
  BY ONLY <1>1 DEF Changed

LEMMA UnobservedMoves ==
  ASSUME Counters!MetricsInv, NEW c \in Callers, NEW r \in CallerFields, s4' = [s4 EXCEPT ![c] = r], NEW n
  PROVE  /\ Counters!Unobserved(n) \in Nat /\ Counters!Unobserved(n)' \in Nat
         /\ (IsUnobserved(s4[c], n) <=> IsUnobserved(r, n)) => Counters!Unobserved(n)' = Counters!Unobserved(n)
         /\ IsUnobserved(s4[c], n) /\ ~IsUnobserved(r, n) => Counters!Unobserved(n) = Counters!Unobserved(n)' + 1
         /\ ~IsUnobserved(s4[c], n) /\ IsUnobserved(r, n) => Counters!Unobserved(n)' = Counters!Unobserved(n) + 1
<1>1. Changed(IsUnobserved(s4[c], n), IsUnobserved(r, n), Counters!Unobserved(n), Counters!Unobserved(n)')
  BY CallerMoves DEF Counters!MetricsInv
<1> QED
  BY ONLY <1>1 DEF Changed

LEMMA MetricsObserve ==
  ASSUME Counters!MetricsInv, NEW c \in Callers, Counters!Observe(c)
  PROVE  Counters!MetricsInv'
<1>0. PICK q, e, o, r : /\ q = s4[c] /\ e = q.endpoint /\ o = q.outcome
                        /\ r = Counters!Count(c, Counters!CounterOf(e, o))
  OBVIOUS
<1> DEFINE n == Counters!CounterOf(e, o)
<1>1. /\ q.at = "observe" /\ s3' = [s3 EXCEPT ![e] = @ + 1] /\ s4' = [s4 EXCEPT ![c] = r]
      /\ UNCHANGED <<s1, s2, s5, s6, s7>>
  BY <1>0 DEF Counters!Observe
<1>2. /\ q \in CallerFields /\ o # "none" /\ q.counter = e /\ e \in Timed /\ e \in Endpoints
      /\ o \in {"ok", "error", "conflict"}
  BY <1>0, <1>1, RequestFacts DEF Counters!Fits, CallerFields, Counters!Outcomes
<1>3. r = Request(IF n = "none" THEN "answer" ELSE "add", e, IF n = "none" THEN e ELSE n, o)
  BY <1>0, <1>2, CountIs
<1>4. /\ r \in CallerFields /\ Counters!Fits(r)
      /\ \A m : ~IsBetween(r, m) /\ ~IsUnobserved(r, m)
      /\ \A m \in (Endpoints \ First) \cup {"errors", "schema_conflict"} : ~IsCounted(r, m)
  BY <1>2, <1>3, CountDone
<1>5. \A m : ~IsBetween(q, m) /\ ~IsCounted(q, m) /\ (IsUnobserved(q, m) <=> m = e)
  BY <1>0, <1>1, <1>2 DEF IsBetween, IsCounted, IsUnobserved
<1>6. /\ s1 \in [Counters!Counters -> Nat] /\ s2 \in [Counters!Counters -> Nat]
      /\ s3 \in [Timed -> Nat] /\ s7 \in [Endpoints \cup {"error", "conflict"} -> Nat]
      /\ s1' = s1 /\ s2' = s2 /\ s7' = s7
  BY <1>1, RequestFacts
<1>7. /\ s3' \in [Timed -> Nat] /\ s3'[e] = s3[e] + 1
      /\ \A m \in Timed : s3[m] \in Nat /\ (m # e => s3'[m] = s3[m])
  BY <1>1, <1>2, <1>6
<1> HIDE DEF n
<1>12. \A m : Counters!Between(m)' = Counters!Between(m)
  BY <1>0, <1>1, <1>4, <1>5, BetweenMoves
<1>13. \A m \in (Endpoints \ First) \cup {"errors", "schema_conflict"} : Counters!Counted(m)' = Counters!Counted(m)
  BY <1>0, <1>1, <1>4, <1>5, CountedMoves
<1>14. \A m : m # e => Counters!Unobserved(m)' = Counters!Unobserved(m)
  BY <1>0, <1>1, <1>4, <1>5, UnobservedMoves
<1>15. Counters!Unobserved(e) = Counters!Unobserved(e)' + 1 /\ Counters!Unobserved(e)' \in Nat
  BY <1>0, <1>1, <1>4, <1>5, UnobservedMoves
<1>9. \A m \in Counters!Counters : /\ s1[m] <= s1'[m] /\ s2[m] <= s2'[m]
                                   /\ s1'[m] = s2'[m] + Counters!Between(m)'
  <2>1. \A m \in Counters!Counters : s1[m] \in Nat /\ s2[m] \in Nat /\ s1[m] = s2[m] + Counters!Between(m)
    BY RequestFacts
  <2> QED BY <1>6, <1>12, <2>1
<1>10. /\ \A m \in Endpoints \ First : s1'[m] = s7'[m] + Counters!Counted(m)'
       /\ s1'["errors"] = s7'["error"] + Counters!Counted("errors")'
       /\ s1'["schema_conflict"] = s7'["conflict"] + Counters!Counted("schema_conflict")'
  BY <1>6, <1>13, RequestFacts
<1>11. ASSUME NEW m \in Timed
       PROVE  s2'[m] = s3'[m] + Counters!Unobserved(m)'
  <2>1. s2[m] = s3[m] + Counters!Unobserved(m)
    BY RequestFacts
  <2>2. CASE m = e
    BY <1>6, <1>7, <1>15, <2>1, <2>2
  <2>3. CASE m # e
    BY <1>6, <1>7, <1>14, <2>1, <2>3
  <2> QED BY <2>2, <2>3
<1> QED
  BY <1>1, <1>4, <1>6, <1>7, <1>9, <1>10, <1>11, CallerKeeps

LEMMA MetricsAdd ==
  ASSUME Counters!MetricsInv, NEW c \in Callers, Counters!Add(c)
  PROVE  Counters!MetricsInv'
<1>0. PICK q, k, r : q = s4[c] /\ k = q.counter /\ r = Request("inc", q.endpoint, k, q.outcome)
  OBVIOUS
<1>1. /\ q.at = "add" /\ s1' = [s1 EXCEPT ![k] = @ + 1] /\ s4' = [s4 EXCEPT ![c].at = "inc"]
      /\ UNCHANGED <<s2, s3, s5, s6, s7>>
  BY <1>0 DEF Counters!Add
<1>2. q \in CallerFields /\ Counters!Fits(q) /\ k \in Counters!Counters
  BY <1>0, RequestFacts DEF CallerFields
<1>3. s4' = [s4 EXCEPT ![c] = r]
  <2>1. q = Request("add", q.endpoint, k, q.outcome)
    BY <1>0, <1>1, <1>2, RequestFields
  <2>2. s4' = [s4 EXCEPT ![c] = [q EXCEPT !.at = "inc"]]
    BY <1>0, <1>1
  <2>3. [q EXCEPT !.at = "inc"] = r
    BY <1>0, <2>1 DEF Request
  <2> QED BY <2>2, <2>3
<1>4. r \in CallerFields /\ r.at = "inc" /\ r.endpoint = q.endpoint /\ r.counter = k /\ r.outcome = q.outcome
  BY <1>0, <1>2 DEF CallerFields, Request
<1>5. Counters!Fits(r)
  BY <1>0, <1>1, <1>2, <1>4 DEF Counters!Fits
<1>6. /\ \A m : ~IsBetween(q, m) /\ (IsBetween(r, m) <=> m = k)
      /\ \A m : ~IsCounted(q, m) /\ (IsCounted(r, m) <=> (m = k /\ q.outcome # "none"))
      /\ \A m : ~IsUnobserved(q, m) /\ ~IsUnobserved(r, m)
  BY <1>0, <1>1, <1>4 DEF IsBetween, IsCounted, IsUnobserved
<1>7. q.outcome = "none" => k \in First
  BY <1>0, <1>1, <1>2 DEF Counters!Fits
<1>8. /\ s1 \in [Counters!Counters -> Nat] /\ s2 \in [Counters!Counters -> Nat]
      /\ s3 \in [Timed -> Nat] /\ s7 \in [Endpoints \cup {"error", "conflict"} -> Nat]
      /\ s2' = s2 /\ s3' = s3 /\ s7' = s7
  BY <1>1, RequestFacts
<1>9. /\ s1' \in [Counters!Counters -> Nat] /\ s1'[k] = s1[k] + 1
      /\ \A m \in Counters!Counters : s1[m] \in Nat /\ s2[m] \in Nat /\ (m # k => s1'[m] = s1[m])
  BY <1>1, <1>2, <1>8
<1>15. \A m : Counters!Between(m) \in Nat /\ (m # k => Counters!Between(m)' = Counters!Between(m))
  BY <1>0, <1>3, <1>4, <1>6, BetweenMoves
<1>16. Counters!Between(k)' = Counters!Between(k) + 1
  <2>1. ~IsBetween(s4[c], k) /\ IsBetween(r, k)
    BY <1>0, <1>6
  <2> QED BY <1>3, <1>4, <2>1, BetweenMoves
<1>17. \A m : Counters!Counted(m) \in Nat /\ (m # k => Counters!Counted(m)' = Counters!Counted(m))
  BY <1>0, <1>3, <1>4, <1>6, CountedMoves
<1>18. q.outcome # "none" => Counters!Counted(k)' = Counters!Counted(k) + 1
  <2>1. q.outcome # "none" => ~IsCounted(s4[c], k) /\ IsCounted(r, k)
    BY <1>0, <1>6
  <2> QED BY <1>3, <1>4, <2>1, CountedMoves
<1>19. \A m : Counters!Unobserved(m)' = Counters!Unobserved(m)
  BY <1>0, <1>3, <1>4, <1>6, UnobservedMoves
<1>10. /\ \A m : Counters!Between(m) \in Nat /\ (m # k => Counters!Between(m)' = Counters!Between(m))
       /\ Counters!Between(k)' = Counters!Between(k) + 1
       /\ \A m : Counters!Counted(m) \in Nat /\ (m # k => Counters!Counted(m)' = Counters!Counted(m))
       /\ q.outcome # "none" => Counters!Counted(k)' = Counters!Counted(k) + 1
       /\ \A m : Counters!Unobserved(m)' = Counters!Unobserved(m)
  BY <1>15, <1>16, <1>17, <1>18, <1>19
<1>11. ASSUME NEW m \in Counters!Counters
       PROVE  s1[m] <= s1'[m] /\ s2[m] <= s2'[m] /\ s1'[m] = s2'[m] + Counters!Between(m)'
  <2>1. s1[m] = s2[m] + Counters!Between(m)
    BY RequestFacts
  <2>2. CASE m = k
    BY <1>8, <1>9, <1>10, <2>1, <2>2
  <2>3. CASE m # k
    BY <1>8, <1>9, <1>10, <2>1, <2>3
  <2> QED BY <2>2, <2>3
<1>12. ASSUME NEW m \in (Endpoints \ First) \cup {"errors", "schema_conflict"}, NEW x \in Nat,
              s1[m] = x + Counters!Counted(m)
       PROVE  s1'[m] = x + Counters!Counted(m)'
  <2>1. m \notin First /\ m \in Counters!Counters
    BY EndpointNames
  <2>2. CASE m = k
    BY <1>7, <1>9, <1>10, <1>12, <2>1, <2>2
  <2>3. CASE m # k
    BY <1>9, <1>10, <1>12, <2>1, <2>3
  <2> QED BY <2>2, <2>3
<1>13. /\ \A m \in Endpoints \ First : s1'[m] = s7'[m] + Counters!Counted(m)'
       /\ s1'["errors"] = s7'["error"] + Counters!Counted("errors")'
       /\ s1'["schema_conflict"] = s7'["conflict"] + Counters!Counted("schema_conflict")'
  <2>1. \A m \in Endpoints \ First : s7[m] \in Nat /\ s1[m] = s7[m] + Counters!Counted(m)
    BY <1>8, RequestFacts
  <2>2. /\ s7["error"] \in Nat /\ s1["errors"] = s7["error"] + Counters!Counted("errors")
        /\ s7["conflict"] \in Nat /\ s1["schema_conflict"] = s7["conflict"] + Counters!Counted("schema_conflict")
    BY <1>8, RequestFacts
  <2> QED BY <1>8, <1>12, <2>1, <2>2
<1>14. \A m \in Timed : s2'[m] = s3'[m] + Counters!Unobserved(m)'
  BY <1>8, <1>10, RequestFacts
<1>20. /\ s2' \in [Counters!Counters -> Nat] /\ s3' \in [Timed -> Nat]
       /\ s7' \in [Endpoints \cup {"error", "conflict"} -> Nat] /\ UNCHANGED <<s5, s6>>
  BY <1>1, <1>8
<1>21. \A m \in Counters!Counters : /\ s1[m] <= s1'[m] /\ s2[m] <= s2'[m]
                                    /\ s1'[m] = s2'[m] + Counters!Between(m)'
  BY <1>11
<1>22. s1' \in [Counters!Counters -> Nat]
  BY <1>9
<1> QED
  BY <1>3, <1>4, <1>5, <1>13, <1>14, <1>20, <1>21, <1>22, CallerKeeps

LEMMA MetricsInc ==
  ASSUME Counters!MetricsInv, NEW c \in Callers, Counters!Inc(c)
  PROVE  Counters!MetricsInv'
<1>0. PICK q, e, k, o, r : /\ q = s4[c] /\ e = q.endpoint /\ k = q.counter /\ o = q.outcome
                           /\ r = Request(IF o = "none" THEN "work" ELSE "answer", e, k, o)
  OBVIOUS
<1>1. /\ q.at = "inc" /\ s2' = [s2 EXCEPT ![k] = @ + 1]
      /\ s4' = [s4 EXCEPT ![c] = [s4[c] EXCEPT !.at = IF o = "none" THEN "work" ELSE "answer"]]
      /\ UNCHANGED <<s1, s3, s5, s6, s7>>
  BY <1>0 DEF Counters!Inc
<1>2. /\ q \in CallerFields /\ Counters!Fits(q) /\ k \in Counters!Counters
      /\ e \in Endpoints /\ (o = "none" => e \in First /\ k = e) /\ (o # "none" => k = Counters!CounterOf(e, o))
      /\ o \in {"ok", "error", "conflict", "none"}
  BY <1>0, <1>1, RequestFacts DEF CallerFields, Counters!Fits, Counters!Outcomes
<1>3. s4' = [s4 EXCEPT ![c] = r]
  <2>1. q = Request("inc", e, k, o)
    BY <1>0, <1>1, <1>2, RequestFields
  <2>2. [q EXCEPT !.at = IF o = "none" THEN "work" ELSE "answer"] = r
    BY <1>0, <2>1 DEF Request
  <2> QED BY <1>0, <1>1, <2>2
<1>4. /\ r \in CallerFields /\ r.at = (IF o = "none" THEN "work" ELSE "answer")
      /\ r.endpoint = e /\ r.counter = k /\ r.outcome = o
  BY <1>0, <1>2 DEF CallerFields, Request
<1>5. Counters!Fits(r)
  <2>1. Counters!CounterOf(r.endpoint, r.outcome) = Counters!CounterOf(e, o)
    BY <1>4
  <2>2. k # "none"
    BY <1>2, EndpointNames
  <2> QED BY <1>2, <1>4, <2>1, <2>2 DEF Counters!Fits
<1>6. /\ \A m : (IsBetween(q, m) <=> m = k) /\ ~IsBetween(r, m)
      /\ \A m : IsCounted(q, m) <=> IsCounted(r, m)
      /\ \A m : ~IsUnobserved(q, m) /\ (IsUnobserved(r, m) <=> (m = e /\ o = "none"))
  BY <1>0, <1>1, <1>4 DEF IsBetween, IsCounted, IsUnobserved
<1>7. o # "none" => k \notin Timed
  BY <1>2, CountFacts, EndpointNames
<1>8. /\ s1 \in [Counters!Counters -> Nat] /\ s2 \in [Counters!Counters -> Nat]
      /\ s3 \in [Timed -> Nat] /\ s7 \in [Endpoints \cup {"error", "conflict"} -> Nat]
      /\ s1' = s1 /\ s3' = s3 /\ s7' = s7
  BY <1>1, RequestFacts
<1>9. /\ s2' \in [Counters!Counters -> Nat] /\ s2'[k] = s2[k] + 1
      /\ \A m \in Counters!Counters : s1[m] \in Nat /\ s2[m] \in Nat /\ (m # k => s2'[m] = s2[m])
  BY <1>1, <1>2, <1>8
<1>10. \A m : Counters!Between(m) \in Nat /\ (m # k => Counters!Between(m)' = Counters!Between(m))
  BY <1>0, <1>3, <1>4, <1>6, BetweenMoves
<1>11. Counters!Between(k) = Counters!Between(k)' + 1 /\ Counters!Between(k)' \in Nat
  <2>1. IsBetween(s4[c], k) /\ ~IsBetween(r, k)
    BY <1>0, <1>6
  <2> QED BY <1>3, <1>4, <2>1, BetweenMoves
<1>12. \A m : Counters!Counted(m)' = Counters!Counted(m)
  <2>1. \A m : IsCounted(s4[c], m) <=> IsCounted(r, m)
    BY <1>0, <1>6
  <2>2. ASSUME NEW m
        PROVE  Counters!Counted(m)' = Counters!Counted(m)
    <3>1. IsCounted(s4[c], m) <=> IsCounted(r, m)
      BY <2>1
    <3> QED BY ONLY <1>3, <1>4, <3>1, Counters!MetricsInv, c \in Callers, CountedMoves
  <2> QED BY <2>2
<1>13. \A m : Counters!Unobserved(m) \in Nat /\ ((m # e \/ o # "none") => Counters!Unobserved(m)' = Counters!Unobserved(m))
  BY <1>0, <1>3, <1>4, <1>6, UnobservedMoves
<1>14. o = "none" => Counters!Unobserved(e)' = Counters!Unobserved(e) + 1
  <2>1. o = "none" => ~IsUnobserved(s4[c], e) /\ IsUnobserved(r, e)
    BY <1>0, <1>6
  <2> QED BY <1>3, <1>4, <2>1, UnobservedMoves
<1>15. ASSUME NEW m \in Counters!Counters
       PROVE  s1[m] <= s1'[m] /\ s2[m] <= s2'[m] /\ s1'[m] = s2'[m] + Counters!Between(m)'
  <2>1. s1[m] = s2[m] + Counters!Between(m)
    BY RequestFacts
  <2>2. CASE m = k
    BY <1>8, <1>9, <1>11, <2>1, <2>2
  <2>3. CASE m # k
    BY <1>8, <1>9, <1>10, <2>1, <2>3
  <2> QED BY <2>2, <2>3
<1>16. /\ \A m \in Endpoints \ First : s1'[m] = s7'[m] + Counters!Counted(m)'
       /\ s1'["errors"] = s7'["error"] + Counters!Counted("errors")'
       /\ s1'["schema_conflict"] = s7'["conflict"] + Counters!Counted("schema_conflict")'
  BY <1>8, <1>12, RequestFacts
<1>17. ASSUME NEW m \in Timed
       PROVE  s2'[m] = s3'[m] + Counters!Unobserved(m)'
  <2>1. s2[m] = s3[m] + Counters!Unobserved(m) /\ s3[m] \in Nat /\ m \in Counters!Counters
    BY <1>8, RequestFacts, EndpointNames
  <2>2. CASE m = k
    <3>1. o = "none" /\ m = e
      BY <1>2, <1>7, <2>2
    <3>2. Counters!Unobserved(m)' = Counters!Unobserved(m) + 1
      BY <1>14, <3>1
    <3>3. s2'[m] = s2[m] + 1
      BY <1>9, <2>2
    <3> QED BY <1>8, <1>13, <2>1, <3>2, <3>3
  <2>3. CASE m # k
    <3>1. m # e \/ o # "none"
      BY <1>2, <2>3
    <3>2. Counters!Unobserved(m)' = Counters!Unobserved(m)
      BY <1>13, <3>1
    <3> QED BY <1>8, <1>9, <2>1, <2>3, <3>2
  <2> QED BY <2>2, <2>3
<1>18. /\ s1' \in [Counters!Counters -> Nat] /\ s3' \in [Timed -> Nat]
       /\ s7' \in [Endpoints \cup {"error", "conflict"} -> Nat] /\ UNCHANGED <<s5, s6>>
  BY <1>1, <1>8
<1>19. \A m \in Counters!Counters : /\ s1[m] <= s1'[m] /\ s2[m] <= s2'[m]
                                    /\ s1'[m] = s2'[m] + Counters!Between(m)'
  BY <1>15
<1>20. s2' \in [Counters!Counters -> Nat]
  BY <1>9
<1> QED
  BY <1>3, <1>4, <1>5, <1>16, <1>17, <1>18, <1>19, <1>20, CallerKeeps

LEMMA MetricsAnswer ==
  ASSUME Counters!MetricsInv, NEW c \in Callers, Counters!Answer(c)
  PROVE  Counters!MetricsInv'
<1>0. PICK q, e, k, o, r, x : /\ q = s4[c] /\ e = q.endpoint /\ k = q.counter /\ o = q.outcome
                              /\ r = Counters!Idle /\ x = Counters!Ending(e, o)
  OBVIOUS
<1>1. /\ q.at = "answer" /\ s7' = [s7 EXCEPT ![x] = @ + 1] /\ s4' = [s4 EXCEPT ![c] = r]
      /\ UNCHANGED <<s1, s2, s3, s5, s6>>
  BY <1>0 DEF Counters!Answer
<1>2. /\ q \in CallerFields /\ k \in Counters!Counters /\ e \in Endpoints /\ o \in {"ok", "error", "conflict"}
      /\ k = IF Counters!CounterOf(e, o) = "none" THEN e ELSE Counters!CounterOf(e, o)
  BY <1>0, <1>1, RequestFacts DEF CallerFields, Counters!Fits, Counters!Outcomes
<1>3. /\ r \in CallerFields /\ r.at = "idle" /\ Counters!Fits(r)
  BY <1>0, CountedNames DEF CallerFields, Counters!Idle, Counters!Fits
<1>4. /\ \A m : ~IsBetween(q, m) /\ ~IsBetween(r, m)
      /\ \A m : (IsCounted(q, m) <=> m = k) /\ ~IsCounted(r, m)
      /\ \A m : ~IsUnobserved(q, m) /\ ~IsUnobserved(r, m)
  BY <1>0, <1>1, <1>2, <1>3 DEF IsBetween, IsCounted, IsUnobserved
<1>5. /\ x \in Endpoints \cup {"error", "conflict"}
      /\ \A m \in Endpoints \ First : m = x <=> m = k
      /\ "error" = x <=> "errors" = k
      /\ "conflict" = x <=> "schema_conflict" = k
  <2>1. x = IF o = "ok" THEN e ELSE o
    BY <1>0 DEF Counters!Ending
  <2>2. CASE o = "ok"
    <3>1. x = e /\ k = e
      BY <1>2, <2>1, <2>2, CountFacts
    <3> QED BY <1>2, <3>1, EndpointNames
  <2>3. CASE o = "error"
    <3>1. x = "error" /\ k = "errors"
      BY <1>2, <2>1, <2>3, CountFacts
    <3> QED BY <3>1, EndpointNames
  <2>4. CASE o = "conflict"
    <3>1. x = "conflict" /\ k = "schema_conflict"
      BY <1>2, <2>1, <2>4, CountFacts
    <3> QED BY <3>1, EndpointNames
  <2> QED BY <1>2, <2>2, <2>3, <2>4
<1>6. /\ s1 \in [Counters!Counters -> Nat] /\ s2 \in [Counters!Counters -> Nat]
      /\ s3 \in [Timed -> Nat] /\ s7 \in [Endpoints \cup {"error", "conflict"} -> Nat]
      /\ s1' = s1 /\ s2' = s2 /\ s3' = s3
  BY <1>1, RequestFacts
<1>7. /\ s7' \in [Endpoints \cup {"error", "conflict"} -> Nat]
      /\ \A m \in Endpoints \cup {"error", "conflict"} :
            s7[m] \in Nat /\ s7'[m] = (IF m = x THEN s7[m] + 1 ELSE s7[m])
  BY <1>1, <1>5, <1>6
<1>8. \A m : Counters!Between(m)' = Counters!Between(m)
  BY <1>0, <1>1, <1>3, <1>4, BetweenMoves
<1>9. \A m : Counters!Counted(m) \in Nat /\ (m # k => Counters!Counted(m)' = Counters!Counted(m))
  BY <1>0, <1>1, <1>3, <1>4, CountedMoves
<1>10. Counters!Counted(k) = Counters!Counted(k)' + 1 /\ Counters!Counted(k)' \in Nat
  <2>1. IsCounted(s4[c], k) /\ ~IsCounted(r, k)
    BY <1>0, <1>4
  <2> QED BY <1>1, <1>3, <2>1, CountedMoves
<1>11. \A m : Counters!Unobserved(m)' = Counters!Unobserved(m)
  BY <1>0, <1>1, <1>3, <1>4, UnobservedMoves
<1>12. \A m \in Counters!Counters : /\ s1[m] <= s1'[m] /\ s2[m] <= s2'[m]
                                    /\ s1'[m] = s2'[m] + Counters!Between(m)'
  <2>1. \A m \in Counters!Counters : s1[m] \in Nat /\ s2[m] \in Nat /\ s1[m] = s2[m] + Counters!Between(m)
    BY RequestFacts
  <2> QED BY <1>6, <1>8, <2>1
\* What is answered is no longer counted and not answered.
<1>13. ASSUME NEW m, NEW n \in Endpoints \cup {"error", "conflict"}, n = x <=> m = k,
              s1[m] = s7[n] + Counters!Counted(m)
       PROVE  s1'[m] = s7'[n] + Counters!Counted(m)'
  <2>1. s1'[m] = s1[m]
    BY <1>6
  <2>2. CASE m = k
    BY <1>7, <1>10, <1>13, <2>1, <2>2
  <2>3. CASE m # k
    BY <1>7, <1>9, <1>13, <2>1, <2>3
  <2> QED BY <2>2, <2>3
<1>14. /\ \A m \in Endpoints \ First : s1'[m] = s7'[m] + Counters!Counted(m)'
       /\ s1'["errors"] = s7'["error"] + Counters!Counted("errors")'
       /\ s1'["schema_conflict"] = s7'["conflict"] + Counters!Counted("schema_conflict")'
  <2>1. /\ \A m \in Endpoints \ First : s1[m] = s7[m] + Counters!Counted(m)
        /\ s1["errors"] = s7["error"] + Counters!Counted("errors")
        /\ s1["schema_conflict"] = s7["conflict"] + Counters!Counted("schema_conflict")
    BY RequestFacts
  <2> QED BY <1>5, <1>13, <2>1
<1>15. \A m \in Timed : s2'[m] = s3'[m] + Counters!Unobserved(m)'
  BY <1>6, <1>11, RequestFacts
<1>16. /\ s1' \in [Counters!Counters -> Nat] /\ s2' \in [Counters!Counters -> Nat]
       /\ s3' \in [Timed -> Nat] /\ UNCHANGED <<s5, s6>>
  BY <1>1, <1>6
<1> QED
  BY <1>1, <1>3, <1>7, <1>12, <1>14, <1>15, <1>16, CallerKeeps

\* A reader changes what it was shown, of one counter at a time.
LEMMA MetricsReads ==
  ASSUME Counters!MetricsInv, NEW d \in DOMAIN Readers,
         Counters!ReadBegin(d) \/ Counters!Read(d) \/ Counters!ReadErr(d)
  PROVE  Counters!MetricsInv'
<1>1. UNCHANGED <<s1, s2, s3, s4, s7>>
  BY DEF Counters!ReadBegin, Counters!Read, Counters!ReadErr
<1>2. /\ s1 \in [Counters!Counters -> Nat] /\ s2 \in [Counters!Counters -> Nat]
      /\ s5 \in [DOMAIN Readers -> 0..5] /\ s6 \in [DOMAIN Readers -> [Counters!Counters -> Nat]]
      /\ \A b \in DOMAIN Readers : \A n \in Counters!Counters : s6[b][n] <= Counters!View(b)[n]
  BY CountedNames DEF Counters!MetricsInv, Counters!MetricsTypes, Counters!ShownIsReached
<1>3. \A b : Counters!View(b)' = Counters!View(b) /\ Counters!View(b) \in [Counters!Counters -> Nat]
  BY <1>1, <1>2 DEF Counters!View
<1>4. /\ s5' \in [DOMAIN Readers -> 0..5]
      /\ \/ s6' = s6
         \/ \E n \in Counters!Counters : s6' = [s6 EXCEPT ![d][n] = Counters!View(d)[n]]
  <2>1. CASE Counters!ReadBegin(d)
    BY <1>2, <2>1 DEF Counters!ReadBegin
  <2>2. CASE Counters!Read(d)
    <3>1. s5[d] \in 1..5 /\ s5' = [s5 EXCEPT ![d] = IF @ = 5 THEN 0 ELSE @ + 1]
      BY <1>2, <2>2, CountedNames DEF Counters!Read
    <3>2. s5' \in [DOMAIN Readers -> 0..5]
      BY <1>2, <3>1
    <3>3. Counters!Order[s5[d]] \in Counters!Counters
      BY <3>1, CountedNames
    <3> QED BY <2>2, <3>2, <3>3 DEF Counters!Read
  <2>3. CASE Counters!ReadErr(d)
    BY <1>2, <2>3 DEF Counters!ReadErr
  <2> QED BY <2>1, <2>2, <2>3
<1>5. /\ s6' \in [DOMAIN Readers -> [Counters!Counters -> Nat]]
      /\ \A b \in DOMAIN Readers : \A n \in Counters!Counters : s6'[b][n] <= Counters!View(b)'[n]
  <2>1. CASE s6' = s6
    BY <1>2, <1>3, <2>1
  <2>2. ASSUME NEW n \in Counters!Counters, s6' = [s6 EXCEPT ![d][n] = Counters!View(d)[n]]
        PROVE  /\ s6' \in [DOMAIN Readers -> [Counters!Counters -> Nat]]
               /\ \A b \in DOMAIN Readers : \A m \in Counters!Counters : s6'[b][m] <= Counters!View(b)'[m]
    <3>0. PICK v : v = Counters!View(d)[n]
      OBVIOUS
    <3>1. v \in Nat /\ s6' = [s6 EXCEPT ![d] = [s6[d] EXCEPT ![n] = v]]
      BY <1>3, <2>2, <3>0
    <3>2. [s6[d] EXCEPT ![n] = v] \in [Counters!Counters -> Nat]
      BY <1>2, <3>1
    <3>3. s6' \in [DOMAIN Readers -> [Counters!Counters -> Nat]]
      BY <1>2, <3>1, <3>2
    <3>4. ASSUME NEW b \in DOMAIN Readers, NEW m \in Counters!Counters
          PROVE  s6'[b][m] <= Counters!View(b)'[m]
      <4>1. CASE b = d /\ m = n
        <5>1. s6'[d][n] = v
          BY <1>2, <3>1, <3>2
        <5> QED BY <1>3, <3>0, <3>1, <4>1, <5>1
      <4>2. CASE ~(b = d /\ m = n)
        <5>1. s6'[b][m] = s6[b][m]
          BY <1>2, <3>1, <3>2, <4>2
        <5> QED BY <1>2, <1>3, <5>1
      <4> QED BY <4>1, <4>2
    <3> QED BY <3>3, <3>4
  <2> QED BY <1>4, <2>1, <2>2
<1>6. \A n : /\ Counters!Between(n)' = Counters!Between(n) /\ Counters!Counted(n)' = Counters!Counted(n)
             /\ Counters!Unobserved(n)' = Counters!Unobserved(n)
  BY <1>1 DEF Counters!Between, Counters!Counted, Counters!Unobserved
<1>7. Counters!Lockstep' /\ Counters!AddsUp'
  BY <1>1, <1>6 DEF Counters!MetricsInv, Counters!Lockstep, Counters!AddsUp
<1>8. Counters!MetricsTypes'
  BY <1>1, <1>4, <1>5, CountedNames DEF Counters!MetricsInv, Counters!MetricsTypes
<1>9. Counters!ShownIsReached'
  BY <1>5 DEF Counters!ShownIsReached
<1>10. /\ \A c \in Callers : Counters!Fits(s4'[c])
       /\ \A e \in Timed : s2'[e] = s3'[e] + Counters!Unobserved(e)'
  BY <1>1, <1>6 DEF Counters!MetricsInv
<1> QED
  BY <1>7, <1>8, <1>9, <1>10 DEF Counters!MetricsInv

LEMMA MetricsStep ==
  ASSUME Counters!MetricsInv, [Counters!Next]_(Counters!vars)
  PROVE  Counters!MetricsInv'
<1>1. CASE UNCHANGED Counters!vars
  <2>1. UNCHANGED <<s1, s2, s3, s4, s5, s6, s7>>
    BY <1>1 DEF Counters!vars
  <2>2. \A n : /\ Counters!Between(n)' = Counters!Between(n) /\ Counters!Counted(n)' = Counters!Counted(n)
               /\ Counters!Unobserved(n)' = Counters!Unobserved(n)
    BY <2>1 DEF Counters!Between, Counters!Counted, Counters!Unobserved
  <2>3. Counters!Lockstep' /\ Counters!AddsUp'
    BY <2>1, <2>2 DEF Counters!MetricsInv, Counters!Lockstep, Counters!AddsUp
  <2>4. Counters!MetricsTypes'
    BY <2>1 DEF Counters!MetricsInv, Counters!MetricsTypes
  <2>5. Counters!ShownIsReached'
    BY <2>1 DEF Counters!MetricsInv, Counters!ShownIsReached, Counters!View
  <2> QED BY <2>1, <2>2, <2>3, <2>4, <2>5 DEF Counters!MetricsInv
<1> QED
  BY <1>1, MetricsBegin, MetricsWork, MetricsObserve, MetricsAdd, MetricsInc, MetricsAnswer, MetricsReads
     DEF Counters!Next

LEMMA MetricsSound == Counters!MetricsInv => Counters!CountersAddUp
BY DEF Counters!MetricsInv, Counters!CountersAddUp
-----------------------------------------------------------------------------
(* The machines in their slots.  A behaviour is of one machine from the    *)
(* first state to the last.                                                *)

\* What the steps are taken to keep: the invariant of the machine it is.
RollbackFocus == focus = "rollback" => Rollback!RollbackInv
ReEmbedFocus == focus = "reembed" => ReEmbed!EmbInv
AccessFocus == focus = "access" => Access!WorkerInv
EnvironmentFocus == focus = "environment" => Environment!EnvInv
ProcessFocus == focus = "process" => Process!ProcessInv
ModelFocus == focus = "model" => Model!CallInv
CountersFocus == focus = "counters" => Counters!MetricsInv
FileFocus == focus = "file" => File!FileInv
SettingsFocus == focus = "settings" => Settings!RunsOnUsable

\* The call graph of tasks, settled by a cascade and worked on by the agent
\* (src/internal/store/recovery.go, src/internal/orchestrator/service.go): a
\* cascade rolls no task back twice, respects its limit and, without an error,
\* leaves no dependent it has not looked at; the agent executes a task once for
\* every path from its goal at most.  For every set of tasks, every acyclic
\* graph of them and every limit.
THEOREM RollbackKeeps == Spec => []RollbackKeepsGraph
<1>1. Init => RollbackFocus
  BY RollbackStart DEF Init, RollbackFocus
<1>2. RollbackFocus /\ [Next]_slots => RollbackFocus'
  <2> SUFFICES ASSUME RollbackFocus, [Next]_slots, focus' = "rollback" PROVE Rollback!RollbackInv'
    BY DEF RollbackFocus
  <2>1. focus = "rollback" /\ [Rollback!Next]_(Rollback!vars)
    BY DEF Next, slots, Rollback!vars, Rollback!storeVars, Rollback!loopVars
  <2> QED BY <2>1, RollbackStep DEF RollbackFocus
<1>3. RollbackFocus => RollbackKeepsGraph
  BY RollbackSound DEF RollbackFocus, RollbackKeepsGraph
<1> QED
  BY <1>1, <1>2, <1>3, PTL DEF Spec

LEMMA ReEmbedFocused == Spec => []ReEmbedFocus
<1>1. Init => ReEmbedFocus
  BY EmbInit DEF Init, ReEmbedFocus
<1>2. ReEmbedFocus /\ [Next]_slots => ReEmbedFocus'
  <2> SUFFICES ASSUME ReEmbedFocus, [Next]_slots, focus' = "reembed" PROVE ReEmbed!EmbInv'
    BY DEF ReEmbedFocus
  <2>1. focus = "reembed" /\ [ReEmbed!Next]_(ReEmbed!embVars)
    BY DEF Next, slots, ReEmbed!embVars
  <2> QED BY <2>1, EmbStep DEF ReEmbedFocus
<1> QED
  BY <1>1, <1>2, PTL DEF Spec

LEMMA AccessFocused == Spec => []AccessFocus
<1>1. Init => AccessFocus
  BY WorkerInit DEF Init, AccessFocus
<1>2. AccessFocus /\ [Next]_slots => AccessFocus'
  <2> SUFFICES ASSUME AccessFocus, [Next]_slots, focus' = "access" PROVE Access!WorkerInv'
    BY DEF AccessFocus
  <2>1. focus = "access" /\ [Access!Next]_(Access!workerVars)
    BY DEF Next, slots, Access!workerVars
  <2> QED BY <2>1, WorkerStep DEF AccessFocus
<1> QED
  BY <1>1, <1>2, PTL DEF Spec

\* The report of a batch that embeds rows anew (src/internal/reembed) counts
\* every row once, whatever is edited and refused meanwhile; and the worker of
\* the accesses (src/internal/metrics/worker.go) records each it has taken, or
\* counts it as dropped.  For every number of rows, batch size and buffer.
THEOREM AccountsAlwaysHold == Spec => []AccountsHold
<1>1. ReEmbedFocus /\ AccessFocus => AccountsHold
  BY EmbSound, WorkerSound DEF ReEmbedFocus, AccessFocus, AccountsHold
<1> QED
  BY <1>1, ReEmbedFocused, AccessFocused, PTL

LEMMA ProcessFocused == Spec => []ProcessFocus
<1>1. Init => ProcessFocus
  BY ProcInit DEF Init, ProcessFocus
<1>2. ProcessFocus /\ [Next]_slots => ProcessFocus'
  <2> SUFFICES ASSUME ProcessFocus, [Next]_slots, focus' = "process" PROVE Process!ProcessInv'
    BY DEF ProcessFocus
  <2>1. focus = "process" /\ [Process!Next]_(Process!processVars)
    BY DEF Next, slots, Process!processVars
  <2> QED BY <2>1, ProcStep DEF ProcessFocus
<1> QED
  BY <1>1, <1>2, PTL DEF Spec

LEMMA EnvironmentFocused == SingleWriter => (Spec => []EnvironmentFocus)
<1>1. Init => EnvironmentFocus
  BY EnvInit DEF Init, EnvironmentFocus
<1>2. SingleWriter /\ EnvironmentFocus /\ [Next]_slots => EnvironmentFocus'
  <2> SUFFICES ASSUME SingleWriter, EnvironmentFocus, [Next]_slots, focus' = "environment"
               PROVE  Environment!EnvInv'
    BY DEF EnvironmentFocus
  <2>1. focus = "environment" /\ [Environment!Next]_(Environment!envMgrVars)
    BY DEF Next, slots, Environment!envMgrVars
  <2> QED BY <2>1, EnvStep DEF EnvironmentFocus
<1>3. SUFFICES ASSUME SingleWriter PROVE Spec => []EnvironmentFocus
  OBVIOUS
<1>4. EnvironmentFocus /\ [Next]_slots => EnvironmentFocus'
  BY <1>2, <1>3
<1> QED
  BY <1>1, <1>4, PTL DEF Spec

\* Nobody works on a pool that is closed: not the requests and jobs of a
\* process that shuts down (src/main.go, src/internal/lifecycle),
\* and not the environment that is current while profiles are switched
\* (src/internal/cli/env/env.go), as long as one switches at a time.
THEOREM HandlesAlwaysOpen == SingleWriter => (Spec => []HandlesStayOpen)
<1>1. ProcessFocus /\ EnvironmentFocus => HandlesStayOpen
  BY ProcSound, EnvSound DEF ProcessFocus, EnvironmentFocus, HandlesStayOpen
<1> SUFFICES ASSUME SingleWriter PROVE Spec => []HandlesStayOpen
  OBVIOUS
<1>2. Spec => []EnvironmentFocus
  BY EnvironmentFocused
<1> QED
  BY <1>1, <1>2, ProcessFocused, PTL

\* A call of a model (src/internal/ai): no more requests than it may send,
\* each with its body and at most one of them after the deadline; a value from
\* a good answer only, and from a reranker every candidate whenever the call
\* fails, or OpenAI is asked.  For every number of attempts and candidates and
\* every order the model may answer with.
THEOREM CallsAreSound == Spec => []CallIsSound
<1>1. Init => ModelFocus
  BY CallStart DEF Init, ModelFocus
<1>2. ModelFocus /\ [Next]_slots => ModelFocus'
  <2> SUFFICES ASSUME ModelFocus, [Next]_slots, focus' = "model" PROVE Model!CallInv'
    BY DEF ModelFocus
  <2>1. focus = "model" /\ [Model!Next]_(Model!callVars)
    BY DEF Next, slots, Model!callVars
  <2> QED BY <2>1, CallStep DEF ModelFocus
<1>3. ModelFocus => CallIsSound
  BY CallSound DEF ModelFocus, CallIsSound
<1> QED
  BY <1>1, <1>2, <1>3, PTL DEF Spec

\* The two sets of counters (src/internal/metrics) tell the same of what was
\* answered, in every interleaving of the callers and of those who read, but
\* for what a caller is just about to count.  For all callers and endpoints.
THEOREM CountersAgree == Spec => []CountersAddUp
<1>1. Init => CountersFocus
  BY MetricsStart DEF Init, CountersFocus
<1>2. CountersFocus /\ [Next]_slots => CountersFocus'
  <2> SUFFICES ASSUME CountersFocus, [Next]_slots, focus' = "counters" PROVE Counters!MetricsInv'
    BY DEF CountersFocus
  <2>1. focus = "counters" /\ [Counters!Next]_(Counters!vars)
    BY DEF Next, slots, Counters!vars
  <2> QED BY <2>1, MetricsStep DEF CountersFocus
<1>3. CountersFocus => CountersAddUp
  BY MetricsSound DEF CountersFocus, CountersAddUp
<1> QED
  BY <1>1, <1>2, <1>3, PTL DEF Spec

\* Over any sequence of additions, removals and rotations of keys in any
\* hermem.ini whose list of keys is there once (src/internal/config/update.go),
\* what the server loads is what the operator was told, without the additions
\* that were lost, unless an addition has spoiled the heading [server]; in a
\* file that begins with [server] and has nothing after it none is lost, and
\* no line but that of the keys is touched.  And what a server runs with and
\* shows to requests (ini.go, schema.go) is usable whatever its files hold,
\* however they are edited, reloaded and refused.
THEOREM SettingsAlwaysSound == Spec => []SettingsSound
<1>1. Init => FileFocus /\ SettingsFocus
  BY FileStart DEF Init, FileFocus, SettingsFocus, Settings!Init, Settings!RunsOnUsable
<1>2. FileFocus /\ [Next]_slots => FileFocus'
  <2> SUFFICES ASSUME FileFocus, [Next]_slots, focus' = "file" PROVE File!FileInv'
    BY DEF FileFocus
  <2>1. focus = "file" /\ [File!FileNext]_(File!fileVars)
    BY DEF Next, slots, File!fileVars
  <2> QED BY <2>1, FileStep DEF FileFocus
<1>3. SettingsFocus /\ [Next]_slots => SettingsFocus'
  <2> SUFFICES ASSUME SettingsFocus, [Next]_slots, focus' = "settings" PROVE Settings!RunsOnUsable'
    BY DEF SettingsFocus
  <2>1. focus = "settings" /\ [Settings!Next]_(Settings!configVars)
    BY DEF Next, slots, Settings!configVars
  <2> QED BY <2>1, SettingsStep DEF SettingsFocus
<1>4. FileFocus /\ SettingsFocus => SettingsSound
  BY FileSound DEF FileFocus, SettingsFocus, SettingsSound
<1> QED
  BY <1>1, <1>2, <1>3, <1>4, PTL DEF Spec
=============================================================================
