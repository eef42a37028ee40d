---------------------------- MODULE MemoryProofs ----------------------------
(***************************************************************************)
(* Proofs about Memory, for all values of its constants that               *)
(* MemoryAssumption admits: statements, vectors, the full text table,      *)
(* beliefs, episodes and dialog.  The schema, the rows made from other     *)
(* rows and the front ends are in MemoryRowsProofs.                        *)
(*                                                                         *)
(* A machine's inductive invariant stands at the end of its own module; the*)
(* lemmas here say, machine by machine, that every action keeps it.  The   *)
(* theorems are at the end: a step of Memory is a step of the machine it is*)
(* about, in its slots.                                                    *)
(***************************************************************************)
EXTENDS Memory, FiniteSetTheorems, SequenceTheorems, TLAPS

\* What sequences and finite sets do when one element comes or goes.
LEMMA AppendFacts ==
  ASSUME NEW S, NEW s \in Seq(S), NEW e \in S
  PROVE  /\ Append(s, e) \in Seq(S) /\ Append(s, e) # <<>>
         /\ Len(s) \in Nat /\ Len(Append(s, e)) = Len(s) + 1
         /\ \A k \in DOMAIN s : k \in DOMAIN Append(s, e) /\ Append(s, e)[k] = s[k]
         /\ Len(s) + 1 \in DOMAIN Append(s, e) /\ Append(s, e)[Len(s) + 1] = e
         /\ \A k \in DOMAIN Append(s, e) : k \in DOMAIN s \/ k = Len(s) + 1
<1>1. Append(s, e) # <<>>
  BY AppendProperties
<1> QED
  BY <1>1

LEMMA TailFacts ==
  ASSUME NEW S, NEW s \in Seq(S), s # <<>>
  PROVE  /\ Head(s) \in S /\ Head(s) = s[1] /\ 1 \in DOMAIN s
         /\ Tail(s) \in Seq(S) /\ Len(s) \in Nat /\ Len(Tail(s)) = Len(s) - 1
         /\ \A k \in DOMAIN Tail(s) : k \in Nat /\ k + 1 \in DOMAIN s /\ Tail(s)[k] = s[k + 1]
         /\ \A k \in DOMAIN s : k = 1 \/ (k - 1 \in DOMAIN Tail(s) /\ s[k] = Tail(s)[k - 1])
<1>1. Head(s) \in S /\ Tail(s) \in Seq(S)
  BY HeadTailProperties
<1>2. Len(s) \in Nat /\ Len(s) # 0
  BY EmptySeq
<1>3. Len(Tail(s)) = Len(s) - 1 /\ Head(s) = s[1] /\ \A k \in 1..(Len(s) - 1) : Tail(s)[k] = s[k + 1]
  BY <1>2
<1>4. DOMAIN s = 1..Len(s) /\ DOMAIN Tail(s) = 1..(Len(s) - 1)
  BY <1>1, <1>3, LenProperties
<1> QED
  BY <1>1, <1>2, <1>3, <1>4

\* One element more or less.
LEMMA Counting ==
  ASSUME NEW S, IsFiniteSet(S), NEW x
  PROVE  /\ Cardinality(S) \in Nat
         /\ IsFiniteSet(S \cup {x}) /\ Cardinality(S \cup {x}) \in Nat
         /\ Cardinality(S \cup {x}) <= Cardinality(S) + 1
         /\ IsFiniteSet(S \ {x}) /\ Cardinality(S \ {x}) \in Nat
         /\ Cardinality(S \ {x}) <= Cardinality(S)
<1>1. Cardinality(S) \in Nat
  BY FS_CardinalityType
<1>2. IsFiniteSet(S \cup {x}) /\ Cardinality(S \cup {x}) <= Cardinality(S) + 1
  BY <1>1, FS_AddElement
<1>3. Cardinality(S \cup {x}) \in Nat
  BY <1>2, FS_CardinalityType
<1>4. S \ {x} \in SUBSET S
  OBVIOUS
<1>5. IsFiniteSet(S \ {x}) /\ Cardinality(S \ {x}) <= Cardinality(S)
  BY <1>4, FS_Subset
<1>6. Cardinality(S \ {x}) \in Nat
  BY <1>5, FS_CardinalityType
<1> QED BY <1>1, <1>2, <1>3, <1>5, <1>6

-----------------------------------------------------------------------------
(* StmtCache: the cache, the open statements, their number and the requests   *)
(* are s1 to s4.                                                               *)

\* The same for the operators as the machine has them.
LEMMA StmtCounting ==
  /\ Statements!IsFiniteSet({}) /\ Statements!Cardinality({}) = 0
  /\ \A x : Statements!IsFiniteSet({x}) /\ Statements!Cardinality({x}) = 1
  /\ \A S : Statements!IsFiniteSet(S) => \A x :
         /\ Statements!Cardinality(S) \in Nat
         /\ Statements!IsFiniteSet(S \cup {x}) /\ Statements!Cardinality(S \cup {x}) \in Nat
         /\ Statements!Cardinality(S \cup {x}) <= Statements!Cardinality(S) + 1
         /\ Statements!IsFiniteSet(S \ {x}) /\ Statements!Cardinality(S \ {x}) \in Nat
         /\ Statements!Cardinality(S \ {x}) <= Statements!Cardinality(S)
<1>1. \A S : Statements!IsFiniteSet(S) = IsFiniteSet(S) /\ Statements!Cardinality(S) = Cardinality(S)
  BY DEF Statements!IsFiniteSet, IsFiniteSet, Statements!Cardinality, Cardinality
<1>2. IsFiniteSet({}) /\ Cardinality({}) = 0 /\ \A x : IsFiniteSet({x}) /\ Cardinality({x}) = 1
  BY FS_EmptySet, FS_Singleton
<1> QED BY <1>1, <1>2, Counting

LEMMA StmtInitInv ==
  ASSUME MaxCachedStmts \in Nat \ {0}, Statements!Init
  PROVE  Statements!StmtInv
<1>1. Statements!Cached = {}
  BY DEF Statements!Init, Statements!Cached
<1>2. Statements!IsFiniteSet(Statements!Cached) /\ Statements!Cardinality(Statements!Cached) = 0
  BY <1>1, StmtCounting
<1>3. Statements!StmtTypes
  BY DEF Statements!Init, Statements!StmtTypes, Statements!Stmts, Statements!NoCall, Statements!At
<1>4. Statements!OneOwner
  BY DEF Statements!Init, Statements!OneOwner, Statements!NoCall, Statements!At
<1>5. Statements!StatementsAccounted
  BY <1>1, <1>2 DEF Statements!Init, Statements!StatementsAccounted
<1> QED BY <1>2, <1>3, <1>4, <1>5 DEF Statements!StmtInv

\* A step that leaves the statements alone and starts no insertion.
LEMMA CallMoves ==
  ASSUME Statements!StmtInv, NEW r \in StmtRequests, UNCHANGED <<s1, s2, s3>>,
         NEW pc \in {"idle", "prepare", "query", "drop"},
         NEW q \in StmtQueries \cup {NoStmt}, NEW s \in Statements!Stmts, pc = "idle" \/ q \in StmtQueries,
         ~Statements!At(r, "insert"),
         s4' = [s4 EXCEPT ![r] = [pc |-> pc, query |-> q, stmt |-> s]]
  PROVE  Statements!StmtInv'
<1>1. Statements!Cached' = Statements!Cached
  BY DEF Statements!Cached
<1>2. /\ s4'[r] = [pc |-> pc, query |-> q, stmt |-> s]
      /\ \A t \in StmtRequests : t # r => s4'[t] = s4[t]
  BY DEF Statements!StmtInv, Statements!StmtTypes
<1>3. Statements!StmtTypes'
  BY <1>2 DEF Statements!StmtInv, Statements!StmtTypes, Statements!At
<1>4. \A t \in StmtRequests : Statements!At(t, "insert")' <=> Statements!At(t, "insert")
  BY <1>2 DEF Statements!At
<1>5. Statements!OneOwner'
  BY <1>1, <1>2, <1>4 DEF Statements!StmtInv, Statements!OneOwner, Statements!At
<1>6. Statements!StatementsAccounted'
  BY <1>1, <1>2, <1>4 DEF Statements!StmtInv, Statements!StatementsAccounted, Statements!At
<1> QED BY <1>1, <1>3, <1>5, <1>6 DEF Statements!StmtInv

LEMMA PrepareInv ==
  ASSUME NoStmt \notin Nat, Statements!StmtInv, NEW r \in StmtRequests, Statements!Prepare(r)
  PROVE  Statements!StmtInv'
<1>1. CASE s4' = [s4 EXCEPT ![r] = Statements!NoCall] /\ UNCHANGED <<s2, s3>>
  <2>1. s1' = s1 /\ ~Statements!At(r, "insert")
    BY DEF Statements!Prepare, Statements!At
  <2> QED BY <1>1, <2>1, CallMoves DEF Statements!NoCall, Statements!Stmts
<1>2. CASE /\ s3' = s3 + 1 /\ s2' = s2 \cup {s3'}
           /\ s4' = [s4 EXCEPT ![r] = [@ EXCEPT !.pc = "insert", !.stmt = s3']]
  <2>1. s1' = s1 /\ Statements!Cached' = Statements!Cached /\ Statements!At(r, "prepare")
    BY DEF Statements!Prepare, Statements!Cached
  <2>2. /\ s4'[r].pc = "insert" /\ s4'[r].stmt = s3' /\ s4'[r].query = s4[r].query
        /\ \A t \in StmtRequests : t # r => s4'[t] = s4[t]
    BY <1>2 DEF Statements!StmtInv, Statements!StmtTypes
  <2>3. s3' \in Nat /\ s3' \notin s2 /\ s3' \notin Statements!Cached
    BY <1>2 DEF Statements!StmtInv, Statements!StmtTypes, Statements!StatementsAccounted
  <2>4. Statements!StmtTypes'
    <3>1. s4[r].query \in StmtQueries
      BY <2>1 DEF Statements!StmtInv, Statements!StmtTypes, Statements!At
    <3>2. \A n \in s2' : n <= s3'
      BY <1>2 DEF Statements!StmtInv, Statements!StmtTypes
    <3>3. s2' \subseteq Nat
      BY <1>2, <2>3 DEF Statements!StmtInv, Statements!StmtTypes
    <3>4. s4' \in [StmtRequests -> [pc : {"idle", "prepare", "insert", "query", "drop"},
                                    query : StmtQueries \cup {NoStmt}, stmt : Statements!Stmts]]
      <4> DEFINE C == [pc : {"idle", "prepare", "insert", "query", "drop"},
                       query : StmtQueries \cup {NoStmt}, stmt : Statements!Stmts]
                 c == [s4[r] EXCEPT !.pc = "insert", !.stmt = s3']
      <4>1. s4 \in [StmtRequests -> C] /\ s3' \in Statements!Stmts
        BY <2>3 DEF Statements!StmtInv, Statements!StmtTypes, Statements!Stmts
      <4>2. c \in C
        BY ONLY <4>1
      <4>3. s4' = [s4 EXCEPT ![r] = c]
        BY <1>2
      <4> HIDE DEF C, c
      <4>4. s4' \in [StmtRequests -> C]
        BY <4>1, <4>2, <4>3
      <4> QED BY <4>4 DEF C
    <3>5. \A t \in StmtRequests : ~Statements!At(t, "idle")' => s4'[t].query \in StmtQueries
      BY <2>2, <3>1 DEF Statements!StmtInv, Statements!StmtTypes, Statements!At
    <3> QED BY <2>1, <2>3, <3>2, <3>3, <3>4, <3>5 DEF Statements!StmtInv, Statements!StmtTypes
  <2>5. Statements!OneOwner'
    BY <1>2, <2>1, <2>2, <2>3 DEF Statements!StmtInv, Statements!OneOwner, Statements!At
  <2>6. Statements!StatementsAccounted'
    BY <1>2, <2>1, <2>2 DEF Statements!StmtInv, Statements!StatementsAccounted, Statements!At
  <2> QED BY <2>1, <2>4, <2>5, <2>6 DEF Statements!StmtInv
<1> QED BY <1>1, <1>2 DEF Statements!Prepare

LEMMA InsertInv ==
  ASSUME NoStmt \notin Nat, MaxCachedStmts \in Nat \ {0}, Statements!StmtInv, NEW r \in StmtRequests, Statements!Insert(r)
  PROVE  Statements!StmtInv'
<1> DEFINE q == s4[r].query
           mine == s4[r].stmt
<1>1. Statements!At(r, "insert") /\ q \in StmtQueries /\ mine \in s2 /\ mine \notin Statements!Cached /\ mine \in Nat
      /\ mine # NoStmt /\ s3' = s3
  BY DEF Statements!Insert, Statements!StmtInv, Statements!StmtTypes, Statements!OneOwner, Statements!At
<1>2. CASE s1[q] # NoStmt
  <2>1. /\ s2' = s2 \ {mine} /\ s1' = s1 /\ Statements!Cached' = Statements!Cached
        /\ s4' = [s4 EXCEPT ![r] = [@ EXCEPT !.pc = "query", !.stmt = s1[q]]]
    BY <1>2 DEF Statements!Insert, Statements!Cached
  <2>2. /\ s4'[r].pc = "query" /\ s4'[r].stmt = s1[q] /\ s4'[r].query = q
        /\ \A t \in StmtRequests : t # r => s4'[t] = s4[t]
    BY <2>1 DEF Statements!StmtInv, Statements!StmtTypes
  <2>3. Statements!StmtTypes'
    BY <1>1, <2>1, <2>2 DEF Statements!StmtInv, Statements!StmtTypes, Statements!Stmts, Statements!At
  <2>4. Statements!OneOwner'
    BY <1>1, <2>1, <2>2 DEF Statements!StmtInv, Statements!OneOwner, Statements!At
  <2>5. Statements!StatementsAccounted'
    BY <1>1, <2>1, <2>2 DEF Statements!StmtInv, Statements!StatementsAccounted, Statements!At
  <2> QED BY <2>1, <2>3, <2>4, <2>5 DEF Statements!StmtInv
<1>3. CASE s1[q] = NoStmt
  <2>1. /\ s4' = [s4 EXCEPT ![r].pc = "query"]
        /\ s4'[r].pc = "query" /\ s4'[r].stmt = mine /\ s4'[r].query = q
        /\ \A t \in StmtRequests : t # r => s4'[t] = s4[t]
    BY <1>3 DEF Statements!Insert, Statements!StmtInv, Statements!StmtTypes
  <2>2. s4' \in [StmtRequests -> [pc : {"idle", "prepare", "insert", "query", "drop"},
                                  query : StmtQueries \cup {NoStmt}, stmt : Statements!Stmts]]
    BY <2>1 DEF Statements!StmtInv, Statements!StmtTypes
  <2>3. CASE Statements!Cardinality(Statements!Cached) >= MaxCachedStmts
    <3>1. /\ s2' = s2 \ Statements!Cached
          /\ s1' = [k \in StmtQueries |-> IF k = q THEN mine ELSE NoStmt]
      BY <1>3, <2>3 DEF Statements!Insert
    <3>2. Statements!Cached' = {mine}
      BY <1>1, <3>1 DEF Statements!Cached
    <3>3. Statements!IsFiniteSet(Statements!Cached') /\ Statements!Cardinality(Statements!Cached') <= MaxCachedStmts
      <4>1. Statements!Cardinality({mine}) = 1 /\ Statements!IsFiniteSet({mine})
        BY StmtCounting
      <4> QED BY <3>2, <4>1
    <3>4. Statements!StmtTypes'
      BY <1>1, <2>1, <2>2, <3>1 DEF Statements!StmtInv, Statements!StmtTypes, Statements!Stmts, Statements!At
    <3>5. Statements!OneOwner'
      BY <1>1, <2>1, <3>1, <3>2 DEF Statements!StmtInv, Statements!OneOwner, Statements!At
    <3>6. Statements!StatementsAccounted'
      BY <1>1, <2>1, <3>1, <3>2, <3>3 DEF Statements!StmtInv, Statements!StatementsAccounted, Statements!At
    <3> QED BY <3>3, <3>4, <3>5, <3>6 DEF Statements!StmtInv
  <2>4. CASE ~(Statements!Cardinality(Statements!Cached) >= MaxCachedStmts)
    <3>1. s2' = s2 /\ s1' = [s1 EXCEPT ![q] = mine]
      BY <1>3, <2>4 DEF Statements!Insert
    <3>2. Statements!Cached' = Statements!Cached \cup {mine}
      BY <1>1, <1>3, <3>1 DEF Statements!Cached, Statements!StmtInv, Statements!StmtTypes
    <3>3. Statements!IsFiniteSet(Statements!Cached') /\ Statements!Cardinality(Statements!Cached') <= MaxCachedStmts
      <4>1. Statements!IsFiniteSet(Statements!Cached)
        BY DEF Statements!StmtInv
      <4> DEFINE new == Statements!Cached \cup {mine}
      <4>2. /\ Statements!IsFiniteSet(new) /\ Statements!Cardinality(new) \in Nat /\ Statements!Cardinality(Statements!Cached) \in Nat
            /\ Statements!Cardinality(new) <= Statements!Cardinality(Statements!Cached) + 1
        BY <4>1, StmtCounting
      <4>3. Statements!Cardinality(new) <= MaxCachedStmts
        <5> HIDE DEF new
        <5> QED BY <2>4, <4>2
      <4> QED BY <3>2, <4>2, <4>3
    <3>4. Statements!StmtTypes'
      BY <1>1, <2>1, <2>2, <3>1 DEF Statements!StmtInv, Statements!StmtTypes, Statements!Stmts, Statements!At
    <3>5. Statements!OneOwner'
      <4>1. \A p \in StmtQueries : s1'[p] = IF p = q THEN mine ELSE s1[p]
        BY <3>1 DEF Statements!StmtInv, Statements!StmtTypes
      <4>2. \A p \in StmtQueries : s1[p] # mine
        BY <1>1 DEF Statements!Cached
      <4> QED BY <1>1, <2>1, <3>1, <3>2, <4>1, <4>2 DEF Statements!StmtInv, Statements!OneOwner, Statements!At
    <3>6. Statements!StatementsAccounted'
      BY <1>1, <2>1, <3>1, <3>2, <3>3 DEF Statements!StmtInv, Statements!StatementsAccounted, Statements!At
    <3> QED BY <3>3, <3>4, <3>5, <3>6 DEF Statements!StmtInv
  <2> QED BY <2>3, <2>4
<1> QED BY <1>2, <1>3

LEMMA DropInv ==
  ASSUME NoStmt \notin Nat, MaxCachedStmts \in Nat \ {0}, Statements!StmtInv, NEW r \in StmtRequests, Statements!Drop(r)
  PROVE  Statements!StmtInv'
<1> DEFINE q == s4[r].query
           s == s4[r].stmt
<1>1. Statements!At(r, "drop") /\ ~Statements!At(r, "insert") /\ q \in StmtQueries /\ s3' = s3
      /\ s4' = [s4 EXCEPT ![r] = Statements!NoCall]
  BY DEF Statements!Drop, Statements!StmtInv, Statements!StmtTypes, Statements!At
<1>2. CASE s1[q] # s
  BY <1>1, <1>2, CallMoves DEF Statements!Drop, Statements!NoCall, Statements!Stmts
<1>3. CASE s1[q] = s
  <2>1. s1' = [s1 EXCEPT ![q] = NoStmt] /\ s2' = s2 \ {s}
    BY <1>3 DEF Statements!Drop
  <2>2. Statements!Cached' = Statements!Cached \ {s}
    <3>1. \A p \in StmtQueries : s1'[p] = IF p = q THEN NoStmt ELSE s1[p]
      BY <2>1 DEF Statements!StmtInv, Statements!StmtTypes
    <3>2. \A p \in StmtQueries : p # q /\ s1[p] # NoStmt => s1[p] # s
      BY <1>1, <1>3 DEF Statements!StmtInv, Statements!OneOwner
    <3> QED BY <1>1, <1>3, <3>1, <3>2 DEF Statements!Cached
  <2>3. Statements!IsFiniteSet(Statements!Cached') /\ Statements!Cardinality(Statements!Cached') <= MaxCachedStmts
    <3>1. Statements!IsFiniteSet(Statements!Cached) /\ Statements!Cardinality(Statements!Cached) <= MaxCachedStmts
      BY DEF Statements!StmtInv, Statements!StatementsAccounted
    <3> DEFINE rest == Statements!Cached \ {s}
    <3>2. /\ Statements!IsFiniteSet(rest) /\ Statements!Cardinality(rest) \in Nat /\ Statements!Cardinality(Statements!Cached) \in Nat
          /\ Statements!Cardinality(rest) <= Statements!Cardinality(Statements!Cached)
      BY <3>1, StmtCounting
    <3>3. Statements!Cardinality(rest) <= MaxCachedStmts
      <4> HIDE DEF rest
      <4> QED BY <3>1, <3>2
    <3> QED BY <2>2, <3>2, <3>3
  <2>4. /\ s4'[r] = Statements!NoCall
        /\ \A t \in StmtRequests : t # r => s4'[t] = s4[t]
    BY <1>1 DEF Statements!StmtInv, Statements!StmtTypes
  <2>5. Statements!StmtTypes'
    BY <1>1, <2>1, <2>4 DEF Statements!StmtInv, Statements!StmtTypes, Statements!Stmts, Statements!At, Statements!NoCall
  <2>6. \A t \in StmtRequests : Statements!At(t, "insert") => s4[t].stmt # s
    BY <1>1, <1>3 DEF Statements!StmtInv, Statements!OneOwner, Statements!Cached, Statements!StmtTypes
  <2>7. \A p \in StmtQueries : s1'[p] = NoStmt \/ s1'[p] = s1[p]
    BY <2>1 DEF Statements!StmtInv, Statements!StmtTypes
  <2>8. \A t \in StmtRequests : Statements!At(t, "insert")' => t # r /\ Statements!At(t, "insert")
    BY <2>4 DEF Statements!At, Statements!NoCall
  <2>9. Statements!OneOwner'
    BY <2>1, <2>2, <2>4, <2>6, <2>7, <2>8 DEF Statements!StmtInv, Statements!OneOwner
  <2>10. Statements!StatementsAccounted'
    <3>1. \A t \in StmtRequests : Statements!At(t, "insert") => Statements!At(t, "insert")' /\ s4'[t] = s4[t]
      BY <1>1, <2>4 DEF Statements!At
    <3> QED BY <2>1, <2>2, <2>3, <3>1 DEF Statements!StmtInv, Statements!StatementsAccounted
  <2> QED BY <2>3, <2>5, <2>9, <2>10 DEF Statements!StmtInv
<1> QED BY <1>2, <1>3

LEMMA StmtNextInv ==
  ASSUME NoStmt \notin Nat, MaxCachedStmts \in Nat \ {0}, Statements!StmtInv, [Statements!Next]_(Statements!stmtVars)
  PROVE  Statements!StmtInv'
<1>1. ASSUME NEW r \in StmtRequests, NEW q \in StmtQueries, Statements!LookUp(r, q) PROVE Statements!StmtInv'
  <2>1. ~Statements!At(r, "insert") /\ s1[q] \in Statements!Stmts /\ UNCHANGED <<s1, s2, s3>>
    BY <1>1 DEF Statements!LookUp, Statements!At, Statements!StmtInv, Statements!StmtTypes
  <2>2. CASE s1[q] = NoStmt
    <3>1. s4' = [s4 EXCEPT ![r] = [pc |-> "prepare", query |-> q, stmt |-> s1[q]]]
      BY <1>1, <2>2 DEF Statements!LookUp
    <3> QED BY <2>1, <3>1, CallMoves
  <2>3. CASE s1[q] # NoStmt
    <3>1. s4' = [s4 EXCEPT ![r] = [pc |-> "query", query |-> q, stmt |-> s1[q]]]
      BY <1>1, <2>3 DEF Statements!LookUp
    <3> QED BY <2>1, <3>1, CallMoves
  <2> QED BY <2>2, <2>3
<1>2. ASSUME NEW r \in StmtRequests, Statements!Query(r) PROVE Statements!StmtInv'
  <2>1. /\ Statements!At(r, "query") /\ ~Statements!At(r, "insert") /\ UNCHANGED <<s1, s2, s3>>
        /\ s4[r].query \in StmtQueries /\ s4[r].stmt \in Statements!Stmts
    BY <1>2 DEF Statements!Query, Statements!At, Statements!StmtInv, Statements!StmtTypes
  <2>2. CASE s4' = [s4 EXCEPT ![r] = Statements!NoCall]
    BY <2>1, <2>2, CallMoves DEF Statements!NoCall, Statements!Stmts
  <2>3. CASE s4' = [s4 EXCEPT ![r].pc = "drop"]
    <3>1. s4[r] = [pc |-> s4[r].pc, query |-> s4[r].query, stmt |-> s4[r].stmt]
      BY DEF Statements!StmtInv, Statements!StmtTypes
    <3>2. [s4[r] EXCEPT !.pc = "drop"]
            = [pc |-> "drop", query |-> s4[r].query, stmt |-> s4[r].stmt]
      BY <3>1
    <3>3. s4' = [s4 EXCEPT ![r] = [pc |-> "drop", query |-> s4[r].query,
                                           stmt |-> s4[r].stmt]]
      BY <2>3, <3>2
    <3> QED BY <2>1, <3>3, CallMoves
  <2> QED BY <1>2, <2>2, <2>3 DEF Statements!Query
<1>3. CASE UNCHANGED Statements!stmtVars
  <2>1. Statements!Cached' = Statements!Cached
    BY <1>3 DEF Statements!stmtVars, Statements!Cached
  <2> QED BY <1>3, <2>1 DEF Statements!stmtVars, Statements!StmtInv, Statements!StmtTypes, Statements!OneOwner, Statements!StatementsAccounted, Statements!At
<1> QED BY <1>1, <1>2, <1>3, PrepareInv, InsertInv, DropInv DEF Statements!Next

-----------------------------------------------------------------------------
(* VectorStore: dimensions, matrices, positions and the running call are s1   *)
(* to s4.  A record changes one row and one position, so that it is enough to  *)
(* look at its namespace; a deletion moves the last row, and the position of   *)
(* the id in that row with it.                                                 *)

\* The operators on sets as the machine has them are the library's.
LEMMA VecCounting ==
  \A S : (Vectors!IsFiniteSet(S) <=> IsFiniteSet(S)) /\ Vectors!Cardinality(S) = Cardinality(S)
BY DEF Vectors!IsFiniteSet, IsFiniteSet, Vectors!Cardinality, Cardinality

LEMMA NoCallType == Vectors!NoCall \in Vectors!Calls
BY DEF Vectors!NoCall, Vectors!Calls

LEMMA VecInitInv ==
  ASSUME Vectors!VectorStoreAssumption, Vectors!Init
  PROVE  Vectors!VecShape /\ Vectors!Map = Vectors!Index!Empty /\ s4.refused = {}
<1>1. Vectors!VecTypes
  BY NoCallType DEF Vectors!VectorStoreAssumption, Vectors!Init, Vectors!VecTypes, Vectors!Matrix
<1>2. Vectors!AllDense
  BY DEF Vectors!Init, Vectors!AllDense, Vectors!Dense
<1>3. Vectors!Held = {}
  BY DEF Vectors!Init, Vectors!Held
<1>4. Vectors!Bounded
  <2>1. IsFiniteSet(Vectors!Held) /\ Cardinality(Vectors!Held) = 0
    BY <1>3, FS_EmptySet
  <2> QED BY <2>1, VecCounting DEF Vectors!Bounded, Vectors!VectorStoreAssumption
<1>5. Vectors!Map = Vectors!Index!Empty
  BY DEF Vectors!Init, Vectors!Map, Vectors!Vec, Vectors!Index!Empty
<1> QED BY <1>1, <1>2, <1>4, <1>5 DEF Vectors!VecShape, Vectors!Init, Vectors!NoCall

\* A step that leaves the matrix alone.
LEMMA MatrixKept ==
  ASSUME Vectors!VecShape, UNCHANGED <<s1, s2, s3>>, Vectors!VecTypes'
  PROVE  Vectors!VecShape' /\ Vectors!Map' = Vectors!Map
<1>1. Vectors!AllDense' /\ Vectors!Held' = Vectors!Held
  BY DEF Vectors!VecShape, Vectors!AllDense, Vectors!Dense, Vectors!Held
<1>2. Vectors!Map' = Vectors!Map
  BY DEF Vectors!Map, Vectors!Vec, Vectors!RowOf
<1> QED BY <1>1, <1>2 DEF Vectors!VecShape, Vectors!Bounded

\* A record is stored over the row of its id.
LEMMA Overwrite ==
  ASSUME Vectors!VectorStoreAssumption, Vectors!VecShape,
         NEW ns \in Namespaces, NEW id \in VectorIds, NEW v \in VectorValues,
         Vectors!Fits(ns, id, v), Vectors!Place(ns, id, v), s1' = [s1 EXCEPT ![ns] = Dim[v]],
         s3[ns][id] # 0
  PROVE  /\ s2' \in [Namespaces -> Vectors!Matrix] /\ Vectors!AllDense' /\ Vectors!Held' = Vectors!Held
         /\ Vectors!Map' = [Vectors!Map EXCEPT ![ns][id] = v]
<1> DEFINE row == s3[ns][id]
           rows == s2[ns].rows
           new == [rows EXCEPT ![row] = <<id, v>>]
<1>1. /\ s2' = [s2 EXCEPT ![ns].rows = new] /\ s3' = s3
  BY DEF Vectors!Place
<1>2. /\ rows \in Seq(VectorIds \X VectorValues) /\ row \in 1..Len(rows) /\ rows[row][1] = id
      /\ Dim[v] \in Nat
  <2>1. rows \in Seq(VectorIds \X VectorValues) /\ row \in Nat /\ Len(rows) \in Nat
    BY DEF Vectors!VecShape, Vectors!VecTypes, Vectors!Matrix
  <2>2. row <= Len(rows) /\ rows[row][1] = id
    BY DEF Vectors!VecShape, Vectors!AllDense, Vectors!Dense
  <2>3. Dim[v] \in Nat
    BY DEF Vectors!VectorStoreAssumption
  <2> QED BY <2>1, <2>2, <2>3
<1>3. /\ new \in Seq(VectorIds \X VectorValues) /\ Len(new) = Len(rows) /\ new[row] = <<id, v>>
      /\ \A i \in 1..Len(rows) : i # row => new[i] = rows[i]
  BY <1>2, ExceptSeq
<1>4. /\ s2' \in [Namespaces -> Vectors!Matrix]
      /\ s2'[ns].rows = new /\ s2'[ns].made = s2[ns].made /\ s2'[ns].dim = s2[ns].dim
      /\ \A m \in Namespaces : m # ns => s2'[m] = s2[m]
  BY <1>1, <1>3 DEF Vectors!VecShape, Vectors!VecTypes, Vectors!Matrix
<1>5. /\ s1'[ns] = Dim[v] /\ \A m \in Namespaces : m # ns => s1'[m] = s1[m]
  BY DEF Vectors!VecShape, Vectors!VecTypes
<1>6. s2[ns].made /\ s2[ns].dim = s1[ns] /\ s2[ns].dim = Dim[v]
  BY <1>2 DEF Vectors!VecShape, Vectors!AllDense, Vectors!Dense, Vectors!Fits
<1>7. Vectors!Dense(s2'[ns], s3'[ns], s1'[ns])
  <2> HIDE DEF new, rows, row
  <2>0. Vectors!Dense(s2[ns], s3[ns], s1[ns])
    BY DEF Vectors!VecShape, Vectors!AllDense
  <2>1. \A i \in 1..Len(new) : new[i][1] = rows[i][1]
    BY <1>2, <1>3
  <2>2. \A j \in VectorIds : s3[ns][j] # 0 => s3[ns][j] <= Len(rows) /\ rows[s3[ns][j]][1] = j
    BY <2>0 DEF Vectors!Dense, rows
  <2>3. \A j \in VectorIds : s3[ns][j] # 0 => s3[ns][j] <= Len(new) /\ new[s3[ns][j]][1] = j
    BY <1>2, <1>3, <2>1, <2>2 DEF Vectors!VecShape, Vectors!VecTypes
  <2>4. \A i \in 1..Len(new) : s3[ns][new[i][1]] = i
    BY <1>3, <2>0, <2>1 DEF Vectors!Dense, rows
  <2>5. \A i \in 1..Len(new) : Dim[new[i][2]] = Dim[v]
    BY <1>2, <1>3, <1>6, <2>0 DEF Vectors!Dense, rows
  <2> QED BY <1>1, <1>4, <1>5, <1>6, <2>3, <2>4, <2>5 DEF Vectors!Dense
<1>8. Vectors!AllDense'
  BY <1>1, <1>4, <1>5, <1>7 DEF Vectors!VecShape, Vectors!AllDense
<1>9. Vectors!Held' = Vectors!Held
  BY <1>1 DEF Vectors!Held
<1>10. \A m \in Namespaces, j \in VectorIds : Vectors!Vec(m, j)' = IF m = ns /\ j = id THEN v ELSE Vectors!Vec(m, j)
  <2> SUFFICES ASSUME NEW m \in Namespaces, NEW j \in VectorIds
               PROVE  Vectors!Vec(m, j)' = IF m = ns /\ j = id THEN v ELSE Vectors!Vec(m, j)
    OBVIOUS
  <2>1. CASE m # ns
    BY <1>1, <1>4, <2>1 DEF Vectors!Vec, Vectors!RowOf
  <2>2. CASE m = ns /\ j = id
    BY <1>1, <1>2, <1>3, <1>4, <2>2 DEF Vectors!Vec, Vectors!RowOf
  <2>3. CASE m = ns /\ j # id
    <3>1. s3[ns][j] # 0 => s3[ns][j] \in 1..Len(rows) /\ s3[ns][j] # row
      BY <1>2, <2>3 DEF Vectors!VecShape, Vectors!VecTypes, Vectors!AllDense, Vectors!Dense
    <3> QED BY <1>1, <1>3, <1>4, <2>3, <3>1 DEF Vectors!Vec, Vectors!RowOf
  <2> QED BY <2>1, <2>2, <2>3
<1>11. Vectors!Map' = [Vectors!Map EXCEPT ![ns][id] = v]
  BY <1>10 DEF Vectors!Map
<1> QED BY <1>4, <1>8, <1>9, <1>11

\* A record of a new id goes behind the last row.
LEMMA Insertion ==
  ASSUME Vectors!VectorStoreAssumption, Vectors!VecShape,
         NEW ns \in Namespaces, NEW id \in VectorIds, NEW v \in VectorValues,
         Vectors!Fits(ns, id, v), Vectors!Place(ns, id, v), s1' = [s1 EXCEPT ![ns] = Dim[v]],
         s3[ns][id] = 0
  PROVE  /\ s2' \in [Namespaces -> Vectors!Matrix] /\ s3' \in [Namespaces -> [VectorIds -> Nat]]
         /\ Vectors!AllDense' /\ Vectors!Bounded' /\ Vectors!Map' = [Vectors!Map EXCEPT ![ns][id] = v]
<1> DEFINE rows == s2[ns].rows
           n == Len(rows)
           new == Append(rows, <<id, v>>)
<1>1. /\ s2' = [s2 EXCEPT ![ns] = [made |-> TRUE, dim |-> Dim[v], rows |-> new]]
      /\ s3' = [s3 EXCEPT ![ns] = [@ EXCEPT ![id] = n + 1]]
  BY DEF Vectors!Place, Vectors!Count
<1>2. rows \in Seq(VectorIds \X VectorValues) /\ n \in Nat /\ Dim[v] \in Nat
  BY DEF Vectors!VecShape, Vectors!VecTypes, Vectors!Matrix, Vectors!VectorStoreAssumption
<1>3. /\ new \in Seq(VectorIds \X VectorValues) /\ Len(new) = n + 1 /\ new[n + 1] = <<id, v>>
      /\ \A i \in 1..n : new[i] = rows[i] /\ rows[i] \in VectorIds \X VectorValues
  BY <1>2, AppendProperties, ElementOfSeq
<1>4. /\ s2' \in [Namespaces -> Vectors!Matrix]
      /\ s2'[ns] = [made |-> TRUE, dim |-> Dim[v], rows |-> new]
      /\ \A m \in Namespaces : m # ns => s2'[m] = s2[m]
  BY <1>1, <1>2, <1>3 DEF Vectors!VecShape, Vectors!VecTypes, Vectors!Matrix
<1>5. /\ s3' \in [Namespaces -> [VectorIds -> Nat]]
      /\ s3'[ns][id] = n + 1 /\ \A j \in VectorIds : j # id => s3'[ns][j] = s3[ns][j]
      /\ \A m \in Namespaces : m # ns => s3'[m] = s3[m]
  BY <1>1, <1>2 DEF Vectors!VecShape, Vectors!VecTypes
<1>6. s1'[ns] = Dim[v] /\ \A m \in Namespaces : m # ns => s1'[m] = s1[m]
  BY DEF Vectors!VecShape, Vectors!VecTypes
<1>7. Vectors!Dense(s2'[ns], s3'[ns], s1'[ns])
  <2> HIDE DEF new
  <2>0. Vectors!Dense(s2[ns], s3[ns], s1[ns])
    BY DEF Vectors!VecShape, Vectors!AllDense
  <2>1. \A j \in VectorIds : s3[ns][j] # 0 => s3[ns][j] \in 1..n /\ rows[s3[ns][j]][1] = j
    BY <1>2, <2>0 DEF Vectors!Dense, Vectors!VecShape, Vectors!VecTypes
  <2>2. \A j \in VectorIds : s3'[ns][j] # 0 => s3'[ns][j] <= Len(new) /\ new[s3'[ns][j]][1] = j
    <3> SUFFICES ASSUME NEW j \in VectorIds, s3'[ns][j] # 0
                 PROVE  s3'[ns][j] <= Len(new) /\ new[s3'[ns][j]][1] = j
      OBVIOUS
    <3>1. CASE j = id
      BY <1>2, <1>3, <1>5, <3>1
    <3>2. CASE j # id
      <4>1. s3'[ns][j] = s3[ns][j] /\ s3[ns][j] \in 1..n /\ rows[s3[ns][j]][1] = j
        BY <1>5, <2>1, <3>2
      <4>2. s3[ns][j] <= n + 1 /\ new[s3[ns][j]] = rows[s3[ns][j]]
        BY <1>2, <1>3, <4>1
      <4> QED BY <1>3, <4>1, <4>2
    <3> QED BY <3>1, <3>2
  <2>3. \A i \in 1..n : s3[ns][rows[i][1]] = i /\ rows[i][1] \in VectorIds /\ rows[i][1] # id
    <3> SUFFICES ASSUME NEW i \in 1..n
                 PROVE  s3[ns][rows[i][1]] = i /\ rows[i][1] \in VectorIds /\ rows[i][1] # id
      OBVIOUS
    <3>1. s3[ns][rows[i][1]] = i
      BY <2>0 DEF Vectors!Dense
    <3>2. rows[i] \in VectorIds \X VectorValues
      BY <1>3
    <3>3. rows[i][1] \in VectorIds
      BY <3>2
    <3>4. i # 0
      BY <1>2
    <3> QED BY <3>1, <3>3, <3>4
  <2>4. \A i \in 1..Len(new) : s3'[ns][new[i][1]] = i
    <3> SUFFICES ASSUME NEW i \in 1..(n + 1) PROVE s3'[ns][new[i][1]] = i
      BY <1>3
    <3>1. CASE i = n + 1
      BY <1>3, <1>5, <3>1
    <3>2. CASE i # n + 1
      <4>1. i \in 1..n
        BY <1>2, <3>2
      <4>2. new[i] = rows[i]
        BY <1>3, <4>1
      <4>3. s3[ns][rows[i][1]] = i /\ rows[i][1] \in VectorIds /\ rows[i][1] # id
        BY <2>3, <4>1
      <4>4. s3'[ns][rows[i][1]] = s3[ns][rows[i][1]]
        BY <1>5, <4>3
      <4> QED BY <4>2, <4>3, <4>4
    <3> QED BY <3>1, <3>2
  <2>5. \A i \in 1..n : Dim[rows[i][2]] = Dim[v]
    <3> SUFFICES ASSUME NEW i \in 1..n PROVE Dim[rows[i][2]] = Dim[v]
      OBVIOUS
    <3>1. n > 0
      BY <1>2
    <3>2. Dim[rows[i][2]] = s1[ns] /\ s2[ns].made /\ s2[ns].dim = s1[ns]
      BY <2>0, <3>1 DEF Vectors!Dense
    <3> QED BY <3>2 DEF Vectors!Fits
  <2>6. \A i \in 1..Len(new) : Dim[new[i][2]] = Dim[v]
    <3> SUFFICES ASSUME NEW i \in 1..(n + 1) PROVE Dim[new[i][2]] = Dim[v]
      BY <1>3
    <3>1. CASE i = n + 1
      BY <1>3, <3>1
    <3>2. CASE i # n + 1
      <4>1. i \in 1..n
        BY <1>2, <3>2
      <4> QED BY <1>3, <2>5, <4>1
    <3> QED BY <3>1, <3>2
  <2> QED BY <1>4, <1>6, <2>2, <2>4, <2>6 DEF Vectors!Dense
<1>8. Vectors!AllDense'
  BY <1>4, <1>5, <1>6, <1>7 DEF Vectors!VecShape, Vectors!AllDense
<1>9. Vectors!Bounded'
  <2>1. Vectors!Held' = Vectors!Held \cup {<<ns, id>>} /\ <<ns, id>> \notin Vectors!Held
    <3>1. \A p \in Namespaces \X VectorIds :
            s3'[p[1]][p[2]] # 0 <=> s3[p[1]][p[2]] # 0 \/ p = <<ns, id>>
      <4> SUFFICES ASSUME NEW m \in Namespaces, NEW j \in VectorIds
                   PROVE  s3'[m][j] # 0 <=> s3[m][j] # 0 \/ <<m, j>> = <<ns, id>>
        OBVIOUS
      <4>1. CASE m # ns
        BY <1>5, <4>1
      <4>2. CASE m = ns
        BY <1>2, <1>5, <4>2
      <4> QED BY <4>1, <4>2
    <3> QED BY <3>1 DEF Vectors!Held
  <2>2. /\ IsFiniteSet(Vectors!Held) /\ Cardinality(Vectors!Held) \in Nat
    BY FS_CardinalityType, VecCounting DEF Vectors!VecShape, Vectors!Bounded
  <2> DEFINE more == Vectors!Held \cup {<<ns, id>>}
  <2>3. IsFiniteSet(more) /\ Cardinality(more) = Cardinality(Vectors!Held) + 1
    BY <2>1, <2>2, FS_AddElement
  <2>4. MaxVectors # 0 => Cardinality(Vectors!Held) < MaxVectors
    BY VecCounting DEF Vectors!Fits, Vectors!Total
  <2>5. MaxVectors # 0 => Cardinality(more) <= MaxVectors
    <3> HIDE DEF more
    <3> QED BY <2>2, <2>3, <2>4 DEF Vectors!VectorStoreAssumption
  <2> QED BY <2>1, <2>3, <2>5, VecCounting DEF Vectors!Bounded
<1>10. \A m \in Namespaces, j \in VectorIds : Vectors!Vec(m, j)' = IF m = ns /\ j = id THEN v ELSE Vectors!Vec(m, j)
  <2> SUFFICES ASSUME NEW m \in Namespaces, NEW j \in VectorIds
               PROVE  Vectors!Vec(m, j)' = IF m = ns /\ j = id THEN v ELSE Vectors!Vec(m, j)
    OBVIOUS
  <2>1. CASE m # ns
    BY <1>4, <1>5, <2>1 DEF Vectors!Vec, Vectors!RowOf
  <2>2. CASE m = ns /\ j = id
    BY <1>2, <1>3, <1>4, <1>5, <2>2 DEF Vectors!Vec, Vectors!RowOf
  <2>3. CASE m = ns /\ j # id
    <3>1. s3[ns][j] # 0 => s3[ns][j] \in 1..n
      BY <1>2, <2>3 DEF Vectors!VecShape, Vectors!VecTypes, Vectors!AllDense, Vectors!Dense
    <3>2. CASE s3[ns][j] = 0
      BY <1>5, <2>3, <3>2 DEF Vectors!Vec
    <3>3. CASE s3[ns][j] # 0
      <4>1. new[s3[ns][j]] = rows[s3[ns][j]] /\ s3'[ns][j] = s3[ns][j] /\ s2'[ns].rows = new
        BY <1>3, <1>4, <1>5, <2>3, <3>1, <3>3
      <4> QED BY <2>3, <3>3, <4>1 DEF Vectors!Vec, Vectors!RowOf
    <3> QED BY <3>2, <3>3
  <2> QED BY <2>1, <2>2, <2>3
<1>11. Vectors!Map' = [Vectors!Map EXCEPT ![ns][id] = v]
  BY <1>10 DEF Vectors!Map
<1> QED BY <1>4, <1>5, <1>8, <1>9, <1>11

LEMMA UpsertOneInv ==
  ASSUME Vectors!VectorStoreAssumption, Vectors!VecShape, Vectors!UpsertOne
  PROVE  LET r == Head(s4.todo) IN
         /\ Vectors!VecShape'
         /\ s4.todo # <<>> /\ s4.todo \in Seq(Vectors!Records) /\ s4'.todo = Tail(s4.todo)
         /\ s4'.op = s4.op /\ s4'.left = s4.left /\ s4'.disk = s4.disk
         /\ r.ns \in Namespaces /\ r.id \in VectorIds /\ r.vec \in VectorValues
         /\ \/ Vectors!Map' = [Vectors!Map EXCEPT ![r.ns][r.id] = r.vec] /\ s4'.refused = s4.refused
            \/ Vectors!Map' = Vectors!Map /\ s4'.refused = s4.refused \cup {<<r.ns, r.id, r.vec>>}
<1> DEFINE r == Head(s4.todo)
<1>1. s4.todo \in Seq(Vectors!Records) /\ s4.todo # <<>>
  BY DEF Vectors!UpsertOne, Vectors!VecShape, Vectors!VecTypes, Vectors!Calls
<1>2. /\ r \in Vectors!Records /\ Tail(s4.todo) \in Seq(Vectors!Records)
  BY <1>1, HeadTailProperties
<1>3. r.ns \in Namespaces /\ r.id \in VectorIds /\ r.vec \in VectorValues /\ Dim[r.vec] \in Nat
  BY <1>2 DEF Vectors!Records, Vectors!VectorStoreAssumption
<1>4. CASE Vectors!Fits(r.ns, r.id, r.vec)
  <2>1. /\ Vectors!Place(r.ns, r.id, r.vec) /\ s1' = [s1 EXCEPT ![r.ns] = Dim[r.vec]]
        /\ s4' = [s4 EXCEPT !.todo = Tail(s4.todo)]
    BY <1>4 DEF Vectors!UpsertOne
  <2>2. /\ s4'.refused = s4.refused /\ s4'.todo = Tail(s4.todo)
        /\ s4'.op = s4.op /\ s4'.left = s4.left /\ s4'.disk = s4.disk
        /\ s4' \in Vectors!Calls
    BY <1>2, <2>1 DEF Vectors!VecShape, Vectors!VecTypes, Vectors!Calls
  <2>3. s1' \in [Namespaces -> Nat]
    BY <1>3, <2>1 DEF Vectors!VecShape, Vectors!VecTypes
  <2>4. CASE s3[r.ns][r.id] # 0
    <3>1. /\ s2' \in [Namespaces -> Vectors!Matrix] /\ Vectors!AllDense' /\ Vectors!Held' = Vectors!Held
          /\ Vectors!Map' = [Vectors!Map EXCEPT ![r.ns][r.id] = r.vec]
      BY <1>3, <1>4, <2>1, <2>4, Overwrite
    <3>2. s3' = s3
      BY <2>1, <2>4 DEF Vectors!Place
    <3>3. Vectors!VecShape'
      BY <2>2, <2>3, <3>1, <3>2 DEF Vectors!VecShape, Vectors!VecTypes, Vectors!Bounded
    <3> QED BY <1>1, <1>3, <2>2, <3>1, <3>3
  <2>5. CASE s3[r.ns][r.id] = 0
    <3>1. /\ s2' \in [Namespaces -> Vectors!Matrix] /\ s3' \in [Namespaces -> [VectorIds -> Nat]]
          /\ Vectors!AllDense' /\ Vectors!Bounded' /\ Vectors!Map' = [Vectors!Map EXCEPT ![r.ns][r.id] = r.vec]
      BY <1>3, <1>4, <2>1, <2>5, Insertion
    <3>2. Vectors!VecShape'
      BY <2>2, <2>3, <3>1 DEF Vectors!VecShape, Vectors!VecTypes
    <3> QED BY <1>1, <1>3, <2>2, <3>1, <3>2
  <2> QED BY <2>4, <2>5
<1>5. CASE ~Vectors!Fits(r.ns, r.id, r.vec)
  <2> DEFINE opened == [s2 EXCEPT ![r.ns] = [s2[r.ns] EXCEPT !.made = TRUE, !.dim = Dim[r.vec]]]
  <2>1. /\ \/ s2' = opened /\ s1[r.ns] \in {0, Dim[r.vec]} /\ ~s2[r.ns].made
           \/ s2' = s2
        /\ s4' = [s4 EXCEPT !.todo = Tail(s4.todo),
                                !.refused = s4.refused \cup {<<r.ns, r.id, r.vec>>}]
        /\ s1' = s1 /\ s3' = s3
    BY <1>5 DEF Vectors!UpsertOne
  <2>2. /\ s4'.refused = s4.refused \cup {<<r.ns, r.id, r.vec>>} /\ s4'.todo = Tail(s4.todo)
        /\ s4'.op = s4.op /\ s4'.left = s4.left /\ s4'.disk = s4.disk
        /\ s4' \in Vectors!Calls
    <3> DEFINE more == s4.refused \cup {<<r.ns, r.id, r.vec>>}
    <3>1. more \in SUBSET (Namespaces \X VectorIds \X VectorValues)
      BY <1>3 DEF Vectors!VecShape, Vectors!VecTypes, Vectors!Calls
    <3>2. s4' = [s4 EXCEPT !.todo = Tail(s4.todo), !.refused = more]
      BY <2>1
    <3> HIDE DEF more
    <3>3. /\ s4'.refused = more /\ s4'.todo = Tail(s4.todo)
          /\ s4'.op = s4.op /\ s4'.left = s4.left /\ s4'.disk = s4.disk
          /\ s4' \in Vectors!Calls
      BY <1>2, <3>1, <3>2 DEF Vectors!VecShape, Vectors!VecTypes, Vectors!Calls
    <3> QED BY <3>3 DEF more
  <2>3. /\ s2' \in [Namespaces -> Vectors!Matrix] /\ \A m \in Namespaces : s2'[m].rows = s2[m].rows
        /\ Vectors!AllDense'
    <3>1. CASE s2' = s2
      BY <2>1, <3>1 DEF Vectors!VecShape, Vectors!VecTypes, Vectors!AllDense
    <3>2. CASE s2' = opened /\ s1[r.ns] \in {0, Dim[r.vec]} /\ ~s2[r.ns].made
      <4>1. /\ s2' \in [Namespaces -> Vectors!Matrix]
            /\ s2'[r.ns].rows = s2[r.ns].rows /\ s2'[r.ns].dim = Dim[r.vec]
            /\ \A m \in Namespaces : m # r.ns => s2'[m] = s2[m]
        BY <1>3, <3>2 DEF Vectors!VecShape, Vectors!VecTypes, Vectors!Matrix
      <4>2. ~(Len(s2[r.ns].rows) > 0) /\ Vectors!Dense(s2[r.ns], s3[r.ns], s1[r.ns])
        BY <1>3, <3>2 DEF Vectors!VecShape, Vectors!AllDense, Vectors!Dense
      <4>3. Vectors!Dense(s2'[r.ns], s3[r.ns], s1[r.ns])
        BY <3>2, <4>1, <4>2 DEF Vectors!Dense
      <4> QED BY <2>1, <4>1, <4>3 DEF Vectors!VecShape, Vectors!AllDense
    <3> QED BY <2>1, <3>1, <3>2
  <2>4. Vectors!Held' = Vectors!Held /\ Vectors!Map' = Vectors!Map
    BY <2>1, <2>3 DEF Vectors!Held, Vectors!Map, Vectors!Vec, Vectors!RowOf
  <2>5. Vectors!VecShape'
    BY <2>1, <2>2, <2>3, <2>4 DEF Vectors!VecShape, Vectors!VecTypes, Vectors!Bounded
  <2> QED BY <1>1, <1>3, <2>2, <2>4, <2>5
<1> QED BY <1>4, <1>5

\* The last row takes the place of the one that is deleted.
LEMMA DeleteInv ==
  ASSUME Vectors!VectorStoreAssumption, Vectors!VecShape, NEW ns \in Namespaces, NEW id \in VectorIds, Vectors!Delete(ns, id)
  PROVE  /\ Vectors!VecShape' /\ Vectors!Map' = [Vectors!Map EXCEPT ![ns][id] = None] /\ s4'.refused = {}
<1> DEFINE rows == s2[ns].rows
           n == Len(rows)
           row == s3[ns][id]
           last == rows[n]
           over == [rows EXCEPT ![row] = last]
           new == SubSeq(over, 1, n - 1)
<1>1. /\ s2' = [s2 EXCEPT ![ns].rows = new]
      /\ s3' = [s3 EXCEPT ![ns] = [[s3[ns] EXCEPT ![last[1]] = row] EXCEPT ![id] = 0]]
      /\ s4' = Vectors!NoCall /\ s1' = s1 /\ row # 0
  BY DEF Vectors!Delete, Vectors!Count
<1>2. Vectors!Dense(s2[ns], s3[ns], s1[ns])
  BY DEF Vectors!VecShape, Vectors!AllDense
<1>3. /\ rows \in Seq(VectorIds \X VectorValues) /\ n \in Nat
      /\ \A j \in VectorIds : s3[ns][j] \in Nat
      /\ \A j \in VectorIds : s3[ns][j] # 0 => s3[ns][j] \in 1..n /\ rows[s3[ns][j]][1] = j
  <2>1. rows \in Seq(VectorIds \X VectorValues) /\ n \in Nat /\ \A j \in VectorIds : s3[ns][j] \in Nat
    BY DEF Vectors!VecShape, Vectors!VecTypes, Vectors!Matrix
  <2> QED BY <1>2, <2>1 DEF Vectors!Dense
<1>4. /\ row \in 1..n /\ rows[row][1] = id /\ n \in 1..n /\ n - 1 \in Nat
  BY <1>1, <1>3
<1>5. \A i \in 1..n : rows[i] \in VectorIds \X VectorValues /\ rows[i][1] \in VectorIds /\ s3[ns][rows[i][1]] = i
  <2>1. \A i \in 1..n : rows[i] \in VectorIds \X VectorValues
    BY <1>3, ElementOfSeq
  <2>2. \A i \in 1..n : s3[ns][rows[i][1]] = i
    BY <1>2 DEF Vectors!Dense
  <2> QED BY <2>1, <2>2
<1>6. last \in VectorIds \X VectorValues /\ last[1] \in VectorIds /\ s3[ns][last[1]] = n
  BY <1>4, <1>5
<1>7. /\ over \in Seq(VectorIds \X VectorValues) /\ Len(over) = n
      /\ \A i \in 1..n : over[i] = IF i = row THEN last ELSE rows[i]
  BY <1>3, <1>4, <1>6, ExceptSeq
<1>8. /\ new \in Seq(VectorIds \X VectorValues) /\ Len(new) = n - 1
      /\ \A i \in 1..(n - 1) : new[i] = IF i = row THEN last ELSE rows[i]
  <2> HIDE DEF over, rows, row, last, n
  <2>1. \A i \in 1..(n - 1) : i \in 1..n
    BY <1>4
  <2>2. \A i \in 1..(n - 1) : over[i] \in VectorIds \X VectorValues
    BY <1>7, <2>1, ElementOfSeq
  <2>3. /\ new \in Seq(VectorIds \X VectorValues) /\ Len(new) = IF 1 <= n - 1 THEN n - 1 - 1 + 1 ELSE 0
        /\ \A i \in 1..(n - 1 - 1 + 1) : new[i] = over[1 + i - 1]
    BY <1>4, <2>2, SubSeqProperties
  <2>4. Len(new) = n - 1
    BY <1>4, <2>3
  <2>5. \A i \in 1..(n - 1) : new[i] = over[i]
    BY <1>4, <2>3
  <2> QED BY <1>7, <2>1, <2>3, <2>4, <2>5
<1> HIDE DEF new, over
<1>9. /\ s2' \in [Namespaces -> Vectors!Matrix]
      /\ s2'[ns].rows = new /\ s2'[ns].made = s2[ns].made /\ s2'[ns].dim = s2[ns].dim
      /\ \A m \in Namespaces : m # ns => s2'[m] = s2[m]
  BY <1>1, <1>8 DEF Vectors!VecShape, Vectors!VecTypes, Vectors!Matrix
<1>10. /\ s3' \in [Namespaces -> [VectorIds -> Nat]]
       /\ \A j \in VectorIds : s3'[ns][j] = IF j = id THEN 0 ELSE IF j = last[1] THEN row ELSE s3[ns][j]
       /\ \A m \in Namespaces : m # ns => s3'[m] = s3[m]
  BY <1>1, <1>4, <1>6 DEF Vectors!VecShape, Vectors!VecTypes
<1>11. ASSUME NEW j \in VectorIds, s3'[ns][j] # 0
       PROVE  /\ s3'[ns][j] \in 1..(n - 1) /\ j # id /\ s3[ns][j] # 0
              /\ new[s3'[ns][j]] = rows[s3[ns][j]]
  <2> HIDE DEF rows, n, last, row
  <2>1. j # id
    BY <1>10, <1>11
  <2>2. CASE j = last[1]
    <3>1. s3'[ns][j] = row /\ s3[ns][j] = n
      BY <1>6, <1>10, <2>1, <2>2
    <3>2. row # n
      BY <1>4, <2>1, <2>2 DEF last
    <3>3. row \in 1..(n - 1)
      BY <1>4, <3>2
    <3> QED BY <1>4, <1>8, <2>1, <3>1, <3>3 DEF last
  <2>3. CASE j # last[1]
    <3>1. s3'[ns][j] = s3[ns][j] /\ s3[ns][j] \in 1..n /\ rows[s3[ns][j]][1] = j
      BY <1>3, <1>10, <1>11, <2>1, <2>3
    <3>2. s3[ns][j] # n /\ s3[ns][j] # row
      BY <1>4, <2>1, <2>3, <3>1 DEF last
    <3>3. s3[ns][j] \in 1..(n - 1)
      BY <1>4, <3>1, <3>2
    <3> QED BY <1>8, <2>1, <3>1, <3>2, <3>3
  <2> QED BY <2>2, <2>3
<1>12. ASSUME NEW i \in 1..(n - 1)
       PROVE  s3'[ns][new[i][1]] = i /\ Dim[new[i][2]] = s1[ns]
  <2> HIDE DEF rows, n, last, row
  <2>0. i \in 1..n /\ i # n
    BY <1>4
  <2>1. \A k \in 1..n : Dim[rows[k][2]] = s1[ns]
    BY <1>2 DEF Vectors!Dense, rows, n
  <2>2. CASE i = row
    <3>1. new[i] = last /\ Dim[last[2]] = s1[ns]
      BY <1>4, <1>8, <2>1, <2>2 DEF last
    <3>2. last[1] # id
      BY <1>6, <2>0, <2>2 DEF row
    <3> QED BY <1>6, <1>10, <2>2, <3>1, <3>2
  <2>3. CASE i # row
    <3>1. new[i] = rows[i] /\ Dim[rows[i][2]] = s1[ns] /\ rows[i][1] \in VectorIds /\ s3[ns][rows[i][1]] = i
      BY <1>5, <1>8, <2>0, <2>1, <2>3
    <3>2. rows[i][1] # id /\ rows[i][1] # last[1]
      BY <1>6, <2>0, <2>3, <3>1 DEF row
    <3>3. s3'[ns][rows[i][1]] = i
      BY <1>10, <3>1, <3>2
    <3> QED BY <3>1, <3>3
  <2> QED BY <2>2, <2>3
<1>13. Vectors!Dense(s2'[ns], s3'[ns], s1'[ns])
  <2>1. \A j \in VectorIds : s3'[ns][j] # 0 => s3'[ns][j] <= Len(new) /\ new[s3'[ns][j]][1] = j
    <3> SUFFICES ASSUME NEW j \in VectorIds, s3'[ns][j] # 0
                 PROVE  s3'[ns][j] <= Len(new) /\ new[s3'[ns][j]][1] = j
      OBVIOUS
    <3>1. /\ s3'[ns][j] \in 1..(n - 1) /\ s3[ns][j] # 0 /\ new[s3'[ns][j]] = rows[s3[ns][j]]
      BY <1>11
    <3>2. rows[s3[ns][j]][1] = j
      BY <1>3, <3>1
    <3> HIDE DEF rows, n
    <3> QED BY <1>4, <1>8, <3>1, <3>2
  <2>2. s1[ns] # 0 => s1[ns] = s2[ns].dim
    BY <1>2 DEF Vectors!Dense
  <2>3. s2[ns].made /\ s2[ns].dim = s1[ns]
    BY <1>2, <1>4 DEF Vectors!Dense
  <2>4. \A i \in 1..Len(new) : s3'[ns][new[i][1]] = i /\ Dim[new[i][2]] = s1[ns]
    BY <1>8, <1>12
  <2> HIDE DEF rows, n, row, last
  <2>5. s1'[ns] = s1[ns]
    BY <1>1
  <2> QED BY <1>9, <2>1, <2>2, <2>3, <2>4, <2>5 DEF Vectors!Dense
<1>14. Vectors!AllDense'
  BY <1>1, <1>9, <1>10, <1>13 DEF Vectors!VecShape, Vectors!AllDense
<1>15. Vectors!Bounded'
  <2>1. Vectors!Held' \in SUBSET Vectors!Held
    <3>1. \A m \in Namespaces, j \in VectorIds : s3'[m][j] # 0 => s3[m][j] # 0
      BY <1>10, <1>11
    <3> QED BY <3>1 DEF Vectors!Held
  <2>2. /\ IsFiniteSet(Vectors!Held) /\ Cardinality(Vectors!Held) \in Nat
        /\ MaxVectors # 0 => Cardinality(Vectors!Held) <= MaxVectors
    BY FS_CardinalityType, VecCounting DEF Vectors!VecShape, Vectors!Bounded
  <2>3. IsFiniteSet(Vectors!Held') /\ Cardinality(Vectors!Held') <= Cardinality(Vectors!Held)
    BY <2>1, <2>2, FS_Subset
  <2>4. Cardinality(Vectors!Held') \in Nat
    BY <2>3, FS_CardinalityType
  <2> QED BY <2>2, <2>3, <2>4, VecCounting DEF Vectors!Bounded, Vectors!VectorStoreAssumption
<1>16. \A m \in Namespaces, j \in VectorIds : Vectors!Vec(m, j)' = IF m = ns /\ j = id THEN None ELSE Vectors!Vec(m, j)
  <2> SUFFICES ASSUME NEW m \in Namespaces, NEW j \in VectorIds
               PROVE  Vectors!Vec(m, j)' = IF m = ns /\ j = id THEN None ELSE Vectors!Vec(m, j)
    OBVIOUS
  <2>1. CASE m # ns
    BY <1>9, <1>10, <2>1 DEF Vectors!Vec, Vectors!RowOf
  <2>2. CASE m = ns /\ j = id
    BY <1>10, <2>2 DEF Vectors!Vec
  <2>3. CASE m = ns /\ j # id
    <3>1. CASE s3'[ns][j] = 0
      <4>1. s3[ns][j] = 0
        BY <1>1, <1>10, <2>3, <3>1
      <4> QED BY <2>3, <3>1, <4>1 DEF Vectors!Vec
    <3>2. CASE s3'[ns][j] # 0
      <4>1. s3[ns][j] # 0 /\ new[s3'[ns][j]] = rows[s3[ns][j]]
        BY <1>11, <3>2
      <4> QED BY <1>9, <2>3, <3>2, <4>1 DEF Vectors!Vec, Vectors!RowOf
    <3> QED BY <3>1, <3>2
  <2> QED BY <2>1, <2>2, <2>3
<1>17. Vectors!Map' = [Vectors!Map EXCEPT ![ns][id] = None]
  BY <1>16 DEF Vectors!Map
<1>18. Vectors!VecTypes'
  BY <1>1, <1>9, <1>10, NoCallType DEF Vectors!VecShape, Vectors!VecTypes
<1> QED BY <1>1, <1>14, <1>15, <1>17, <1>18 DEF Vectors!VecShape, Vectors!NoCall

LEMMA RestartInv ==
  ASSUME Vectors!VectorStoreAssumption, Vectors!VecShape, NEW d \in Disks, Vectors!Restart(d)
  PROVE  Vectors!VecShape' /\ Vectors!Map' = Vectors!Index!Empty /\ s4'.refused = {}
<1>1. d \in [VectorIds -> VectorValues \cup {None}]
  BY DEF Vectors!VectorStoreAssumption
<1> DEFINE left == {id \in VectorIds : d[id] # None}
           c == [Vectors!NoCall EXCEPT !.op = "warm", !.left = left, !.disk = d]
<1>2. c \in Vectors!Calls /\ c.refused = {}
  <2>1. left \in SUBSET VectorIds
    OBVIOUS
  <2> HIDE DEF left
  <2> QED BY <1>1, <2>1, NoCallType DEF Vectors!Calls, Vectors!NoCall
<1>3. /\ s1' = [ns \in Namespaces |-> 0]
      /\ s2' = [ns \in Namespaces |-> [made |-> FALSE, dim |-> 0, rows |-> <<>>]]
      /\ s3' = [ns \in Namespaces |-> [id \in VectorIds |-> 0]]
      /\ s4' = c
  BY DEF Vectors!Restart
<1> HIDE DEF c
<1>4. Vectors!VecTypes'
  BY <1>2, <1>3 DEF Vectors!VecTypes, Vectors!Matrix
<1>5. Vectors!AllDense'
  BY <1>3 DEF Vectors!AllDense, Vectors!Dense
<1>6. Vectors!Held' = {}
  BY <1>3 DEF Vectors!Held
<1>7. Vectors!Bounded'
  <2>1. IsFiniteSet(Vectors!Held') /\ Cardinality(Vectors!Held') = 0
    BY <1>6, FS_EmptySet
  <2> QED BY <2>1, VecCounting DEF Vectors!Bounded, Vectors!VectorStoreAssumption
<1>8. Vectors!Map' = Vectors!Index!Empty
  BY <1>3 DEF Vectors!Map, Vectors!Vec, Vectors!Index!Empty
<1> QED BY <1>2, <1>3, <1>4, <1>5, <1>7, <1>8 DEF Vectors!VecShape

\* The steps of a call that only change the call.
LEMMA CallInv ==
  ASSUME Vectors!VectorStoreAssumption, Vectors!VecShape, UNCHANGED <<s1, s2, s3>>, s4' \in Vectors!Calls
  PROVE  Vectors!VecShape' /\ Vectors!Map' = Vectors!Map
BY MatrixKept DEF Vectors!VecShape, Vectors!VecTypes

LEMMA UpsertInv ==
  ASSUME Vectors!VectorStoreAssumption, Vectors!VecShape, NEW b \in UpsertBatches, Vectors!Upsert(b)
  PROVE  Vectors!VecShape' /\ Vectors!Map' = Vectors!Map /\ s4'.refused = {}
<1>1. b \in Seq(Vectors!Records)
  BY DEF Vectors!VectorStoreAssumption, Vectors!Records
<1>2. /\ s4' = [Vectors!NoCall EXCEPT !.op = "upsert", !.todo = b]
      /\ UNCHANGED <<s1, s2, s3>>
  BY DEF Vectors!Upsert
<1>3. s4' \in Vectors!Calls /\ s4'.refused = {}
  BY <1>1, <1>2 DEF Vectors!NoCall, Vectors!Calls
<1> QED BY <1>2, <1>3, CallInv

LEMMA WarmRowInv ==
  ASSUME Vectors!VectorStoreAssumption, Vectors!VecShape, NEW id \in VectorIds, Vectors!WarmRow(id)
  PROVE  Vectors!VecShape' /\ Vectors!Map' = Vectors!Map /\ s4'.refused = s4.refused
<1> DEFINE rec == [ns |-> Default, id |-> id, vec |-> s4.disk[id]]
           todo == IF s4.disk[id] \in Decodes THEN Append(s4.todo, rec) ELSE s4.todo
<1>1. /\ s4' = [s4 EXCEPT !.left = s4.left \ {id}, !.todo = todo]
      /\ UNCHANGED <<s1, s2, s3>>
  BY DEF Vectors!WarmRow
<1>2. s4 \in Vectors!Calls
  BY DEF Vectors!VecShape, Vectors!VecTypes
<1>3. todo \in Seq(Vectors!Records)
  <2>1. CASE s4.disk[id] \in Decodes
    <3>1. rec \in Vectors!Records
      BY <2>1 DEF Vectors!VectorStoreAssumption, Vectors!Records
    <3> HIDE DEF rec
    <3> QED BY <1>2, <2>1, <3>1, AppendProperties DEF Vectors!Calls
  <2>2. CASE s4.disk[id] \notin Decodes
    BY <1>2, <2>2 DEF Vectors!Calls
  <2> QED BY <2>1, <2>2
<1>4. s4' \in Vectors!Calls /\ s4'.refused = s4.refused
  <2> HIDE DEF todo
  <2> QED BY <1>1, <1>2, <1>3 DEF Vectors!Calls
<1> QED BY <1>1, <1>4, CallInv

LEMMA WarmMovesInv ==
  ASSUME Vectors!VectorStoreAssumption, Vectors!VecShape, Vectors!WarmFlush \/ Vectors!WarmNext \/ Vectors!WarmFails
  PROVE  Vectors!VecShape' /\ Vectors!Map' = Vectors!Map /\ s4'.refused = s4.refused
<1>1. UNCHANGED <<s1, s2, s3>> /\ s4 \in Vectors!Calls
  BY DEF Vectors!WarmFlush, Vectors!WarmNext, Vectors!WarmFails, Vectors!VecShape, Vectors!VecTypes
<1>2. s4' \in Vectors!Calls /\ s4'.refused = s4.refused
  BY <1>1 DEF Vectors!WarmFlush, Vectors!WarmNext, Vectors!WarmFails, Vectors!Calls
<1> QED BY <1>1, <1>2, CallInv

\* What a start has read is in the batch or in the matrix.
LEMMA WarmKeptByUpsert ==
  ASSUME Vectors!VectorStoreAssumption, Vectors!VecShape, Vectors!WarmKept,
         s4.op \in {"upsert", "flush"}, Vectors!UpsertOne
  PROVE  Vectors!WarmKept'
<1> SUFFICES ASSUME Vectors!Warming'
             PROVE  Vectors!WarmKept'
  BY DEF Vectors!WarmKept
<1> DEFINE r == Head(s4.todo)
           M == Vectors!Map
<1>1. /\ s4.todo # <<>> /\ s4.todo \in Seq(Vectors!Records) /\ s4'.todo = Tail(s4.todo)
      /\ s4'.op = s4.op /\ s4'.left = s4.left /\ s4'.disk = s4.disk
      /\ r.ns \in Namespaces /\ r.id \in VectorIds /\ r.vec \in VectorValues
      /\ Vectors!Map' = [M EXCEPT ![r.ns][r.id] = r.vec] /\ s4'.refused = s4.refused
  BY UpsertOneInv DEF Vectors!Warming
<1>2. Vectors!Warming
  BY <1>1 DEF Vectors!Warming
<1>3. /\ r = s4.todo[1] /\ 1 \in DOMAIN s4.todo
      /\ \A k \in DOMAIN s4'.todo : k + 1 \in DOMAIN s4.todo /\ s4'.todo[k] = s4.todo[k + 1]
      /\ \A k \in DOMAIN s4.todo : k = 1 \/ (k - 1 \in DOMAIN s4'.todo /\ s4.todo[k] = s4'.todo[k - 1])
  BY <1>1, TailFacts
<1>4. /\ \A k \in DOMAIN s4.todo : s4.todo[k].ns = Default /\ s4.todo[k].vec = s4.disk[s4.todo[k].id]
                                   /\ s4.todo[k].vec \in Decodes
      /\ \A id \in VectorIds :
           /\ M[Default][id] \in {None, s4.disk[id]}
           /\ M[Default][id] # None => s4.disk[id] \in Decodes
           /\ s4.disk[id] \in Decodes =>
                  \/ M[Default][id] # None \/ id \in s4.left
                  \/ \E k \in DOMAIN s4.todo : s4.todo[k].id = id
  BY <1>2 DEF Vectors!WarmKept
<1>5. /\ Default \in Namespaces /\ r.vec # None
      /\ r.ns = Default /\ r.vec = s4.disk[r.id] /\ r.vec \in Decodes
  BY <1>1, <1>3, <1>4 DEF Vectors!VectorStoreAssumption
<1>6. \A id \in VectorIds : Vectors!Map'[Default][id] = IF id = r.id THEN r.vec ELSE M[Default][id]
  BY <1>1, <1>5 DEF Vectors!Map
<1> HIDE DEF r, M
<1>7. \A k \in DOMAIN s4'.todo :
           s4'.todo[k].ns = Default /\ s4'.todo[k].vec = s4'.disk[s4'.todo[k].id] /\ s4'.todo[k].vec \in Decodes
  BY ONLY <1>1, <1>3, <1>4
<1>8. ASSUME NEW id \in VectorIds
      PROVE  /\ Vectors!Map'[Default][id] \in {None, s4'.disk[id]}
             /\ Vectors!Map'[Default][id] # None => s4'.disk[id] \in Decodes
             /\ s4'.disk[id] \in Decodes =>
                  \/ Vectors!Map'[Default][id] # None \/ id \in s4'.left
                  \/ \E k \in DOMAIN s4'.todo : s4'.todo[k].id = id
  <2>1. CASE id = r.id
    BY ONLY <1>1, <1>5, <1>6, <2>1
  <2>2. CASE id # r.id
    <3>1. \A k \in DOMAIN s4.todo : s4.todo[k].id = id => k - 1 \in DOMAIN s4'.todo /\ s4'.todo[k - 1].id = id
      BY ONLY <1>3, <2>2
    <3>2. Vectors!Map'[Default][id] = M[Default][id]
      BY ONLY <1>6, <2>2
    <3>3. s4'.disk = s4.disk /\ s4'.left = s4.left
      BY <1>1
    <3>4. /\ M[Default][id] \in {None, s4.disk[id]}
          /\ M[Default][id] # None => s4.disk[id] \in Decodes
          /\ s4.disk[id] \in Decodes =>
               \/ M[Default][id] # None \/ id \in s4.left
               \/ \E k \in DOMAIN s4.todo : s4.todo[k].id = id
      BY <1>4
    <3> QED BY ONLY <3>1, <3>2, <3>3, <3>4
  <2> QED BY <2>1, <2>2
<1> QED BY ONLY <1>7, <1>8 DEF Vectors!WarmKept

LEMMA WarmKeptByRow ==
  ASSUME Vectors!VectorStoreAssumption, Vectors!VecShape, Vectors!WarmKept,
         NEW id \in VectorIds, Vectors!WarmRow(id)
  PROVE  Vectors!WarmKept'
<1> DEFINE rec == [ns |-> Default, id |-> id, vec |-> s4.disk[id]]
           todo == IF s4.disk[id] \in Decodes THEN Append(s4.todo, rec) ELSE s4.todo
<1>1. /\ s4' = [s4 EXCEPT !.left = s4.left \ {id}, !.todo = todo]
      /\ Vectors!Map' = Vectors!Map /\ s4.op = "warm"
  <2>1. Vectors!Map' = Vectors!Map
    BY WarmRowInv
  <2> QED BY <2>1 DEF Vectors!WarmRow
<1>2. s4 \in Vectors!Calls /\ s4.todo \in Seq(Vectors!Records)
  BY DEF Vectors!VecShape, Vectors!VecTypes, Vectors!Calls
<1>3. /\ \A k \in DOMAIN s4.todo : k \in DOMAIN todo /\ todo[k] = s4.todo[k]
      /\ \A k \in DOMAIN todo : k \in DOMAIN s4.todo \/ (todo[k] = rec /\ s4.disk[id] \in Decodes)
      /\ s4.disk[id] \in Decodes => \E k \in DOMAIN todo : todo[k] = rec
  <2>1. CASE s4.disk[id] \in Decodes
    <3>1. rec \in Vectors!Records
      BY <2>1 DEF Vectors!VectorStoreAssumption, Vectors!Records
    <3> HIDE DEF rec
    <3>2. /\ \A k \in DOMAIN s4.todo : k \in DOMAIN Append(s4.todo, rec) /\ Append(s4.todo, rec)[k] = s4.todo[k]
          /\ Len(s4.todo) + 1 \in DOMAIN Append(s4.todo, rec) /\ Append(s4.todo, rec)[Len(s4.todo) + 1] = rec
          /\ \A k \in DOMAIN Append(s4.todo, rec) : k \in DOMAIN s4.todo \/ k = Len(s4.todo) + 1
      BY <1>2, <3>1, AppendFacts
    <3>3. todo = Append(s4.todo, rec)
      BY <2>1
    <3> HIDE DEF todo
    <3> QED BY ONLY <2>1, <3>2, <3>3
  <2>2. CASE s4.disk[id] \notin Decodes
    BY <2>2
  <2> QED BY <2>1, <2>2
<1> HIDE DEF todo
<1>4. /\ s4'.op = s4.op /\ s4'.refused = s4.refused /\ s4'.disk = s4.disk
      /\ s4'.left = s4.left \ {id} /\ s4'.todo = todo
  BY <1>1, <1>2 DEF Vectors!Calls
<1>5. rec.ns = Default /\ rec.id = id /\ rec.vec = s4.disk[id]
  OBVIOUS
<1> HIDE DEF rec
<1> SUFFICES ASSUME Vectors!Warming
             PROVE  Vectors!WarmKept'
  BY <1>4 DEF Vectors!WarmKept, Vectors!Warming
<1>6. \A k \in DOMAIN todo : todo[k].ns = Default /\ todo[k].vec = s4.disk[todo[k].id] /\ todo[k].vec \in Decodes
  BY <1>3, <1>5 DEF Vectors!WarmKept
<1>7. \A i \in VectorIds :
        /\ Vectors!Map[Default][i] \in {None, s4.disk[i]}
        /\ Vectors!Map[Default][i] # None => s4.disk[i] \in Decodes
        /\ s4.disk[i] \in Decodes =>
             \/ Vectors!Map[Default][i] # None \/ i \in s4.left \ {id}
             \/ \E k \in DOMAIN todo : todo[k].id = i
  BY <1>3, <1>5 DEF Vectors!WarmKept
<1> QED BY ONLY <1>1, <1>4, <1>6, <1>7 DEF Vectors!WarmKept

LEMMA WarmKeptByRestart ==
  ASSUME Vectors!VectorStoreAssumption, Vectors!VecShape, NEW d \in Disks, Vectors!Restart(d)
  PROVE  Vectors!WarmKept'
<1> DEFINE left == {id \in VectorIds : d[id] # None}
<1>1. s4' = [Vectors!NoCall EXCEPT !.op = "warm", !.left = left, !.disk = d]
  BY DEF Vectors!Restart
<1>2. s4'.todo = <<>> /\ s4'.left = left /\ s4'.disk = d
  <2> HIDE DEF left
  <2> QED BY <1>1 DEF Vectors!NoCall
<1>3. \A id \in VectorIds : Vectors!Map'[Default][id] = None
  <2>1. Vectors!Map' = Vectors!Index!Empty
    BY RestartInv
  <2> QED BY <2>1 DEF Vectors!Index!Empty, Vectors!VectorStoreAssumption
<1>4. \A id \in VectorIds : d[id] \in Decodes => id \in left
  BY DEF Vectors!VectorStoreAssumption
<1> HIDE DEF left
<1> QED BY <1>2, <1>3, <1>4 DEF Vectors!WarmKept

LEMMA WarmKeptByOthers ==
  ASSUME Vectors!VectorStoreAssumption, Vectors!VecShape, Vectors!WarmKept,
         \/ \E b \in UpsertBatches : Vectors!Upsert(b)
         \/ \E ns \in Namespaces, id \in VectorIds : Vectors!Delete(ns, id)
         \/ Vectors!WarmFlush \/ Vectors!WarmNext \/ Vectors!WarmFails
         \/ UNCHANGED Vectors!vars
  PROVE  Vectors!WarmKept'
<1>1. s4 \in Vectors!Calls
  BY DEF Vectors!VecShape, Vectors!VecTypes
<1>2. ASSUME NEW b \in UpsertBatches, Vectors!Upsert(b)
      PROVE  Vectors!WarmKept'
  <2>1. s4'.op = "upsert"
    BY <1>2 DEF Vectors!Upsert, Vectors!NoCall
  <2> QED BY <2>1 DEF Vectors!WarmKept, Vectors!Warming
<1>3. ASSUME NEW ns \in Namespaces, NEW id \in VectorIds, Vectors!Delete(ns, id)
      PROVE  Vectors!WarmKept'
  <2>1. s4'.op = "none"
    BY <1>3 DEF Vectors!Delete, Vectors!NoCall
  <2> QED BY <2>1 DEF Vectors!WarmKept, Vectors!Warming
<1>4. CASE Vectors!WarmFails
  <2>1. s4'.refused # {}
    BY <1>1, <1>4 DEF Vectors!WarmFails, Vectors!Calls
  <2> QED BY <2>1 DEF Vectors!WarmKept, Vectors!Warming
<1>5. CASE Vectors!WarmFlush \/ Vectors!WarmNext \/ UNCHANGED Vectors!vars
  <2>1. /\ s4'.refused = s4.refused /\ s4'.disk = s4.disk /\ s4'.left = s4.left /\ s4'.todo = s4.todo
        /\ UNCHANGED <<s1, s2, s3>> /\ (s4'.op \in {"warm", "flush"} => s4.op \in {"warm", "flush"})
    BY <1>1, <1>5 DEF Vectors!WarmFlush, Vectors!WarmNext, Vectors!vars, Vectors!Calls
  <2>2. Vectors!Map' = Vectors!Map
    BY <2>1 DEF Vectors!Map, Vectors!Vec, Vectors!RowOf
  <2> QED BY <2>1, <2>2 DEF Vectors!WarmKept, Vectors!Warming
<1> QED BY <1>2, <1>3, <1>4, <1>5

\* Every step keeps the shape and is one of the map, or none.
LEMMA VecNextInv ==
  ASSUME Vectors!VectorStoreAssumption, Vectors!VecShape, [Vectors!Next]_(Vectors!vars)
  PROVE  Vectors!VecShape' /\ [Vectors!Index!Next]_(Vectors!Index!indexVars)
<1>0. Vectors!Index!indexVars = <<Vectors!Map, s4.refused>> /\ (Vectors!Index!indexVars)' = <<Vectors!Map', s4'.refused>>
  BY DEF Vectors!Index!indexVars, Vectors!Map, Vectors!Vec
<1>1. ASSUME NEW b \in UpsertBatches, Vectors!Upsert(b) PROVE Vectors!VecShape' /\ Vectors!Index!Begin
  BY <1>1, UpsertInv DEF Vectors!Index!Begin, Vectors!Map, Vectors!Vec
<1>2. CASE Vectors!UpsertOne
  <2>1. Vectors!VecShape'
    BY <1>2, UpsertOneInv
  <2>2. ASSUME NEW ns, NEW id, NEW v,
               Vectors!Map' = [Vectors!Map EXCEPT ![ns][id] = v], s4'.refused = s4.refused
        PROVE  Vectors!Index!Put(ns, id, v)
    BY <2>2 DEF Vectors!Index!Put, Vectors!Map, Vectors!Vec
  <2>3. ASSUME NEW ns, NEW id, NEW v,
               Vectors!Map' = Vectors!Map, s4'.refused = s4.refused \cup {<<ns, id, v>>}
        PROVE  Vectors!Index!Refuse(ns, id, v)
    BY <2>3 DEF Vectors!Index!Refuse, Vectors!Map, Vectors!Vec
  <2> QED BY <1>2, <2>1, <2>2, <2>3, UpsertOneInv DEF Vectors!Index!Next
<1>3. ASSUME NEW ns \in Namespaces, NEW id \in VectorIds, Vectors!Delete(ns, id) PROVE Vectors!VecShape' /\ Vectors!Index!Drop(ns, id)
  BY <1>3, DeleteInv DEF Vectors!Index!Drop, Vectors!Map, Vectors!Vec
<1>4. ASSUME NEW d \in Disks, Vectors!Restart(d) PROVE Vectors!VecShape' /\ Vectors!Index!Restart
  BY <1>4, RestartInv DEF Vectors!Index!Restart, Vectors!Map, Vectors!Vec
<1>5. ASSUME NEW id \in VectorIds, Vectors!WarmRow(id) PROVE Vectors!VecShape' /\ UNCHANGED Vectors!Index!indexVars
  BY <1>0, <1>5, WarmRowInv
<1>6. CASE Vectors!WarmFlush \/ Vectors!WarmNext \/ Vectors!WarmFails
  BY <1>0, <1>6, WarmMovesInv
<1>7. CASE UNCHANGED Vectors!vars
  <2>1. Vectors!VecShape' /\ Vectors!Map' = Vectors!Map /\ s4' = s4
    BY <1>7, CallInv DEF Vectors!vars, Vectors!VecShape, Vectors!VecTypes
  <2> QED BY <1>0, <2>1
<1> QED BY <1>1, <1>2, <1>3, <1>4, <1>5, <1>6, <1>7 DEF Vectors!Next, Vectors!Index!Next

LEMMA VecStepInv ==
  ASSUME Vectors!VectorStoreAssumption, Vectors!VecInv, [Vectors!Next]_(Vectors!vars)
  PROVE  Vectors!VecInv' /\ Vectors!IndexStep
<1>1. Vectors!VecShape' /\ [Vectors!Index!Next]_(Vectors!Index!indexVars)
  BY VecNextInv DEF Vectors!VecInv
<1>2. Vectors!WarmKept'
  BY WarmKeptByUpsert, WarmKeptByRow, WarmKeptByRestart, WarmKeptByOthers DEF Vectors!Next, Vectors!VecInv
<1> QED BY <1>1, <1>2 DEF Vectors!VecInv, Vectors!IndexStep

LEMMA VecInvMeans ==
  ASSUME Vectors!VectorStoreAssumption, Vectors!VecInv
  PROVE  Vectors!DenseAndBounded /\ Vectors!WarmIsComplete
<1>1. Vectors!DenseAndBounded
  BY DEF Vectors!VecInv, Vectors!VecShape, Vectors!AllDense, Vectors!Dense, Vectors!Bounded,
         Vectors!DenseAndBounded, Vectors!Total, Vectors!Count, Vectors!RowOf
<1>2. ASSUME NEW id \in VectorIds, s3[Default][id] # 0
      PROVE  Vectors!RowOf(Default, id)[2] # None
  <2> DEFINE rows == s2[Default].rows
             k == s3[Default][id]
  <2>1. Default \in Namespaces /\ rows \in Seq(VectorIds \X VectorValues) /\ k \in Nat /\ None \notin VectorValues
    BY DEF Vectors!VecInv, Vectors!VecShape, Vectors!VecTypes, Vectors!Matrix, Vectors!VectorStoreAssumption
  <2>2. k \in 1..Len(rows)
    BY <1>2, <2>1 DEF Vectors!VecInv, Vectors!VecShape, Vectors!AllDense, Vectors!Dense
  <2> HIDE DEF rows, k
  <2>3. rows[k] \in VectorIds \X VectorValues
    BY ONLY <2>1, <2>2, ElementOfSeq
  <2> QED BY <2>1, <2>3 DEF Vectors!RowOf, rows, k
<1>3. Vectors!WarmIsComplete
  <2> SUFFICES ASSUME s4.op = "flush", s4.todo = <<>>, s4.left = {}, s4.refused = {}, NEW id \in VectorIds
               PROVE  IF s4.disk[id] \in Decodes
                      THEN s3[Default][id] # 0 /\ Vectors!RowOf(Default, id)[2] = s4.disk[id]
                      ELSE s3[Default][id] = 0
    BY DEF Vectors!WarmIsComplete
  <2>1. /\ Vectors!Map[Default][id] \in {None, s4.disk[id]}
        /\ Vectors!Map[Default][id] # None => s4.disk[id] \in Decodes
        /\ s4.disk[id] \in Decodes => Vectors!Map[Default][id] # None
    <3>1. \A k \in DOMAIN s4.todo : FALSE
      OBVIOUS
    <3> QED BY <3>1 DEF Vectors!VecInv, Vectors!WarmKept, Vectors!Warming
  <2>2. Vectors!Map[Default][id] = IF s3[Default][id] = 0 THEN None ELSE Vectors!RowOf(Default, id)[2]
    BY DEF Vectors!Map, Vectors!Vec, Vectors!VectorStoreAssumption
  <2> QED BY <1>2, <2>1, <2>2
<1> QED BY <1>1, <1>3

-----------------------------------------------------------------------------
(* Beliefs: rows, evidence, history, clock, and of each caller its place,     *)
(* what it holds and whether it is fresh are s1 to s7.                         *)

LEMMA BelCounting ==
  \A S : (Beliefs!IsFiniteSet(S) <=> IsFiniteSet(S)) /\ Beliefs!Cardinality(S) = Cardinality(S)
BY DEF Beliefs!IsFiniteSet, IsFiniteSet, Beliefs!Cardinality, Cardinality

\* The rows of one side, by their strength.
LEMMA SideFinite ==
  ASSUME Beliefs!BeliefTypes, NEW b, NEW p
  PROVE  IsFiniteSet(Beliefs!Side(b, p)) /\ Beliefs!Side(b, p) \subseteq DOMAIN s2
<1>1. s2 \in Seq([belief : Beliefs!Ids, polarity : Beliefs!Polarities, strength : Beliefs!Halves] \cup {None})
  BY DEF Beliefs!BeliefTypes
<1>2. DOMAIN s2 = 1..Len(s2) /\ Len(s2) \in Nat
  BY <1>1, LenProperties
<1>3. IsFiniteSet(DOMAIN s2)
  BY <1>2, FS_Interval
<1>4. Beliefs!Side(b, p) \in SUBSET DOMAIN s2
  BY DEF Beliefs!Side, Beliefs!ListForBelief
<1> QED BY <1>3, <1>4, FS_Subset

LEMMA TwoParts ==
  ASSUME NEW S, IsFiniteSet(S), NEW A, NEW B, A \subseteq S, B \subseteq S, A \cap B = {}
  PROVE  /\ Cardinality(A) \in Nat /\ Cardinality(B) \in Nat /\ Cardinality(S) \in Nat
         /\ Cardinality(A) + 2 * Cardinality(B) <= 2 * Cardinality(S)
<1>1. /\ IsFiniteSet(A) /\ IsFiniteSet(B) /\ IsFiniteSet(A \cup B)
      /\ Cardinality(A \cup B) <= Cardinality(S)
  <2>1. A \in SUBSET S /\ B \in SUBSET S /\ (A \cup B) \in SUBSET S
    OBVIOUS
  <2> QED BY <2>1, FS_Subset
<1>2. /\ Cardinality(A) \in Nat /\ Cardinality(B) \in Nat /\ Cardinality(S) \in Nat
  BY <1>1, FS_CardinalityType
<1>3. Cardinality(A \cup B) = Cardinality(A) + Cardinality(B) - Cardinality(A \cap B)
  BY <1>1, FS_Union
<1>4. Cardinality(A \cap B) = 0
  BY FS_EmptySet
<1> QED BY <1>1, <1>2, <1>3, <1>4

LEMMA SumBounds ==
  ASSUME Beliefs!BeliefTypes, NEW b, NEW p
  PROVE  Beliefs!Sum(b, p) \in Nat /\ Beliefs!Sum(b, p) <= 2 * Cardinality(Beliefs!Side(b, p))
<1> DEFINE Of(s) == {e \in Beliefs!Side(b, p) : s2[e].strength = s}
<1>1. Of(1) \subseteq Beliefs!Side(b, p) /\ Of(2) \subseteq Beliefs!Side(b, p) /\ Of(1) \cap Of(2) = {}
  OBVIOUS
<1>2. Beliefs!Sum(b, p) = Cardinality(Of(1)) + 2 * Cardinality(Of(2))
  BY BelCounting DEF Beliefs!Sum
<1> HIDE DEF Of
<1>3. /\ Cardinality(Of(1)) \in Nat /\ Cardinality(Of(2)) \in Nat /\ Cardinality(Beliefs!Side(b, p)) \in Nat
      /\ Cardinality(Of(1)) + 2 * Cardinality(Of(2)) <= 2 * Cardinality(Beliefs!Side(b, p))
  BY <1>1, SideFinite, TwoParts
<1> QED BY <1>2, <1>3

\* The share is a confidence.
LEMMA ShareType ==
  ASSUME Beliefs!BeliefTypes, NEW b
  PROVE  /\ Beliefs!AggregateEvidence(b) \in Beliefs!Confs
         /\ Beliefs!InRange(Beliefs!AggregateEvidence(b))
<1>1. Beliefs!Sum(b, "support") \in Nat /\ Beliefs!Sum(b, "refute") \in Nat
  BY SumBounds
<1>2. Beliefs!AggregateEvidence(b)
        = <<Beliefs!Sum(b, "support"), Beliefs!Sum(b, "support") + Beliefs!Sum(b, "refute")>>
  BY DEF Beliefs!AggregateEvidence
<1> QED BY <1>1, <1>2 DEF Beliefs!Confs, Beliefs!InRange

\* Evidence about another belief does not change a share.
LEMMA ShareKept ==
  ASSUME NEW b \in Beliefs!Ids,
         Beliefs!ListForBelief(b)' = Beliefs!ListForBelief(b),
         \A e \in Beliefs!ListForBelief(b) : s2'[e] = s2[e]
  PROVE  Beliefs!Shares'[b] = Beliefs!Shares[b]
<1>1. \A p : Beliefs!Side(b, p)' = Beliefs!Side(b, p)
  BY DEF Beliefs!Side
<1>2. \A p, s : {e \in Beliefs!Side(b, p) : s2[e].strength = s}' = {e \in Beliefs!Side(b, p) : s2[e].strength = s}
  BY <1>1 DEF Beliefs!Side
<1>3. ASSUME NEW p PROVE Beliefs!Sum(b, p)' = Beliefs!Sum(b, p)
  <2> DEFINE Of(s) == {e \in Beliefs!Side(b, p) : s2[e].strength = s}
  <2>1. Of(1)' = Of(1) /\ Of(2)' = Of(2)
    BY <1>2
  <2>2. Beliefs!Sum(b, p) = Beliefs!Cardinality(Of(1)) + 2 * Beliefs!Cardinality(Of(2))
    BY DEF Beliefs!Sum
  <2>3. Beliefs!Sum(b, p)' = Beliefs!Cardinality(Of(1)') + 2 * Beliefs!Cardinality(Of(2)')
    BY DEF Beliefs!Sum
  <2> QED BY <2>1, <2>2, <2>3
<1>4. Beliefs!AggregateEvidence(b)' = Beliefs!AggregateEvidence(b)
  BY <1>3 DEF Beliefs!AggregateEvidence
<1> QED BY <1>4 DEF Beliefs!Shares, Beliefs!Ids

BeliefRows == [conf : Beliefs!Confs, status : Beliefs!Statuses,
               by : Beliefs!Ids \cup {None}, archivedAt : Nat \cup {None}]
EvidenceRows == [belief : Beliefs!Ids, polarity : Beliefs!Polarities, strength : Beliefs!Halves]

LEMMA BelInit ==
  ASSUME Beliefs!Init
  PROVE  Beliefs!BeliefInv
<1>1. Beliefs!BeliefTypes
  BY DEF Beliefs!Init, Beliefs!BeliefTypes
<1>2. Beliefs!Successors /\ Beliefs!EvidenceOfRows /\ Beliefs!FreshHoldShare
  BY DEF Beliefs!Init, Beliefs!Successors, Beliefs!EvidenceOfRows, Beliefs!FreshHoldShare, Beliefs!Rows
<1> QED BY <1>1, <1>2 DEF Beliefs!BeliefInv

\* A write to the rows of beliefs that removes none.
LEMMA RowsMove ==
  ASSUME Beliefs!BeliefInv, UNCHANGED <<s2, s3, s4, s5, s6>>, s7' \subseteq s7,
         s1' \in Seq(BeliefRows), Beliefs!Rows \subseteq Beliefs!Rows', Beliefs!Successors'
  PROVE  Beliefs!BeliefInv'
<1>1. Beliefs!BeliefTypes'
  BY DEF Beliefs!BeliefInv, Beliefs!BeliefTypes, BeliefRows
<1>2. Beliefs!EvidenceOfRows'
  BY DEF Beliefs!BeliefInv, Beliefs!EvidenceOfRows
<1>3. Beliefs!Shares' = Beliefs!Shares
  BY DEF Beliefs!Shares, Beliefs!AggregateEvidence, Beliefs!Sum, Beliefs!Side, Beliefs!ListForBelief
<1>4. Beliefs!FreshHoldShare'
  BY <1>3 DEF Beliefs!BeliefInv, Beliefs!FreshHoldShare
<1> QED BY <1>1, <1>2, <1>4 DEF Beliefs!BeliefInv

\* The row of a belief is replaced by one that is as good a successor.
LEMMA RowReplaced ==
  ASSUME Beliefs!BeliefInv, UNCHANGED <<s2, s3, s4, s5, s6>>, s7' \subseteq s7,
         NEW b \in Beliefs!Rows, NEW r \in BeliefRows, s1' = [s1 EXCEPT ![b] = r],
         r.by # None => r.by \in Beliefs!Rows \ {b} /\ r.archivedAt # None /\ r.status = "Superseded"
  PROVE  Beliefs!BeliefInv'
<1>1. s1 \in Seq(BeliefRows) /\ b \in DOMAIN s1
  BY DEF Beliefs!BeliefInv, Beliefs!BeliefTypes, BeliefRows, Beliefs!Rows
<1>2. s1' \in Seq(BeliefRows) /\ DOMAIN s1' = DOMAIN s1
  BY <1>1, ExceptSeq
<1>3. Beliefs!Rows' = Beliefs!Rows
  BY <1>2 DEF Beliefs!Rows
<1>4. Beliefs!Successors'
  <2> SUFFICES ASSUME NEW x \in Beliefs!Rows, s1'[x].by # None
               PROVE  s1'[x].by \in Beliefs!Rows \ {x} /\ s1'[x].archivedAt # None /\ s1'[x].status = "Superseded"
    BY <1>3 DEF Beliefs!Successors
  <2>1. CASE x = b
    BY <1>1, <2>1
  <2>2. CASE x # b
    <3>1. s1'[x] = s1[x]
      BY <2>2
    <3> QED BY <3>1 DEF Beliefs!BeliefInv, Beliefs!Successors
  <2> QED BY <2>1, <2>2
<1> QED BY <1>2, <1>3, <1>4, RowsMove

LEMMA RowsSame ==
  ASSUME Beliefs!BeliefInv, s1' = s1
  PROVE  Beliefs!Rows' = Beliefs!Rows /\ Beliefs!Successors' /\ s1' \in Seq(BeliefRows)
BY DEF Beliefs!Rows, Beliefs!BeliefInv, Beliefs!BeliefTypes, BeliefRows, Beliefs!Successors

\* The rows after a confidence is set, by itself or at the end of a propagation.
LEMMA SetConfidenceRows ==
  ASSUME Beliefs!BeliefInv, NEW b, NEW conf \in Beliefs!Confs, Beliefs!SetConfidence(b, conf)
  PROVE  /\ s1' \in Seq(BeliefRows) /\ Beliefs!Rows' = Beliefs!Rows /\ Beliefs!Successors'
         /\ b \in Beliefs!Rows /\ Beliefs!InRange(conf) => s1'[b].conf = conf
<1>1. s1 \in Seq(BeliefRows)
  BY DEF Beliefs!BeliefInv, Beliefs!BeliefTypes, BeliefRows
<1>2. CASE b \in Beliefs!Rows /\ Beliefs!InRange(conf)
  <2> DEFINE r == [s1[b] EXCEPT !.conf = conf]
  <2>1. b \in DOMAIN s1 /\ s1[b] \in BeliefRows
    BY <1>1, <1>2, ElementOfSeq, LenProperties DEF Beliefs!Rows
  <2>2. r \in BeliefRows /\ r.status = s1[b].status /\ r.by = s1[b].by /\ r.archivedAt = s1[b].archivedAt
        /\ r.conf = conf
    BY <2>1 DEF BeliefRows
  <2>3. s1' = [s1 EXCEPT ![b] = r]
    BY <1>2 DEF Beliefs!SetConfidence
  <2> HIDE DEF r
  <2>4. /\ s1' \in Seq(BeliefRows) /\ DOMAIN s1' = DOMAIN s1 /\ s1'[b] = r
        /\ \A x \in DOMAIN s1 : x # b => s1'[x] = s1[x]
    BY <1>1, <2>1, <2>2, <2>3, ExceptSeq
  <2>5. Beliefs!Rows' = Beliefs!Rows
    BY <2>4 DEF Beliefs!Rows
  <2>6. Beliefs!Successors'
    <3> SUFFICES ASSUME NEW x \in Beliefs!Rows, s1'[x].by # None
                 PROVE  s1'[x].by \in Beliefs!Rows \ {x} /\ s1'[x].archivedAt # None /\ s1'[x].status = "Superseded"
      BY <2>5 DEF Beliefs!Successors
    <3>1. s1'[x].status = s1[x].status /\ s1'[x].by = s1[x].by /\ s1'[x].archivedAt = s1[x].archivedAt
      BY <2>2, <2>4 DEF Beliefs!Rows
    <3> QED BY <3>1 DEF Beliefs!BeliefInv, Beliefs!Successors
  <2> QED BY <2>2, <2>4, <2>5, <2>6
<1>3. CASE ~(b \in Beliefs!Rows /\ Beliefs!InRange(conf))
  <2>1. s1' = s1
    BY <1>3 DEF Beliefs!SetConfidence
  <2> QED BY <1>3, <2>1, RowsSame
<1> QED BY <1>2, <1>3

\* A write that only the confidence can tell.
LEMMA SetConfidenceInv ==
  ASSUME Beliefs!BeliefInv, UNCHANGED <<s2, s3, s4, s5, s6>>, s7' \subseteq s7,
         NEW b, NEW conf \in Beliefs!Confs, Beliefs!SetConfidence(b, conf)
  PROVE  Beliefs!BeliefInv'
BY SetConfidenceRows, RowsMove

LEMMA CreateBeliefInv ==
  ASSUME Beliefs!BeliefInv, NEW conf \in Beliefs!Confs, NEW status \in Named,
         Beliefs!CreateBelief(conf, status)
  PROVE  Beliefs!BeliefInv'
<1> DEFINE r == [conf |-> IF conf[1] = 0 THEN <<2, 2>> ELSE conf,
                 status |-> IF status = "" THEN "Active" ELSE status, by |-> None, archivedAt |-> None]
           taken == Beliefs!InRange(conf) /\ status \in Beliefs!Statuses \cup {""}
<1>1. (IF taken THEN s1' = Append(s1, r) ELSE s1' = s1) /\ UNCHANGED <<s2, s3, s4, s5, s6, s7>>
  BY DEF Beliefs!CreateBelief
<1>2. taken => r \in BeliefRows /\ r.by = None
  BY DEF BeliefRows, Beliefs!Confs, Beliefs!Statuses
<1> HIDE DEF r, taken
<1>3. s1 \in Seq(BeliefRows)
  BY DEF Beliefs!BeliefInv, Beliefs!BeliefTypes, BeliefRows
<1>4. CASE ~taken
  BY <1>1, <1>4, RowsSame, RowsMove
<1>5. CASE taken
  <2>1. /\ s1' \in Seq(BeliefRows)
        /\ \A k \in DOMAIN s1 : k \in DOMAIN s1' /\ s1'[k] = s1[k]
        /\ \A k \in DOMAIN s1' : k \in DOMAIN s1 \/ s1'[k] = r
    BY <1>1, <1>2, <1>3, <1>5, AppendFacts
  <2>2. Beliefs!Rows \subseteq Beliefs!Rows'
    BY <2>1 DEF Beliefs!Rows
  <2>3. Beliefs!Successors'
    BY <1>2, <1>5, <2>1 DEF Beliefs!BeliefInv, Beliefs!Successors, Beliefs!Rows
  <2> QED BY <1>1, <2>1, <2>2, <2>3, RowsMove
<1> QED BY <1>4, <1>5

LEMMA SupersedeInv ==
  ASSUME Beliefs!BeliefsAssumption, Beliefs!BeliefInv,
         NEW b \in Beliefs!Ids, NEW by \in Beliefs!Ids, Beliefs!MarkSuperseded(b, by)
  PROVE  Beliefs!BeliefInv'
<1>1. UNCHANGED <<s2, s3, s4, s5, s6, s7>>
  BY DEF Beliefs!MarkSuperseded
<1>2. CASE b # by /\ {b, by} \subseteq Beliefs!Rows
  <2> DEFINE r == [conf |-> s1[b].conf, status |-> "Superseded", by |-> by, archivedAt |-> s4]
  <2>1. s1[b] \in BeliefRows
    <3>1. s1 \in Seq(BeliefRows) /\ b \in DOMAIN s1
      BY <1>2 DEF Beliefs!BeliefInv, Beliefs!BeliefTypes, BeliefRows, Beliefs!Rows
    <3> QED BY <3>1, ElementOfSeq, LenProperties
  <2>2. r \in BeliefRows /\ r.by = by /\ r.archivedAt # None /\ r.status = "Superseded"
    BY <2>1 DEF BeliefRows, Beliefs!Statuses, Beliefs!BeliefInv, Beliefs!BeliefTypes, Beliefs!BeliefsAssumption
  <2>3. s1' = [s1 EXCEPT ![b] = r]
    BY <1>2 DEF Beliefs!MarkSuperseded, Beliefs!Superseded
  <2> HIDE DEF r
  <2> QED BY <1>1, <1>2, <2>2, <2>3, RowReplaced
<1>3. CASE ~(b # by /\ {b, by} \subseteq Beliefs!Rows)
  <2>1. s1' = s1
    BY <1>3 DEF Beliefs!MarkSuperseded
  <2>2. Beliefs!Rows' = Beliefs!Rows /\ Beliefs!Successors' /\ s1' \in Seq(BeliefRows)
    BY <2>1 DEF Beliefs!Rows, Beliefs!BeliefInv, Beliefs!BeliefTypes, BeliefRows, Beliefs!Successors
  <2> QED BY <1>1, <2>2, RowsMove
<1> QED BY <1>2, <1>3

\* A write to the evidence about one belief.
LEMMA EvidenceMoves ==
  ASSUME Beliefs!BeliefInv, UNCHANGED <<s1, s3, s4, s5, s6>>,
         NEW b \in Beliefs!Ids, Beliefs!Touched(b),
         s2' \in Seq(EvidenceRows \cup {None}), Beliefs!EvidenceOfRows',
         \A x \in Beliefs!Ids : x # b =>
            /\ Beliefs!ListForBelief(x)' = Beliefs!ListForBelief(x)
            /\ \A e \in Beliefs!ListForBelief(x) : s2'[e] = s2[e]
  PROVE  Beliefs!BeliefInv'
<1>1. s7' = {c \in s7 : s6[c].belief # b}
  BY DEF Beliefs!Touched
<1>2. Beliefs!BeliefTypes'
  BY <1>1 DEF Beliefs!BeliefInv, Beliefs!BeliefTypes, EvidenceRows
<1>3. Beliefs!Successors'
  BY DEF Beliefs!BeliefInv, Beliefs!Successors, Beliefs!Rows
<1>4. ASSUME NEW x \in Beliefs!Ids, x # b PROVE Beliefs!Shares'[x] = Beliefs!Shares[x]
  BY <1>4, ShareKept
<1>5. ASSUME NEW c \in s7' PROVE Beliefs!Shares'[s6[c].belief] = Beliefs!Shares[s6[c].belief]
  <2>1. s6[c] \in [belief : Beliefs!Ids, conf : Beliefs!Confs] /\ s6[c].belief # b
    BY <1>1 DEF Beliefs!BeliefInv, Beliefs!BeliefTypes
  <2> QED BY <1>4, <2>1
<1>6. Beliefs!FreshHoldShare'
  BY <1>1, <1>5 DEF Beliefs!BeliefInv, Beliefs!FreshHoldShare
<1> QED BY <1>2, <1>3, <1>6 DEF Beliefs!BeliefInv

LEMMA CreateEvidenceInv ==
  ASSUME Beliefs!BeliefsAssumption, Beliefs!BeliefInv,
         NEW b \in Beliefs!Ids, NEW p \in Beliefs!Polarities, NEW s \in Beliefs!Halves,
         Beliefs!CreateEvidence(b, p, s)
  PROVE  Beliefs!BeliefInv'
<1> DEFINE r == [belief |-> b, polarity |-> p, strength |-> IF s = 0 THEN 2 ELSE s]
<1>1. s2' = Append(s2, r) /\ UNCHANGED <<s1, s3, s4, s5, s6>> /\ Beliefs!Touched(b) /\ b \in Beliefs!Rows
  BY DEF Beliefs!CreateEvidence
<1>2. r \in EvidenceRows \cup {None} /\ r.belief = b
  BY DEF EvidenceRows, Beliefs!Halves
<1> HIDE DEF r
<1>3. s2 \in Seq(EvidenceRows \cup {None})
  BY DEF Beliefs!BeliefInv, Beliefs!BeliefTypes, EvidenceRows
<1>4. /\ s2' \in Seq(EvidenceRows \cup {None})
      /\ \A k \in DOMAIN s2 : k \in DOMAIN s2' /\ s2'[k] = s2[k]
      /\ \A k \in DOMAIN s2' : k \in DOMAIN s2 \/ s2'[k] = r
  BY <1>1, <1>2, <1>3, AppendFacts
<1>5. Beliefs!EvidenceOfRows'
  BY <1>1, <1>2, <1>4 DEF Beliefs!BeliefInv, Beliefs!EvidenceOfRows, Beliefs!Rows
<1>6. ASSUME NEW x \in Beliefs!Ids, x # b
      PROVE  /\ Beliefs!ListForBelief(x)' = Beliefs!ListForBelief(x)
             /\ \A e \in Beliefs!ListForBelief(x) : s2'[e] = s2[e]
  BY <1>2, <1>4, <1>6 DEF Beliefs!ListForBelief
<1> QED BY <1>1, <1>4, <1>5, <1>6, EvidenceMoves

LEMMA EvidenceReplaced ==
  ASSUME Beliefs!BeliefsAssumption, Beliefs!BeliefInv, NEW e \in DOMAIN s2, s2[e] # None,
         NEW r \in EvidenceRows \cup {None}, s2' = [s2 EXCEPT ![e] = r],
         r # None => r.belief = s2[e].belief,
         Beliefs!Touched(s2[e].belief), UNCHANGED <<s1, s3, s4, s5, s6>>
  PROVE  Beliefs!BeliefInv'
<1>1. s2 \in Seq(EvidenceRows \cup {None})
  BY DEF Beliefs!BeliefInv, Beliefs!BeliefTypes, EvidenceRows
<1>2. s2[e] \in EvidenceRows
  BY <1>1, ElementOfSeq, LenProperties
<1>3. PICK b \in Beliefs!Ids : b = s2[e].belief
  BY <1>2 DEF EvidenceRows
<1>4. s2' \in Seq(EvidenceRows \cup {None}) /\ DOMAIN s2' = DOMAIN s2
  BY <1>1, ExceptSeq
<1>5. Beliefs!EvidenceOfRows'
  BY <1>4 DEF Beliefs!BeliefInv, Beliefs!EvidenceOfRows, Beliefs!Rows
<1>6. ASSUME NEW x \in Beliefs!Ids, x # b
      PROVE  /\ Beliefs!ListForBelief(x)' = Beliefs!ListForBelief(x)
             /\ \A i \in Beliefs!ListForBelief(x) : s2'[i] = s2[i]
  BY <1>3, <1>4, <1>6 DEF Beliefs!ListForBelief
<1>7. Beliefs!Touched(b)
  BY <1>3 DEF Beliefs!Touched
<1> QED BY <1>4, <1>5, <1>6, <1>7, EvidenceMoves

LEMMA UpdateStrengthInv ==
  ASSUME Beliefs!BeliefsAssumption, Beliefs!BeliefInv, NEW e, NEW s \in Beliefs!Halves,
         Beliefs!UpdateStrength(e, s)
  PROVE  Beliefs!BeliefInv'
<1> DEFINE r == [s2[e] EXCEPT !.strength = s]
<1>1. /\ e \in DOMAIN s2 /\ s2[e] # None /\ s2' = [s2 EXCEPT ![e] = r]
      /\ Beliefs!Touched(s2[e].belief) /\ UNCHANGED <<s1, s3, s4, s5, s6>>
  BY DEF Beliefs!UpdateStrength
<1>2. s2 \in Seq(EvidenceRows \cup {None})
  BY DEF Beliefs!BeliefInv, Beliefs!BeliefTypes, EvidenceRows
<1>3. s2[e] \in EvidenceRows
  BY <1>1, <1>2, ElementOfSeq, LenProperties
<1>4. r \in EvidenceRows /\ r.belief = s2[e].belief
  BY <1>3 DEF EvidenceRows
<1> HIDE DEF r
<1> QED BY <1>1, <1>4, EvidenceReplaced

LEMMA DeleteEvidenceInv ==
  ASSUME Beliefs!BeliefsAssumption, Beliefs!BeliefInv, NEW e, Beliefs!DeleteEvidence(e)
  PROVE  Beliefs!BeliefInv'
BY EvidenceReplaced DEF Beliefs!DeleteEvidence

\* A step of one caller's propagation: the evidence stays.
LEMMA PropagationMoves ==
  ASSUME Beliefs!BeliefInv, UNCHANGED <<s2, s3, s4>>, NEW c \in Believers,
         NEW p \in {"idle", "get", "update"},
         NEW h \in [belief : Beliefs!Ids, conf : Beliefs!Confs] \cup {None},
         s5' = [s5 EXCEPT ![c] = p], s6' = [s6 EXCEPT ![c] = h],
         p # "idle" => h \in [belief : Beliefs!Ids, conf : Beliefs!Confs], p = "idle" => c \notin s7', s7' \subseteq s7 \cup {c},
         Beliefs!Rows \subseteq Beliefs!Rows', s1' \in Seq(BeliefRows), Beliefs!Successors',
         c \in s7' => LET share == Beliefs!Shares[h.belief] IN
                      share[2] > 0 => p = "update" /\ h.conf = share
  PROVE  Beliefs!BeliefInv'
<1>1. Beliefs!BeliefTypes'
  <2>1. s5' \in [Believers -> {"idle", "get", "update"}]
    BY DEF Beliefs!BeliefInv, Beliefs!BeliefTypes
  <2>2. s6' \in [Believers -> [belief : Beliefs!Ids, conf : Beliefs!Confs] \cup {None}]
    BY DEF Beliefs!BeliefInv, Beliefs!BeliefTypes
  <2>3. \A x \in Believers : s5'[x] # "idle" => s6'[x] \in [belief : Beliefs!Ids, conf : Beliefs!Confs]
    BY DEF Beliefs!BeliefInv, Beliefs!BeliefTypes
  <2>4. s7' \subseteq {x \in Believers : s5'[x] # "idle"}
    BY DEF Beliefs!BeliefInv, Beliefs!BeliefTypes
  <2> QED BY <2>1, <2>2, <2>3, <2>4 DEF Beliefs!BeliefInv, Beliefs!BeliefTypes, BeliefRows
<1>2. Beliefs!EvidenceOfRows'
  BY DEF Beliefs!BeliefInv, Beliefs!EvidenceOfRows
<1>3. Beliefs!Shares' = Beliefs!Shares
  BY DEF Beliefs!Shares, Beliefs!AggregateEvidence, Beliefs!Sum, Beliefs!Side, Beliefs!ListForBelief
<1>4. ASSUME NEW x \in s7'
      PROVE  LET share == Beliefs!Shares[s6'[x].belief] IN
             share[2] > 0 => s5'[x] = "update" /\ s6'[x].conf = share
  <2>1. CASE x = c
    <3>1. s5'[x] = p /\ s6'[x] = h
      BY <2>1 DEF Beliefs!BeliefInv, Beliefs!BeliefTypes
    <3> QED BY <1>4, <2>1, <3>1
  <2>2. CASE x # c
    <3>1. x \in s7 /\ x \in Believers
      BY <1>4, <2>2 DEF Beliefs!BeliefInv, Beliefs!BeliefTypes
    <3>2. s5'[x] = s5[x] /\ s6'[x] = s6[x]
      BY <2>2, <3>1 DEF Beliefs!BeliefInv, Beliefs!BeliefTypes
    <3> QED BY <3>1, <3>2 DEF Beliefs!BeliefInv, Beliefs!FreshHoldShare
  <2> QED BY <2>1, <2>2
<1>5. Beliefs!FreshHoldShare'
  BY <1>3, <1>4 DEF Beliefs!FreshHoldShare
<1> QED BY <1>1, <1>2, <1>5 DEF Beliefs!BeliefInv

LEMMA PropagateListInv ==
  ASSUME Beliefs!BeliefInv, NEW c \in Believers, NEW b \in Beliefs!Ids, Beliefs!PropagateList(c, b)
  PROVE  Beliefs!BeliefInv'
<1> DEFINE share == Beliefs!AggregateEvidence(b)
           p == IF share[2] > 0 THEN "update" ELSE "get"
           h == [belief |-> b, conf |-> share]
<1>1. share \in Beliefs!Confs /\ share = Beliefs!Shares[b]
  BY ShareType DEF Beliefs!BeliefInv, Beliefs!Shares
<1>2. /\ s5' = [s5 EXCEPT ![c] = p] /\ s6' = [s6 EXCEPT ![c] = h] /\ s7' = s7 \cup {c}
      /\ UNCHANGED <<s1, s2, s3, s4>>
  BY DEF Beliefs!PropagateList
<1> HIDE DEF share
<1>3. h \in [belief : Beliefs!Ids, conf : Beliefs!Confs]
  BY <1>1
<1> QED BY <1>1, <1>2, <1>3, RowsSame, PropagationMoves

LEMMA HeldByBusy ==
  ASSUME Beliefs!BeliefInv, NEW c \in Believers, s5[c] # "idle"
  PROVE  /\ s6[c] \in [belief : Beliefs!Ids, conf : Beliefs!Confs]
         /\ s6[c].belief \in Beliefs!Ids /\ s6[c].conf \in Beliefs!Confs
BY DEF Beliefs!BeliefInv, Beliefs!BeliefTypes

LEMMA PropagateGetInv ==
  ASSUME Beliefs!BeliefInv, NEW c \in Believers, Beliefs!PropagateGet(c)
  PROVE  Beliefs!BeliefInv'
<1> DEFINE b == s6[c].belief
<1>1. s5[c] = "get" /\ UNCHANGED <<s1, s2, s3, s4>>
  BY DEF Beliefs!PropagateGet
<1>2. b \in Beliefs!Ids /\ s6[c] \in [belief : Beliefs!Ids, conf : Beliefs!Confs]
  BY <1>1, HeldByBusy
<1>3. CASE b \in Beliefs!Rows
  <2> DEFINE h == [s6[c] EXCEPT !.conf = s1[b].conf]
  <2>1. /\ s5' = [s5 EXCEPT ![c] = "update"] /\ s6' = [s6 EXCEPT ![c].conf = s1[b].conf] /\ s7' = s7
    BY <1>3 DEF Beliefs!PropagateGet
  <2>2. s6' = [s6 EXCEPT ![c] = h]
    BY <2>1
  <2>3. s1[b].conf \in Beliefs!Confs
    <3>1. s1 \in Seq(BeliefRows) /\ b \in DOMAIN s1
      BY <1>3 DEF Beliefs!BeliefInv, Beliefs!BeliefTypes, BeliefRows, Beliefs!Rows
    <3>2. s1[b] \in BeliefRows
      BY <3>1, ElementOfSeq, LenProperties
    <3> QED BY <3>2 DEF BeliefRows
  <2>4. h \in [belief : Beliefs!Ids, conf : Beliefs!Confs] /\ h.belief = b
    BY <1>2, <2>3
  <2>5. c \in s7 => ~(Beliefs!Shares[b][2] > 0)
    BY <1>1 DEF Beliefs!BeliefInv, Beliefs!FreshHoldShare
  <2>6. c \in s7' => LET share == Beliefs!Shares[h.belief] IN
                      share[2] > 0 => "update" = "update" /\ h.conf = share
    BY <2>1, <2>4, <2>5
  <2> HIDE DEF h, b
  <2> QED BY <1>1, <2>1, <2>2, <2>4, <2>6, RowsSame, PropagationMoves
<1>4. CASE b \notin Beliefs!Rows
  <2>1. s5' = [s5 EXCEPT ![c] = "idle"] /\ s6' = [s6 EXCEPT ![c] = None] /\ s7' = s7 \ {c}
    BY <1>4 DEF Beliefs!PropagateGet
  <2> QED BY <1>1, <2>1, RowsSame, PropagationMoves
<1> QED BY <1>3, <1>4

LEMMA PropagateUpdateInv ==
  ASSUME Beliefs!BeliefInv, NEW c \in Believers, Beliefs!PropagateUpdate(c)
  PROVE  Beliefs!BeliefInv'
<1>1. /\ s5[c] = "update" /\ UNCHANGED <<s2, s3, s4>> /\ Beliefs!SetConfidence(s6[c].belief, s6[c].conf)
      /\ s5' = [s5 EXCEPT ![c] = "idle"] /\ s6' = [s6 EXCEPT ![c] = None] /\ s7' = s7 \ {c}
  BY DEF Beliefs!PropagateUpdate
<1>2. s6[c].conf \in Beliefs!Confs
  BY <1>1, HeldByBusy
<1>3. s1' \in Seq(BeliefRows) /\ Beliefs!Rows' = Beliefs!Rows /\ Beliefs!Successors'
  BY <1>1, <1>2, SetConfidenceRows
<1> QED BY <1>1, <1>3, PropagationMoves

LEMMA RecordInv ==
  ASSUME Beliefs!BeliefInv, NEW b \in Beliefs!Ids, NEW conf \in Beliefs!Confs, NEW status \in Named,
         Beliefs!RecordHistory(b, conf, status)
  PROVE  Beliefs!BeliefInv'
<1> DEFINE r == [belief |-> b, conf |-> conf, status |-> status, at |-> s4]
           HistoryRows == [belief : Beliefs!Ids, conf : Beliefs!Confs,
                           status : Named, at : Nat]
<1>1. s3' = Append(s3, r) /\ UNCHANGED <<s1, s2, s4, s5, s6, s7>>
  BY DEF Beliefs!RecordHistory
<1>2. s4 \in Nat /\ s3 \in Seq(HistoryRows)
  BY DEF Beliefs!BeliefInv, Beliefs!BeliefTypes
<1>4. r \in HistoryRows
  BY <1>2
<1> HIDE DEF r
<1>5. s3' \in Seq(HistoryRows)
  BY <1>1, <1>2, <1>4, AppendFacts
<1>6. Beliefs!BeliefTypes'
  BY <1>1, <1>5 DEF Beliefs!BeliefInv, Beliefs!BeliefTypes
<1>7. Beliefs!Shares' = Beliefs!Shares
  BY <1>1 DEF Beliefs!Shares, Beliefs!AggregateEvidence, Beliefs!Sum, Beliefs!Side, Beliefs!ListForBelief
<1> QED BY <1>1, <1>6, <1>7 DEF Beliefs!BeliefInv, Beliefs!Successors, Beliefs!EvidenceOfRows,
        Beliefs!FreshHoldShare, Beliefs!Rows

LEMMA BelNextInv ==
  ASSUME Beliefs!BeliefsAssumption, Beliefs!BeliefInv, [Beliefs!Next]_(Beliefs!beliefVars)
  PROVE  Beliefs!BeliefInv'
<1>1. ASSUME NEW c \in Believers, Beliefs!Propagation(c) PROVE Beliefs!BeliefInv'
  BY <1>1, PropagateListInv, PropagateGetInv, PropagateUpdateInv DEF Beliefs!Propagation
<1>2. ASSUME NEW conf \in GivenShares, NEW status \in Named, Beliefs!CreateBelief(conf, status)
      PROVE  Beliefs!BeliefInv'
  BY <1>2, CreateBeliefInv DEF Beliefs!BeliefsAssumption
<1>3. ASSUME NEW b \in Beliefs!Ids, NEW conf \in GivenShares, Beliefs!UpdateConfidence(b, conf)
      PROVE  Beliefs!BeliefInv'
  <2>1. Beliefs!SetConfidence(b, conf) /\ UNCHANGED <<s2, s3, s4, s5, s6>> /\ s7' \subseteq s7
    BY <1>3 DEF Beliefs!UpdateConfidence, Beliefs!Touched
  <2> QED BY <2>1, SetConfidenceInv DEF Beliefs!BeliefsAssumption
<1>4. ASSUME NEW b \in Beliefs!Ids, NEW by \in Beliefs!Ids, Beliefs!MarkSuperseded(b, by)
      PROVE  Beliefs!BeliefInv'
  BY <1>4, SupersedeInv
<1>5. ASSUME NEW b \in Beliefs!Ids, NEW p \in Beliefs!Polarities, NEW s \in Beliefs!Halves,
             Beliefs!CreateEvidence(b, p, s)
      PROVE  Beliefs!BeliefInv'
  BY <1>5, CreateEvidenceInv
<1>6. ASSUME NEW e, NEW s \in Beliefs!Halves, Beliefs!UpdateStrength(e, s) \/ Beliefs!DeleteEvidence(e)
      PROVE  Beliefs!BeliefInv'
  BY <1>6, UpdateStrengthInv, DeleteEvidenceInv
<1>7. ASSUME NEW b \in Beliefs!Ids, NEW conf \in GivenShares, NEW status \in Named,
             Beliefs!RecordHistory(b, conf, status)
      PROVE  Beliefs!BeliefInv'
  BY <1>7, RecordInv DEF Beliefs!BeliefsAssumption
<1>8. CASE Beliefs!Tick \/ UNCHANGED Beliefs!beliefVars
  <2>1. UNCHANGED <<s1, s2, s3, s5, s6, s7>> /\ (s4 \in Nat => s4' \in Nat)
    BY <1>8 DEF Beliefs!Tick, Beliefs!beliefVars
  <2>2. Beliefs!Shares' = Beliefs!Shares
    BY <2>1 DEF Beliefs!Shares, Beliefs!AggregateEvidence, Beliefs!Sum, Beliefs!Side, Beliefs!ListForBelief
  <2> QED BY <2>1, <2>2 DEF Beliefs!BeliefInv, Beliefs!BeliefTypes, Beliefs!Successors,
          Beliefs!EvidenceOfRows, Beliefs!FreshHoldShare, Beliefs!Rows
<1>9. Beliefs!Halves # {}
  BY DEF Beliefs!Halves
<1> QED BY <1>1, <1>2, <1>3, <1>4, <1>5, <1>6, <1>7, <1>8, <1>9 DEF Beliefs!Next

LEMMA BelInvMeans ==
  ASSUME Beliefs!BeliefInv
  PROVE  Beliefs!LinksHold
<1>1. ASSUME NEW b \in Beliefs!Rows, Beliefs!GetSupersededBy(b) # None
      PROVE  /\ Beliefs!GetSupersededBy(b) \in Beliefs!Rows \ {b} /\ s1[b].archivedAt # None
             /\ b \notin Beliefs!ListActiveBeliefs
  <2>1. Beliefs!GetSupersededBy(b) = s1[b].by
    BY DEF Beliefs!GetSupersededBy
  <2>2. s1[b].by \in Beliefs!Rows \ {b} /\ s1[b].archivedAt # None /\ s1[b].status = "Superseded"
    BY <1>1, <2>1 DEF Beliefs!BeliefInv, Beliefs!Successors
  <2> QED BY <2>1, <2>2 DEF Beliefs!ListActiveBeliefs
<1>2. ASSUME NEW b \in Beliefs!Ids, NEW p \in Beliefs!Polarities
      PROVE  /\ b \notin Beliefs!Rows => Beliefs!GetSupportRefute(b)[p] = 0
             /\ Beliefs!Sum(b, p) <= 2 * Beliefs!GetSupportRefute(b)[p]
  <2>1. Beliefs!GetSupportRefute(b)[p] = Cardinality(Beliefs!Side(b, p))
    BY BelCounting DEF Beliefs!GetSupportRefute
  <2>2. b \notin Beliefs!Rows => Beliefs!Side(b, p) = {}
    BY DEF Beliefs!BeliefInv, Beliefs!EvidenceOfRows, Beliefs!Side, Beliefs!ListForBelief
  <2> QED BY <2>1, <2>2, SumBounds, FS_EmptySet DEF Beliefs!BeliefInv
<1> QED BY <1>1, <1>2 DEF Beliefs!LinksHold

\* Only the caller itself ends its propagation.
LEMMA EndsByUpdate ==
  ASSUME Beliefs!BeliefInv, [Beliefs!Next]_(Beliefs!beliefVars),
         NEW c \in Believers, s5[c] = "update", s5'[c] = "idle"
  PROVE  Beliefs!PropagateUpdate(c)
<1>1. ASSUME NEW x \in Believers, Beliefs!Propagation(x) PROVE x = c /\ Beliefs!PropagateUpdate(c)
  <2>1. s5 \in [Believers -> {"idle", "get", "update"}]
    BY DEF Beliefs!BeliefInv, Beliefs!BeliefTypes
  <2>2. x = c
    <3> SUFFICES ASSUME x # c PROVE FALSE
      OBVIOUS
    <3>1. \A p : [s5 EXCEPT ![x] = p][c] = s5[c]
      BY <2>1
    <3> QED BY <1>1, <3>1 DEF Beliefs!Propagation, Beliefs!PropagateList, Beliefs!PropagateGet, Beliefs!PropagateUpdate
  <2> QED BY <1>1, <2>1, <2>2 DEF Beliefs!Propagation, Beliefs!PropagateList, Beliefs!PropagateGet
<1>2. s5' # s5
  OBVIOUS
<1> QED BY <1>1, <1>2 DEF Beliefs!Next, Beliefs!beliefVars, Beliefs!CreateBelief, Beliefs!UpdateConfidence,
       Beliefs!MarkSuperseded, Beliefs!CreateEvidence, Beliefs!UpdateStrength, Beliefs!DeleteEvidence,
       Beliefs!RecordHistory, Beliefs!Tick

LEMMA StepWritesShare ==
  ASSUME Beliefs!BeliefInv, [Beliefs!Next]_(Beliefs!beliefVars)
  PROVE  Beliefs!WritesShare
<1> SUFFICES ASSUME NEW c \in Believers, NEW b \in Beliefs!Ids,
                    s5[c] = "update", s5'[c] = "idle", s6[c].belief = b, c \in s7,
                    b \in Beliefs!Rows, Beliefs!AggregateEvidence(b)[2] > 0
             PROVE  s1'[b].conf[1] * Beliefs!AggregateEvidence(b)[2]
                      = Beliefs!AggregateEvidence(b)[1] * s1'[b].conf[2]
  BY DEF Beliefs!WritesShare
<1>1. Beliefs!PropagateUpdate(c)
  BY EndsByUpdate
<1>2. Beliefs!SetConfidence(b, s6[c].conf)
  BY <1>1 DEF Beliefs!PropagateUpdate
<1>3. Beliefs!Shares[b] = Beliefs!AggregateEvidence(b)
  BY DEF Beliefs!Shares
<1>4. s6[c].conf = Beliefs!AggregateEvidence(b)
  BY <1>3 DEF Beliefs!BeliefInv, Beliefs!FreshHoldShare
<1>5. Beliefs!AggregateEvidence(b) \in Beliefs!Confs /\ Beliefs!InRange(Beliefs!AggregateEvidence(b))
  BY ShareType DEF Beliefs!BeliefInv
<1>6. s1'[b].conf = Beliefs!AggregateEvidence(b)
  BY <1>2, <1>4, <1>5, SetConfidenceRows
<1> DEFINE share == Beliefs!AggregateEvidence(b)
<1>7. share[1] \in Nat /\ share[2] \in Nat
  BY <1>5 DEF Beliefs!Confs
<1>8. share[1] * share[2] = share[1] * share[2]
  OBVIOUS
<1> QED BY <1>6, <1>8

LEMMA StepKeepsPast ==
  ASSUME Beliefs!BeliefInv, [Beliefs!Next]_(Beliefs!beliefVars)
  PROVE  Beliefs!KeepsPast
<1>1. ASSUME s3' = s3, NEW b, NEW t PROVE Beliefs!StateAt(b, t)' = Beliefs!StateAt(b, t)
  BY <1>1 DEF Beliefs!StateAt, Beliefs!Newest, Beliefs!ListHistory
<1>2. ASSUME NEW x \in Beliefs!Ids, NEW conf, NEW status, Beliefs!RecordHistory(x, conf, status),
             NEW b, NEW t \in Nat, t < s4
      PROVE  Beliefs!StateAt(b, t)' = Beliefs!StateAt(b, t)
  <2> DEFINE r == [belief |-> x, conf |-> conf, status |-> status, at |-> s4]
             Past == {n \in Beliefs!ListHistory(b) : s3[n].at <= t}
  <2>1. s3' = Append(s3, r) /\ r.at = s4 /\ s4 \in Nat
    BY <1>2 DEF Beliefs!RecordHistory, Beliefs!BeliefInv, Beliefs!BeliefTypes
  <2>2. PICK S : s3 \in Seq(S)
    BY DEF Beliefs!BeliefInv, Beliefs!BeliefTypes
  <2> HIDE DEF r
  <2>3. s3 \in Seq(S \cup {r}) /\ r \in S \cup {r}
    <3>1. S \subseteq S \cup {r}
      OBVIOUS
    <3> QED BY <2>2, <3>1, SeqDef
  <2>4. /\ \A k \in DOMAIN s3 : k \in DOMAIN s3' /\ s3'[k] = s3[k]
        /\ \A k \in DOMAIN s3' : k \in DOMAIN s3 \/ s3'[k] = r
    BY <2>1, <2>3, AppendFacts
  <2>5. ~(r.at <= t)
    BY <1>2, <2>1
  <2>6. Past' = Past /\ \A n \in Past : s3'[n] = s3[n]
    BY <2>4, <2>5 DEF Beliefs!ListHistory
  <2>7. Beliefs!StateAt(b, t) = {s3[n] : n \in {i \in Past : \A j \in Past : j <= i}}
    BY DEF Beliefs!StateAt, Beliefs!Newest
  <2>8. Beliefs!StateAt(b, t)' = {s3'[n] : n \in {i \in Past' : \A j \in Past' : j <= i}}
    BY DEF Beliefs!StateAt, Beliefs!Newest
  <2> HIDE DEF Past
  <2> QED BY <2>6, <2>7, <2>8
<1>3. CASE s3' # s3
  <2>1. \E x \in Beliefs!Ids, conf \in GivenShares, status \in Named :
          Beliefs!RecordHistory(x, conf, status)
    BY <1>3 DEF Beliefs!Next, Beliefs!beliefVars, Beliefs!CreateBelief, Beliefs!UpdateConfidence,
       Beliefs!MarkSuperseded, Beliefs!CreateEvidence, Beliefs!UpdateStrength, Beliefs!DeleteEvidence,
       Beliefs!Tick, Beliefs!Propagation, Beliefs!PropagateList, Beliefs!PropagateGet, Beliefs!PropagateUpdate
  <2>2. \A t \in 0..MaxClock : t \in Nat
    OBVIOUS
  <2> QED BY <1>2, <2>1, <2>2 DEF Beliefs!KeepsPast
<1> QED BY <1>1, <1>3 DEF Beliefs!KeepsPast

-----------------------------------------------------------------------------
(* Episodes: sessions, episodes, items, entities, the clock and the reader    *)
(* are s1 to s5.                                                               *)

LEMMA EpiCounting ==
  \A S : (Episodes!IsFiniteSet(S) <=> IsFiniteSet(S)) /\ Episodes!Cardinality(S) = Cardinality(S)
BY DEF Episodes!IsFiniteSet, IsFiniteSet, Episodes!Cardinality, Cardinality

LEMMA Places ==
  /\ Episodes!Range(Episodes!Kinds) = {"event", "memory", "task"}
  /\ Episodes!Kinds[1] = "event" /\ Episodes!Kinds[2] = "memory" /\ Episodes!Kinds[3] = "task"
  /\ Episodes!Place("event") = 1 /\ Episodes!Place("memory") = 2 /\ Episodes!Place("task") = 3
<1>1. Episodes!Kinds[1] = "event" /\ Episodes!Kinds[2] = "memory" /\ Episodes!Kinds[3] = "task"
  BY DEF Episodes!Kinds
<1>2. DOMAIN Episodes!Kinds = {1, 2, 3}
  BY DEF Episodes!Kinds
<1>3. Episodes!Range(Episodes!Kinds) = {"event", "memory", "task"}
  BY <1>1, <1>2 DEF Episodes!Range
<1>4. 1..3 = {1, 2, 3}
  OBVIOUS
<1>5. Episodes!Place("event") = 1
  BY <1>1, <1>4 DEF Episodes!Place
<1>6. Episodes!Place("memory") = 2
  BY <1>1, <1>4 DEF Episodes!Place
<1>7. Episodes!Place("task") = 3
  BY <1>1, <1>4 DEF Episodes!Place
<1> QED BY <1>1, <1>3, <1>5, <1>6, <1>7

LEMMA EpiInit ==
  ASSUME Episodes!Init
  PROVE  Episodes!EpisodeInv
<1>1. Episodes!EpisodeTypes
  BY DEF Episodes!Init, Episodes!EpisodeTypes, Episodes!NoEpisode, Episodes!NotReading, Episodes!Readings
<1>2. Episodes!ReadingSound
  <2>1. IsFiniteSet({}) /\ "idle" \notin {"event", "memory", "task"}
    BY FS_EmptySet
  <2> QED BY <2>1, EpiCounting, Places DEF Episodes!Init, Episodes!ReadingSound, Episodes!NotReading
<1>3. Episodes!EpisodesKept
  BY DEF Episodes!Init, Episodes!EpisodesKept, Episodes!TimelineFaithful, Episodes!RowsBelong,
         Episodes!NotReading, Episodes!NoEpisode
<1> QED BY <1>1, <1>2, <1>3 DEF Episodes!EpisodeInv

\* A step of a writer: no row of an episode or of an entity that has items goes.
LEMMA WriterMoves ==
  ASSUME Episodes!EpisodeInv, Episodes!EpisodeTypes', IsFiniteSet(s3'), Episodes!RowsBelong',
         \/ s5' = s5 /\ s3 \subseteq s3'
         \/ s5' = [s5 EXCEPT !.stay = @ \cap s3']
  PROVE  Episodes!EpisodeInv'
<1>1. /\ s5'.got = s5.got /\ s5'.ep = s5.ep /\ s5'.pc = s5.pc /\ s5'.list = s5.list /\ s5'.for = s5.for
      /\ s5'.stay \subseteq s5.stay /\ s5'.stay \subseteq s3'
  BY DEF Episodes!EpisodeInv, Episodes!EpisodeTypes, Episodes!ReadingSound, Episodes!Readings
<1>2. Episodes!ReadingSound'
  BY <1>1, EpiCounting DEF Episodes!EpisodeInv, Episodes!ReadingSound
<1>3. Episodes!TimelineFaithful'
  BY <1>1 DEF Episodes!EpisodeInv, Episodes!EpisodesKept, Episodes!TimelineFaithful
<1> QED BY <1>2, <1>3 DEF Episodes!EpisodeInv, Episodes!EpisodesKept

LEMMA WriterTypes ==
  ASSUME Episodes!EpisodeInv, s3' \subseteq Episodes!Rows, Episodes!Change(s3')
  PROVE  /\ s5' \in Episodes!Readings
         /\ s5' = [s5 EXCEPT !.stay = @ \cap s3']
<1>1. s5' = [s5 EXCEPT !.stay = @ \cap s3']
  BY DEF Episodes!Change
<1>2. s5 \in Episodes!Readings
  BY DEF Episodes!EpisodeInv, Episodes!EpisodeTypes
<1>3. s5.stay \cap s3' \in SUBSET Episodes!Rows
  OBVIOUS
<1> QED BY <1>1, <1>2, <1>3 DEF Episodes!Readings

\* Sessions and episodes are added.
LEMMA SessionInv ==
  ASSUME Episodes!EpisodeInv, NEW s \in Sessions, Episodes!CreateSession(s)
  PROVE  Episodes!EpisodeInv'
<1>1. s1' = s1 \cup {s} /\ UNCHANGED <<s2, s3, s4, s5>>
  BY DEF Episodes!CreateSession
<1>2. Episodes!EpisodeTypes' /\ IsFiniteSet(s3')
  BY <1>1, EpiCounting DEF Episodes!EpisodeInv, Episodes!EpisodeTypes, Episodes!ReadingSound
<1>3. Episodes!RowsBelong'
  BY <1>1 DEF Episodes!EpisodeInv, Episodes!EpisodesKept, Episodes!RowsBelong
<1> QED BY <1>1, <1>2, <1>3, WriterMoves

LEMMA EpisodeCreated ==
  ASSUME Episodes!EpisodeInv, NEW e \in EpisodeIds, NEW s \in Sessions \cup {None},
         Episodes!CreateEpisode(e, s)
  PROVE  Episodes!EpisodeInv'
<1> DEFINE Made == [made : BOOLEAN, session : Sessions \cup {None}, summary : SUBSET Episodes!Rows]
           r == [made |-> TRUE, session |-> s, summary |-> {}]
<1>1. /\ s2' = [s2 EXCEPT ![e] = r] /\ (s # None => s \in s1)
      /\ UNCHANGED <<s1, s3, s4, s5>>
  BY DEF Episodes!CreateEpisode
<1>2. s2 \in [EpisodeIds -> Made]
  BY DEF Episodes!EpisodeInv, Episodes!EpisodeTypes
<1>3. r \in Made /\ r.made /\ r.session = s /\ r.summary = {}
  OBVIOUS
<1> HIDE DEF r
<1>4. Episodes!EpisodeTypes' /\ IsFiniteSet(s3')
  BY <1>1, <1>2, <1>3, EpiCounting DEF Episodes!EpisodeInv, Episodes!EpisodeTypes, Episodes!ReadingSound
<1>5. Episodes!RowsBelong'
  BY <1>1, <1>2, <1>3 DEF Episodes!EpisodeInv, Episodes!EpisodesKept, Episodes!RowsBelong, Episodes!EpisodeTypes, Episodes!Rows
<1> QED BY <1>1, <1>4, <1>5, WriterMoves

\* Items come, go one by one, and with the entity they refer to.
LEMMA EventsInv ==
  ASSUME Episodes!EpisodesAssumption, Episodes!EpisodeInv,
         NEW ids \in SUBSET EventIds, NEW e \in EpisodeIds, NEW at \in 1..MaxTime,
         Episodes!CreateEvents({Episodes!Item("event", n, None, e, at) : n \in ids})
  PROVE  Episodes!EpisodeInv'
<1> DEFINE batch == {Episodes!Item("event", n, None, e, at) : n \in ids}
<1>1. /\ s3' = s3 \cup batch /\ Episodes!Change(s3') /\ UNCHANGED <<s1, s2, s4>>
      /\ \A i \in batch : s2[i.ep].made
  BY DEF Episodes!CreateEvents, Episodes!Change
<1>2. IsFiniteSet(batch)
  <2>1. IsFiniteSet(ids)
    <3>1. IsFiniteSet(EventIds)
      BY EpiCounting DEF Episodes!EpisodesAssumption
    <3> QED BY <3>1, FS_Subset
  <2> DEFINE f == [n \in ids |-> Episodes!Item("event", n, None, e, at)]
  <2>2. f \in Surjection(ids, batch)
    BY DEF Surjection
  <2> QED BY <2>1, <2>2, FS_Surjection
<1>3. at \in Nat
  BY DEF Episodes!EpisodesAssumption
<1>4. batch \subseteq Episodes!Rows /\ \A i \in batch : i.kind = "event"
  BY <1>3, Places DEF Episodes!Item, Episodes!Rows
<1> HIDE DEF batch
<1>5. s3' \subseteq Episodes!Rows /\ IsFiniteSet(s3')
  BY <1>1, <1>2, <1>4, FS_Union, EpiCounting DEF Episodes!EpisodeInv, Episodes!EpisodeTypes, Episodes!ReadingSound
<1>6. Episodes!EpisodeTypes'
  BY <1>1, <1>5, WriterTypes DEF Episodes!EpisodeInv, Episodes!EpisodeTypes
<1>7. Episodes!RowsBelong'
  BY <1>1, <1>4 DEF Episodes!EpisodeInv, Episodes!EpisodesKept, Episodes!RowsBelong
<1> QED BY <1>1, <1>5, <1>6, <1>7, WriterTypes, WriterMoves

LEMMA LinkInv ==
  ASSUME Episodes!EpisodeInv, NEW k \in {"memory", "task"}, NEW n \in EpisodeEntities,
         NEW r \in Roles \cup {None}, NEW e \in EpisodeIds, Episodes!Link(k, n, r, e)
  PROVE  Episodes!EpisodeInv'
<1> DEFINE i == Episodes!Item(k, n, r, e, 0)
<1>1. /\ s3' = s3 \cup {i} /\ Episodes!Change(s3') /\ UNCHANGED <<s1, s2, s4>>
      /\ s2[e].made /\ n \in s4
  BY DEF Episodes!Link, Episodes!Change
<1>2. i \in Episodes!Rows /\ i.ep = e /\ i.id = n
  BY Places DEF Episodes!Item, Episodes!Rows
<1> HIDE DEF i
<1>3. s3' \subseteq Episodes!Rows /\ IsFiniteSet(s3')
  BY <1>1, <1>2, FS_AddElement, EpiCounting DEF Episodes!EpisodeInv, Episodes!EpisodeTypes, Episodes!ReadingSound
<1>4. Episodes!EpisodeTypes'
  BY <1>1, <1>3, WriterTypes DEF Episodes!EpisodeInv, Episodes!EpisodeTypes
<1>5. Episodes!RowsBelong'
  BY <1>1, <1>2 DEF Episodes!EpisodeInv, Episodes!EpisodesKept, Episodes!RowsBelong
<1> QED BY <1>1, <1>3, <1>4, <1>5, WriterTypes, WriterMoves

LEMMA ItemsGo ==
  ASSUME Episodes!EpisodeInv, s3' \subseteq s3, Episodes!Change(s3'), UNCHANGED <<s1, s2>>,
         s4' \subseteq s4, \A i \in s3' : i.kind = "event" \/ i.id \in s4'
  PROVE  Episodes!EpisodeInv'
<1>1. s3' \subseteq Episodes!Rows /\ IsFiniteSet(s3')
  BY FS_Subset, EpiCounting DEF Episodes!EpisodeInv, Episodes!EpisodeTypes, Episodes!ReadingSound
<1>2. Episodes!EpisodeTypes'
  BY <1>1, WriterTypes DEF Episodes!EpisodeInv, Episodes!EpisodeTypes
<1>3. Episodes!RowsBelong'
  BY DEF Episodes!EpisodeInv, Episodes!EpisodesKept, Episodes!RowsBelong
<1> QED BY <1>1, <1>2, <1>3, WriterTypes, WriterMoves

LEMMA UnlinkInv ==
  ASSUME Episodes!EpisodeInv,
         \/ \E i \in s3 : Episodes!Unlink(i)
         \/ \E n \in EpisodeEntities : Episodes!DeleteEntity(n)
  PROVE  Episodes!EpisodeInv'
<1>1. \A i \in s3 : i.kind = "event" \/ i.id \in s4
  BY DEF Episodes!EpisodeInv, Episodes!EpisodesKept, Episodes!RowsBelong
<1>2. ASSUME NEW i \in s3, Episodes!Unlink(i) PROVE Episodes!EpisodeInv'
  BY <1>1, <1>2, ItemsGo DEF Episodes!Unlink, Episodes!Change
<1>3. ASSUME NEW n \in EpisodeEntities, Episodes!DeleteEntity(n) PROVE Episodes!EpisodeInv'
  BY <1>1, <1>3, ItemsGo DEF Episodes!DeleteEntity, Episodes!Change
<1> QED BY <1>2, <1>3

\* A step of nobody.
LEMMA IdleKeeps ==
  ASSUME Episodes!EpisodeInv, UNCHANGED Episodes!epiVars
  PROVE  Episodes!EpisodeInv'
<1>1. UNCHANGED <<s1, s2, s3, s4, s5>>
  BY DEF Episodes!epiVars
<1>2. Episodes!EpisodeTypes' /\ IsFiniteSet(s3')
  BY <1>1, EpiCounting DEF Episodes!EpisodeInv, Episodes!EpisodeTypes, Episodes!ReadingSound
<1>3. Episodes!RowsBelong'
  BY <1>1 DEF Episodes!EpisodeInv, Episodes!EpisodesKept, Episodes!RowsBelong
<1> QED BY <1>1, <1>2, <1>3, WriterMoves

\* A step of the reader that leaves the tables alone.
LEMMA ReaderMoves ==
  ASSUME Episodes!EpisodeInv, UNCHANGED <<s1, s2, s3, s4>>, s5' \in Episodes!Readings,
         Episodes!ReadingSound', Episodes!TimelineFaithful'
  PROVE  Episodes!EpisodeInv'
<1>1. Episodes!EpisodeTypes'
  BY DEF Episodes!EpisodeInv, Episodes!EpisodeTypes
<1>2. Episodes!RowsBelong'
  BY DEF Episodes!EpisodeInv, Episodes!EpisodesKept, Episodes!RowsBelong
<1> QED BY <1>1, <1>2 DEF Episodes!EpisodeInv, Episodes!EpisodesKept

LEMMA NotReadingFacts ==
  /\ Episodes!NotReading \in Episodes!Readings
  /\ Episodes!NotReading.pc = "idle" /\ Episodes!NotReading.got = {} /\ Episodes!NotReading.stay = {}
BY DEF Episodes!NotReading, Episodes!Readings

LEMMA StopsReading ==
  ASSUME Episodes!EpisodeInv, UNCHANGED s3, s5' = Episodes!NotReading
  PROVE  s5' \in Episodes!Readings /\ Episodes!ReadingSound' /\ Episodes!TimelineFaithful'
<1>1. IsFiniteSet({}) /\ "idle" \notin {"event", "memory", "task"}
  BY FS_EmptySet
<1>2. Episodes!ReadingSound'
  BY <1>1, EpiCounting, Places, NotReadingFacts DEF Episodes!EpisodeInv, Episodes!ReadingSound
<1> QED BY <1>2, NotReadingFacts DEF Episodes!TimelineFaithful

LEMMA ReturnInv ==
  ASSUME Episodes!EpisodeInv, Episodes!Return
  PROVE  Episodes!EpisodeInv'
BY StopsReading, ReaderMoves DEF Episodes!Return

LEMMA BeginInv ==
  ASSUME Episodes!EpisodeInv, NEW e \in EpisodeIds, Episodes!BeginTimeline(e) \/ Episodes!BeginSummary(e)
  PROVE  Episodes!EpisodeInv'
<1>1. PICK for \in {"timeline", "summary"}, stay \in SUBSET {i \in s3 : i.ep = e} :
        s5' = [for |-> for, pc |-> "event", ep |-> e, got |-> {}, list |-> <<>>, stay |-> stay]
  <2>1. CASE Episodes!BeginTimeline(e)
    BY <2>1 DEF Episodes!BeginTimeline, Episodes!NotReading
  <2>2. CASE Episodes!BeginSummary(e)
    BY <2>2 DEF Episodes!BeginSummary, Episodes!NotReading
  <2> QED BY <2>1, <2>2
<1>0. UNCHANGED <<s1, s2, s3, s4>>
  BY DEF Episodes!BeginTimeline, Episodes!BeginSummary
<1>2. stay \subseteq Episodes!Rows /\ stay \subseteq s3
  BY <1>1 DEF Episodes!EpisodeInv, Episodes!EpisodeTypes
<1>3. s5' \in Episodes!Readings
  <2>1. "event" \in Episodes!Range(Episodes!Kinds) /\ <<>> \in Seq(Episodes!Rows)
    BY Places
  <2> QED BY <1>1, <1>2, <2>1 DEF Episodes!Readings
<1>4. \A i \in s3 : Episodes!KindRank(i) \in {1, 2, 3}
  BY Places DEF Episodes!EpisodeInv, Episodes!EpisodeTypes, Episodes!Rows, Episodes!KindRank
<1>5. Episodes!ReadingSound'
  <2>1. s5'.ep = e /\ s5'.pc = "event" /\ s5'.got = {} /\ s5'.stay = stay
    BY <1>1
  <2>2. \A i \in stay : i \in s3' /\ i.ep = e /\ ~(Episodes!KindRank(i) < 1)
    BY <1>0, <1>4
  <2>3. IsFiniteSet({})
    BY FS_EmptySet
  <2>4. IsFiniteSet(s3')
    BY <1>0, EpiCounting DEF Episodes!EpisodeInv, Episodes!ReadingSound
  <2> QED BY <2>1, <2>2, <2>3, <2>4, EpiCounting, Places DEF Episodes!ReadingSound, Episodes!KindRank
<1>6. Episodes!TimelineFaithful'
  BY <1>1 DEF Episodes!TimelineFaithful
<1> QED BY <1>0, <1>3, <1>5, <1>6, ReaderMoves

\* What has been read after one more table.
LEMMA GotMore ==
  ASSUME Episodes!EpisodeInv, s5.pc \in {"event", "memory", "task"},
         NEW got, got = s5.got \cup Episodes!RowsOf(s5.pc, s5.ep)
  PROVE  /\ s5.ep \in EpisodeIds /\ got \subseteq Episodes!Rows /\ IsFiniteSet(got)
         /\ \A i \in got : i.ep = s5.ep
         /\ \A i \in s5.stay : /\ i \in s3 /\ i.ep = s5.ep /\ i \in Episodes!Rows
                               /\ Episodes!KindRank(i) <= Episodes!Place(s5.pc) => i \in got
<1>1. s5.ep \in EpisodeIds
  BY DEF Episodes!EpisodeInv, Episodes!ReadingSound
<1>2. Episodes!RowsOf(s5.pc, s5.ep) \subseteq s3
  BY DEF Episodes!RowsOf
<1>3. IsFiniteSet(got)
  BY <1>2, FS_Subset, FS_Union, EpiCounting DEF Episodes!EpisodeInv, Episodes!ReadingSound
<1>4. got \subseteq Episodes!Rows
  BY <1>2 DEF Episodes!EpisodeInv, Episodes!EpisodeTypes, Episodes!Readings
<1>5. \A i \in got : i.ep = s5.ep
  BY DEF Episodes!RowsOf, Episodes!EpisodeInv, Episodes!ReadingSound
<1>6. ASSUME NEW i \in s5.stay
      PROVE  /\ i \in s3 /\ i.ep = s5.ep /\ i \in Episodes!Rows
             /\ Episodes!KindRank(i) <= Episodes!Place(s5.pc) => i \in got
  <2>1. i \in s3 /\ i.ep = s5.ep /\ i \in Episodes!Rows
    BY DEF Episodes!EpisodeInv, Episodes!ReadingSound, Episodes!EpisodeTypes
  <2>2. i.kind \in {"event", "memory", "task"}
    BY <2>1, Places DEF Episodes!Rows
  <2>3. CASE i.kind = s5.pc
    BY <2>1, <2>3 DEF Episodes!RowsOf
  <2>4. CASE i.kind # s5.pc
    <3>1. Episodes!KindRank(i) = Episodes!Place(i.kind)
      BY DEF Episodes!KindRank
    <3>2. Episodes!KindRank(i) <= Episodes!Place(s5.pc) => Episodes!KindRank(i) < Episodes!Place(s5.pc)
      BY <2>2, <2>4, <3>1, Places
    <3>3. Episodes!KindRank(i) < Episodes!Place(s5.pc) => i \in s5.got
      BY Places DEF Episodes!EpisodeInv, Episodes!ReadingSound
    <3> QED BY <2>1, <3>2, <3>3
  <2> QED BY <2>3, <2>4
<1> QED BY <1>1, <1>3, <1>4, <1>5, <1>6

LEMMA ReadTableInv ==
  ASSUME Episodes!EpisodeInv, Episodes!ReadTable
  PROVE  Episodes!EpisodeInv'
<1> DEFINE got == s5.got \cup Episodes!RowsOf(s5.pc, s5.ep)
           n == Episodes!Place(s5.pc)
<1>1. s5.pc \in {"event", "memory", "task"} /\ UNCHANGED <<s1, s2, s3, s4>>
  BY Places DEF Episodes!ReadTable
<1>2. /\ s5.ep \in EpisodeIds /\ got \subseteq Episodes!Rows /\ IsFiniteSet(got)
      /\ \A i \in got : i.ep = s5.ep
      /\ \A i \in s5.stay : /\ i \in s3 /\ i.ep = s5.ep /\ i \in Episodes!Rows
                            /\ Episodes!KindRank(i) <= n => i \in got
  BY <1>1, GotMore
<1>3. s5 \in Episodes!Readings
  BY DEF Episodes!EpisodeInv, Episodes!EpisodeTypes
<1>4. IsFiniteSet(s3')
  BY <1>1, EpiCounting DEF Episodes!EpisodeInv, Episodes!ReadingSound
<1>5. \A i \in s5.stay : Episodes!KindRank(i) \in {1, 2, 3}
  <2>1. \A i \in s5.stay : i.kind \in {"event", "memory", "task"}
    BY <1>2, Places DEF Episodes!Rows
  <2> QED BY <2>1, Places DEF Episodes!KindRank
<1>6. n \in {1, 2, 3} /\ Episodes!Kinds[1] = "event" /\ Episodes!Kinds[2] = "memory" /\ Episodes!Kinds[3] = "task"
  BY <1>1, Places
<1>7. ASSUME NEW pc \in {"memory", "task", "ask"}, s5' = [s5 EXCEPT !.pc = pc, !.got = got],
             pc # "ask" => Episodes!Place(pc) = n + 1
      PROVE  Episodes!EpisodeInv'
  <2> HIDE DEF got, n
  <2>1. s5'.pc = pc /\ s5'.got = got /\ s5'.ep = s5.ep /\ s5'.stay = s5.stay /\ s5' \in Episodes!Readings
    BY <1>2, <1>3, <1>7, Places DEF Episodes!Readings
  <2>2. Episodes!ReadingSound'
    <3>1. \A i \in s5'.got : i.ep = s5'.ep
      BY <1>2, <2>1
    <3>2. \A i \in s5'.stay : i \in s3' /\ i.ep = s5'.ep
      BY <1>1, <1>2, <2>1
    <3>3. s5'.pc \in {"event", "memory", "task"} => \A i \in s5'.stay : Episodes!KindRank(i) < Episodes!Place(s5'.pc) => i \in s5'.got
      BY <1>2, <1>5, <1>6, <1>7, <2>1
    <3>4. \A i : Episodes!KindRank(i)' = Episodes!KindRank(i) /\ Episodes!Place(s5.pc)' = Episodes!Place(s5'.pc)
      BY DEF Episodes!KindRank, Episodes!Place
    <3> QED BY <1>2, <1>4, <2>1, <3>1, <3>2, <3>3, <3>4, EpiCounting, Places DEF Episodes!ReadingSound
  <2>3. Episodes!TimelineFaithful'
    BY <2>1 DEF Episodes!TimelineFaithful
  <2> QED BY <1>1, <2>1, <2>2, <2>3, ReaderMoves
<1>8. ASSUME n = 3, NEW list \in Episodes!InOrder(got),
             s5' = [s5 EXCEPT !.pc = "done", !.got = {}, !.list = list]
      PROVE  Episodes!EpisodeInv'
  <2> DEFINE size == Cardinality(got)
  <2>1. size \in Nat
    BY <1>2, FS_CardinalityType
  <2>2. /\ list \in [1..size -> got] /\ Episodes!Range(list) = got
        /\ \A i, j \in DOMAIN list : i < j => ~Episodes!Before(list[j], list[i])
    BY EpiCounting DEF Episodes!InOrder
  <2> HIDE DEF size, got
  <2>3. list \in Seq(Episodes!Rows) /\ Len(list) = size /\ DOMAIN list = 1..size
    BY <1>2, <2>1, <2>2
  <2>4. /\ s5'.pc = "done" /\ s5'.got = {} /\ s5'.ep = s5.ep /\ s5'.stay = s5.stay /\ s5'.list = list
        /\ s5' \in Episodes!Readings
    BY <1>3, <1>8, <2>3 DEF Episodes!Readings
  <2>5. Episodes!ReadingSound'
    <3>1. IsFiniteSet({}) /\ "done" \notin {"event", "memory", "task"}
      BY FS_EmptySet
    <3>2. \A i \in s5'.stay : i \in s3' /\ i.ep = s5'.ep
      BY <1>1, <1>2, <2>4
    <3> QED BY <1>2, <1>4, <2>4, <3>1, <3>2, EpiCounting, Places DEF Episodes!ReadingSound
  <2>6. s5.stay \subseteq got
    BY <1>2, <1>5, <1>8
  <2>7. \A i, j : Episodes!Before(i, j)' = Episodes!Before(i, j)
    BY DEF Episodes!Before, Episodes!KindRank, Episodes!Place
  <2>8. Episodes!TimelineFaithful'
    <3>1. Episodes!Cardinality(Episodes!Range(list)) = Len(list)
      BY <2>2, <2>3, EpiCounting DEF size
    <3>2. \A i \in DOMAIN list : list[i].ep = s5.ep
      BY <1>2, <2>2
    <3>3. s5.stay \subseteq Episodes!Range(list)
      BY <2>2, <2>6
    <3> QED BY <2>2, <2>4, <3>1, <3>2, <3>3 DEF Episodes!TimelineFaithful
  <2> QED BY <1>1, <2>4, <2>5, <2>8, ReaderMoves
<1>9. \/ \E pc \in {"memory", "task", "ask"} : /\ s5' = [s5 EXCEPT !.pc = pc, !.got = got]
                                               /\ pc # "ask" => Episodes!Place(pc) = n + 1
      \/ n = 3 /\ \E list \in Episodes!InOrder(got) : s5' = [s5 EXCEPT !.pc = "done", !.got = {}, !.list = list]
  <2>1. \/ n = 2 /\ s5' = [s5 EXCEPT !.pc = "ask", !.got = got]
        \/ n = 3 /\ \E list \in Episodes!InOrder(got) : s5' = [s5 EXCEPT !.pc = "done", !.got = {}, !.list = list]
        \/ n \in {1, 2} /\ s5' = [s5 EXCEPT !.pc = Episodes!Kinds[n + 1], !.got = got]
    BY DEF Episodes!ReadTable
  <2>2. n \in {1, 2} => Episodes!Kinds[n + 1] \in {"memory", "task"} /\ Episodes!Place(Episodes!Kinds[n + 1]) = n + 1
    BY Places
  <2> HIDE DEF n, got
  <2> QED BY <2>1, <2>2
<1> QED BY <1>7, <1>8, <1>9

LEMMA PersistInv ==
  ASSUME Episodes!EpisodeInv, Episodes!PersistSummary
  PROVE  Episodes!EpisodeInv'
<1> DEFINE Made == [made : BOOLEAN, session : Sessions \cup {None}, summary : SUBSET Episodes!Rows]
<1>1. UNCHANGED <<s1, s3, s4>> /\ s5' = Episodes!NotReading /\ s5.ep \in EpisodeIds
  BY DEF Episodes!PersistSummary, Episodes!EpisodeInv, Episodes!ReadingSound
<1>2. s5' \in Episodes!Readings /\ Episodes!ReadingSound' /\ Episodes!TimelineFaithful'
  BY <1>1, StopsReading
<1>3. s2 \in [EpisodeIds -> Made] /\ s5.got \in SUBSET Episodes!Rows
  BY DEF Episodes!EpisodeInv, Episodes!EpisodeTypes, Episodes!Readings
<1>4. s2' = s2 \/ \E said \in {s5.got, {}} : s2' = [s2 EXCEPT ![s5.ep].summary = said]
  BY DEF Episodes!PersistSummary
<1>5. /\ s2' \in [EpisodeIds -> Made]
      /\ \A e \in EpisodeIds : /\ s2'[e].made = s2[e].made /\ s2'[e].session = s2[e].session
                               /\ s2'[e].summary = s2[e].summary \/ (e = s5.ep /\ s2'[e].summary \subseteq s5.got)
  BY <1>1, <1>3, <1>4
<1>6. Episodes!EpisodeTypes'
  BY <1>1, <1>2, <1>5 DEF Episodes!EpisodeInv, Episodes!EpisodeTypes
<1>7. Episodes!RowsBelong'
  <2>1. \A i \in s3' : s2'[i.ep].made /\ (i.kind = "event" \/ i.id \in s4')
    BY <1>1, <1>5 DEF Episodes!EpisodeInv, Episodes!EpisodesKept, Episodes!RowsBelong, Episodes!EpisodeTypes, Episodes!Rows
  <2>2. \A e \in EpisodeIds : \A i \in s2'[e].summary : i.ep = e
    BY <1>5 DEF Episodes!EpisodeInv, Episodes!EpisodesKept, Episodes!RowsBelong, Episodes!ReadingSound
  <2>3. \A e \in EpisodeIds : s2'[e].session # None => s2'[e].session \in s1'
    BY <1>1, <1>5 DEF Episodes!EpisodeInv, Episodes!EpisodesKept, Episodes!RowsBelong
  <2> QED BY <2>1, <2>2, <2>3 DEF Episodes!RowsBelong
<1> QED BY <1>2, <1>6, <1>7 DEF Episodes!EpisodeInv, Episodes!EpisodesKept

LEMMA EpiNextInv ==
  ASSUME Episodes!EpisodesAssumption, Episodes!EpisodeInv, [Episodes!Next]_(Episodes!epiVars)
  PROVE  Episodes!EpisodeInv'
<1>1. ASSUME NEW e \in EpisodeIds, NEW n \in EpisodeEntities,
             \/ \E r \in Roles : Episodes!Link("memory", n, r, e)
             \/ Episodes!Link("task", n, None, e)
      PROVE  Episodes!EpisodeInv'
  BY <1>1, LinkInv
<1>2. ASSUME NEW ids \in (SUBSET EventIds) \ {{}}, NEW e \in EpisodeIds, NEW at \in 1..MaxTime,
             Episodes!CreateEvents({Episodes!Item("event", n, None, e, at) : n \in ids})
      PROVE  Episodes!EpisodeInv'
  BY <1>2, EventsInv
<1> QED BY <1>1, <1>2, IdleKeeps, SessionInv, EpisodeCreated, BeginInv, UnlinkInv, ReadTableInv, ReturnInv, PersistInv
        DEF Episodes!Next

-----------------------------------------------------------------------------
(* Dialog: rows, vectors, links, jobs and the number of messages are s1 to s5. *)

DialogItems == [fact : DialogFacts, cand : DialogFacts \cup {None}]

LEMMA IdleSane == Dialog!Idle \in Dialog!SaneJobs /\ Dialog!Idle.pc = "idle"
<1>1. Dialog!Idle \in Dialog!Jobs
  BY DEF Dialog!Idle, Dialog!Jobs
<1> QED BY <1>1 DEF Dialog!Idle, Dialog!SaneJobs, Dialog!WorkerSane

LEMMA DialogInit ==
  ASSUME Dialog!Init
  PROVE  Dialog!DialogInv
<1>1. Dialog!DialogTypes
  BY DEF Dialog!Init, Dialog!DialogTypes, Dialog!Absent
<1>2. Dialog!RowsStaySane
  BY DEF Dialog!Init, Dialog!RowsStaySane, Dialog!NoMixedRow, Dialog!NoOrphanVector, Dialog!LinksJoinRows, Dialog!Absent
<1>3. s4 \in [Workers -> Dialog!SaneJobs]
  BY IdleSane DEF Dialog!Init
<1> QED BY <1>1, <1>2, <1>3 DEF Dialog!DialogInv

\* Rows that have content keep some.
RowsStand == \A f \in DialogFacts : s1[f].content # {} => s1'[f].content # {}

LEMMA SanePlansStay ==
  ASSUME RowsStand, NEW p, Dialog!PlanSane(p)
  PROVE  Dialog!PlanSane(p)'
<1>1. p.link # None => p.link \in DialogFacts
  BY DEF Dialog!PlanSane, Dialog!PlanRows
<1> QED BY <1>1 DEF RowsStand, Dialog!PlanSane, Dialog!PlanRows, Dialog!Sane

LEMMA SaneJobsStay ==
  ASSUME RowsStand
  PROVE  Dialog!SaneJobs \subseteq Dialog!SaneJobs'
<1> SUFFICES ASSUME NEW j \in Dialog!SaneJobs PROVE j \in Dialog!SaneJobs'
  OBVIOUS
<1>1. j \in Dialog!Jobs /\ Dialog!WorkerSane(j)
  BY DEF Dialog!SaneJobs
<1>2. j.pc = "commit" => Dialog!PlanSane(j.plan)'
  BY <1>1, SanePlansStay DEF Dialog!WorkerSane
<1>3. j.pc = "ops" => \A k \in DOMAIN j.ops : j.ops[k].content # {} => s1'[j.ops[k].id].content # {}
  <2> SUFFICES ASSUME j.pc = "ops", NEW k \in DOMAIN j.ops, j.ops[k].content # {}
               PROVE  s1'[j.ops[k].id].content # {}
    OBVIOUS
  <2>1. j.ops \in Seq(Dialog!Ops)
    BY <1>1 DEF Dialog!Jobs
  <2>2. j.ops[k] \in Dialog!Ops
    BY <2>1, ElementOfSeq, LenProperties
  <2>3. j.ops[k].id \in DialogFacts
    BY <2>2 DEF Dialog!Ops
  <2> QED BY <1>1, <2>3 DEF RowsStand, Dialog!WorkerSane
<1>4. Dialog!WorkerSane(j)'
  BY <1>1, <1>2, <1>3 DEF Dialog!WorkerSane
<1> QED BY <1>1, <1>4 DEF Dialog!SaneJobs

\* One worker goes on with a sane job.
LEMMA JobMoves ==
  ASSUME Dialog!DialogInv, RowsStand, NEW w \in Workers, NEW j \in Dialog!SaneJobs',
         s4' = [s4 EXCEPT ![w] = j], Dialog!DialogTypes', Dialog!RowsStaySane'
  PROVE  Dialog!DialogInv'
<1>1. s4 \in [Workers -> Dialog!SaneJobs']
  BY SaneJobsStay DEF Dialog!DialogInv
<1>2. s4' \in [Workers -> Dialog!SaneJobs']
  BY <1>1
<1> QED BY <1>2 DEF Dialog!DialogInv

LEMMA OnlyJobMoves ==
  ASSUME Dialog!DialogInv, UNCHANGED <<s1, s2, s3>>, NEW w \in Workers, NEW j \in Dialog!SaneJobs,
         s4' = [s4 EXCEPT ![w] = j]
  PROVE  Dialog!DialogInv'
<1>1. RowsStand
  BY DEF RowsStand
<1>2. j \in Dialog!SaneJobs'
  BY <1>1, SaneJobsStay
<1>3. Dialog!DialogTypes' /\ Dialog!RowsStaySane'
  BY DEF Dialog!DialogInv, Dialog!DialogTypes, Dialog!RowsStaySane, Dialog!NoMixedRow, Dialog!NoOrphanVector, Dialog!LinksJoinRows
<1> QED BY <1>1, <1>2, <1>3, JobMoves

LEMMA JobOf ==
  ASSUME Dialog!DialogInv, NEW w \in Workers
  PROVE  s4[w] \in Dialog!Jobs /\ Dialog!WorkerSane(s4[w])
BY DEF Dialog!DialogInv, Dialog!SaneJobs

\* The rest of the items, or none.
LEMMA NextItemSane ==
  ASSUME Dialog!DialogInv, NEW w \in Workers, Dialog!NextItem(w), s4[w].items # <<>>
  PROVE  \E j \in Dialog!SaneJobs : s4' = [s4 EXCEPT ![w] = j] /\ j.pc \in {"idle", "match"}
<1> DEFINE items == s4[w].items
           rest == [Dialog!Idle EXCEPT !.pc = "match", !.items = Tail(items)]
<1>1. s4' = [s4 EXCEPT ![w] = IF Len(items) = 1 THEN Dialog!Idle ELSE rest]
  BY DEF Dialog!NextItem, Dialog!DialogInv
<1>2. items \in Seq(DialogItems)
  BY JobOf DEF Dialog!Jobs, DialogItems
<1>6. items # <<>>
  OBVIOUS
<1>3. ASSUME Len(items) # 1 PROVE rest \in Dialog!SaneJobs
  <2>1. Tail(items) \in Seq(DialogItems) /\ Tail(items) # <<>>
    <3>1. Tail(items) \in Seq(DialogItems) /\ Len(Tail(items)) = Len(items) - 1 /\ Len(items) \in Nat
      BY <1>2, <1>6, TailFacts
    <3> HIDE DEF items
    <3>3. Len(items) # 0
      BY <1>2, <1>6, EmptySeq
    <3>4. Len(Tail(items)) # 0
      BY <1>3, <3>1, <3>3
    <3> QED BY <1>2, <3>1, <3>4, EmptySeq
  <2>2. rest.pc = "match" /\ rest.items = Tail(items)
    BY DEF Dialog!Idle
  <2>3. rest \in Dialog!Jobs
    <3>1. Dialog!Idle \in Dialog!Jobs
      BY IdleSane DEF Dialog!SaneJobs
    <3> HIDE DEF items
    <3> QED BY <2>1, <3>1 DEF Dialog!Jobs, DialogItems
  <2> QED BY <2>1, <2>2, <2>3 DEF Dialog!SaneJobs, Dialog!WorkerSane
<1> HIDE DEF rest, items
<1>4. CASE Len(items) = 1
  BY <1>1, <1>4, IdleSane
<1>5. CASE Len(items) # 1
  <2>1. rest.pc = "match"
    BY DEF rest, Dialog!Idle
  <2> QED BY <1>1, <1>3, <1>5, <2>1
<1> QED BY <1>4, <1>5

LEMMA KeptItems ==
  ASSUME Dialog!DialogAssumption, NEW m \in Messages, NEW items \in Dialog!Kept(m)
  PROVE  items \in Seq(DialogFacts) /\ items # <<>>
<1>1. m \in Seq(DialogFacts) /\ DOMAIN m = 1..Len(m) /\ Len(m) \in Nat
  BY LenProperties DEF Dialog!DialogAssumption
<1>2. PICK n \in 1..Len(m) : \E at \in [1..n -> DOMAIN m] : items = [i \in DOMAIN at |-> m[at[i]]]
  BY DEF Dialog!Kept
<1>0. PICK at \in [1..n -> DOMAIN m] : items = [i \in DOMAIN at |-> m[at[i]]]
  BY <1>2
<1>3. items = [i \in 1..n |-> m[at[i]]]
  BY <1>0
<1>4. \A i \in 1..n : m[at[i]] \in DialogFacts
  BY <1>0, <1>1, ElementOfSeq
<1>5. items \in [1..n -> DialogFacts] /\ n \in Nat /\ n # 0
  BY <1>1, <1>3, <1>4
<1>6. items \in Seq(DialogFacts) /\ Len(items) = n
  BY <1>5
<1> QED BY <1>5, <1>6, EmptySeq

LEMMA ReceiveInv ==
  ASSUME Dialog!DialogAssumption, Dialog!DialogInv, NEW w \in Workers, NEW m \in Messages,
         Dialog!Receive(w, m)
  PROVE  Dialog!DialogInv'
<1>1. UNCHANGED <<s1, s2, s3>> /\ s4 \in [Workers -> Dialog!SaneJobs]
  BY DEF Dialog!Receive, Dialog!DialogInv
<1>2. PICK items \in Dialog!Kept(m) : s4' = [s4 EXCEPT ![w] = [@ EXCEPT !.pc = "search", !.todo = items]]
  BY DEF Dialog!Receive
<1> DEFINE j == [s4[w] EXCEPT !.pc = "search", !.todo = items]
<1>3. s4' = [s4 EXCEPT ![w] = j]
  BY <1>1, <1>2
<1>4. items \in Seq(DialogFacts) /\ items # <<>> /\ s4[w] \in Dialog!Jobs
  BY KeptItems, JobOf
<1>5. j \in Dialog!Jobs /\ j.pc = "search" /\ j.todo = items
  BY <1>4 DEF Dialog!Jobs
<1> HIDE DEF j
<1>6. j \in Dialog!SaneJobs
  BY <1>4, <1>5 DEF Dialog!SaneJobs, Dialog!WorkerSane
<1> QED BY <1>1, <1>3, <1>6, OnlyJobMoves

LEMMA SearchInv ==
  ASSUME Dialog!DialogInv, NEW w \in Workers, Dialog!Search(w)
  PROVE  Dialog!DialogInv'
<1>1. UNCHANGED <<s1, s2, s3>> /\ s4 \in [Workers -> Dialog!SaneJobs] /\ s4[w].pc = "search"
  BY DEF Dialog!Search, Dialog!DialogInv
<1> DEFINE todo == s4[w].todo
<1>2. /\ s4[w] \in Dialog!Jobs /\ todo \in Seq(DialogFacts) /\ todo # <<>>
      /\ s4[w].items \in Seq(DialogItems)
  BY <1>1, JobOf DEF Dialog!WorkerSane, Dialog!Jobs, DialogItems
<1>3. CASE s4' = [s4 EXCEPT ![w] = Dialog!Idle]
  BY <1>1, <1>3, IdleSane, OnlyJobMoves
<1>4. ASSUME NEW cand \in Dialog!TopOne(Head(todo)),
             s4' = [s4 EXCEPT ![w] = [@ EXCEPT
                      !.todo = Tail(todo),
                      !.items = Append(s4[w].items, [fact |-> Head(todo), cand |-> cand]),
                      !.pc = IF Len(todo) = 1 THEN "match" ELSE "search"]]
      PROVE  Dialog!DialogInv'
  <2> DEFINE it == [fact |-> Head(todo), cand |-> cand]
             pc == IF Len(todo) = 1 THEN "match" ELSE "search"
             items == Append(s4[w].items, it)
             j == [s4[w] EXCEPT !.todo = Tail(todo), !.items = items, !.pc = pc]
  <2>1. s4' = [s4 EXCEPT ![w] = j]
    BY <1>1, <1>4
  <2>2. /\ Head(todo) \in DialogFacts /\ Tail(todo) \in Seq(DialogFacts)
        /\ Len(Tail(todo)) = Len(todo) - 1 /\ Len(todo) \in Nat
    BY <1>2, TailFacts
  <2>3. it \in DialogItems
    BY <2>2 DEF DialogItems, Dialog!TopOne
  <2>4. items \in Seq(DialogItems) /\ items # <<>>
    BY <1>2, <2>3, AppendFacts
  <2>5. pc \in {"match", "search"} /\ (pc = "search" => Len(todo) # 1)
    OBVIOUS
  <2> HIDE DEF it, pc, items, todo
  <2>6. j \in Dialog!Jobs /\ j.pc = pc /\ j.items = items /\ j.todo = Tail(todo)
    BY <1>2, <2>2, <2>4, <2>5 DEF Dialog!Jobs, DialogItems
  <2> HIDE DEF j
  <2>7. pc = "search" => Tail(todo) # <<>>
    <3>1. Len(todo) # 0
      BY <1>2, EmptySeq
    <3>2. pc = "search" => Len(Tail(todo)) # 0
      BY <2>2, <2>5, <3>1
    <3> QED BY <2>2, <3>2, EmptySeq
  <2>8. j \in Dialog!SaneJobs
    BY <2>4, <2>5, <2>6, <2>7 DEF Dialog!SaneJobs, Dialog!WorkerSane
  <2> QED BY <1>1, <2>1, <2>8, OnlyJobMoves
<1> QED BY <1>3, <1>4 DEF Dialog!Search

\* What the plan of an item writes is sane, whatever the row of the candidate
\* has become since the search.
LEMMA PlanOfItem ==
  ASSUME Dialog!DialogInv, NEW f \in DialogFacts, NEW cand \in DialogFacts \cup {None},
         NEW p \in Dialog!Plans(f, cand)
  PROVE  Dialog!PlanSane(p)
<1>1. ASSUME NEW op \in {"store", "remove"}, NEW id \in DialogFacts, NEW c \in SUBSET DialogFacts
      PROVE  [op |-> op, id |-> id, content |-> c] \in Dialog!Ops
  BY DEF Dialog!Ops
<1>2. {f} \in SUBSET DialogFacts /\ {f} # {} /\ Dialog!Sane({f})
  BY DEF Dialog!Sane
<1>3. ASSUME NEW archive \in DialogFacts \cup {None}, NEW link \in DialogFacts \cup {None},
             NEW ops \in Seq(Dialog!Ops), \A k \in DOMAIN ops : ops[k].content = {},
             link # None => s1[link].content # {},
             p = Dialog!Create(f, archive, link, ops)
      PROVE  Dialog!PlanSane(p)
  <2> DEFINE o == Dialog!Store(f, {f})
             all == Append(ops, o)
  <2>1. o \in Dialog!Ops /\ o.id = f
    BY <1>1, <1>2 DEF Dialog!Store
  <2> HIDE DEF o
  <2>2. /\ all \in Seq(Dialog!Ops) /\ all # <<>>
        /\ \A k \in DOMAIN ops : all[k] = ops[k]
        /\ \A k \in DOMAIN all : k \in DOMAIN ops \/ all[k] = o
    BY <2>1, AppendFacts
  <2>3. \A k \in DOMAIN all : all[k].content # {} => all[k].id = f
    BY <1>3, <2>1, <2>2
  <2>4. p = [id |-> f, content |-> {f}, archive |-> archive, link |-> link, ops |-> all]
    BY <1>3 DEF Dialog!Create, o
  <2> HIDE DEF all, o
  <2>5. p \in Dialog!PlanRows
    BY <1>2, <2>2, <2>4 DEF Dialog!PlanRows
  <2> QED BY <1>2, <1>3, <2>2, <2>3, <2>4, <2>5 DEF Dialog!PlanSane
<1>4. <<>> \in Seq(Dialog!Ops) /\ \A k \in DOMAIN <<>> : <<>>[k].content = {}
  OBVIOUS
<1>5. CASE cand \in {None, f} \/ ~Dialog!Close(s1[cand].content, f)
  <2>1. p = Dialog!Create(f, None, None, <<>>)
    BY <1>5 DEF Dialog!Plans
  <2> QED BY <1>3, <1>4, <2>1
<1>6. CASE ~(cand \in {None, f} \/ ~Dialog!Close(s1[cand].content, f))
  <2>1. cand \in DialogFacts /\ s1[cand].content # {} /\ s1[cand].content \subseteq DialogFacts
    BY <1>6 DEF Dialog!Close, Dialog!DialogInv, Dialog!DialogTypes
  <2>2. CASE Dialog!Flip(s1[cand].content, f)
    <3>1. PICK r \in Resolutions : p = Dialog!Resolve(r, f, cand)
      BY <1>6, <2>2 DEF Dialog!Plans
    <3>2. <<Dialog!Remove(cand)>> \in Seq(Dialog!Ops)
      BY <1>1, <2>1 DEF Dialog!Remove
    <3>3. \A k \in DOMAIN <<Dialog!Remove(cand)>> : <<Dialog!Remove(cand)>>[k].content = {}
      BY DEF Dialog!Remove
    <3>4. CASE r = "keepBoth"
      BY <1>3, <1>4, <2>1, <3>1, <3>4 DEF Dialog!Resolve
    <3>5. CASE r # "keepBoth"
      <4>1. p = Dialog!Create(f, cand, None, <<Dialog!Remove(cand)>>)
        BY <3>1, <3>5 DEF Dialog!Resolve
      <4> QED BY <1>3, <2>1, <3>2, <3>3, <4>1
    <3> QED BY <3>4, <3>5
  <2>3. CASE ~Dialog!Flip(s1[cand].content, f)
    <3> DEFINE content == s1[cand].content \cup {f}
               ops == <<Dialog!Remove(f), Dialog!Store(cand, content)>>
    <3>1. content \in SUBSET DialogFacts /\ content # {}
      BY <2>1
    <3>2. Dialog!Sane(content)
      BY <2>1, <2>3 DEF Dialog!Flip, Dialog!Sane, Dialog!DialogInv, Dialog!RowsStaySane, Dialog!NoMixedRow
    <3>3. p = [id |-> cand, content |-> content, archive |-> None, link |-> None, ops |-> ops]
      BY <1>6, <2>3 DEF Dialog!Plans, Dialog!Merge
    <3>4. Dialog!Remove(f) \in Dialog!Ops /\ Dialog!Remove(f).content = {}
      BY <1>1 DEF Dialog!Remove
    <3>5. Dialog!Store(cand, content) \in Dialog!Ops /\ Dialog!Store(cand, content).id = cand
      BY <1>1, <2>1, <3>1 DEF Dialog!Store
    <3>6. ops \in Seq(Dialog!Ops) /\ ops # <<>> /\ DOMAIN ops = {1, 2}
      BY <3>4, <3>5
    <3>7. ops[1] = Dialog!Remove(f) /\ ops[2] = Dialog!Store(cand, content)
      OBVIOUS
    <3> HIDE DEF content, ops
    <3>8. \A k \in DOMAIN ops : ops[k].content # {} => ops[k].id = cand
      BY <3>4, <3>5, <3>6, <3>7
    <3>9. p \in Dialog!PlanRows
      BY <2>1, <3>1, <3>3, <3>6 DEF Dialog!PlanRows
    <3> QED BY <3>1, <3>2, <3>3, <3>6, <3>8, <3>9 DEF Dialog!PlanSane
  <2> QED BY <2>2, <2>3
<1> QED BY <1>5, <1>6

LEMMA MatchInv ==
  ASSUME Dialog!DialogInv, NEW w \in Workers, Dialog!Match(w)
  PROVE  Dialog!DialogInv'
<1> DEFINE it == Head(s4[w].items)
<1>1. UNCHANGED <<s1, s2, s3>> /\ s4 \in [Workers -> Dialog!SaneJobs] /\ s4[w].pc = "match"
  BY DEF Dialog!Match, Dialog!DialogInv
<1>2. s4[w] \in Dialog!Jobs /\ s4[w].items \in Seq(DialogItems) /\ s4[w].items # <<>>
  BY <1>1, JobOf DEF Dialog!WorkerSane, Dialog!Jobs, DialogItems
<1>3. it \in DialogItems
  BY <1>2, TailFacts
<1>4. CASE Dialog!NextItem(w)
  BY <1>1, <1>2, <1>4, NextItemSane, OnlyJobMoves
<1>5. ASSUME NEW p \in Dialog!Plans(it.fact, it.cand),
             s4' = [s4 EXCEPT ![w] = [@ EXCEPT !.pc = "commit", !.plan = p]]
      PROVE  Dialog!DialogInv'
  <2> DEFINE j == [s4[w] EXCEPT !.pc = "commit", !.plan = p]
  <2>1. s4' = [s4 EXCEPT ![w] = j]
    BY <1>1, <1>5
  <2>2. it.fact \in DialogFacts /\ it.cand \in DialogFacts \cup {None}
    BY <1>3 DEF DialogItems
  <2> HIDE DEF it
  <2>3. Dialog!PlanSane(p)
    BY <2>2, <1>5, PlanOfItem
  <2>4. p \in Dialog!PlanRows
    BY <2>3 DEF Dialog!PlanSane
  <2>5. j \in Dialog!Jobs /\ j.pc = "commit" /\ j.plan = p /\ j.items = s4[w].items
    BY <1>2, <2>4 DEF Dialog!Jobs
  <2> HIDE DEF j
  <2>6. j \in Dialog!SaneJobs
    BY <1>2, <2>3, <2>5 DEF Dialog!SaneJobs, Dialog!WorkerSane
  <2> QED BY <1>1, <2>1, <2>6, OnlyJobMoves
<1> QED BY <1>4, <1>5 DEF Dialog!Match

LEMMA CommitInv ==
  ASSUME Dialog!DialogInv, NEW w \in Workers, Dialog!Commit(w)
  PROVE  Dialog!DialogInv'
<1> DEFINE p == s4[w].plan
           j == [s4[w] EXCEPT !.pc = "ops", !.ops = p.ops]
<1>1. s4 \in [Workers -> Dialog!SaneJobs] /\ s4[w].pc = "commit" /\ s2' = s2
  BY DEF Dialog!Commit, Dialog!DialogInv
<1>2. s4[w] \in Dialog!Jobs /\ Dialog!PlanSane(p) /\ s4[w].items # <<>>
  BY <1>1, JobOf DEF Dialog!WorkerSane
<1>3. /\ p.id \in DialogFacts /\ p.content \in SUBSET DialogFacts /\ p.content # {} /\ Dialog!Sane(p.content)
      /\ p.archive \in DialogFacts \cup {None} /\ p.link \in DialogFacts \cup {None}
      /\ p.link # None => s1[p.link].content # {}
      /\ p.ops \in Seq(Dialog!Ops) /\ p.ops # <<>>
      /\ \A k \in DOMAIN p.ops : p.ops[k].content # {} => p.ops[k].id = p.id
  BY <1>2 DEF Dialog!PlanSane, Dialog!PlanRows
<1>4. /\ s1' = [f \in DialogFacts |->
                 [content |-> IF f = p.id THEN p.content ELSE s1[f].content,
                  archived |-> s1[f].archived \/ f = p.archive]]
      /\ s3' = IF p.link = None THEN s3 ELSE s3 \cup {<<p.id, p.link>>}
      /\ s4' = [s4 EXCEPT ![w] = j]
  BY <1>1 DEF Dialog!Commit
<1>5. \A f \in DialogFacts : /\ s1'[f].content = IF f = p.id THEN p.content ELSE s1[f].content
                             /\ s1'[f].content \in SUBSET DialogFacts
  BY <1>3, <1>4 DEF Dialog!DialogInv, Dialog!DialogTypes
<1>6. j \in Dialog!Jobs /\ j.pc = "ops" /\ j.ops = p.ops /\ j.items = s4[w].items
  <2> HIDE DEF p
  <2> QED BY <1>2, <1>3 DEF Dialog!Jobs
<1> HIDE DEF p, j
<1>7. RowsStand
  BY <1>3, <1>5 DEF RowsStand
<1>8. Dialog!DialogTypes'
  <2>1. s1' \in [DialogFacts -> [content : SUBSET DialogFacts, archived : BOOLEAN]]
    <3>1. \A f \in DialogFacts : (s1[f].archived \/ f = p.archive) \in BOOLEAN
      OBVIOUS
    <3>2. \A f \in DialogFacts : (IF f = p.id THEN p.content ELSE s1[f].content) \in SUBSET DialogFacts
      BY <1>3 DEF Dialog!DialogInv, Dialog!DialogTypes
    <3> QED BY <1>4, <3>1, <3>2
  <2>2. s3' \subseteq DialogFacts \X DialogFacts
    BY <1>3, <1>4 DEF Dialog!DialogInv, Dialog!DialogTypes
  <2> QED BY <1>1, <2>1, <2>2 DEF Dialog!DialogInv, Dialog!DialogTypes
<1>9. Dialog!RowsStaySane'
  <2>1. Dialog!NoMixedRow'
    BY <1>3, <1>5 DEF Dialog!Sane, Dialog!DialogInv, Dialog!RowsStaySane, Dialog!NoMixedRow
  <2>2. Dialog!NoOrphanVector'
    BY <1>1, <1>7 DEF RowsStand, Dialog!DialogInv, Dialog!RowsStaySane, Dialog!NoOrphanVector
  <2>3. Dialog!LinksJoinRows'
    <3> SUFFICES ASSUME NEW l \in s3' PROVE s1'[l[1]].content # {} /\ s1'[l[2]].content # {}
      BY DEF Dialog!LinksJoinRows
    <3>1. CASE l \in s3
      <4>1. l[1] \in DialogFacts /\ l[2] \in DialogFacts /\ s1[l[1]].content # {} /\ s1[l[2]].content # {}
        BY <3>1 DEF Dialog!DialogInv, Dialog!DialogTypes, Dialog!RowsStaySane, Dialog!LinksJoinRows
      <4> QED BY <1>7, <4>1 DEF RowsStand
    <3>2. CASE l \notin s3
      <4>1. l = <<p.id, p.link>> /\ p.link # None
        BY <1>4, <3>2
      <4>2. s1'[p.id].content # {} /\ s1'[p.link].content # {}
        BY <1>3, <1>5, <1>7, <4>1 DEF RowsStand
      <4> QED BY <4>1, <4>2
    <3> QED BY <3>1, <3>2
  <2> QED BY <2>1, <2>2, <2>3 DEF Dialog!RowsStaySane
<1>10. j \in Dialog!SaneJobs'
  <2>1. \A k \in DOMAIN p.ops : p.ops[k].content # {} => s1'[p.ops[k].id].content # {}
    BY <1>3, <1>5
  <2> QED BY <1>2, <1>3, <1>6, <2>1 DEF Dialog!SaneJobs, Dialog!WorkerSane
<1> QED BY <1>4, <1>7, <1>8, <1>9, <1>10, JobMoves

LEMMA CommitFailsInv ==
  ASSUME Dialog!DialogInv, NEW w \in Workers, Dialog!CommitFails(w)
  PROVE  Dialog!DialogInv'
<1>1. UNCHANGED <<s1, s2, s3>> /\ s4 \in [Workers -> Dialog!SaneJobs] /\ s4[w].pc = "commit"
  BY DEF Dialog!CommitFails, Dialog!DialogInv
<1>2. s4[w] \in Dialog!Jobs /\ s4[w].items # <<>>
  BY <1>1, JobOf DEF Dialog!WorkerSane
<1>3. CASE Dialog!NextItem(w)
  BY <1>1, <1>2, <1>3, NextItemSane, OnlyJobMoves
<1>4. CASE s4' = [s4 EXCEPT ![w] = [@ EXCEPT !.pc = "match", !.try = s4[w].try + 1, !.plan = None]]
  <2> DEFINE j == [s4[w] EXCEPT !.pc = "match", !.try = s4[w].try + 1, !.plan = None]
  <2>1. s4' = [s4 EXCEPT ![w] = j]
    BY <1>1, <1>4
  <2>2. s4[w].try + 1 \in Nat
    BY <1>2 DEF Dialog!Jobs
  <2>3. j \in Dialog!Jobs /\ j.pc = "match" /\ j.items = s4[w].items
    BY <1>2, <2>2 DEF Dialog!Jobs
  <2> HIDE DEF j
  <2>4. j \in Dialog!SaneJobs
    BY <1>2, <2>3 DEF Dialog!SaneJobs, Dialog!WorkerSane
  <2> QED BY <1>1, <2>1, <2>4, OnlyJobMoves
<1> QED BY <1>3, <1>4 DEF Dialog!CommitFails

LEMMA VectorOpInv ==
  ASSUME Dialog!DialogInv, NEW w \in Workers, Dialog!VectorOp(w)
  PROVE  Dialog!DialogInv'
<1> DEFINE ops == s4[w].ops
           o == Head(ops)
<1>1. UNCHANGED <<s1, s3>> /\ s4 \in [Workers -> Dialog!SaneJobs] /\ s4[w].pc = "ops"
  BY DEF Dialog!VectorOp, Dialog!DialogInv
<1>2. /\ s4[w] \in Dialog!Jobs /\ s4[w].items # <<>> /\ ops \in Seq(Dialog!Ops) /\ ops # <<>>
      /\ \A k \in DOMAIN ops : ops[k].content # {} => s1[ops[k].id].content # {}
  BY <1>1, JobOf DEF Dialog!WorkerSane, Dialog!Jobs
<1>3. /\ o \in Dialog!Ops /\ o = ops[1] /\ 1 \in DOMAIN ops /\ Tail(ops) \in Seq(Dialog!Ops)
      /\ Len(Tail(ops)) = Len(ops) - 1 /\ Len(ops) \in Nat
      /\ \A k \in DOMAIN Tail(ops) : k \in Nat /\ k + 1 \in DOMAIN ops /\ Tail(ops)[k] = ops[k + 1]
  BY <1>2, TailFacts
<1>4. o.id \in DialogFacts /\ o.content \in SUBSET DialogFacts
  BY <1>3 DEF Dialog!Ops
<1>5. s2' = s2 \/ s2' = [s2 EXCEPT ![o.id] = o.content]
  BY DEF Dialog!VectorOp
<1>6. o.content # {} => s1[o.id].content # {}
  BY <1>2, <1>3
<1>7. \/ Len(ops) = 1 /\ Dialog!NextItem(w)
      \/ Len(ops) # 1 /\ s4' = [s4 EXCEPT ![w].ops = Tail(@)]
  BY DEF Dialog!VectorOp
<1>8. \E j \in Dialog!SaneJobs : s4' = [s4 EXCEPT ![w] = j]
  <2>1. CASE Dialog!NextItem(w)
    BY <1>2, <2>1, NextItemSane
  <2>2. CASE Len(ops) # 1 /\ s4' = [s4 EXCEPT ![w].ops = Tail(@)]
    <3> DEFINE j == [s4[w] EXCEPT !.ops = Tail(ops)]
    <3>1. s4' = [s4 EXCEPT ![w] = j]
      BY <1>1, <2>2
    <3> HIDE DEF ops, o
    <3>2. j \in Dialog!Jobs /\ j.pc = s4[w].pc /\ j.items = s4[w].items /\ j.ops = Tail(ops)
      BY <1>2, <1>3 DEF Dialog!Jobs
    <3>3. Tail(ops) # <<>>
      <4>1. Len(ops) # 0
        BY <1>2, EmptySeq
      <4>2. Len(Tail(ops)) # 0
        BY <1>3, <2>2, <4>1
      <4> QED BY <1>3, <4>2, EmptySeq
    <3> HIDE DEF j
    <3>4. \A k \in DOMAIN Tail(ops) :
            Tail(ops)[k].content # {} => s1[Tail(ops)[k].id].content # {}
      BY <1>2, <1>3
    <3>5. j \in Dialog!SaneJobs
      BY <1>1, <1>2, <3>2, <3>3, <3>4 DEF Dialog!SaneJobs, Dialog!WorkerSane
    <3> QED BY <3>1, <3>5
  <2> QED BY <1>7, <2>1, <2>2
<1> HIDE DEF o, ops
<1>9. RowsStand
  BY <1>1 DEF RowsStand
<1>10. Dialog!DialogTypes'
  BY <1>1, <1>4, <1>5 DEF Dialog!DialogInv, Dialog!DialogTypes
<1>11. Dialog!RowsStaySane'
  <2>1. Dialog!NoOrphanVector'
    BY <1>1, <1>4, <1>5, <1>6 DEF Dialog!DialogInv, Dialog!DialogTypes, Dialog!RowsStaySane, Dialog!NoOrphanVector
  <2> QED BY <1>1, <2>1 DEF Dialog!DialogInv, Dialog!RowsStaySane, Dialog!NoMixedRow, Dialog!LinksJoinRows
<1> QED BY <1>8, <1>9, <1>10, <1>11, JobMoves, SaneJobsStay

LEMMA DialogNextInv ==
  ASSUME Dialog!DialogAssumption, Dialog!DialogInv, [Dialog!Next]_(Dialog!vars)
  PROVE  Dialog!DialogInv'
<1>1. CASE UNCHANGED Dialog!vars
  <2>1. UNCHANGED <<s1, s2, s3, s4>>
    BY <1>1 DEF Dialog!vars
  <2>2. RowsStand
    BY <2>1 DEF RowsStand
  <2>3. s4' \in [Workers -> Dialog!SaneJobs']
    BY <2>1, <2>2, SaneJobsStay DEF Dialog!DialogInv
  <2> QED BY <2>1, <2>3 DEF Dialog!DialogInv, Dialog!DialogTypes, Dialog!RowsStaySane,
          Dialog!NoMixedRow, Dialog!NoOrphanVector, Dialog!LinksJoinRows
<1> QED BY <1>1, ReceiveInv, SearchInv, MatchInv, CommitInv, CommitFailsInv, VectorOpInv
        DEF Dialog!Next, Dialog!Step
-----------------------------------------------------------------------------
(* HybridSearch: the texts, the table, its rows and triggers, the set-ups,    *)
(* whether a statement of theirs failed and the rows that were missed are s1, *)
(* s3 to s6, s11 and s13.                                                      *)

LEMMA FTSInit == Hybrid!Init => Hybrid!FTSInv
<1> SUFFICES ASSUME Hybrid!Init PROVE Hybrid!FTSInv
  OBVIOUS
<1>1. Hybrid!HybridTypes
  <2>1. <<>> \in Seq(Texts)
    OBVIOUS
  <2>2. s4 \in [SearchIds -> Seq(Texts)]
    BY <2>1 DEF Hybrid!Init
  <2>3. s6 \in [SearchProcs -> 0..5] /\ s1 \in [SearchIds -> Texts \cup {None}]
    BY DEF Hybrid!Init
  <2>4. s3 \in BOOLEAN /\ s11 \in BOOLEAN /\ s5 = {}
    BY DEF Hybrid!Init
  <2> QED BY <2>2, <2>3, <2>4 DEF Hybrid!HybridTypes
<1>2. ~s3 /\ (\A i \in SearchIds : s4[i] = <<>>) /\ \A p \in SearchProcs : s6[p] = 0
  BY DEF Hybrid!Init
<1> QED BY <1>1, <1>2 DEF Hybrid!FTSInv, Hybrid!FTSKept

\* A write that changes one row: if it is not missed, the table has none of it
\* or what it holds, and with all the triggers it is not lost.
LEMMA RowWritten ==
  ASSUME Hybrid!FTSInv, Hybrid!Write, NEW i \in SearchIds, NEW u \in Texts \cup {None}, NEW s \in Seq(Texts),
         s1' = [s1 EXCEPT ![i] = u], s4' = [s4 EXCEPT ![i] = s],
         \A j : j # i => (j \in s13' <=> j \in s13),
         ~s3 => s = <<>>,
         i \notin s13' => s \in {<<>>, IF u = None THEN <<>> ELSE <<u>>},
         /\ {"ai", "ad", "au"} \subseteq s5 /\ u # None
         /\ s1[i] # None => s4[i] # <<>>
         => s # <<>>
  PROVE  Hybrid!FTSInv'
<1>1. Hybrid!HybridTypes' /\ UNCHANGED <<s3, s6, s5, s11>>
  BY DEF Hybrid!FTSInv, Hybrid!HybridTypes, Hybrid!Write
<1>2. \A j \in SearchIds : /\ s1'[j] = (IF j = i THEN u ELSE s1[j])
                           /\ s4'[j] = (IF j = i THEN s ELSE s4[j])
  BY DEF Hybrid!FTSInv, Hybrid!HybridTypes
<1>3. ~s3 => \A j \in SearchIds : s4'[j] = <<>>
  BY <1>2 DEF Hybrid!FTSInv
<1>4. ASSUME NEW j \in SearchIds \ s13' PROVE s4'[j] \in {<<>>, Hybrid!Exact(j)'}
  <2>1. CASE j = i
    BY <1>2, <1>4, <2>1 DEF Hybrid!Exact
  <2>2. CASE j # i
    <3>1. s4[j] \in {<<>>, Hybrid!Exact(j)}
      BY <1>4, <2>2 DEF Hybrid!FTSInv, Hybrid!FTSKept
    <3> QED BY <1>2, <2>2, <3>1 DEF Hybrid!Exact
  <2> QED BY <2>1, <2>2
<1>5. ASSUME HasFTS, ~s11, NEW p \in SearchProcs, s6[p] = 5
      PROVE  /\ s3 /\ s5 = {"ai", "ad", "au"}
             /\ \A j \in SearchIds : s1'[j] # None => s4'[j] # <<>>
  <2>1. s3 /\ s5 = {"ai", "ad", "au"} /\ \A j \in SearchIds : s1[j] # None => s4[j] # <<>>
    BY <1>5 DEF Hybrid!FTSInv, Hybrid!FTSKept
  <2> QED BY <1>2, <2>1
<1>6. Hybrid!FTSKept'
  BY <1>1, <1>4, <1>5 DEF Hybrid!FTSKept
<1>7. (~s11 => \A p \in SearchProcs :
          /\ HasFTS /\ s6[p] # 0 => s3
          /\ s6[p] >= 2 => "ai" \in s5
          /\ s6[p] >= 3 => "ad" \in s5
          /\ s6[p] >= 4 => "au" \in s5)'
  BY <1>1 DEF Hybrid!FTSInv
<1> QED BY <1>1, <1>3, <1>6, <1>7 DEF Hybrid!FTSInv

\* A write that is refused.
LEMMA NothingWritten ==
  ASSUME Hybrid!FTSInv, Hybrid!Write, UNCHANGED <<s1, s4, s13>>
  PROVE  Hybrid!FTSInv'
<1>1. UNCHANGED <<s3, s6, s5, s11>> /\ Hybrid!HybridTypes'
  BY DEF Hybrid!FTSInv, Hybrid!HybridTypes, Hybrid!Write
<1> QED BY <1>1 DEF Hybrid!FTSInv, Hybrid!FTSKept, Hybrid!Exact

LEMMA FTSByWrites ==
  ASSUME Hybrid!HybridAssumption, Hybrid!FTSInv, NEW i \in SearchIds, NEW t,
         (t \in Texts /\ (Hybrid!Insert(i, t) \/ Hybrid!Update(i, t))) \/ Hybrid!Delete(i)
  PROVE  Hybrid!FTSInv'
<1>1. s4 \in [SearchIds -> Seq(Texts)] /\ s1 \in [SearchIds -> Texts \cup {None}]
  BY DEF Hybrid!FTSInv, Hybrid!HybridTypes
<1>2. Hybrid!Write /\ (~s3 => s4[i] = <<>>)
  BY DEF Hybrid!Insert, Hybrid!Update, Hybrid!Delete, Hybrid!FTSInv
<1>3. UNCHANGED <<s1, s4, s13>> => Hybrid!FTSInv'
  BY <1>2, NothingWritten
<1>4. [s4 EXCEPT ![i] = s4[i]] = s4 /\ [s1 EXCEPT ![i] = s1[i]] = s1
  BY <1>1
<1>5. CASE t \in Texts /\ Hybrid!Insert(i, t)
  <2> t # None
    BY <1>5 DEF Hybrid!HybridAssumption
  <2>1. CASE Hybrid!Refused("ai")
    BY <1>3, <1>5, <2>1 DEF Hybrid!Insert
  <2>2. CASE ~Hybrid!Refused("ai")
    <3> DEFINE s == IF "ai" \in s5 THEN Append(s4[i], t) ELSE s4[i]
    <3>1. s1' = [s1 EXCEPT ![i] = t] /\ s1[i] = None /\ s4' = [s4 EXCEPT ![i] = s] /\ s13' = s13
      BY <1>4, <1>5, <2>2 DEF Hybrid!Insert, Hybrid!Fires
    <3>2. s \in Seq(Texts) /\ (~s3 => s = <<>>)
      BY <1>1, <1>2, <1>5, <2>2 DEF Hybrid!Refused, Hybrid!Fires
    <3>3. "ai" \in s5 => s # <<>>
      BY <1>1, <1>5
    <3>4. i \notin s13' => s \in {<<>>, <<t>>}
      <4>1. i \notin s13 => s4[i] \in {<<>>, Hybrid!Exact(i)}
        BY DEF Hybrid!FTSInv, Hybrid!FTSKept
      <4>2. i \notin s13 => s4[i] = <<>>
        BY <3>1, <4>1 DEF Hybrid!Exact
      <4>3. Append(<<>>, t) = <<t>>
        OBVIOUS
      <4>4. ASSUME i \notin s13' PROVE s \in {<<>>, <<t>>}
        <5>1. s4[i] = <<>>
          BY <3>1, <4>2, <4>4
        <5>2. CASE "ai" \in s5
          BY <4>3, <5>1, <5>2, Zenon
        <5>3. CASE "ai" \notin s5
          BY <5>1, <5>3, Zenon
        <5> QED BY <5>2, <5>3
      <4> QED BY <4>4
    <3> HIDE DEF s
    <3> QED BY <1>1, <1>2, <1>5, <3>1, <3>2, <3>3, <3>4, RowWritten
  <2> QED BY <2>1, <2>2
<1>6. CASE t \in Texts /\ Hybrid!Update(i, t)
  <2> t # None
    BY <1>6 DEF Hybrid!HybridAssumption
  <2>1. CASE Hybrid!Refused("au")
    BY <1>3, <1>6, <2>1 DEF Hybrid!Update
  <2>2. CASE ~Hybrid!Refused("au")
    <3> DEFINE s == IF "au" \in s5 THEN <<t>> ELSE s4[i]
    <3>1. s1' = [s1 EXCEPT ![i] = t]
      BY <1>4, <1>6, <2>2 DEF Hybrid!Update
    <3>2. s4' = [s4 EXCEPT ![i] = s]
      BY <1>4, <1>6, <2>2 DEF Hybrid!Update, Hybrid!Fires
    <3>3. s \in Seq(Texts) /\ (~s3 => s = <<>>)
      BY <1>1, <1>2, <1>6, <2>2 DEF Hybrid!Refused, Hybrid!Fires
    <3>4. s13' = IF "au" \in s5 THEN s13 \ {i} ELSE IF s3 THEN s13 \cup {i} ELSE s13
      BY <1>6, <2>2 DEF Hybrid!Update, Hybrid!Told, Hybrid!Fires
    <3>5. ("au" \in s5 => s = <<t>>) /\ s1[i] # None
      BY <1>6 DEF Hybrid!Update
    <3> HIDE DEF s
    <3>6. i \notin s13' => s \in {<<>>, <<t>>}
      BY <3>3, <3>4, <3>5
    <3>7. \A j : j # i => (j \in s13' <=> j \in s13)
      BY <3>4
    <3> QED BY <1>1, <1>2, <1>6, <3>1, <3>2, <3>3, <3>5, <3>6, <3>7, RowWritten
  <2> QED BY <2>1, <2>2
<1>7. CASE Hybrid!Delete(i)
  <2>1. CASE Hybrid!Refused("ad")
    BY <1>3, <1>7, <2>1 DEF Hybrid!Delete
  <2>2. CASE ~Hybrid!Refused("ad")
    <3> DEFINE s == IF "ad" \in s5 THEN <<>> ELSE s4[i]
    <3>1. s1' = [s1 EXCEPT ![i] = None] /\ s4' = [s4 EXCEPT ![i] = s]
      BY <1>4, <1>7, <2>2 DEF Hybrid!Delete, Hybrid!Fires
    <3>2. s \in Seq(Texts) /\ (~s3 => s = <<>>)
      BY <1>1, <1>2, <2>2 DEF Hybrid!Refused, Hybrid!Fires
    <3>3. s13' = IF "ad" \in s5 THEN s13 \ {i} ELSE IF s3 THEN s13 \cup {i} ELSE s13
      BY <1>7, <2>2 DEF Hybrid!Delete, Hybrid!Told, Hybrid!Fires
    <3>4. "ad" \in s5 => s = <<>>
      OBVIOUS
    <3> HIDE DEF s
    <3>5. i \notin s13' => s = <<>>
      BY <3>2, <3>3, <3>4
    <3>6. \A j : j # i => (j \in s13' <=> j \in s13)
      BY <3>3
    <3> QED BY <1>1, <1>2, <3>1, <3>2, <3>5, <3>6, RowWritten
  <2> QED BY <2>1, <2>2
<1> QED BY <1>5, <1>6, <1>7

LEMMA FTSBySetUp ==
  ASSUME Hybrid!FTSInv, NEW p \in SearchProcs, Hybrid!EnsureFTS(p)
  PROVE  Hybrid!FTSInv'
<1> DEFINE n == s6[p]
<1>1. n \in 0..4 /\ s6' = [s6 EXCEPT ![p] = n + 1] /\ s6' \in [SearchProcs -> 0..5] /\ s6'[p] = n + 1
      /\ \A r \in SearchProcs : r # p => s6'[r] = s6[r]
  BY DEF Hybrid!EnsureFTS, Hybrid!FTSInv, Hybrid!HybridTypes
<1>2. PICK ok \in BOOLEAN :
          /\ s11' = (s11 \/ ~ok)
          /\ s3' = (s3 \/ (ok /\ n = 0 /\ HasFTS))
          /\ s5' = IF ok /\ n \in 1..3 THEN s5 \cup {<<"ai", "ad", "au">>[n]} ELSE s5
          /\ IF ok /\ n = 4 THEN Hybrid!Backfill ELSE UNCHANGED s4
  BY DEF Hybrid!EnsureFTS
<1>3. UNCHANGED <<s1, s13>>
  BY DEF Hybrid!EnsureFTS
<1>4. s4' \in [SearchIds -> Seq(Texts)] /\ (~s3 => \A i \in SearchIds : s4'[i] = <<>>)
      /\ (~(ok /\ n = 4 /\ s3) => s4' = s4)
  <2>1. CASE ok /\ n = 4 /\ s3
    <3>1. s4' = [i \in SearchIds |-> IF s1[i] # None /\ s4[i] = <<>> THEN <<s1[i]>> ELSE s4[i]]
      BY <1>2, <2>1 DEF Hybrid!Backfill
    <3>2. \A i \in SearchIds : (IF s1[i] # None /\ s4[i] = <<>> THEN <<s1[i]>> ELSE s4[i]) \in Seq(Texts)
      BY DEF Hybrid!FTSInv, Hybrid!HybridTypes
    <3> QED BY <2>1, <3>1, <3>2
  <2>2. CASE ~(ok /\ n = 4 /\ s3)
    BY <1>2, <2>2 DEF Hybrid!Backfill, Hybrid!FTSInv, Hybrid!HybridTypes
  <2> QED BY <2>1, <2>2
<1>5. Hybrid!HybridTypes'
  <2>1. s5' \subseteq {"ai", "ad", "au"}
    <3>1. n \in 1..3 => <<"ai", "ad", "au">>[n] \in {"ai", "ad", "au"}
      OBVIOUS
    <3> HIDE DEF n
    <3> QED BY <1>2, <3>1 DEF Hybrid!HybridTypes, Hybrid!FTSInv
  <2> QED BY <1>1, <1>2, <1>3, <1>4, <2>1 DEF Hybrid!HybridTypes, Hybrid!FTSInv
<1>6. (~s3 => \A i \in SearchIds : s4[i] = <<>>)'
  BY <1>2, <1>4
<1>7. s5 \subseteq s5' /\ (s3 => s3') /\ (~s11' => ~s11 /\ ok)
  BY <1>2
<1>8. ~s11' =>
        /\ HasFTS => s3'
        /\ n >= 1 => "ai" \in s5'
        /\ n >= 2 => "ad" \in s5'
        /\ n >= 3 => "au" \in s5'
  <2>1. ~s11' => (HasFTS => s3')
    BY <1>1, <1>2 DEF Hybrid!FTSInv
  <2>6. <<"ai", "ad", "au">>[1] = "ai" /\ <<"ai", "ad", "au">>[2] = "ad" /\ <<"ai", "ad", "au">>[3] = "au"
    OBVIOUS
  <2>7. ~s11' /\ n \in 1..3 => s5' = s5 \cup {<<"ai", "ad", "au">>[n]}
    BY <1>2, <1>7, Zenon
  <2>2. ~s11' /\ n = 1 => "ai" \in s5'
    <3> HIDE DEF n
    <3> QED BY <2>6, <2>7
  <2>3. ~s11' /\ n = 2 => "ad" \in s5'
    <3> HIDE DEF n
    <3> QED BY <2>6, <2>7
  <2>4. ~s11' /\ n = 3 => "au" \in s5'
    <3> HIDE DEF n
    <3> QED BY <2>6, <2>7
  <2>5. ~s11' =>
          /\ n >= 2 => "ai" \in s5'
          /\ n >= 3 => "ad" \in s5'
          /\ n >= 4 => "au" \in s5'
    BY <1>7 DEF Hybrid!FTSInv
  <2> QED BY <1>1, <2>1, <2>2, <2>3, <2>4, <2>5
<1>9. (~s11 => \A r \in SearchProcs :
          /\ HasFTS /\ s6[r] # 0 => s3
          /\ s6[r] >= 2 => "ai" \in s5
          /\ s6[r] >= 3 => "ad" \in s5
          /\ s6[r] >= 4 => "au" \in s5)'
  BY <1>1, <1>7, <1>8 DEF Hybrid!FTSInv
<1>10. \A i \in SearchIds \ s13' : s4'[i] \in {<<>>, Hybrid!Exact(i)'}
  <2>1. \A i \in SearchIds \ s13' : s4[i] \in {<<>>, Hybrid!Exact(i)}
    BY <1>3 DEF Hybrid!FTSInv, Hybrid!FTSKept
  <2>2. CASE ok /\ n = 4 /\ s3
    <3>1. s4' = [i \in SearchIds |-> IF s1[i] # None /\ s4[i] = <<>> THEN <<s1[i]>> ELSE s4[i]]
      BY <1>2, <2>2 DEF Hybrid!Backfill
    <3> QED BY <1>3, <2>1, <3>1 DEF Hybrid!Exact
  <2>3. CASE ~(ok /\ n = 4 /\ s3)
    BY <1>3, <1>4, <2>1, <2>3 DEF Hybrid!Exact
  <2> QED BY <2>2, <2>3
<1>11. ASSUME HasFTS, ~s11', NEW r \in SearchProcs, s6'[r] = 5
       PROVE  /\ s3' /\ s5' = {"ai", "ad", "au"}
              /\ \A i \in SearchIds : s1'[i] # None => s4'[i] # <<>>
  <2>1. s3' /\ s5' = {"ai", "ad", "au"}
    <3>1. s3' /\ "ai" \in s5' /\ "ad" \in s5' /\ "au" \in s5'
      BY <1>9, <1>11
    <3>2. s5' \subseteq {"ai", "ad", "au"}
      BY <1>5 DEF Hybrid!HybridTypes
    <3> QED BY <3>1, <3>2
  <2>2. CASE n = 4
    <3>1. ok /\ s3
      <4>1. ok
        BY <1>7, <1>11
      <4>2. n # 0
        BY <2>2
      <4>3. s3' = (s3 \/ (ok /\ n = 0 /\ HasFTS))
        BY <1>2
      <4> HIDE DEF n
      <4>4. s3' => s3 \/ n = 0
        BY <4>3
      <4> QED BY <2>1, <4>1, <4>2, <4>4
    <3>2. s4' = [i \in SearchIds |-> IF s1[i] # None /\ s4[i] = <<>> THEN <<s1[i]>> ELSE s4[i]]
      BY <1>2, <2>2, <3>1 DEF Hybrid!Backfill
    <3>3. \A i \in SearchIds : s1[i] # None => s4'[i] # <<>>
      BY <3>2
    <3> QED BY <1>3, <2>1, <3>3
  <2>3. CASE n # 4
    <3>1. s6[r] = 5 /\ s4' = s4
      BY <1>1, <1>4, <1>11, <2>3
    <3>2. \A i \in SearchIds : s1[i] # None => s4[i] # <<>>
      BY <1>7, <1>11, <3>1 DEF Hybrid!FTSInv, Hybrid!FTSKept
    <3> QED BY <1>3, <2>1, <3>1, <3>2
  <2> QED BY <2>2, <2>3
<1>12. Hybrid!FTSKept'
  BY <1>10, <1>11 DEF Hybrid!FTSKept
<1> QED BY <1>5, <1>6, <1>9, <1>12 DEF Hybrid!FTSInv

LEMMA FTSNext ==
  ASSUME Hybrid!HybridAssumption, Hybrid!FTSInv, [Hybrid!Next]_(Hybrid!hybridVars)
  PROVE  Hybrid!FTSInv'
<1>1. ASSUME NEW i \in SearchIds, NEW t \in Texts, Hybrid!Insert(i, t) \/ Hybrid!Update(i, t)
      PROVE  Hybrid!FTSInv'
  BY <1>1, FTSByWrites
<1>2. ASSUME NEW i \in SearchIds, Hybrid!Delete(i)
      PROVE  Hybrid!FTSInv'
  BY <1>2, FTSByWrites
<1>3. ASSUME NEW p \in SearchProcs, Hybrid!EnsureFTS(p)
      PROVE  Hybrid!FTSInv'
  BY <1>3, FTSBySetUp
<1>4. UNCHANGED <<s1, s3, s4, s5, s6, s11, s13>> => Hybrid!FTSInv'
  BY DEF Hybrid!FTSInv, Hybrid!HybridTypes, Hybrid!FTSKept, Hybrid!Exact
<1>5. ASSUME NEW p \in SearchProcs, (\E q \in Texts : Hybrid!Lexical(p, q)) \/ Hybrid!Vectors(p) \/ Hybrid!Fuse(p)
      PROVE  Hybrid!FTSInv'
  BY <1>4, <1>5 DEF Hybrid!Lexical, Hybrid!Vectors, Hybrid!Fuse
<1>6. UNCHANGED Hybrid!hybridVars => Hybrid!FTSInv'
  BY <1>4 DEF Hybrid!hybridVars
<1> QED BY <1>1, <1>2, <1>3, <1>5, <1>6 DEF Hybrid!Next
-----------------------------------------------------------------------------
(* A step of Memory is a step of the machine it is about, in its slots.      *)

StatementsFocus == focus = "statements" => Statements!StmtInv
VectorsFocus == focus = "vectors" => Vectors!VecInv
HybridFocus == focus = "hybrid" => Hybrid!FTSInv

\* No prepared statement is lost or cached twice over the limit, and none is
\* closed while it is cached (src/internal/retrieval/stmt_cache.go), however the
\* requests interleave.  For all requests, queries and limits.
THEOREM NoStatementLeaks == Spec => []StatementsAccounted
<1>1. Init => StatementsFocus
  BY MemoryAssumption, StmtInitInv DEF Init, StatementsFocus
<1>2. StatementsFocus /\ [Next]_slots => StatementsFocus'
  <2> SUFFICES ASSUME StatementsFocus, [Next]_slots, focus' = "statements" PROVE Statements!StmtInv'
    BY DEF StatementsFocus
  <2>1. focus = "statements" /\ [Statements!Next]_(Statements!stmtVars)
    BY DEF Next, slots, Statements!stmtVars
  <2> QED BY <2>1, MemoryAssumption, StmtNextInv DEF StatementsFocus
<1>3. StatementsFocus => StatementsAccounted
  BY DEF StatementsFocus, StatementsAccounted, Statements!StmtInv
<1> QED
  BY <1>1, <1>2, <1>3, PTL DEF Spec

LEMMA VectorsStart == Init => VectorsFocus
<1> SUFFICES ASSUME Init, focus = "vectors" PROVE Vectors!VecInv
  BY DEF VectorsFocus
<1>1. Vectors!Init
  BY DEF Init
<1>2. Vectors!VecShape
  BY <1>1, MemoryAssumption, VecInitInv
<1>3. Vectors!WarmKept
  BY <1>1 DEF Vectors!Init, Vectors!NoCall, Vectors!WarmKept, Vectors!Warming
<1> QED BY <1>2, <1>3 DEF Vectors!VecInv

LEMMA VectorsGo ==
  ASSUME VectorsFocus, [Next]_slots
  PROVE  VectorsFocus' /\ (focus = "vectors" => Vectors!IndexStep)
<1>1. CASE focus = "vectors"
  <2>1. [Vectors!Next]_(Vectors!vars)
    BY <1>1 DEF Next, slots, Vectors!vars
  <2> QED BY <1>1, <2>1, MemoryAssumption, VecStepInv DEF VectorsFocus
<1>2. CASE focus # "vectors"
  <2>1. focus' # "vectors"
    BY <1>2 DEF Next, slots
  <2> QED BY <1>2, <2>1 DEF VectorsFocus
<1> QED BY <1>1, <1>2

LEMMA HybridStart == Init => HybridFocus
BY FTSInit DEF Init, HybridFocus

LEMMA HybridGoes ==
  ASSUME HybridFocus, [Next]_slots
  PROVE  HybridFocus'
<1> SUFFICES ASSUME focus' = "hybrid" PROVE Hybrid!FTSInv'
  BY DEF HybridFocus
<1>1. focus = "hybrid" /\ [Hybrid!Next]_(Hybrid!hybridVars)
  BY DEF Next, slots, Hybrid!hybridVars
<1> QED BY <1>1, MemoryAssumption, FTSNext DEF HybridFocus

\* The rows of every namespace and the positions of its ids mirror each other
\* through every overwrite and swap, the limit holds, and a start that reports
\* no error has loaded every row that can be decoded; the full text table is
\* exactly the rows once a process has set it up, as long as nothing disturbs
\* a set-up (src/internal/vector).  Whatever the store is asked to do, whatever
\* the disk holds, and for any number of processes that set up and write.
THEOREM IndexAlwaysSound == Spec => []IndexSound
<1>1. VectorsFocus /\ [Next]_slots => VectorsFocus'
  BY VectorsGo
<1>2. HybridFocus /\ [Next]_slots => HybridFocus'
  BY HybridGoes
<1>3. VectorsFocus /\ HybridFocus => IndexSound
  BY MemoryAssumption, VecInvMeans DEF VectorsFocus, HybridFocus, Hybrid!FTSInv, IndexSound
<1> QED
  BY <1>1, <1>2, <1>3, VectorsStart, HybridStart, PTL DEF Spec

BeliefsFocus == focus = "beliefs" => Beliefs!BeliefInv
DialogFocus == focus = "dialog" => Dialog!DialogInv
EpisodesFocus == focus = "episodes" => Episodes!EpisodeInv

LEMMA BeliefsStart == Init => BeliefsFocus
BY BelInit DEF Init, BeliefsFocus

LEMMA BeliefsGo ==
  ASSUME BeliefsFocus, [Next]_slots
  PROVE  BeliefsFocus' /\ (focus = "beliefs" => Beliefs!WritesShare /\ Beliefs!KeepsPast)
<1>1. CASE focus = "beliefs"
  <2>1. [Beliefs!Next]_(Beliefs!beliefVars)
    BY <1>1 DEF Next, slots, Beliefs!beliefVars
  <2>2. Beliefs!BeliefInv
    BY <1>1 DEF BeliefsFocus
  <2> QED BY <1>1, <2>1, <2>2, MemoryAssumption, BelNextInv, StepWritesShare, StepKeepsPast DEF BeliefsFocus
<1>2. CASE focus # "beliefs"
  <2>1. focus' # "beliefs"
    BY <1>2 DEF Next, slots
  <2> QED BY <1>2, <2>1 DEF BeliefsFocus
<1> QED BY <1>1, <1>2

LEMMA BeliefsFocused == Spec => []BeliefsFocus
<1>1. BeliefsFocus /\ [Next]_slots => BeliefsFocus'
  BY BeliefsGo
<1> QED BY <1>1, BeliefsStart, PTL DEF Spec

LEMMA DialogFocused == Spec => []DialogFocus
<1>1. Init => DialogFocus
  BY DialogInit DEF Init, DialogFocus
<1>2. DialogFocus /\ [Next]_slots => DialogFocus'
  <2> SUFFICES ASSUME DialogFocus, [Next]_slots, focus' = "dialog" PROVE Dialog!DialogInv'
    BY DEF DialogFocus
  <2>1. focus = "dialog" /\ [Dialog!Next]_(Dialog!vars)
    BY DEF Next, slots, Dialog!vars
  <2> QED BY <2>1, MemoryAssumption, DialogNextInv DEF DialogFocus
<1> QED BY <1>1, <1>2, PTL DEF Spec

LEMMA EpisodesFocused == Spec => []EpisodesFocus
<1>1. Init => EpisodesFocus
  BY EpiInit DEF Init, EpisodesFocus
<1>2. EpisodesFocus /\ [Next]_slots => EpisodesFocus'
  <2> SUFFICES ASSUME EpisodesFocus, [Next]_slots, focus' = "episodes" PROVE Episodes!EpisodeInv'
    BY DEF EpisodesFocus
  <2>1. focus = "episodes" /\ [Episodes!Next]_(Episodes!epiVars)
    BY DEF Next, slots, Episodes!epiVars
  <2> QED BY <2>1, MemoryAssumption, EpiNextInv DEF EpisodesFocus
<1> QED BY <1>1, <1>2, PTL DEF Spec

\* What is written keeps its meaning however writers interleave and fail
\* (src/internal/ingestion, episodic, memory/belief, memory/evidence): no row
\* mixes a fact and a negated one, no vector or edge is of a row that is not
\* there, a timeline has what was there all along, and a superseded belief has
\* a successor.  For every number of workers, callers, messages and rows.
THEOREM StoredStaysSound == Spec => []StoredIsSound
<1>1. DialogFocus /\ EpisodesFocus /\ BeliefsFocus => StoredIsSound
  BY BelInvMeans DEF DialogFocus, EpisodesFocus, BeliefsFocus, StoredIsSound, Dialog!DialogInv, Episodes!EpisodeInv
<1> QED BY <1>1, DialogFocused, EpisodesFocused, BeliefsFocused, PTL

\* Every step of the vector store is one of the map it implements
\* (provider.go), a propagated confidence is the share of the evidence there
\* is when nobody wrote to the belief meanwhile, and what a belief was at an
\* instant that is over stays (src/internal/evolution).
THEOREM StepsAlwaysKept == Spec => StepsKept
<1>1. VectorsFocus /\ BeliefsFocus /\ [Next]_slots => VectorsFocus' /\ BeliefsFocus'
  BY VectorsGo, BeliefsGo
<1>2. VectorsFocus /\ BeliefsFocus /\ [Next]_slots =>
        /\ focus = "vectors" => Vectors!IndexStep
        /\ focus = "beliefs" => Beliefs!WritesShare /\ Beliefs!KeepsPast
  BY VectorsGo, BeliefsGo
<1> QED BY <1>1, <1>2, VectorsStart, BeliefsStart, PTL DEF Spec, StepsKept

\* The refinement: to its callers the dense matrix is a map from ids to vectors
\* that evicts nothing and reports every record it refuses, over batches,
\* deletions, restarts and warm-ups (provider.go:44-49).
THEOREM VectorsImplementIndex == Spec => (focus = "vectors" => Vectors!Index!Spec)
<1>1. Init /\ focus = "vectors" => Vectors!Index!Init
  <2> SUFFICES ASSUME Init, focus = "vectors" PROVE Vectors!Index!Init
    OBVIOUS
  <2>1. Vectors!Init
    BY DEF Init
  <2> QED BY <2>1, MemoryAssumption, VecInitInv DEF Vectors!Index!Init, Vectors!Map, Vectors!Vec
<1>2. VectorsFocus /\ [Next]_slots =>
        VectorsFocus' /\ (focus = "vectors" => (focus = "vectors")' /\ [Vectors!Index!Next]_(Vectors!Index!indexVars))
  <2> SUFFICES ASSUME VectorsFocus, [Next]_slots
               PROVE  VectorsFocus' /\ (focus = "vectors" => (focus = "vectors")' /\ [Vectors!Index!Next]_(Vectors!Index!indexVars))
    OBVIOUS
  <2>1. focus' = focus
    BY DEF Next, slots
  <2>2. VectorsFocus' /\ (focus = "vectors" => Vectors!IndexStep)
    BY VectorsGo
  <2>3. Vectors!IndexStep => [Vectors!Index!Next]_(Vectors!Index!indexVars)
    BY DEF Vectors!IndexStep
  <2> QED BY <2>1, <2>2, <2>3
<1> QED BY <1>1, <1>2, VectorsStart, PTL DEF Spec, Vectors!Index!Spec
=============================================================================
