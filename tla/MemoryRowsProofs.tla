------------------------- MODULE MemoryRowsProofs --------------------------
(***************************************************************************)
(* Proofs about Memory, for all values of its constants that               *)
(* MemoryAssumption admits: the schema, the rows that are made from other  *)
(* rows, and the front ends that write and search them.  The other         *)
(* machines of Memory are in MemoryProofs.                                 *)
(***************************************************************************)
EXTENDS Memory, FiniteSetTheorems, SequenceTheorems, WellFoundedInduction, TLAPS

\* Induction over data, without an operator as parameter: of some finite sets
\* one has no smaller one, and so do some numbers have a least and finitely
\* many a greatest.
LEMMA SmallestSet ==
  ASSUME NEW F, F # {}, \A A \in F : IsFiniteSet(A)
  PROVE  \E A \in F : \A B \in F : ~(B \subseteq A /\ B # A)
<1> DEFINE U == UNION F
<1>1. IsWellFoundedOn(StrictSubsetOrdering(U), FiniteSubsetsOf(U))
  BY FS_StrictSubsetOrderingWellFounded
<1>2. F \subseteq FiniteSubsetsOf(U)
  BY DEF FiniteSubsetsOf
<1>3. PICK A \in F : \A B \in F : ~(<<B, A>> \in StrictSubsetOrdering(U))
  BY <1>1, <1>2, WFMin
<1> QED BY <1>3 DEF StrictSubsetOrdering

LEMMA Smallest ==
  ASSUME NEW T, T \subseteq Nat, T # {}
  PROVE  \E x \in T : \A y \in T : x <= y
<1> DEFINE F == {0..x : x \in T}
<1>1. \A x \in T : 0..x \subseteq Nat /\ IsFiniteSet(0..x)
  BY FS_Interval
<1>2. F # {} /\ \A A \in F : IsFiniteSet(A)
  BY <1>1
<1>3. \E A \in F : \A B \in F : ~(B \subseteq A /\ B # A)
  <2> HIDE DEF F
  <2> QED BY <1>2, SmallestSet
<1>4. PICK A \in F : \A B \in F : ~(B \subseteq A /\ B # A)
  BY <1>3
<1>5. PICK x \in T : A = 0..x
  OBVIOUS
<1>6. ASSUME NEW y \in T, y < x PROVE FALSE
  <2>1. 0..y \in F /\ 0..y \subseteq A /\ x \in A /\ x \notin 0..y
    BY <1>5, <1>6
  <2> QED BY <2>1, <1>4
<1> QED BY <1>6

LEMMA Largest ==
  ASSUME NEW S, S \subseteq Nat, S # {}, IsFiniteSet(S)
  PROVE  \E x \in S : \A y \in S : y <= x
<1> DEFINE F == {S \ (0..x) : x \in S}
<1>1. \A x \in S : S \ (0..x) \in SUBSET S
  OBVIOUS
<1>2. \A x \in S : IsFiniteSet(S \ (0..x))
  BY <1>1, FS_Subset
<1>3. F # {} /\ \A A \in F : IsFiniteSet(A)
  BY <1>2
<1>4. \E A \in F : \A B \in F : ~(B \subseteq A /\ B # A)
  <2> HIDE DEF F
  <2> QED BY <1>3, SmallestSet
<1>5. PICK A \in F : \A B \in F : ~(B \subseteq A /\ B # A)
  BY <1>4
<1>6. PICK x \in S : A = S \ (0..x)
  OBVIOUS
<1>7. ASSUME NEW y \in S, x < y PROVE FALSE
  <2>1. S \ (0..y) \in F /\ S \ (0..y) \subseteq A /\ y \in A /\ y \notin S \ (0..y)
    BY <1>6, <1>7
  <2> QED BY <2>1, <1>5
<1> QED BY <1>7

\* The number of those before it counts through a finite set.
LEMMA Ranked ==
  ASSUME NEW C, IsFiniteSet(C), NEW f \in [C -> Nat], \A d, e \in C : f[d] = f[e] => d = e,
         NEW rank, rank = [e \in C |-> Cardinality({d \in C : f[d] < f[e]})]
  PROVE  /\ rank \in Bijection(C, 0..(Cardinality(C) - 1))
         /\ \A d, e \in C : f[d] < f[e] => rank[d] < rank[e]
<1> DEFINE Before(e) == {d \in C : f[d] < f[e]}
           N == 0..(Cardinality(C) - 1)
<1>1. \A e \in C : Before(e) \in SUBSET C /\ e \notin Before(e)
  OBVIOUS
<1>2. \A e \in C : IsFiniteSet(Before(e)) /\ Cardinality(Before(e)) \in Nat
  <2> SUFFICES ASSUME NEW e \in C PROVE IsFiniteSet(Before(e)) /\ Cardinality(Before(e)) \in Nat
    OBVIOUS
  <2>1. IsFiniteSet(Before(e))
    <3> HIDE DEF Before
    <3> QED BY <1>1, FS_Subset
  <2> HIDE DEF Before
  <2> QED BY <2>1, FS_CardinalityType
<1>3. Cardinality(C) \in Nat
  BY FS_CardinalityType
<1>4. ASSUME NEW e \in C PROVE Cardinality(Before(e)) \in N
  <2> HIDE DEF Before
  <2>1. Cardinality(Before(e)) <= Cardinality(C) /\ Cardinality(Before(e)) # Cardinality(C)
    BY <1>1, FS_Subset
  <2> QED BY <1>2, <1>3, <2>1
<1>5. ASSUME NEW d \in C, NEW e \in C, f[d] < f[e] PROVE Cardinality(Before(d)) < Cardinality(Before(e))
  <2>1. Before(d) \in SUBSET Before(e) /\ d \in Before(e) /\ d \notin Before(d)
    BY <1>5
  <2> HIDE DEF Before
  <2>2. Cardinality(Before(d)) <= Cardinality(Before(e)) /\ Cardinality(Before(d)) # Cardinality(Before(e))
    BY <1>2, <2>1, FS_Subset
  <2> QED BY <1>2, <2>2
<1>6. rank = [e \in C |-> Cardinality(Before(e))]
  OBVIOUS
<1> HIDE DEF Before, N
<1>7. rank \in [C -> N]
  BY <1>4, <1>6
<1>8. \A d, e \in C : f[d] < f[e] => rank[d] < rank[e]
  BY <1>5, <1>6
<1>9. \A d, e \in C : d # e => rank[d] # rank[e]
  <2> SUFFICES ASSUME NEW d \in C, NEW e \in C, d # e PROVE rank[d] # rank[e]
    OBVIOUS
  <2>1. f[d] < f[e] \/ f[e] < f[d]
    OBVIOUS
  <2>2. rank[d] \in Nat /\ rank[e] \in Nat
    BY <1>2, <1>6
  <2> QED BY <2>1, <2>2, <1>8
<1>10. rank \in Injection(C, N)
  BY <1>7, <1>9 DEF Injection, IsInjective
<1>11. IsFiniteSet(N) /\ Cardinality(N) = Cardinality(C)
  <2>1. Cardinality(C) - 1 \in Int
    BY <1>3
  <2>2. /\ IsFiniteSet(N)
        /\ Cardinality(N) = IF 0 > Cardinality(C) - 1 THEN 0 ELSE (Cardinality(C) - 1) - 0 + 1
    BY <2>1, FS_Interval DEF N
  <2> QED BY <1>3, <2>2
<1>12. rank \in Surjection(C, N)
  BY <1>10, <1>11, FS_Injection
<1> QED BY <1>8, <1>10, <1>12 DEF Bijection, N

\* Those whose number is in an interval are no more than it has.
LEMMA NumberedPart ==
  ASSUME NEW P, NEW rank, NEW a \in Nat, NEW n \in Nat, \A e \in P : rank[e] \in a..(a + n - 1),
         \A d, e \in P : rank[d] = rank[e] => d = e
  PROVE  IsFiniteSet(P) /\ Cardinality(P) \in 0..n
<1> DEFINE part == [e \in P |-> rank[e]]
<1>1. part \in [P -> a..(a + n - 1)] /\ \A d, e \in P : part[d] = part[e] => d = e
  OBVIOUS
<1> HIDE DEF part
<1>2. part \in Injection(P, a..(a + n - 1))
  BY <1>1 DEF Injection, IsInjective
<1>3. a + n - 1 \in Int
  OBVIOUS
<1>4. /\ IsFiniteSet(a..(a + n - 1))
      /\ Cardinality(a..(a + n - 1)) = IF a > a + n - 1 THEN 0 ELSE (a + n - 1) - a + 1
  BY <1>3, FS_Interval
<1>5. IsFiniteSet(P) /\ Cardinality(P) <= n
  BY <1>2, <1>4, FS_Injection
<1> QED BY <1>5, FS_CardinalityType

\* The first n of a finite set are n, or all.
LEMMA FirstOnes ==
  ASSUME NEW C, IsFiniteSet(C), NEW rank \in Bijection(C, 0..(Cardinality(C) - 1)), NEW n \in Nat,
         NEW P, P \subseteq C, \A e \in C : e \in P <=> rank[e] < n
  PROVE  IsFiniteSet(P) /\ Cardinality(P) = IF Cardinality(C) <= n THEN Cardinality(C) ELSE n
<1>1. Cardinality(C) \in Nat
  BY FS_CardinalityType
<1>2. \A e \in C : rank[e] \in 0..(Cardinality(C) - 1)
  BY DEF Bijection, Injection
<1>3. \A d, e \in C : rank[d] = rank[e] => d = e
  BY DEF Bijection, Injection, IsInjective
<1>4. \A k \in 0..(Cardinality(C) - 1) : \E e \in C : rank[e] = k
  BY DEF Bijection, Surjection
<1>5. CASE Cardinality(C) <= n
  <2>1. \A e \in C : rank[e] < n
    BY <1>1, <1>2, <1>5
  <2>2. P = C
    BY <2>1
  <2> QED BY <1>5, <2>2
<1>6. CASE ~(Cardinality(C) <= n)
  <2> DEFINE part == [e \in P |-> rank[e]]
  <2>1. part \in [P -> 0..(n - 1)]
    BY <1>1, <1>2
  <2>2. /\ \A d, e \in P : part[d] = part[e] => d = e
        /\ \A k \in 0..(n - 1) : \E e \in P : part[e] = k
    BY <1>1, <1>3, <1>4, <1>6
  <2> HIDE DEF part
  <2>3. part \in Injection(P, 0..(n - 1)) /\ part \in Surjection(P, 0..(n - 1))
    BY <2>1, <2>2 DEF Injection, IsInjective, Surjection
  <2>4. n - 1 \in Int
    OBVIOUS
  <2>5. IsFiniteSet(0..(n - 1)) /\ Cardinality(0..(n - 1)) = IF 0 > n - 1 THEN 0 ELSE (n - 1) - 0 + 1
    BY <2>4, FS_Interval
  <2>6. IsFiniteSet(P) /\ Cardinality(P) = Cardinality(0..(n - 1))
    BY <2>3, <2>5, FS_Injection
  <2> QED BY <1>6, <2>5, <2>6
<1> QED BY <1>5, <1>6
-----------------------------------------------------------------------------
(* Migrations: the recorded files, their checksums, the schema, the lock of  *)
(* the database, the processes and their calls are s1 to s6.                 *)

\* What the first statements of a file leave is there, because it would be
\* missing at a least one; then the same of the first files.
LEMMA SchemaAlong ==
  ASSUME NEW f, Len(Script[f]) \in Nat, NEW names
  PROVE  /\ Schema!Along(f, names)[0] = names
         /\ \A k \in 1..Len(Script[f]) :
              Schema!Along(f, names)[k] = Schema!After(Script[f][k], Schema!Along(f, names)[k - 1])
<1> DEFINE L == Len(Script[f])
           Good(g, m) == g = [k \in 0..m |-> IF k = 0 THEN names ELSE Schema!After(Script[f][k], g[k - 1])]
           T == {m \in 0..L : ~\E g : Good(g, m)}
<1>1. T = {}
  <2> SUFFICES ASSUME T # {} PROVE FALSE
    OBVIOUS
  <2>1. PICK m \in T : \A y \in T : m <= y
    <3> HIDE DEF Good
    <3>1. T \subseteq Nat
      OBVIOUS
    <3> HIDE DEF T
    <3> QED BY <3>1, Smallest
  <2>2. CASE m = 0
    <3> DEFINE g == [k \in 0..0 |-> names]
    <3>1. Good(g, 0)
      OBVIOUS
    <3> QED BY <3>1, <2>2
  <2>3. CASE m # 0
    <3>1. m - 1 \in 0..L /\ m - 1 \notin T /\ m \in Nat
      <4> HIDE DEF Good
      <4> QED BY <2>1, <2>3
    <3>2. PICK h : Good(h, m - 1)
      BY <3>1
    <3> DEFINE new == Schema!After(Script[f][m], h[m - 1])
               g == [k \in 0..m |-> IF k = m THEN new ELSE h[k]]
    <3>3. \A k \in 0..(m - 1) : h[k] = IF k = 0 THEN names ELSE Schema!After(Script[f][k], h[k - 1])
      BY <3>2
    <3>4. \A k \in 0..m : g[k] = IF k = 0 THEN names ELSE Schema!After(Script[f][k], g[k - 1])
      <4> HIDE DEF Good, T
      <4>1. g[m] = Schema!After(Script[f][m], g[m - 1]) 
        BY <3>1, <2>3
      <4>2. \A k \in 0..(m - 1) : g[k] = h[k] /\ (k # 0 => g[k - 1] = h[k - 1])
        BY <3>1, <2>3
      <4> QED BY <3>1, <2>3, <3>3, <4>1, <4>2
    <3>5. Good(g, m)
      <4> SUFFICES g = [k \in 0..m |-> IF k = 0 THEN names ELSE Schema!After(Script[f][k], g[k - 1])]
        OBVIOUS
      <4>1. g = [k \in 0..m |-> g[k]]
        OBVIOUS
      <4> HIDE DEF g, Good, T
      <4> QED BY <4>1, <3>4
    <3> HIDE DEF g, Good
    <3> QED BY <3>5
  <2> QED BY <2>2, <2>3
<1>2. \E g : Good(g, L)
  <2> HIDE DEF Good
  <2> QED BY <1>1
<1>3. Schema!Along(f, names) = CHOOSE g : Good(g, L)
  BY DEF Schema!Along
<1>4. Good(Schema!Along(f, names), L)
  <2> HIDE DEF Good
  <2> QED BY <1>2, <1>3
<1>5. ASSUME NEW g, Good(g, L)
      PROVE  g[0] = names /\ \A k \in 1..L : g[k] = Schema!After(Script[f][k], g[k - 1])
  <2>1. L \in Nat /\ g = [k \in 0..L |-> IF k = 0 THEN names ELSE Schema!After(Script[f][k], g[k - 1])]
    BY <1>5
  <2> HIDE DEF Good, L
  <2>2. \A k \in 0..L : g[k] = IF k = 0 THEN names ELSE Schema!After(Script[f][k], g[k - 1])
    BY <2>1
  <2> QED BY <2>1, <2>2
<1> HIDE DEF Good
<1> QED BY <1>4, <1>5

LEMMA SchemaLeft ==
  ASSUME Len(Script) \in Nat
  PROVE  /\ Schema!Left[0] = {}
         /\ \A n \in 1..Len(Script) :
              Schema!Left[n] = Schema!Along(n, Schema!Left[n - 1])[Len(Script[n])]
<1> DEFINE L == Len(Script)
           Good(g, m) == g = [n \in 0..m |-> IF n = 0 THEN {} ELSE Schema!Along(n, g[n - 1])[Len(Script[n])]]
           T == {m \in 0..L : ~\E g : Good(g, m)}
<1>1. T = {}
  <2> SUFFICES ASSUME T # {} PROVE FALSE
    OBVIOUS
  <2>1. PICK m \in T : \A y \in T : m <= y
    <3> HIDE DEF Good
    <3>1. T \subseteq Nat
      OBVIOUS
    <3> HIDE DEF T
    <3> QED BY <3>1, Smallest
  <2>2. CASE m = 0
    <3> DEFINE g == [n \in 0..0 |-> {}]
    <3>1. Good(g, 0)
      OBVIOUS
    <3> QED BY <3>1, <2>2
  <2>3. CASE m # 0
    <3>1. m - 1 \in 0..L /\ m - 1 \notin T /\ m \in Nat
      <4> HIDE DEF Good
      <4> QED BY <2>1, <2>3
    <3>2. PICK h : Good(h, m - 1)
      BY <3>1
    <3> DEFINE new == Schema!Along(m, h[m - 1])[Len(Script[m])]
               g == [n \in 0..m |-> IF n = m THEN new ELSE h[n]]
    <3>3. \A n \in 0..(m - 1) : h[n] = IF n = 0 THEN {} ELSE Schema!Along(n, h[n - 1])[Len(Script[n])]
      BY <3>2
    <3>4. \A n \in 0..m : g[n] = IF n = 0 THEN {} ELSE Schema!Along(n, g[n - 1])[Len(Script[n])]
      <4> HIDE DEF Good, T
      <4>1. g[m] = Schema!Along(m, g[m - 1])[Len(Script[m])]
        BY <3>1, <2>3
      <4>2. \A n \in 0..(m - 1) : g[n] = h[n] /\ (n # 0 => g[n - 1] = h[n - 1])
        BY <3>1, <2>3
      <4> QED BY <3>1, <2>3, <3>3, <4>1, <4>2
    <3>5. Good(g, m)
      <4> SUFFICES g = [n \in 0..m |-> IF n = 0 THEN {} ELSE Schema!Along(n, g[n - 1])[Len(Script[n])]]
        OBVIOUS
      <4>1. g = [n \in 0..m |-> g[n]]
        OBVIOUS
      <4> HIDE DEF g, Good, T
      <4> QED BY <4>1, <3>4
    <3> HIDE DEF g, Good
    <3> QED BY <3>5
  <2> QED BY <2>2, <2>3
<1>2. \E g : Good(g, L)
  <2> HIDE DEF Good
  <2> QED BY <1>1
<1>3. Schema!Left = CHOOSE g : Good(g, L)
  BY DEF Schema!Left
<1>4. Good(Schema!Left, L)
  <2> HIDE DEF Good
  <2> QED BY <1>2, <1>3
<1>5. ASSUME NEW g, Good(g, L)
      PROVE  g[0] = {} /\ \A n \in 1..L : g[n] = Schema!Along(n, g[n - 1])[Len(Script[n])]
  <2>1. L \in Nat /\ g = [n \in 0..L |-> IF n = 0 THEN {} ELSE Schema!Along(n, g[n - 1])[Len(Script[n])]]
    BY <1>5
  <2> HIDE DEF Good, L
  <2>2. \A n \in 0..L : g[n] = IF n = 0 THEN {} ELSE Schema!Along(n, g[n - 1])[Len(Script[n])]
    BY <2>1
  <2>3. g[0] = {}
    BY <2>1, <2>2
  <2>4. ASSUME NEW n \in 1..L PROVE g[n] = Schema!Along(n, g[n - 1])[Len(Script[n])]
    <3>1. n \in 0..L /\ n # 0
      BY <2>1
    <3> QED BY <3>1, <2>2
  <2> QED BY <2>3, <2>4
<1> HIDE DEF Good
<1> QED BY <1>4, <1>5

\* A file that is run to its end on what the first n leave, and that is not
\* after the next one, leaves what the first n or n + 1 leave.
LEMMA SchemaFile ==
  ASSUME Schema!MigrationsAssumption
  PROVE  /\ Len(Script) \in Nat /\ Schema!Files = 1..Len(Script) /\ None \notin Processes
         /\ Schema!Left[0] = {}
         /\ \A n \in 0..Len(Script), f \in Schema!Files : f <= n + 1 =>
              /\ Len(Script[f]) \in Nat
              /\ Schema!Along(f, Schema!Left[n])[0] = Schema!Left[n]
              /\ \A k \in 1..Len(Script[f]) :
                   Schema!Along(f, Schema!Left[n])[k] =
                     Schema!After(Script[f][k], Schema!Along(f, Schema!Left[n])[k - 1])
              /\ (\A k \in 1..Len(Script[f]) :
                     Schema!Runs(Script[f][k], Schema!Along(f, Schema!Left[n])[k - 1]))
                  => Schema!Along(f, Schema!Left[n])[Len(Script[f])] =
                       Schema!Left[IF f = n + 1 THEN n + 1 ELSE n]
<1>1. /\ Len(Script) \in Nat /\ Schema!Files = 1..Len(Script) /\ None \notin Processes
      /\ \A f \in Schema!Files : Len(Script[f]) \in Nat
  BY DEF Schema!MigrationsAssumption
<1>2. ASSUME NEW n \in 0..Len(Script), NEW f \in Schema!Files, f <= n + 1,
             \A k \in 1..Len(Script[f]) :
                     Schema!Runs(Script[f][k], Schema!Along(f, Schema!Left[n])[k - 1])
      PROVE  Schema!Along(f, Schema!Left[n])[Len(Script[f])] =
                       Schema!Left[IF f = n + 1 THEN n + 1 ELSE n]
  <2>1. CASE f = n + 1
    <3>1. f \in 1..Len(Script) /\ f - 1 = n
      BY <2>1, <1>1
    <3> QED BY <3>1, <2>1, <1>1, SchemaLeft
  <2>2. CASE f # n + 1
    <3>1. n \in Schema!Files /\ f \in 1..n
      BY <2>2, <1>1, <1>2
    <3>2. \/ Schema!Along(f, Schema!Left[n])[Len(Script[f])] = Schema!Left[n]
          \/ \E k \in 1..Len(Script[f]) : ~Schema!Runs(Script[f][k], Schema!Along(f, Schema!Left[n])[k - 1])
      BY <3>1 DEF Schema!MigrationsAssumption
    <3> QED BY <3>2, <2>2, <1>2
  <2> QED BY <2>1, <2>2
<1> QED BY <1>1, <1>2, SchemaLeft, SchemaAlong

LEMMA SchemaInitInv ==
  ASSUME Schema!MigrationsAssumption, Schema!Init
  PROVE  Schema!SchemaInv
<1>1. Schema!SchemaTypes
  BY DEF Schema!Init, Schema!At, Schema!SchemaTypes
<1>2. Schema!Applied = {}
  BY DEF Schema!Init, Schema!At, Schema!Applied
<1>3. s3 = Schema!Left[0] /\ 0 \in 0..Len(Script)
  <2>1. Schema!Left[0] = {} /\ Len(Script) \in Nat
    BY SchemaFile
  <2>2. s3 = {}
    BY DEF Schema!Init
  <2> QED BY <2>1, <2>2
<1>4. \A p \in Processes : Schema!RunFits(p, 0)
  BY DEF Schema!Init, Schema!At, Schema!RunFits
<1> QED BY <1>1, <1>2, <1>3, <1>4 DEF Schema!SchemaInv

\* A process starts, ends or goes on without its transaction, and no row is new.
LEMMA SchemaOther ==
  ASSUME Schema!MigrationsAssumption, Schema!SchemaInv, NEW p \in Processes, NEW r,
         r \in [pc : {"idle", "apply", "row", "sum", "up", "refused", "error", "broken"},
                todo : SUBSET Schema!Files, file : Schema!Files \cup {None}],
         s5' = [s5 EXCEPT ![p] = r],
         r.pc = "apply" => Schema!Files \ r.todo \subseteq Schema!Applied \/ (s5[p].pc = "apply" /\ r.todo = s5[p].todo),
         s1' \in [Schema!Files -> Nat], Schema!Applied' \subseteq Schema!Applied, s3' = s3,
         s4' = s4 \/ s4.owner = p \/ s5[p].pc = "tx"
  PROVE  Schema!SchemaInv'
<1>1. Schema!SchemaTypes
  BY DEF Schema!SchemaInv
<1>2. PICK n \in 0..Len(Script) :
         /\ s3 = Schema!Left[n] /\ Schema!Applied \subseteq 1..n
         /\ \A q \in Processes : Schema!RunFits(q, n)
  BY DEF Schema!SchemaInv
<1>3. \A q \in Processes : s5'[q] = IF q = p THEN r ELSE s5[q]
  BY <1>1 DEF Schema!SchemaTypes
<1>4. r.pc # "tx" /\ r.todo \subseteq Schema!Files
  OBVIOUS
<1>5. Schema!SchemaTypes'
  BY <1>1 DEF Schema!SchemaTypes
<1>6. Schema!RunFits(p, n)'
  BY <1>2, <1>3, <1>4 DEF Schema!RunFits
<1>7. ASSUME NEW q \in Processes, q # p PROVE Schema!RunFits(q, n)'
  <2>1. s5'[q] = s5[q] /\ Schema!RunFits(q, n)
    BY <1>2, <1>3, <1>7
  <2>2. s5[q].pc = "tx" => s4' = s4
    BY <2>1, <1>2, <1>7 DEF Schema!RunFits
  <2> QED BY <2>1, <2>2 DEF Schema!RunFits
<1> QED BY <1>2, <1>5, <1>6, <1>7 DEF Schema!SchemaInv

LEMMA SchemaBegin ==
  ASSUME Schema!MigrationsAssumption, Schema!SchemaInv, NEW p \in Processes, Schema!Begin(p)
  PROVE  Schema!SchemaInv'
<1>1. Schema!SchemaTypes /\ Len(Script) \in Nat /\ Schema!Files = 1..Len(Script) /\ None \notin Processes
  BY SchemaFile DEF Schema!SchemaInv
<1>2. PICK n \in 0..Len(Script) :
         /\ s3 = Schema!Left[n] /\ Schema!Applied \subseteq 1..n
         /\ \A q \in Processes : Schema!RunFits(q, n)
  BY DEF Schema!SchemaInv
<1> DEFINE f == CHOOSE g \in s5[p].todo : \A h \in s5[p].todo : g <= h
           r == Schema!At("tx", s5[p].todo \ {f}, None)
<1>3. s5[p].todo \subseteq Schema!Files /\ s5[p].todo # {} /\ s5[p].pc = "apply" /\ s4 = Schema!NoTx
  BY <1>1 DEF Schema!Begin, Schema!SchemaTypes
<1>4. f \in s5[p].todo /\ \A h \in s5[p].todo : f <= h
  <2>1. s5[p].todo \subseteq Nat
    BY <1>1, <1>3
  <2> QED BY <2>1, <1>3, Smallest
<1>5. /\ s4' = [owner |-> p, file |-> f, done |-> 0, schema |-> s3]
      /\ s5' = [s5 EXCEPT ![p] = r] /\ s1' = s1 /\ s3' = s3 /\ Schema!Applied' = Schema!Applied
  <2>1. s4' = [owner |-> p, file |-> f, done |-> 0, schema |-> s3]
    BY DEF Schema!Begin
  <2>2. s5' = [s5 EXCEPT ![p] = r]
    BY DEF Schema!Begin
  <2>4. s1' = s1 /\ s3' = s3
    BY DEF Schema!Begin
  <2> QED BY <2>1, <2>2, <2>4 DEF Schema!Applied
<1> HIDE DEF f
<1>6. r \in [pc : {"tx"}, todo : SUBSET Schema!Files, file : Schema!Files \cup {None}]
        /\ r.todo = s5[p].todo \ {f} /\ r.pc = "tx"
  BY <1>3 DEF Schema!At
<1> HIDE DEF r
<1>7. \A q \in Processes : s5'[q] = IF q = p THEN r ELSE s5[q]
  BY <1>1, <1>5 DEF Schema!SchemaTypes
<1>8. Schema!SchemaTypes'
  BY <1>1, <1>5, <1>6 DEF Schema!SchemaTypes
<1>9. Schema!Files \ s5[p].todo \subseteq 1..n /\ f \in Schema!Files
  BY <1>2, <1>3, <1>4 DEF Schema!RunFits
<1>10. f <= n + 1
  <2> SUFFICES ASSUME n + 1 < f PROVE FALSE
    BY <1>1, <1>9
  <2>1. n + 1 \in Schema!Files /\ n + 1 \notin s5[p].todo
    BY <1>1, <1>4, <1>9
  <2> QED BY <2>1, <1>9
<1>11. Schema!RunFits(p, n)'
  <2>1. Schema!Along(f, Schema!Left[n])[0] = Schema!Left[n] /\ Len(Script[f]) \in Nat
    BY <1>9, <1>10, SchemaFile
  <2>2. Schema!Files \ (r.todo \cup {f}) \subseteq 1..n
    BY <1>6, <1>9
  <2>3. s5'[p] = r
    BY <1>7
  <2> QED BY <1>2, <1>5, <1>6, <1>9, <1>10, <2>1, <2>2, <2>3 DEF Schema!RunFits
<1>12. ASSUME NEW q \in Processes, q # p PROVE Schema!RunFits(q, n)'
  <2>1. s5'[q] = s5[q] /\ Schema!RunFits(q, n)
    BY <1>2, <1>7, <1>12
  <2>2. s5[q].pc # "tx"
    BY <2>1, <1>1, <1>3 DEF Schema!RunFits, Schema!NoTx
  <2> QED BY <2>1, <2>2 DEF Schema!RunFits
<1> QED BY <1>2, <1>5, <1>8, <1>11, <1>12 DEF Schema!SchemaInv

LEMMA SchemaStatement ==
  ASSUME Schema!MigrationsAssumption, Schema!SchemaInv, NEW p \in Processes, Schema!Statement(p)
  PROVE  Schema!SchemaInv'
<1>1. Schema!SchemaTypes /\ Len(Script) \in Nat /\ Schema!Files = 1..Len(Script)
  BY SchemaFile DEF Schema!SchemaInv
<1>2. PICK n \in 0..Len(Script) :
         /\ s3 = Schema!Left[n] /\ Schema!Applied \subseteq 1..n
         /\ \A q \in Processes : Schema!RunFits(q, n)
  BY DEF Schema!SchemaInv
<1> DEFINE f == s4.file
           d == s4.done
           A == Schema!Along(f, Schema!Left[n])
<1>3. /\ s5[p].pc = "tx" /\ d < Len(Script[f]) /\ Schema!Runs(Script[f][d + 1], s4.schema)
      /\ s4' = [owner |-> s4.owner, file |-> f, done |-> d + 1,
                schema |-> Schema!After(Script[f][d + 1], s4.schema)]
      /\ s5' = s5 /\ s1' = s1 /\ s3' = s3 /\ Schema!Applied' = Schema!Applied
  BY DEF Schema!Statement, Schema!Upcoming, Schema!Applied
<1>4. /\ s4.owner = p /\ f \in Schema!Files /\ f <= n + 1 /\ d \in 0..Len(Script[f])
      /\ Schema!Files \ (s5[p].todo \cup {f}) \subseteq 1..n
      /\ s4.schema = A[d] /\ \A k \in 1..d : Schema!Runs(Script[f][k], A[k - 1])
  BY <1>2, <1>3 DEF Schema!RunFits
<1>5. Len(Script[f]) \in Nat /\ \A k \in 1..Len(Script[f]) : A[k] = Schema!After(Script[f][k], A[k - 1])
  BY <1>4, SchemaFile
<1> HIDE DEF f, d, A
<1>6. d + 1 \in 0..Len(Script[f]) /\ A[d + 1] = Schema!After(Script[f][d + 1], A[d])
  <2>1. d + 1 \in 1..Len(Script[f]) /\ (d + 1) - 1 = d
    BY <1>3, <1>4, <1>5
  <2> QED BY <2>1, <1>5
<1>7. \A k \in 1..(d + 1) : Schema!Runs(Script[f][k], A[k - 1])
  <2> SUFFICES ASSUME NEW k \in 1..(d + 1) PROVE Schema!Runs(Script[f][k], A[k - 1])
    OBVIOUS
  <2>1. CASE k \in 1..d
    BY <2>1, <1>4
  <2>2. CASE k = d + 1
    BY <2>2, <1>3, <1>4
  <2> QED BY <2>1, <2>2, <1>4
<1>8. s4'.owner = p /\ s4'.file = f /\ s4'.done = d + 1 /\ s4'.schema = A[d + 1]
  BY <1>3, <1>4, <1>6
<1>9. Schema!RunFits(p, n)'
  BY <1>3, <1>4, <1>6, <1>7, <1>8 DEF Schema!RunFits, A
<1>10. ASSUME NEW q \in Processes, q # p PROVE Schema!RunFits(q, n)'
  <2>1. Schema!RunFits(q, n) /\ s5[q].pc # "tx"
    BY <1>2, <1>4, <1>10 DEF Schema!RunFits
  <2> QED BY <2>1, <1>3 DEF Schema!RunFits
<1>11. Schema!SchemaTypes'
  BY <1>1, <1>3 DEF Schema!SchemaTypes
<1> QED BY <1>2, <1>3, <1>9, <1>10, <1>11 DEF Schema!SchemaInv

LEMMA SchemaRecord ==
  ASSUME Schema!MigrationsAssumption, Schema!SchemaInv, NEW p \in Processes, Schema!Record(p)
  PROVE  Schema!SchemaInv'
<1>1. Schema!SchemaTypes /\ Len(Script) \in Nat /\ Schema!Files = 1..Len(Script)
  BY SchemaFile DEF Schema!SchemaInv
<1>2. PICK n \in 0..Len(Script) :
         /\ s3 = Schema!Left[n] /\ Schema!Applied \subseteq 1..n
         /\ \A q \in Processes : Schema!RunFits(q, n)
  BY DEF Schema!SchemaInv
<1> DEFINE f == s4.file
           A == Schema!Along(f, Schema!Left[n])
<1>3. s5[p].pc = "tx" /\ s4.done = Len(Script[f]) /\ s3' = s4.schema /\ s5' = [s5 EXCEPT ![p] = Schema!At("apply", s5[p].todo, s5[p].file)]
  BY DEF Schema!Record, Schema!Goto
<1>4. /\ s4.owner = p /\ f \in Schema!Files /\ f <= n + 1
      /\ Schema!Files \ (s5[p].todo \cup {f}) \subseteq 1..n
      /\ s4.schema = A[Len(Script[f])] /\ \A k \in 1..Len(Script[f]) : Schema!Runs(Script[f][k], A[k - 1])
  BY <1>2, <1>3 DEF Schema!RunFits
<1>5. s3' = Schema!Left[IF f = n + 1 THEN n + 1 ELSE n]
  <2>1. s3' = A[Len(Script[f])] /\ \A k \in 1..Len(Script[f]) : Schema!Runs(Script[f][k], A[k - 1])
    BY <1>3, <1>4
  <2> HIDE DEF f
  <2>2. A[Len(Script[f])] = Schema!Left[IF f = n + 1 THEN n + 1 ELSE n]
    BY <2>1, <1>4, SchemaFile
  <2> QED BY <2>1, <2>2
<1>6. PICK m \in 0..Len(Script) : s3' = Schema!Left[m] /\ f \in 1..m /\ 1..n \subseteq 1..m
  <2>1. CASE f = n + 1
    <3>1. n + 1 \in 0..Len(Script) /\ f \in 1..(n + 1) /\ 1..n \subseteq 1..(n + 1)
      BY <2>1, <1>1, <1>4
    <3> QED BY <3>1, <2>1, <1>5
  <2>2. CASE f # n + 1
    <3>1. f \in 1..n
      BY <2>2, <1>1, <1>4
    <3> QED BY <3>1, <2>2, <1>5
  <2> QED BY <2>1, <2>2
<1>7. PICK time \in Nat : s1' = [s1 EXCEPT ![f] = time]
  <2>1. PICK at \in {Schema!Latest, Schema!Latest + 1} \ {0} : s1' = [s1 EXCEPT ![f] = at]
    BY DEF Schema!Record
  <2>2. Schema!Latest \in Nat
    <3> DEFINE S == {0} \cup {s1[g] : g \in Schema!Files}
    <3>1. Schema!Latest = CHOOSE x \in S : \A g \in Schema!Files : s1[g] <= x
      BY DEF Schema!Latest
    <3>2. S \subseteq Nat /\ S # {}
      BY <1>1 DEF Schema!SchemaTypes
    <3>3. IsFiniteSet(S)
      <4>1. IsFiniteSet(Schema!Files)
        BY <1>1, FS_Interval
      <4> DEFINE times == {s1[g] : g \in Schema!Files}
      <4>2. s1 \in Surjection(Schema!Files, times)
        BY <1>1 DEF Schema!SchemaTypes, Surjection
      <4>3. IsFiniteSet(times)
        <5> HIDE DEF times
        <5> QED BY <4>1, <4>2, FS_Surjection
      <4>4. S = times \cup {0}
        OBVIOUS
      <4> HIDE DEF times, S
      <4> QED BY <4>3, <4>4, FS_AddElement
    <3>4. \E x \in S : \A y \in S : y <= x
      <4> HIDE DEF S
      <4> QED BY <3>2, <3>3, Largest
    <3>5. \E x \in S : \A g \in Schema!Files : s1[g] <= x
      BY <3>4
    <3> HIDE DEF S
    <3> QED BY <3>1, <3>2, <3>5
  <2>3. at \in Nat
    BY <2>1, <2>2
  <2> HIDE DEF f
  <2> QED BY <2>1, <2>3
<1>8. s1' \in [Schema!Files -> Nat] /\ Schema!Applied' \subseteq Schema!Applied \cup {f}
  <2> HIDE DEF f
  <2>1. s1 \in [Schema!Files -> Nat]
    BY <1>1 DEF Schema!SchemaTypes
  <2>2. \A g \in Schema!Files : g # f => s1'[g] = s1[g]
    BY <1>7, <2>1
  <2> QED BY <1>7, <2>1, <2>2 DEF Schema!Applied
<1>9. /\ s5' \in [Processes -> [pc : {"idle", "apply", "tx", "row", "sum", "up", "refused", "error", "broken"},
                                todo : SUBSET Schema!Files, file : Schema!Files \cup {None}]]
      /\ s5'[p].pc = "apply" /\ s5'[p].todo = s5[p].todo
      /\ \A q \in Processes : q # p => s5'[q] = s5[q]
  BY <1>1, <1>3 DEF Schema!SchemaTypes, Schema!At
<1>10. Schema!SchemaTypes'
  BY <1>8, <1>9 DEF Schema!SchemaTypes
<1>11. Schema!Applied' \subseteq 1..m
  BY <1>2, <1>6, <1>8
<1>12. Schema!RunFits(p, m)'
  <2>1. Schema!Files \ s5[p].todo \subseteq 1..m
    BY <1>4, <1>6
  <2> QED BY <1>9, <2>1 DEF Schema!RunFits
<1>13. ASSUME NEW q \in Processes, q # p PROVE Schema!RunFits(q, m)'
  <2>1. Schema!RunFits(q, n) /\ s5[q].pc # "tx" /\ s5'[q] = s5[q]
    BY <1>2, <1>4, <1>9, <1>13 DEF Schema!RunFits
  <2>2. s5[q].pc = "apply" => Schema!Files \ s5[q].todo \subseteq 1..m
    BY <2>1, <1>6 DEF Schema!RunFits
  <2> QED BY <2>1, <2>2 DEF Schema!RunFits
<1>14. \A q \in Processes : Schema!RunFits(q, m)'
  BY <1>12, <1>13
<1> HIDE DEF f, A
<1> QED BY <1>6, <1>10, <1>11, <1>14 DEF Schema!SchemaInv

LEMMA SchemaNextInv ==
  ASSUME Schema!MigrationsAssumption, Schema!SchemaInv, Schema!Next
  PROVE  Schema!SchemaInv'
<1> DEFINE PCs == {"idle", "apply", "row", "sum", "up", "refused", "error", "broken"}
<1>1. Schema!SchemaTypes /\ s1 \in [Schema!Files -> Nat]
  BY DEF Schema!SchemaInv, Schema!SchemaTypes
<1>2. ASSUME NEW p \in Processes, NEW pc \in PCs, NEW todo \in SUBSET Schema!Files,
             NEW file \in Schema!Files \cup {None},
             s5' = [s5 EXCEPT ![p] = Schema!At(pc, todo, file)],
             pc = "apply" => Schema!Files \ todo \subseteq Schema!Applied,
             s1' = s1 \/ s1' = [g \in Schema!Files |-> IF g \in s5[p].todo THEN 0 ELSE s1[g]],
             s3' = s3, s4' = s4 \/ s4.owner = p \/ s5[p].pc = "tx"
      PROVE  Schema!SchemaInv'
  <2>1. s1' \in [Schema!Files -> Nat] /\ Schema!Applied' \subseteq Schema!Applied
    <3>1. CASE s1' = s1
      BY <3>1, <1>1 DEF Schema!Applied
    <3>2. CASE s1' = [g \in Schema!Files |-> IF g \in s5[p].todo THEN 0 ELSE s1[g]]
      <4>1. s1' \in [Schema!Files -> Nat] /\ \A g \in Schema!Files : s1'[g] = 0 \/ s1'[g] = s1[g]
        BY <3>2, <1>1
      <4> QED BY <4>1, <1>1 DEF Schema!Applied
    <3> QED BY <3>1, <3>2, <1>2
  <2>2. /\ Schema!At(pc, todo, file) \in [pc : PCs, todo : SUBSET Schema!Files, file : Schema!Files \cup {None}]
        /\ Schema!At(pc, todo, file).pc = pc /\ Schema!At(pc, todo, file).todo = todo
    BY DEF Schema!At
  <2> QED BY <1>2, <2>1, <2>2, SchemaOther
<1>3. \A p \in Processes : s5[p].todo \in SUBSET Schema!Files /\ s5[p].file \in Schema!Files \cup {None}
  BY <1>1 DEF Schema!SchemaTypes
<1>4. ASSUME NEW p \in Processes, NEW pc \in PCs \ {"apply"}, Schema!Ends(p, pc),
             s1' = s1, s3' = s3, s4' = s4 \/ s4.owner = p \/ s5[p].pc = "tx"
      PROVE  Schema!SchemaInv'
  <2>1. s5' = [s5 EXCEPT ![p] = Schema!At(pc, {}, None)]
    BY <1>4 DEF Schema!Ends
  <2> QED BY <2>1, <1>2, <1>4
<1>5. ASSUME NEW p \in Processes, Schema!Boot(p) PROVE Schema!SchemaInv'
  <2>1. s5' = [s5 EXCEPT ![p] = Schema!At("apply", Schema!Files \ Schema!Applied, None)] /\ s1' = s1 /\ s3' = s3 /\ s4' = s4
    BY <1>5 DEF Schema!Boot
  <2>2. Schema!Files \ Schema!Applied \in SUBSET Schema!Files
        /\ Schema!Files \ (Schema!Files \ Schema!Applied) \subseteq Schema!Applied
    OBVIOUS
  <2> QED BY <2>1, <2>2, <1>2
<1>6. ASSUME NEW p \in Processes, Schema!BootStrict(p) PROVE Schema!SchemaInv'
  <2>1. PICK pc \in {"up", "refused"} : Schema!Ends(p, pc)
    BY <1>6 DEF Schema!BootStrict
  <2>2. s1' = s1 /\ s3' = s3 /\ s4' = s4
    BY <1>6 DEF Schema!BootStrict
  <2> QED BY <2>1, <2>2, <1>4
<1>7. ASSUME NEW p \in Processes, Schema!HardError(p) PROVE Schema!SchemaInv'
  <2>1. PICK pc \in {"error", "broken"} : Schema!Ends(p, pc)
    BY <1>7 DEF Schema!HardError
  <2>2. s1' = s1 /\ s3' = s3 /\ s5[p].pc = "tx"
    BY <1>7 DEF Schema!HardError
  <2> QED BY <2>1, <2>2, <1>4
<1>8. ASSUME NEW p \in Processes, Schema!RecordFails(p) PROVE Schema!SchemaInv'
  <2>1. Schema!Ends(p, "error") /\ s1' = s1 /\ s3' = s3 /\ s5[p].pc = "tx"
    BY <1>8 DEF Schema!RecordFails
  <2> QED BY <2>1, <1>4
<1>9. ASSUME NEW p \in Processes, Schema!Finish(p) PROVE Schema!SchemaInv'
  <2>1. Schema!Ends(p, "up") /\ s1' = s1 /\ s3' = s3 /\ s4' = s4
    BY <1>9 DEF Schema!Finish
  <2> QED BY <2>1, <1>4
<1>10. ASSUME NEW p \in Processes, Schema!Rollback(p) PROVE Schema!SchemaInv'
  <2>1. PICK f \in Schema!Applied : s5' = [s5 EXCEPT ![p] = Schema!At("row", {f}, None)]
    BY <1>10 DEF Schema!Rollback
  <2>2. s1' = s1 /\ s3' = s3 /\ s4' = s4 /\ {f} \in SUBSET Schema!Files
    BY <1>10, <2>1 DEF Schema!Rollback, Schema!Applied
  <2> QED BY <2>1, <2>2, <1>2
<1>11. ASSUME NEW p \in Processes, NEW t \in Schema!Files, Schema!RollbackTo(p, t) PROVE Schema!SchemaInv'
  <2> DEFINE later == {f \in Schema!Files : f > t}
  <2>1. s5' = [s5 EXCEPT ![p] = Schema!At("row", later, t)] /\ s1' = s1 /\ s3' = s3 /\ s4' = s4
    BY <1>11 DEF Schema!RollbackTo
  <2>2. later \in SUBSET Schema!Files
    OBVIOUS
  <2> HIDE DEF later
  <2> QED BY <2>1, <2>2, <1>2
<1>12. ASSUME NEW p \in Processes, Schema!DeleteRows(p) PROVE Schema!SchemaInv'
  <2>1. s5' = [s5 EXCEPT ![p] = Schema!At("sum", s5[p].todo, s5[p].file)] /\ s3' = s3 /\ s4' = s4
    BY <1>12 DEF Schema!DeleteRows, Schema!Goto
  <2>2. s1' = s1 \/ s1' = [g \in Schema!Files |-> IF g \in s5[p].todo THEN 0 ELSE s1[g]]
    BY <1>12 DEF Schema!DeleteRows
  <2> QED BY <2>1, <2>2, <1>2, <1>3
<1>13. ASSUME NEW p \in Processes, Schema!DeleteChecksums(p) PROVE Schema!SchemaInv'
  <2>1. Schema!Ends(p, "idle") /\ s1' = s1 /\ s3' = s3 /\ s4' = s4
    BY <1>13 DEF Schema!DeleteChecksums
  <2> QED BY <2>1, <1>4
<1>14. ASSUME NEW p \in Processes, Schema!Crash(p) PROVE Schema!SchemaInv'
  <2>1. Schema!Ends(p, "idle") /\ s1' = s1 /\ s3' = s3 /\ (s4' = s4 \/ s4.owner = p)
    BY <1>14 DEF Schema!Crash
  <2> QED BY <2>1, <1>4
<1> HIDE DEF PCs
<1> QED BY <1>5, <1>6, <1>7, <1>8, <1>9, <1>10, <1>11, <1>12, <1>13, <1>14,
           SchemaBegin, SchemaStatement, SchemaRecord DEF Schema!Next
-----------------------------------------------------------------------------
(* Consolidation, the chunks of a run first.                                 *)

LEMMA FactsCounting == \A S : Facts!Cardinality(S) = Cardinality(S) /\ Facts!IsFiniteSet(S) = IsFiniteSet(S)
BY DEF Facts!Cardinality, Cardinality, Facts!IsFiniteSet, IsFiniteSet

\* A chunk has at least two rows and no more than its size.
LEMMA FactsChunks ==
  ASSUME Facts!ConsolidationAssumption, NEW C, C \subseteq Nat, IsFiniteSet(C), NEW c \in Facts!Chunks(C)
  PROVE  c \subseteq C /\ Facts!Cardinality(c) \in 2..ClusterSize
<1> DEFINE f == [r \in C |-> r]
           rank == [r \in C |-> Facts!Place(C, r)]
<1>1. ClusterSize \in Nat
  BY DEF Facts!ConsolidationAssumption
<1>2. Cardinality(C) \in Nat
  BY FS_CardinalityType
<1>3. PICK start \in Nat : c = Facts!Chunk(C, start) /\ Cardinality(c) >= 2
  BY <1>2, FactsCounting DEF Facts!Chunks
<1>4. \A r \in C : Facts!Place(C, r) = Cardinality({s \in C : f[s] < f[r]})
  <2>1. \A r \in C : {s \in C : s < r} = {s \in C : f[s] < f[r]}
    OBVIOUS
  <2> HIDE DEF f
  <2> QED BY <2>1, FactsCounting DEF Facts!Place
<1>5. f \in [C -> Nat] /\ \A d, e \in C : f[d] = f[e] => d = e
  OBVIOUS
<1> HIDE DEF f
<1>6. rank = [r \in C |-> Cardinality({s \in C : f[s] < f[r]})]
  BY <1>4
<1>7. c = {r \in C : rank[r] \in start..(start + ClusterSize - 1)}
  BY <1>3 DEF Facts!Chunk
<1> HIDE DEF rank
<1>8. \A d, e \in C : rank[d] = rank[e] => d = e
  <2>1. rank \in Bijection(C, 0..(Cardinality(C) - 1))
    BY <1>5, <1>6, Ranked
  <2> QED BY <2>1 DEF Bijection, Injection, IsInjective
<1>9. c \subseteq C /\ \A r \in c : rank[r] \in start..(start + ClusterSize - 1)
  BY <1>7
<1>10. Cardinality(c) \in 0..ClusterSize
  BY <1>1, <1>8, <1>9, NumberedPart
<1> QED BY <1>1, <1>3, <1>9, <1>10, FactsCounting

\* The greatest of the rows that tell of an archived one would be archived
\* too, and so have a fact made of it, which is greater.
LEMMA FactsTold ==
  ASSUME Facts!ConsolidationAssumption, Facts!ConsolidationInv
  PROVE  Facts!NothingUntold /\ Facts!VectorsOfRows
<1>1. /\ \E k \in 0..MaxRows : s1 = 1..k
      /\ MaxRows \in Nat /\ Facts!Traced /\ s5 \subseteq s1 /\ s4 \in [Facts!Rows -> SUBSET Facts!Rows]
      /\ \A r \in Facts!Rows : s4[r] # {} =>
           Facts!Cardinality(s4[r]) \in 2..ClusterSize /\ \A s \in s4[r] : s < r
  BY DEF Facts!ConsolidationInv, Facts!ConsolidationAssumption
<1>2. IsFiniteSet(s1) /\ s1 \subseteq Nat /\ s1 \subseteq Facts!Rows
  <2>1. PICK k \in 0..MaxRows : s1 = 1..k
    BY <1>1
  <2>2. IsFiniteSet(1..k)
    BY <1>1, FS_Interval
  <2> QED BY <1>1, <2>1, <2>2 DEF Facts!Rows
<1>3. ASSUME NEW r \in s3, Facts!Told(r) \ s3 = {}, Facts!Told(r) \cap s6 = {} PROVE FALSE
  <2> DEFINE T == Facts!Told(r)
  <2>1. r \in T /\ T \in SUBSET s1
    BY <1>1, <1>3 DEF Facts!Told, Facts!Traced
  <2>2. ASSUME NEW s \in s1, s4[s] \cap T # {} PROVE s \in T
    <3>1. PICK q \in s4[s] : q \in T
      BY <2>2
    <3>2. ASSUME NEW c \in SUBSET s1, r \in c, \A t \in s1 : s4[t] \cap c # {} => t \in c
          PROVE  s \in c
      <4>1. q \in c
        BY <3>1, <3>2 DEF Facts!Told
      <4> QED BY <3>1, <3>2, <4>1
    <3> QED BY <3>2 DEF Facts!Told
  <2> HIDE DEF T
  <2>3. IsFiniteSet(T) /\ T \subseteq Nat
    BY <1>2, <2>1, FS_Subset
  <2>4. PICK m \in T : \A t \in T : t <= m
    BY <2>1, <2>3, Largest
  <2>5. m \in s3 /\ m \notin s6
    BY <1>3, <2>4 DEF T
  <2>6. PICK n \in s1 : m \in s4[n]
    BY <1>1, <2>5 DEF Facts!Traced
  <2>7. n \in T
    BY <2>2, <2>4, <2>6
  <2>8. m < n
    BY <1>1, <1>2, <2>6
  <2> QED BY <1>2, <2>1, <2>3, <2>4, <2>7, <2>8
<1> QED BY <1>1, <1>3 DEF Facts!NothingUntold, Facts!VectorsOfRows

LEMMA FactsInitInv ==
  ASSUME Facts!ConsolidationAssumption, Facts!Init
  PROVE  Facts!ConsolidationInv
<1>1. s1 = Given /\ s3 = {} /\ s4 = [r \in Facts!Rows |-> {}] /\ s5 = Given /\ s7 = [w \in Runners |-> Facts!Asleep]
  BY DEF Facts!Init
<1>2. \E k \in 0..MaxRows : s1 = 1..k
  BY <1>1 DEF Facts!ConsolidationAssumption
<1>3. Facts!RunFits(Facts!Asleep)
  <2>1. 0 \in 0..MaxRows
    BY DEF Facts!ConsolidationAssumption
  <2> QED BY <2>1 DEF Facts!RunFits, Facts!Asleep, Facts!At
<1>4. s4 \in [Facts!Rows -> SUBSET Facts!Rows] /\ \A r \in Facts!Rows : s4[r] = {}
  BY <1>1
<1>5. Facts!Traced
  BY <1>1 DEF Facts!Traced
<1> QED BY <1>1, <1>2, <1>3, <1>4, <1>5 DEF Facts!ConsolidationInv

\* A run goes on in a state in which no row is gone.
LEMMA FactsRuns ==
  ASSUME Facts!ConsolidationInv, NEW w \in Runners, NEW run, Facts!Goto(w, run), s1 \subseteq s1',
         Facts!RunFits(run)'
  PROVE  s7' = [v \in Runners |-> s7'[v]] /\ \A v \in Runners : Facts!RunFits(s7[v])'
<1>1. s7 = [v \in Runners |-> s7[v]] /\ \A v \in Runners : Facts!RunFits(s7[v])
  BY DEF Facts!ConsolidationInv
<1>2. s7' = [s7 EXCEPT ![w] = run]
  BY DEF Facts!Goto
<1>3. s7' = [v \in Runners |-> s7'[v]] /\ \A v \in Runners : s7'[v] = IF v = w THEN run ELSE s7[v]
  BY <1>1, <1>2
<1>4. \A c : Facts!IsChunk(c) => Facts!IsChunk(c)'
  BY DEF Facts!IsChunk
<1>5. ASSUME NEW v \in Runners, v # w PROVE Facts!RunFits(s7[v])'
  <2>1. s7'[v] = s7[v] /\ Facts!RunFits(s7[v])
    BY <1>1, <1>3, <1>5
  <2> QED BY <1>4, <2>1 DEF Facts!RunFits
<1> QED BY <1>3, <1>5

\* The rest, when no row or link is new.
LEMMA FactsSame ==
  ASSUME Facts!ConsolidationInv, UNCHANGED <<s1, s3, s4, s6>>, s5' \subseteq s1,
         s7' = [v \in Runners |-> s7'[v]], \A v \in Runners : Facts!RunFits(s7[v])'
  PROVE  Facts!ConsolidationInv'
<1>1. Facts!Traced'
  BY DEF Facts!ConsolidationInv, Facts!Traced
<1> QED BY <1>1 DEF Facts!ConsolidationInv

LEMMA FactsRun ==
  ASSUME Facts!ConsolidationAssumption, Facts!ConsolidationInv, NEW w \in Runners,
         NEW pc \in {"idle", "chunk", "answer", "store", "remove"}, NEW chunks, NEW chunk, NEW made \in 0..MaxRows,
         Facts!Goto(w, Facts!At(pc, chunks, chunk, made)), s1 \subseteq s1',
         \A c \in chunks : Facts!IsChunk(c), pc = "answer" => Facts!IsChunk(chunk),
         pc = "store" => made \in s1'
  PROVE  s7' = [v \in Runners |-> s7'[v]] /\ \A v \in Runners : Facts!RunFits(s7[v])'
<1> DEFINE run == Facts!At(pc, chunks, chunk, made)
<1>1. run.pc = pc /\ run.chunks = chunks /\ run.chunk = chunk /\ run.made = made
  BY DEF Facts!At
<1>2. run = Facts!At(pc, run.chunks, run.chunk, made)
  BY <1>1
<1>3. \A c : Facts!IsChunk(c) => Facts!IsChunk(c)'
  BY DEF Facts!IsChunk
<1> HIDE DEF run
<1>4. Facts!RunFits(run)'
  BY <1>1, <1>2, <1>3 DEF Facts!RunFits
<1> QED BY <1>4, FactsRuns DEF run

LEMMA FactsLoad ==
  ASSUME Facts!ConsolidationAssumption, Facts!ConsolidationInv, NEW w \in Runners, Facts!Load(w)
  PROVE  Facts!ConsolidationInv'
<1>1. PICK rows \in SUBSET s1 :
        Facts!Goto(w, Facts!At("chunk", UNION {Facts!Chunks(Facts!Component(a, rows)) : a \in rows}, {}, 0))
  <2>1. (s2 \cap s1) \ s3 \in SUBSET s1
    OBVIOUS
  <2> QED BY <2>1 DEF Facts!Load
<1>2. PICK chunks : chunks = UNION {Facts!Chunks(Facts!Component(a, rows)) : a \in rows}
  OBVIOUS
<1>3. UNCHANGED <<s1, s2, s3, s4, s5, s6>>
  BY DEF Facts!Load
<1>4. IsFiniteSet(s1) /\ s1 \subseteq Nat /\ MaxRows \in Nat /\ s5 \subseteq s1
  <2>1. PICK k \in 0..MaxRows : s1 = 1..k
    BY DEF Facts!ConsolidationInv
  <2>2. IsFiniteSet(1..k) /\ MaxRows \in Nat
    BY FS_Interval DEF Facts!ConsolidationAssumption
  <2> QED BY <2>1, <2>2 DEF Facts!ConsolidationInv
<1>5. ASSUME NEW c \in chunks PROVE Facts!IsChunk(c)
  <2>1. PICK a \in rows : c \in Facts!Chunks(Facts!Component(a, rows))
    BY <1>2
  <2>2. Facts!Component(a, rows) \in SUBSET s1
    BY <1>1 DEF Facts!Component
  <2>3. IsFiniteSet(Facts!Component(a, rows)) /\ Facts!Component(a, rows) \subseteq Nat
    BY <1>4, <2>2, FS_Subset
  <2>4. c \subseteq Facts!Component(a, rows) /\ Facts!Cardinality(c) \in 2..ClusterSize
    BY <2>1, <2>3, FactsChunks
  <2> QED BY <2>2, <2>4 DEF Facts!IsChunk
<1>6. Facts!Goto(w, Facts!At("chunk", chunks, {}, 0)) /\ 0 \in 0..MaxRows
  BY <1>1, <1>2, <1>4
<1>7. s7' = [v \in Runners |-> s7'[v]] /\ \A v \in Runners : Facts!RunFits(s7[v])'
  BY <1>3, <1>5, <1>6, FactsRun
<1> QED BY <1>3, <1>4, <1>7, FactsSame

\* The run of w as a record, and the rows that are known.
LEMMA FactsRead ==
  ASSUME Facts!ConsolidationAssumption, Facts!ConsolidationInv, NEW w \in Runners
  PROVE  /\ MaxRows \in Nat /\ 0 \in 0..MaxRows /\ s5 \subseteq s1
         /\ \A c \in s7[w].chunks : Facts!IsChunk(c)
         /\ s7[w].pc = "answer" => Facts!IsChunk(s7[w].chunk)
         /\ s7[w].pc = "store" => s7[w].made \in s1
         /\ s1 \subseteq 1..MaxRows
         /\ \E k \in 0..MaxRows : s1 = 1..k /\ Facts!Cardinality(s1) = k
<1>1. MaxRows \in Nat
  BY DEF Facts!ConsolidationAssumption
<1>2. PICK k \in 0..MaxRows : s1 = 1..k
  BY DEF Facts!ConsolidationInv
<1>3. Facts!Cardinality(s1) = k
  <2>1. Cardinality(1..k) = IF 1 > k THEN 0 ELSE k - 1 + 1
    BY <1>1, FS_Interval
  <2> QED BY <1>1, <1>2, <2>1, FactsCounting
<1> QED BY <1>1, <1>2, <1>3 DEF Facts!ConsolidationInv, Facts!RunFits

LEMMA FactsCommit ==
  ASSUME Facts!ConsolidationAssumption, Facts!ConsolidationInv, NEW w \in Runners, Facts!Commit(w)
  PROVE  Facts!ConsolidationInv'
<1>1. PICK new, mine :
        /\ new = Facts!Cardinality(s1) + 1 /\ mine = s7[w].chunk /\ s7[w].pc = "answer"
        /\ new <= MaxRows /\ s1' = s1 \cup {new}
        /\ s4' = [s4 EXCEPT ![new] = mine] /\ s3' \subseteq s3 \cup mine
        /\ Facts!Goto(w, Facts!At("store", s7[w].chunks, mine, new)) /\ s5' = s5 /\ s6' = s6
  BY DEF Facts!Commit
<1>2. PICK k \in 0..MaxRows : s1 = 1..k /\ Facts!Cardinality(s1) = k
  BY FactsRead
<1>3. MaxRows \in Nat /\ new = k + 1 /\ new \in 0..MaxRows /\ new \in Facts!Rows /\ s1' = 1..new
  <2>1. MaxRows \in Nat /\ new = k + 1
    BY <1>1, <1>2, FactsRead
  <2> QED BY <1>1, <1>2, <2>1 DEF Facts!Rows
<1>4. mine \subseteq s1 /\ Facts!Cardinality(mine) \in 2..ClusterSize /\ \A s \in mine : s < new
  BY <1>1, <1>2, <1>3, FactsRead DEF Facts!IsChunk
<1>5. s4 \in [Facts!Rows -> SUBSET Facts!Rows]
  BY DEF Facts!ConsolidationInv
<1>6. mine \in SUBSET Facts!Rows
  BY <1>2, <1>3, <1>4 DEF Facts!Rows
<1>7. \A r \in Facts!Rows : s4'[r] = IF r = new THEN mine ELSE s4[r]
  BY <1>1, <1>3, <1>5
<1>8. s4' \in [Facts!Rows -> SUBSET Facts!Rows]
  BY <1>1, <1>5, <1>6
<1>9. \A r \in Facts!Rows : s4'[r] # {} =>
        Facts!Cardinality(s4'[r]) \in 2..ClusterSize /\ \A s \in s4'[r] : s < r
  BY <1>4, <1>7 DEF Facts!ConsolidationInv
<1>10. s7' = [v \in Runners |-> s7'[v]] /\ \A v \in Runners : Facts!RunFits(s7[v])'
  BY <1>1, <1>3, FactsRun, FactsRead
<1>11. Facts!Traced'
  <2>1. ASSUME NEW r \in s3' PROVE r \in s1' /\ (r \in s6' \/ \E n \in s1' : r \in s4'[n])
    <3>1. CASE r \in mine
      BY <3>1, <1>1, <1>3, <1>4, <1>7
    <3>2. CASE r \in s3
      <4>1. r \in s1 /\ (r \in s6 \/ \E n \in s1 : r \in s4[n])
        BY <3>2 DEF Facts!ConsolidationInv, Facts!Traced
      <4>2. \A n \in s1 : n \in Facts!Rows /\ n # new
        BY <1>2, <1>3 DEF Facts!Rows
      <4> QED BY <4>1, <4>2, <1>1, <1>7
    <3> QED BY <3>1, <3>2, <1>1
  <2> QED BY <2>1 DEF Facts!Traced
<1> QED BY <1>1, <1>3, <1>8, <1>9, <1>10, <1>11 DEF Facts!ConsolidationInv

LEMMA FactsNextInv ==
  ASSUME Facts!ConsolidationAssumption, Facts!ConsolidationInv, Facts!Next
  PROVE  Facts!ConsolidationInv'
<1>1. ASSUME NEW w \in Runners, Facts!Ask(w) PROVE Facts!ConsolidationInv'
  <2>1. PICK c \in s7[w].chunks : Facts!Goto(w, Facts!At("answer", s7[w].chunks \ {c}, c, 0))
    BY <1>1 DEF Facts!Ask
  <2>2. UNCHANGED <<s1, s3, s4, s5, s6>>
    BY <1>1 DEF Facts!Ask
  <2>3. s7' = [v \in Runners |-> s7'[v]] /\ \A v \in Runners : Facts!RunFits(s7[v])'
    BY <2>1, <2>2, FactsRun, FactsRead
  <2> QED BY <2>2, <2>3, FactsSame, FactsRead
<1>2. ASSUME NEW w \in Runners,
             \/ Facts!NoAnswer(w) \/ Facts!CommitFails(w) \/ Facts!RemoveVectors(w)
      PROVE  Facts!ConsolidationInv'
  <2>1. /\ Facts!Goto(w, Facts!At("chunk", s7[w].chunks, {}, 0)) /\ UNCHANGED <<s1, s3, s4, s6>>
        /\ s5' \subseteq s5
    BY <1>2 DEF Facts!NoAnswer, Facts!CommitFails, Facts!RemoveVectors
  <2>2. s7' = [v \in Runners |-> s7'[v]] /\ \A v \in Runners : Facts!RunFits(s7[v])'
    BY <2>1, FactsRun, FactsRead
  <2> QED BY <2>1, <2>2, FactsSame, FactsRead
<1>3. ASSUME NEW w \in Runners, Facts!StoreVector(w) PROVE Facts!ConsolidationInv'
  <2>1. /\ Facts!Goto(w, Facts!At("remove", s7[w].chunks, s7[w].chunk, 0)) /\ UNCHANGED <<s1, s3, s4, s6>>
        /\ s5' \subseteq s5 \cup {s7[w].made} /\ s7[w].pc = "store"
    BY <1>3 DEF Facts!StoreVector
  <2>2. s7' = [v \in Runners |-> s7'[v]] /\ \A v \in Runners : Facts!RunFits(s7[v])'
    BY <2>1, FactsRun, FactsRead
  <2>3. s5' \subseteq s1
    BY <2>1, FactsRead
  <2> QED BY <2>1, <2>2, <2>3, FactsSame
<1>4. ASSUME NEW w \in Runners, Facts!Sleep(w) PROVE Facts!ConsolidationInv'
  <2>1. Facts!Goto(w, Facts!At("idle", {}, {}, 0)) /\ UNCHANGED <<s1, s3, s4, s5, s6>>
    BY <1>4 DEF Facts!Sleep, Facts!Asleep
  <2>2. s7' = [v \in Runners |-> s7'[v]] /\ \A v \in Runners : Facts!RunFits(s7[v])'
    BY <2>1, FactsRun, FactsRead
  <2> QED BY <2>1, <2>2, FactsSame, FactsRead
<1>5. ASSUME NEW r \in Given, Facts!Retire(r) PROVE Facts!ConsolidationInv'
  <2>1. s3' = s3 \cup {r} /\ s6' = s6 \cup {r} /\ s5' \subseteq s5 /\ UNCHANGED <<s1, s4, s7>>
    BY <1>5 DEF Facts!Retire
  <2>2. Facts!Traced'
    BY <2>1 DEF Facts!ConsolidationInv, Facts!Traced
  <2>3. \A v \in Runners : Facts!RunFits(s7[v])'
    BY <2>1 DEF Facts!ConsolidationInv, Facts!RunFits, Facts!IsChunk
  <2> QED BY <2>1, <2>2, <2>3 DEF Facts!ConsolidationInv
<1> QED BY <1>1, <1>2, <1>3, <1>4, <1>5, FactsLoad, FactsCommit DEF Facts!Next, Facts!Step
-----------------------------------------------------------------------------
(* Compression: pairs, summaries, their number and the runs are s1 to s4.    *)

LEMMA SummariesCounting ==
  \A S : Summaries!Cardinality(S) = Cardinality(S) /\ Summaries!IsFiniteSet(S) = IsFiniteSet(S)
BY DEF Summaries!Cardinality, Cardinality, Summaries!IsFiniteSet, IsFiniteSet

\* What a seed takes is similar to it, and taken by no other.
LEMMA SummariesGroup ==
  ASSUME NEW pos, NEW ids, pos \in [ids -> Nat], \A d, e \in ids : pos[d] = pos[e] => d = e,
         NEW seeds \in SUBSET ids, NEW s \in seeds
  PROVE  LET g == Summaries!Group(s, seeds, pos) IN
         /\ g \subseteq ids /\ s \in g
         /\ \A e \in g : pos[s] <= pos[e] /\ (e = s \/ {s, e} \in s1)
         /\ \A u \in seeds : u # s => Summaries!Group(u, seeds, pos) \cap g = {}
<1>1. DOMAIN pos = ids /\ \A e \in ids : pos[e] \in Nat
  OBVIOUS
<1>2. ASSUME NEW u \in seeds, u # s, NEW e \in ids, Summaries!Takes(s, e, seeds, pos), Summaries!Takes(u, e, seeds, pos)
      PROVE  FALSE
  <2>1. e # s /\ e # u
    BY <1>2 DEF Summaries!Takes
  <2>2. {s, e} \in s1 /\ {u, e} \in s1 /\ pos[s] <= pos[u] /\ pos[u] <= pos[s]
    BY <1>2, <2>1 DEF Summaries!Takes
  <2> QED BY <1>1, <1>2, <2>2
<1>3. ASSUME NEW e \in Summaries!Group(s, seeds, pos)
      PROVE  e \in ids /\ pos[s] <= pos[e] /\ (e = s \/ {s, e} \in s1)
  BY <1>1, <1>3 DEF Summaries!Group, Summaries!Takes
<1>4. s \in Summaries!Group(s, seeds, pos)
  BY <1>1 DEF Summaries!Group, Summaries!Takes
<1> QED BY <1>1, <1>2, <1>3, <1>4 DEF Summaries!Group

\* The clusters of one call, whatever the order of the entities.
LEMMA SummariesGreedy ==
  ASSUME Summaries!CompressionAssumption, NEW ids \in SUBSET SummaryEntities,
         NEW pos \in Summaries!Bijection(ids, 1..Summaries!Cardinality(ids)), NEW seeds \in SUBSET ids,
         NEW c \in Summaries!Greedy(seeds, pos)
  PROVE  /\ Summaries!ClusterSound(c)
         /\ \A d \in Summaries!Greedy(seeds, pos) : d = c \/ d \cap c = {}
<1>1. /\ Config.min \in Nat \ {0} /\ Config.max \in Nat /\ Config.min <= Config.max
      /\ IsFiniteSet(ids)
  <2>1. IsFiniteSet(SummaryEntities)
    BY SummariesCounting DEF Summaries!CompressionAssumption
  <2> QED BY <2>1, FS_Subset DEF Summaries!CompressionAssumption
<1>2. pos \in [ids -> Nat] /\ \A d, e \in ids : pos[d] = pos[e] => d = e
  <2>1. Summaries!Cardinality(ids) \in Nat
    BY <1>1, SummariesCounting, FS_CardinalityType
  <2>2. pos \in [ids -> 1..Summaries!Cardinality(ids)]
    BY DEF Summaries!Bijection, Summaries!Injection
  <2>3. \A d, e \in ids : pos[d] = pos[e] => d = e
    BY DEF Summaries!Bijection, Summaries!Injection, Summaries!IsInjective
  <2> QED BY <2>1, <2>2, <2>3
<1>3. PICK s \in seeds : LET g == Summaries!Group(s, seeds, pos) IN
        c = Summaries!Cut(g, pos) /\ Summaries!Cardinality(g) >= Config.min
  BY DEF Summaries!Greedy
<1>4. PICK g : g = Summaries!Group(s, seeds, pos)
  OBVIOUS
<1>5. /\ g \subseteq ids /\ s \in g /\ \A e \in g : pos[s] <= pos[e] /\ (e = s \/ {s, e} \in s1)
      /\ \A u \in seeds : u # s => Summaries!Group(u, seeds, pos) \cap g = {}
  BY <1>2, <1>4, SummariesGroup
<1>6. IsFiniteSet(g) /\ Cardinality(g) \in Nat /\ Cardinality(g) >= Config.min /\ c = Summaries!Cut(g, pos)
  <2>1. IsFiniteSet(g)
    BY <1>1, <1>5, FS_Subset
  <2> QED BY <1>3, <1>4, <2>1, FS_CardinalityType, SummariesCounting
<1> DEFINE f == [e \in g |-> pos[e]]
           rank == [e \in g |-> Summaries!Place(e, g, pos)]
<1>7. \A e \in g : Summaries!Place(e, g, pos) = Cardinality({d \in g : f[d] < f[e]})
  <2>1. \A e \in g : {d \in g : pos[d] < pos[e]} = {d \in g : f[d] < f[e]}
    OBVIOUS
  <2> HIDE DEF f
  <2> QED BY <2>1, SummariesCounting DEF Summaries!Place
<1>8. f \in [g -> Nat] /\ \A d, e \in g : f[d] = f[e] => d = e
  BY <1>2, <1>5
<1> HIDE DEF f
<1>9. rank = [e \in g |-> Cardinality({d \in g : f[d] < f[e]})]
  BY <1>7
<1>10. rank \in Bijection(g, 0..(Cardinality(g) - 1))
  BY <1>6, <1>8, <1>9, Ranked
<1>11. c \subseteq g /\ \A e \in g : e \in c <=> rank[e] < Config.max
  BY <1>6 DEF Summaries!Cut
<1> HIDE DEF rank
<1>12. IsFiniteSet(c) /\ Cardinality(c) = IF Cardinality(g) <= Config.max THEN Cardinality(g) ELSE Config.max
  BY <1>1, <1>6, <1>10, <1>11, FirstOnes
<1>13. Summaries!Cardinality(c) \in Config.min..Config.max
  BY <1>1, <1>6, <1>12, SummariesCounting
<1>14. s \in c
  <2>1. {d \in g : pos[d] < pos[s]} = {}
    <3>1. \A d \in g : pos[d] \in Nat /\ pos[s] \in Nat /\ pos[s] <= pos[d]
      BY <1>2, <1>5
    <3>2. \A d \in g : ~(pos[d] < pos[s])
      BY <3>1
    <3> QED BY <3>2
  <2>2. Summaries!Place(s, g, pos) = 0
    BY <2>1, SummariesCounting, FS_EmptySet DEF Summaries!Place
  <2> QED BY <1>1, <1>5, <1>6, <2>2 DEF Summaries!Cut
<1>15. Summaries!ClusterSound(c)
  BY <1>5, <1>11, <1>13, <1>14 DEF Summaries!ClusterSound
<1>16. ASSUME NEW d \in Summaries!Greedy(seeds, pos), d # c PROVE d \cap c = {}
  <2>1. PICK u \in seeds : d = Summaries!Cut(Summaries!Group(u, seeds, pos), pos)
    BY <1>16 DEF Summaries!Greedy
  <2>2. u # s
    BY <1>4, <1>6, <1>16, <2>1
  <2>3. d \subseteq Summaries!Group(u, seeds, pos)
    BY <2>1 DEF Summaries!Cut
  <2> QED BY <1>5, <1>11, <2>2, <2>3
<1> QED BY <1>15, <1>16

LEMMA SummariesInitInv ==
  ASSUME Summaries!CompressionAssumption, Summaries!Init
  PROVE  Summaries!CompressionInv
<1>1. /\ s3 = 0 /\ s2 = [n \in 1..MaxNodes |-> Summaries!Blank] /\ s4 = [c \in Summarisers |-> Summaries!Quiet]
  BY DEF Summaries!Init
<1>2. s3 \in 0..MaxNodes /\ 1..s3 = {}
  BY <1>1 DEF Summaries!CompressionAssumption
<1>3. s2 = [n \in 1..MaxNodes |-> Summaries!Summary(s2[n].from, s2[n].gen, s2[n].by)]
  <2>1. Summaries!Summary(Summaries!Blank.from, Summaries!Blank.gen, Summaries!Blank.by) = Summaries!Blank
    BY DEF Summaries!Blank, Summaries!Summary
  <2> QED BY <1>1, <2>1
<1>4. Summaries!CallFits(Summaries!Quiet)
  BY DEF Summaries!CallFits, Summaries!Quiet, Summaries!At
<1> QED BY <1>1, <1>2, <1>3, <1>4 DEF Summaries!CompressionInv

\* Summaries are only added, and what they have but their mark stays.
SummariesGrow ==
    /\ s1' = s1 /\ 1..s3 \subseteq (1..s3)'
    /\ \A n \in 1..s3 : s2'[n].from = s2[n].from /\ s2'[n].gen = s2[n].gen

LEMMA SummariesCall ==
  ASSUME Summaries!CompressionInv, NEW c \in Summarisers,
         NEW pc \in {"idle", "compress", "insert", "mark"}, NEW todo, NEW old, NEW mine, NEW new,
         Summaries!Goto(c, Summaries!At(pc, todo, old, mine, new)), SummariesGrow,
         \A ids \in todo : Summaries!ClusterSound(ids) /\ \A others \in todo : others = ids \/ others \cap ids = {},
         pc = "insert" =>
           /\ new = Summaries!Summary(new.from, new.gen, NoNode)
           /\ new.gen \in 1..MaxRecursionDepth
           /\ old = NoNode \/ (old \in 1..s3 /\ Summaries!Follows(new, old)),
         pc = "mark" =>
           /\ old \in 1..s3 /\ mine \in (1..s3)' /\ s2'[mine].gen = s2[old].gen + 1
           /\ s2'[mine].from = s2[old].from \cup {-old}
  PROVE  s4' = [d \in Summarisers |-> s4'[d]] /\ \A d \in Summarisers : Summaries!CallFits(s4[d])'
<1> DEFINE call == Summaries!At(pc, todo, old, mine, new)
<1>1. /\ call.pc = pc /\ call.todo = todo /\ call.old = old /\ call.mine = mine /\ call.new = new
      /\ call = Summaries!At(pc, call.todo, call.old, call.mine, call.new)
  BY DEF Summaries!At
<1>2. s4 = [d \in Summarisers |-> s4[d]] /\ \A d \in Summarisers : Summaries!CallFits(s4[d])
  BY DEF Summaries!CompressionInv
<1>3. s4' = [s4 EXCEPT ![c] = call]
  BY DEF Summaries!Goto
<1> HIDE DEF call
<1>4. s4' = [d \in Summarisers |-> s4'[d]] /\ \A d \in Summarisers : s4'[d] = IF d = c THEN call ELSE s4[d]
  BY <1>2, <1>3
<1>5. \A ids : Summaries!ClusterSound(ids) => Summaries!ClusterSound(ids)'
  BY DEF SummariesGrow, Summaries!ClusterSound
<1>6. \A x, n : n \in 1..s3 /\ Summaries!Follows(x, n) => n \in (1..s3)' /\ Summaries!Follows(x, n)'
  BY DEF SummariesGrow, Summaries!Follows
<1>7. Summaries!CallFits(call)'
  <2>1. pc = "mark" => old \in (1..s3)' /\ mine \in (1..s3)' /\ Summaries!Follows(s2[mine], old)'
    BY DEF SummariesGrow, Summaries!Follows
  <2> QED BY <1>1, <1>5, <1>6, <2>1 DEF Summaries!CallFits
<1>8. ASSUME NEW d \in Summarisers, d # c PROVE Summaries!CallFits(s4[d])'
  <2>1. s4'[d] = s4[d] /\ Summaries!CallFits(s4[d])
    BY <1>2, <1>4, <1>8
  <2>2. s4[d].pc = "mark" =>
          s4[d].old \in (1..s3)' /\ s4[d].mine \in (1..s3)' /\ Summaries!Follows(s2[s4[d].mine], s4[d].old)'
    BY <2>1 DEF SummariesGrow, Summaries!Follows, Summaries!CallFits
  <2> QED BY <1>5, <1>6, <2>1, <2>2 DEF Summaries!CallFits
<1> QED BY <1>4, <1>7, <1>8

LEMMA SummariesSame ==
  ASSUME Summaries!CompressionInv, UNCHANGED <<s1, s2, s3>>,
         s4' = [d \in Summarisers |-> s4'[d]], \A d \in Summarisers : Summaries!CallFits(s4[d])'
  PROVE  Summaries!CompressionInv'
<1>1. \A n \in 1..s3 : s2[n].by # None => (Summaries!Follows(s2[s2[n].by], n) <=> Summaries!Follows(s2[s2[n].by], n)')
  BY DEF Summaries!Follows
<1> QED BY <1>1 DEF Summaries!CompressionInv, Summaries!Follows

LEMMA SummariesCluster ==
  ASSUME Summaries!CompressionAssumption, Summaries!CompressionInv, NEW c \in Summarisers,
         NEW ids \in SUBSET SummaryEntities, Summaries!Cluster(c, ids)
  PROVE  Summaries!CompressionInv'
<1>1. PICK pos \in Summaries!Bijection(ids, 1..Summaries!Cardinality(ids)), seeds \in SUBSET ids :
        Summaries!Goto(c, Summaries!At("compress", Summaries!Greedy(seeds, pos), NoNode, NoNode, Summaries!Blank))
  BY DEF Summaries!Cluster
<1>2. UNCHANGED <<s1, s2, s3>> /\ SummariesGrow
  BY DEF Summaries!Cluster, SummariesGrow
<1>3. PICK todo, new : /\ todo = Summaries!Greedy(seeds, pos) /\ new = Summaries!Blank
                       /\ Summaries!Goto(c, Summaries!At("compress", todo, NoNode, NoNode, new))
  <2>1. Summaries!Blank' = Summaries!Blank
    BY DEF Summaries!Blank
  <2> QED BY <1>1
<1>4. \A x \in todo : Summaries!ClusterSound(x) /\ \A y \in todo : y = x \/ y \cap x = {}
  BY <1>3, SummariesGreedy
<1>5. s4' = [d \in Summarisers |-> s4'[d]] /\ \A d \in Summarisers : Summaries!CallFits(s4[d])'
  BY <1>2, <1>3, <1>4, SummariesCall
<1> QED BY <1>2, <1>5, SummariesSame

\* The call of c.
LEMMA SummariesRead ==
  ASSUME Summaries!CompressionAssumption, Summaries!CompressionInv, NEW c \in Summarisers
  PROVE  /\ \A ids \in s4[c].todo :
              Summaries!ClusterSound(ids) /\ \A others \in s4[c].todo : others = ids \/ others \cap ids = {}
         /\ s4[c].pc = "insert" =>
              /\ s4[c].new = Summaries!Summary(s4[c].new.from, s4[c].new.gen, NoNode)
              /\ s4[c].new.gen \in 1..MaxRecursionDepth
              /\ s4[c].old = NoNode \/ (s4[c].old \in 1..s3 /\ Summaries!Follows(s4[c].new, s4[c].old))
         /\ s4[c].pc = "mark" =>
              /\ s4[c].old \in 1..s3 /\ s4[c].mine \in 1..s3
              /\ Summaries!Follows(s2[s4[c].mine], s4[c].old)
         /\ s3 \in 0..MaxNodes /\ MaxNodes \in Nat /\ MaxRecursionDepth \in Nat \ {0} /\ NoNode \notin 1..MaxNodes
         /\ s2 = [n \in 1..MaxNodes |-> Summaries!Summary(s2[n].from, s2[n].gen, s2[n].by)]
         /\ \A n \in 1..s3 :
              /\ s2[n].gen \in 1..MaxRecursionDepth
              /\ s2[n].by # NoNode => s2[n].by \in 1..s3 /\ Summaries!Follows(s2[s2[n].by], n)
  BY DEF Summaries!CompressionInv, Summaries!CallFits, Summaries!CompressionAssumption

LEMMA SummariesInsert ==
  ASSUME Summaries!CompressionAssumption, Summaries!CompressionInv, NEW c \in Summarisers, Summaries!Insert(c), s3' = s3 + 1
  PROVE  Summaries!CompressionInv'
<1>1. s4[c].pc = "insert" /\ s3 \in 0..MaxNodes /\ MaxNodes \in Nat
  BY SummariesRead DEF Summaries!Insert
<1>2. /\ s3 < MaxNodes /\ s2' = [s2 EXCEPT ![s3 + 1] = s4[c].new] /\ s1' = s1
      /\ Summaries!Goto(c, Summaries!At(IF s4[c].old = NoNode THEN "compress" ELSE "mark",
                            s4[c].todo, s4[c].old, s3 + 1, Summaries!Blank))
  BY <1>1 DEF Summaries!Insert
<1>3. PICK pc, todo, old, mine, new :
        /\ pc = IF s4[c].old = NoNode THEN "compress" ELSE "mark"
        /\ todo = s4[c].todo /\ old = s4[c].old /\ mine = s3 + 1
        /\ Summaries!Goto(c, Summaries!At(pc, todo, old, mine, new))
  BY <1>2
<1>4. /\ 1..s3 \subseteq (1..s3)' /\ mine \in (1..s3)' /\ mine \notin 1..s3 /\ mine \in 1..MaxNodes
      /\ \A n \in (1..s3)' : n = mine \/ n \in 1..s3
  BY <1>1, <1>2, <1>3
<1>5. /\ \A n \in 1..MaxNodes : s2'[n] = IF n = mine THEN s4[c].new ELSE s2[n]
      /\ s2' = [n \in 1..MaxNodes |-> s2'[n]]
  <2>1. s2 = [n \in 1..MaxNodes |-> Summaries!Summary(s2[n].from, s2[n].gen, s2[n].by)]
    BY SummariesRead
  <2>2. DOMAIN s2 = 1..MaxNodes
    BY <2>1
  <2>3. s2 = [n \in 1..MaxNodes |-> s2[n]]
    BY <2>1, <2>2
  <2> QED BY <1>2, <1>3, <2>3
<1>6. 1..s3 \subseteq 1..MaxNodes
  BY <1>1
<1>7. SummariesGrow
  BY <1>2, <1>4, <1>5, <1>6 DEF SummariesGrow
<1>8. s4' = [d \in Summarisers |-> s4'[d]] /\ \A d \in Summarisers : Summaries!CallFits(s4[d])'
  <2>1. pc \in {"compress", "mark"} /\ (pc = "mark" => old # NoNode)
    BY <1>3
  <2>2. pc = "mark" =>
          /\ old \in 1..s3 /\ s2'[mine].gen = s2[old].gen + 1
          /\ s2'[mine].from = s2[old].from \cup {-old}
    BY <1>1, <1>3, <1>4, <1>5, <2>1, SummariesRead DEF Summaries!Follows
  <2>3. \A ids \in todo : Summaries!ClusterSound(ids) /\ \A others \in todo : others = ids \/ others \cap ids = {}
    BY <1>3, SummariesRead
  <2> QED BY <1>3, <1>4, <1>7, <2>1, <2>2, <2>3, SummariesCall
<1>9. s2' = [n \in 1..MaxNodes |-> Summaries!Summary(s2'[n].from, s2'[n].gen, s2'[n].by)]
  <2>1. ASSUME NEW n \in 1..MaxNodes PROVE s2'[n] = Summaries!Summary(s2'[n].from, s2'[n].gen, s2'[n].by)
    <3>1. s4[c].new = Summaries!Summary(s4[c].new.from, s4[c].new.gen, s4[c].new.by)
      <4>1. s4[c].new = Summaries!Summary(s4[c].new.from, s4[c].new.gen, NoNode)
        BY <1>1, SummariesRead
      <4>2. s4[c].new.by = NoNode
        BY <4>1 DEF Summaries!Summary
      <4> QED BY <4>1, <4>2
    <3>2. s2[n] = Summaries!Summary(s2[n].from, s2[n].gen, s2[n].by)
      BY SummariesRead
    <3> QED BY <1>5, <3>1, <3>2
  <2> QED BY <1>5, <2>1
<1>10. ASSUME NEW n \in (1..s3)'
       PROVE  /\ s2'[n].gen \in 1..MaxRecursionDepth
              /\ s2'[n].by # NoNode => s2'[n].by \in (1..s3)' /\ Summaries!Follows(s2[s2[n].by], n)'
  <2>1. CASE n = mine
    <3>1. s2'[n] = s4[c].new /\ s4[c].new.gen \in 1..MaxRecursionDepth
      BY <1>1, <1>4, <1>5, <2>1, SummariesRead
    <3>2. s4[c].new.by = NoNode
      <4>1. s4[c].new = Summaries!Summary(s4[c].new.from, s4[c].new.gen, NoNode)
        BY <1>1, SummariesRead
      <4> QED BY <4>1 DEF Summaries!Summary
    <3> QED BY <3>1, <3>2
  <2>2. CASE n \in 1..s3
    <3>1. /\ s2[n].gen \in 1..MaxRecursionDepth
          /\ s2[n].by # NoNode => s2[n].by \in 1..s3 /\ Summaries!Follows(s2[s2[n].by], n)
      BY <2>2, SummariesRead
    <3>2. s2'[n] = s2[n]
      BY <2>2, <1>4, <1>5, <1>6
    <3> QED BY <3>1, <3>2, <2>2, <1>7 DEF SummariesGrow, Summaries!Follows
  <2> QED BY <1>4, <2>1, <2>2
<1>11. s3' \in 0..MaxNodes
  BY <1>1, <1>2
<1> QED BY <1>8, <1>9, <1>10, <1>11 DEF Summaries!CompressionInv

LEMMA SummariesMark ==
  ASSUME Summaries!CompressionAssumption, Summaries!CompressionInv, NEW c \in Summarisers, Summaries!Mark(c)
  PROVE  Summaries!CompressionInv'
<1>1. PICK old, mine : /\ s4[c].pc = "mark" /\ old = s4[c].old /\ mine = s4[c].mine /\ s1' = s1 /\ s3' = s3
                       /\ s2' = s2 \/ s2' = [s2 EXCEPT ![old] = Summaries!Summary(s2[old].from, s2[old].gen, mine)]
  BY DEF Summaries!Mark
<1>2. Summaries!Goto(c, Summaries!At("idle", {}, NoNode, NoNode, Summaries!Blank))
  BY DEF Summaries!Mark, Summaries!Quiet
<1>3. old \in 1..s3 /\ mine \in 1..s3 /\ Summaries!Follows(s2[mine], old) /\ 1..s3 \subseteq 1..MaxNodes
  BY <1>1, SummariesRead
<1>4. s2' = [n \in 1..MaxNodes |-> s2'[n]] /\
      \A n \in 1..MaxNodes : s2'[n] = s2[n] \/ (n = old /\ s2'[n] = Summaries!Summary(s2[old].from, s2[old].gen, mine))
  <2>1. s2 = [n \in 1..MaxNodes |-> Summaries!Summary(s2[n].from, s2[n].gen, s2[n].by)]
    BY SummariesRead
  <2>2. DOMAIN s2 = 1..MaxNodes
    BY <2>1
  <2>3. s2 = [n \in 1..MaxNodes |-> s2[n]]
    BY <2>1, <2>2
  <2> QED BY <1>1, <2>3
<1>5. \A n \in 1..MaxNodes : s2'[n].from = s2[n].from /\ s2'[n].gen = s2[n].gen
                           /\ (s2'[n].by = s2[n].by \/ (n = old /\ s2'[n].by = mine))
  BY <1>4 DEF Summaries!Summary
<1>6. SummariesGrow
  BY <1>1, <1>3, <1>5 DEF SummariesGrow
<1>7. PICK blank : Summaries!Goto(c, Summaries!At("idle", {}, NoNode, NoNode, blank))
  BY <1>2
<1>8. s4' = [d \in Summarisers |-> s4'[d]] /\ \A d \in Summarisers : Summaries!CallFits(s4[d])'
  BY <1>6, <1>7, SummariesCall
<1>9. s2' = [n \in 1..MaxNodes |-> Summaries!Summary(s2'[n].from, s2'[n].gen, s2'[n].by)]
  <2>1. ASSUME NEW n \in 1..MaxNodes PROVE s2'[n] = Summaries!Summary(s2'[n].from, s2'[n].gen, s2'[n].by)
    <3>1. s2[n] = Summaries!Summary(s2[n].from, s2[n].gen, s2[n].by)
      BY SummariesRead
    <3>2. CASE s2'[n] = s2[n]
      BY <3>1, <3>2
    <3>3. CASE s2'[n] = Summaries!Summary(s2[old].from, s2[old].gen, mine)
      BY <3>3 DEF Summaries!Summary
    <3> QED BY <1>4, <3>2, <3>3
  <2> QED BY <1>4, <2>1
<1>10. ASSUME NEW n \in 1..s3
       PROVE  /\ s2'[n].gen \in 1..MaxRecursionDepth
              /\ s2'[n].by # NoNode => s2'[n].by \in 1..s3 /\ Summaries!Follows(s2[s2[n].by], n)'
  <2>1. /\ s2[n].gen \in 1..MaxRecursionDepth
        /\ s2[n].by # NoNode => s2[n].by \in 1..s3 /\ Summaries!Follows(s2[s2[n].by], n)
    BY SummariesRead
  <2>2. CASE s2'[n].by = s2[n].by
    BY <1>3, <1>5, <2>1, <2>2 DEF Summaries!Follows
  <2>3. CASE n = old /\ s2'[n].by = mine
    BY <1>3, <1>5, <2>1, <2>3 DEF Summaries!Follows
  <2> QED BY <1>3, <1>5, <2>2, <2>3
<1>11. s3' \in 0..MaxNodes
  BY <1>1, SummariesRead
<1> QED BY <1>1, <1>8, <1>9, <1>10, <1>11 DEF Summaries!CompressionInv

LEMMA SummariesNextInv ==
  ASSUME Summaries!CompressionAssumption, Summaries!CompressionInv, Summaries!Next
  PROVE  Summaries!CompressionInv'
<1>1. ASSUME NEW c \in Summarisers, Summaries!Compress(c) PROVE Summaries!CompressionInv'
  <2>1. PICK ids \in s4[c].todo :
          Summaries!Goto(c, Summaries!At("insert", s4[c].todo \ {ids}, NoNode, NoNode, Summaries!Summary(ids, 1, NoNode)))
    BY <1>1 DEF Summaries!Compress
  <2>2. PICK todo, new : /\ todo = s4[c].todo \ {ids} /\ new = Summaries!Summary(ids, 1, NoNode)
                         /\ Summaries!Goto(c, Summaries!At("insert", todo, NoNode, NoNode, new))
    BY <2>1
  <2>3. UNCHANGED <<s1, s2, s3>> /\ SummariesGrow
    BY <1>1 DEF Summaries!Compress, SummariesGrow
  <2>4. new = Summaries!Summary(new.from, new.gen, NoNode) /\ new.gen = 1
    BY <2>2 DEF Summaries!Summary
  <2>5. 1 \in 1..MaxRecursionDepth
    BY SummariesRead
  <2>6. \A x \in todo : Summaries!ClusterSound(x) /\ \A y \in todo : y = x \/ y \cap x = {}
    BY <2>2, SummariesRead
  <2>7. s4' = [d \in Summarisers |-> s4'[d]] /\ \A d \in Summarisers : Summaries!CallFits(s4[d])'
    BY <2>2, <2>3, <2>4, <2>5, <2>6, SummariesCall
  <2> QED BY <2>3, <2>7, SummariesSame
<1>2. ASSUME NEW c \in Summarisers, Summaries!Goto(c, Summaries!Quiet), UNCHANGED <<s1, s2, s3>>
      PROVE  Summaries!CompressionInv'
  <2>1. PICK blank : Summaries!Goto(c, Summaries!At("idle", {}, NoNode, NoNode, blank))
    BY <1>2 DEF Summaries!Quiet
  <2>2. SummariesGrow
    BY <1>2 DEF SummariesGrow
  <2>3. s4' = [d \in Summarisers |-> s4'[d]] /\ \A d \in Summarisers : Summaries!CallFits(s4[d])'
    BY <2>1, <2>2, SummariesCall
  <2> QED BY <1>2, <2>3, SummariesSame
<1>3. ASSUME NEW c \in Summarisers, Summaries!Return(c) PROVE Summaries!CompressionInv'
  BY <1>2, <1>3 DEF Summaries!Return
<1>4. ASSUME NEW c \in Summarisers, Summaries!Insert(c) PROVE Summaries!CompressionInv'
  <2>1. CASE s3' = s3 + 1
    BY <1>4, <2>1, SummariesInsert
  <2>2. CASE Summaries!Goto(c, Summaries!Quiet) /\ UNCHANGED <<s1, s2, s3>>
    BY <1>2, <2>2
  <2> QED BY <1>4, <2>1, <2>2 DEF Summaries!Insert
<1>5. ASSUME NEW c \in Summarisers, NEW s \in 1..MaxNodes, Summaries!Recompress(c, s) PROVE Summaries!CompressionInv'
  <2>1. PICK new : /\ new = Summaries!Summary(s2[s].from \cup {-s}, s2[s].gen + 1, NoNode)
                   /\ Summaries!Goto(c, Summaries!At("insert", {}, s, NoNode, new))
    BY <1>5 DEF Summaries!Recompress
  <2>2. UNCHANGED <<s1, s2, s3>> /\ SummariesGrow /\ s <= s3 /\ s2[s].gen < MaxRecursionDepth
    BY <1>5 DEF Summaries!Recompress, SummariesGrow
  <2>3. s \in 1..s3
    BY <2>2, SummariesRead
  <2>4. new.from = s2[s].from \cup {-s} /\ new.gen = s2[s].gen + 1 /\ new = Summaries!Summary(new.from, new.gen, NoNode)
    BY <2>1 DEF Summaries!Summary
  <2>5. new.gen \in 1..MaxRecursionDepth /\ Summaries!Follows(new, s)
    BY <2>2, <2>3, <2>4, SummariesRead DEF Summaries!Follows
  <2>6. s4' = [d \in Summarisers |-> s4'[d]] /\ \A d \in Summarisers : Summaries!CallFits(s4[d])'
    BY <2>1, <2>2, <2>3, <2>4, <2>5, SummariesCall
  <2> QED BY <2>2, <2>6, SummariesSame
<1> QED BY <1>1, <1>3, <1>4, <1>5, SummariesCluster, SummariesMark DEF Summaries!Next

LEMMA SummariesAreSound ==
  ASSUME Summaries!CompressionInv
  PROVE  Summaries!SummariesSound
<1>1. ASSUME NEW c \in Summarisers, NEW ids \in s4[c].todo
      PROVE  Summaries!ClusterSound(ids) /\ \A others \in s4[c].todo : others = ids \/ others \cap ids = {}
  BY DEF Summaries!CompressionInv, Summaries!CallFits
<1> QED BY <1>1 DEF Summaries!CompressionInv, Summaries!SummariesSound, Summaries!Follows
-----------------------------------------------------------------------------
(* FrontEnds: rows, links, indexes, calls and what is stored are s1 to s5.   *)
(* What is reached from an id is the least set that has it and is closed     *)
(* under the links, so that a link that is refused when its target reaches   *)
(* its source closes no cycle.                                               *)

\* What is reached along the links L of a relation, and what it is the least
\* set of.
Reach(L, x, rel) ==
  {t \in FrontIds : \A S \in SUBSET FrontIds :
     x \in S /\ (\A a \in S, b \in FrontIds : <<a, b, rel>> \in L => b \in S) => t \in S}

LEMMA ReachFacts ==
  ASSUME NEW L, NEW rel, NEW x \in FrontIds
  PROVE  /\ x \in Reach(L, x, rel) /\ Reach(L, x, rel) \in SUBSET FrontIds
         /\ \A a \in Reach(L, x, rel), b \in FrontIds : <<a, b, rel>> \in L => b \in Reach(L, x, rel)
         /\ \A S \in SUBSET FrontIds :
              x \in S /\ (\A a \in S, b \in FrontIds : <<a, b, rel>> \in L => b \in S) => Reach(L, x, rel) \subseteq S
<1> DEFINE Closed(S) == \A a \in S, b \in FrontIds : <<a, b, rel>> \in L => b \in S
<1>1. Reach(L, x, rel) = {t \in FrontIds : \A S \in SUBSET FrontIds : x \in S /\ Closed(S) => t \in S}
  BY DEF Reach
<1>2. ASSUME NEW a \in Reach(L, x, rel), NEW b \in FrontIds, <<a, b, rel>> \in L PROVE b \in Reach(L, x, rel)
  <2>1. ASSUME NEW S \in SUBSET FrontIds, x \in S, Closed(S) PROVE b \in S
    <3>1. a \in S
      <4> HIDE DEF Closed
      <4> QED BY <1>1, <1>2, <2>1
    <3> QED BY <3>1, <1>2, <2>1
  <2> HIDE DEF Closed
  <2> QED BY <1>1, <1>2, <2>1
<1>3. x \in Reach(L, x, rel) /\ Reach(L, x, rel) \in SUBSET FrontIds
  <2> HIDE DEF Closed
  <2> QED BY <1>1
<1>4. \A S \in SUBSET FrontIds : x \in S /\ Closed(S) => Reach(L, x, rel) \subseteq S
  <2> HIDE DEF Closed
  <2> QED BY <1>1
<1> QED BY <1>2, <1>3, <1>4

\* A link that is refused when its target reaches its source closes no cycle.
LEMMA ReachNoCycle ==
  ASSUME NEW L, NEW rel, NEW s \in FrontIds, NEW t \in FrontIds, s \notin Reach(L, t, rel),
         \A a, b \in FrontIds : <<a, b, rel>> \in L => a \notin Reach(L, b, rel),
         NEW a \in FrontIds, NEW b \in FrontIds, <<a, b, rel>> \in L \cup {<<s, t, rel>>}
  PROVE  a \notin Reach(L \cup {<<s, t, rel>>}, b, rel)
<1> DEFINE M == L \cup {<<s, t, rel>>}
<1>1. ASSUME NEW x \in FrontIds, s \notin Reach(L, x, rel)
      PROVE  Reach(M, x, rel) \subseteq Reach(L, x, rel)
  <2>1. \A c \in Reach(L, x, rel), d \in FrontIds : <<c, d, rel>> \in M => d \in Reach(L, x, rel)
    BY <1>1, ReachFacts
  <2> HIDE DEF M
  <2> QED BY <2>1, ReachFacts
<1>2. ASSUME NEW x \in FrontIds
      PROVE  Reach(M, x, rel) \subseteq Reach(L, x, rel) \cup Reach(L, t, rel)
  <2> DEFINE S == Reach(L, x, rel) \cup Reach(L, t, rel)
  <2>1. S \in SUBSET FrontIds /\ x \in S
    BY ReachFacts
  <2>2. ASSUME NEW c \in S, NEW d \in FrontIds, <<c, d, rel>> \in M PROVE d \in S
    <3>1. CASE <<c, d, rel>> \in L
      BY <3>1, <2>2, ReachFacts
    <3>2. CASE <<c, d, rel>> = <<s, t, rel>>
      BY <3>2, ReachFacts
    <3> QED BY <2>2, <3>1, <3>2
  <2> HIDE DEF S, M
  <2>3. Reach(M, x, rel) \subseteq S
    BY <2>1, <2>2, ReachFacts
  <2> QED BY <2>3 DEF S
<1>3. CASE <<a, b, rel>> = <<s, t, rel>>
  BY <1>1, <1>3
<1>4. CASE <<a, b, rel>> \in L
  <2> SUFFICES ASSUME a \in Reach(M, b, rel) PROVE FALSE
    OBVIOUS
  <2>1. a \notin Reach(L, b, rel)
    BY <1>4
  <2>2. s \in Reach(L, b, rel) /\ a \in Reach(L, t, rel)
    BY <2>1, <1>1, <1>2
  <2>3. b \in Reach(L, t, rel)
    BY <2>2, <1>4, ReachFacts
  <2>4. Reach(L, b, rel) \subseteq Reach(L, t, rel)
    BY <2>3, ReachFacts
  <2> QED BY <2>2, <2>4
<1> QED BY <1>3, <1>4

\* Only links of the relation count.
LEMMA ReachOther ==
  ASSUME NEW L, NEW M, NEW rel, \A a, b \in FrontIds : <<a, b, rel>> \in L <=> <<a, b, rel>> \in M, NEW x
  PROVE  Reach(L, x, rel) = Reach(M, x, rel)
<1>1. ASSUME NEW S \in SUBSET FrontIds
      PROVE (\A a \in S, b \in FrontIds : <<a, b, rel>> \in L => b \in S)
            <=> (\A a \in S, b \in FrontIds : <<a, b, rel>> \in M => b \in S)
  OBVIOUS
<1> QED BY <1>1 DEF Reach

NoCycle(L) ==
  \A rel : rel # "related_to" =>
    \A a, b \in FrontIds : <<a, b, rel>> \in L => a \notin Reach(L, b, rel)

CyclicIn(L, x, rel) ==
  \E a \in Reach(L, x, rel) : \E b \in Reach(L, x, rel) : <<a, b, rel>> \in L /\ a \in Reach(L, b, rel)

LEMMA NoCycleMeans ==
  ASSUME NEW L
  PROVE  NoCycle(L) <=> \A l \in L : l[3] # "related_to" => ~CyclicIn(L, l[1], l[3])
<1>1. ASSUME NoCycle(L), NEW l \in L, l[3] # "related_to", CyclicIn(L, l[1], l[3]) PROVE FALSE
  <2>1. PICK s \in Reach(L, l[1], l[3]), t \in Reach(L, l[1], l[3]) :
           <<s, t, l[3]>> \in L /\ s \in Reach(L, t, l[3])
    BY <1>1 DEF CyclicIn
  <2>2. s \in FrontIds /\ t \in FrontIds
    BY <2>1 DEF Reach
  <2> QED BY <1>1, <2>1, <2>2 DEF NoCycle
<1>2. ASSUME \A l \in L : l[3] # "related_to" => ~CyclicIn(L, l[1], l[3]),
             NEW rel, rel # "related_to", NEW a \in FrontIds, NEW b \in FrontIds, <<a, b, rel>> \in L,
             a \in Reach(L, b, rel)
      PROVE  FALSE
  <2>1. ~CyclicIn(L, a, rel)
    <3>1. <<a, b, rel>>[3] = rel /\ <<a, b, rel>>[1] = a
      OBVIOUS
    <3> QED BY <3>1, <1>2
  <2>2. a \in Reach(L, a, rel) /\ b \in Reach(L, a, rel)
    BY <1>2, ReachFacts
  <2> QED BY <1>2, <2>1, <2>2 DEF CyclicIn
<1> QED BY <1>1, <1>2 DEF NoCycle

\* The same of the links there are, before and after a step.
LEMMA FrontReach ==
  \A x, rel : /\ Front!Reached(x, rel) = Reach(s2, x, rel) /\ Front!Reached(x, rel)' = Reach(s2', x, rel)
              /\ Front!Cyclic(x, rel) = CyclicIn(s2, x, rel) /\ Front!Cyclic(x, rel)' = CyclicIn(s2', x, rel)
<1>1. \A x, rel : Front!Reached(x, rel) = Reach(s2, x, rel) /\ Front!Reached(x, rel)' = Reach(s2', x, rel)
  BY DEF Front!Reached, Reach
<1> QED BY <1>1 DEF Front!Cyclic, CyclicIn

LEMMA FrontCycles ==
  /\ Front!CyclesAreLinks <=>
       NoCycle(s2) /\ \A c \in FrontCallers : s4[c].at = "hung" => s4[c].req.relation = "related_to"
  /\ Front!CyclesAreLinks' <=>
       NoCycle(s2') /\ \A c \in FrontCallers : s4'[c].at = "hung" => s4'[c].req.relation = "related_to"
BY NoCycleMeans, FrontReach DEF Front!CyclesAreLinks, Front!At

-----------------------------------------------------------------------------
\* The calls still fit, if what c does fits and the index keeps what others
\* are about to write.
LEMMA FrontGoes ==
  ASSUME Front!FrontInv, NEW c \in FrontCallers,
         NEW label, NEW req, NEW writes, NEW vec, NEW near, NEW todo, NEW spoiled,
         s4' = [s4 EXCEPT ![c] = Front!Call(label, req, writes, vec, near, todo, spoiled)],
         label # "idle" => req \in Requests /\ writes \in FrontIds /\ vec \in BOOLEAN,
         label # "idle" /\ req.do = "edge" =>
           label \in {"endpoint", "embed", "upsert", "insert", "edge", "hung"} /\ todo \in Seq(FrontIds),
         label = "endpoint" => req.do = "edge", label = "context" => req.do = "task",
         label = "hung" => req.relation = "related_to",
         label = "insert" /\ vec /\ ~spoiled => writes \in s3'[FrontProc[c]],
         \A d \in FrontCallers \ {c} : s4[d].at = "insert" /\ s4[d].vec /\ ~s4[d].spoiled =>
           s4[d].writes \in s3'[FrontProc[d]]
  PROVE  /\ s4' = [d \in FrontCallers |-> s4'[d]] /\ \A d \in FrontCallers : Front!CallFits(d)'
         /\ s4'[c] = Front!Call(label, req, writes, vec, near, todo, spoiled)
         /\ \A d \in FrontCallers \ {c} : s4'[d] = s4[d]
<1>1. s4 = [d \in FrontCallers |-> s4[d]] /\ \A d \in FrontCallers : Front!CallFits(d)
  BY DEF Front!FrontInv
<1>2. /\ s4' = [d \in FrontCallers |-> s4'[d]]
      /\ s4'[c] = Front!Call(label, req, writes, vec, near, todo, spoiled)
      /\ \A d \in FrontCallers \ {c} : s4'[d] = s4[d]
  BY <1>1
<1>3. Front!CallFits(c)'
  <2>1. PICK new : new = Front!Call(label, req, writes, vec, near, todo, spoiled)
    OBVIOUS
  <2>2. new = Front!Call(new.at, new.req, new.writes, new.vec, new.near, new.todo, new.spoiled)
        /\ new.at = label /\ new.req = req /\ new.writes = writes /\ new.vec = vec
        /\ new.todo = todo /\ new.spoiled = spoiled
    BY <2>1 DEF Front!Call
  <2>3. s4'[c] = new
    BY <1>2, <2>1
  <2> QED BY <2>2, <2>3 DEF Front!CallFits, Front!At, Front!Call
<1>4. ASSUME NEW d \in FrontCallers, d # c PROVE Front!CallFits(d)'
  <2>1. Front!CallFits(d) /\ s4'[d] = s4[d]
    BY <1>1, <1>2, <1>4
  <2> QED BY <2>1, <1>4 DEF Front!CallFits, Front!At
<1> QED BY <1>2, <1>3, <1>4

\* A caller that writes no row goes on, and the rows and indexes stay.
LEMMA FrontQuiet ==
  ASSUME Front!FrontInv, NEW c \in FrontCallers,
         NEW label, NEW req, NEW writes, NEW vec, NEW near, NEW todo, NEW spoiled,
         s4' = [s4 EXCEPT ![c] = Front!Call(label, req, writes, vec, near, todo, spoiled)],
         UNCHANGED <<s1, s3, s5>>, s4[c].at # "insert", label # "insert", NoCycle(s2'),
         label # "idle" => req \in Requests /\ writes \in FrontIds /\ vec \in BOOLEAN,
         label # "idle" /\ req.do = "edge" =>
           label \in {"endpoint", "embed", "upsert", "insert", "edge", "hung"} /\ todo \in Seq(FrontIds),
         label = "endpoint" => req.do = "edge", label = "context" => req.do = "task",
         label = "hung" => req.relation = "related_to"
  PROVE  Front!FrontInv'
<1>1. \A d \in FrontCallers : s4[d].at = "insert" /\ s4[d].vec /\ ~s4[d].spoiled => s4[d].writes \in s3[FrontProc[d]]
  BY DEF Front!FrontInv, Front!CallFits, Front!At
<1>2. /\ s4' = [d \in FrontCallers |-> s4'[d]] /\ \A d \in FrontCallers : Front!CallFits(d)'
      /\ s4'[c] = Front!Call(label, req, writes, vec, near, todo, spoiled)
      /\ \A d \in FrontCallers \ {c} : s4'[d] = s4[d]
  BY <1>1, FrontGoes
<1>3. Front!FindsItsOwn'
  BY DEF Front!FrontInv, Front!FrontEndsSound, Front!FindsItsOwn
<1>4. Front!NothingForeign'
  BY <1>2 DEF Front!FrontInv, Front!FrontEndsSound, Front!NothingForeign, Front!At
<1>5. Front!CyclesAreLinks'
  <2>1. \A d \in FrontCallers : s4'[d].at = "hung" => s4'[d].req.relation = "related_to"
    BY <1>2 DEF Front!CallFits, Front!At
  <2> QED BY <2>1, FrontCycles
<1>6. Front!TypeOK'
  BY DEF Front!FrontInv, Front!TypeOK
<1> QED BY <1>2, <1>3, <1>4, <1>5, <1>6 DEF Front!FrontInv, Front!FrontEndsSound

\* Nothing happens to the links, or one is added that closes no cycle.
LEMMA FrontAddEdge ==
  ASSUME Front!FrontEndsAssumption, Front!FrontInv, NEW c \in FrontCallers, NEW s \in FrontIds, NEW t \in FrontIds,
         NEW relation, Front!AddEdge(c, s, t, relation)
  PROVE  /\ NoCycle(s2')
         /\ \/ Front!Goto(c, "hung") /\ relation = "related_to"
            \/ IF s4[c].at = "edge" THEN Front!End(c) ELSE Front!GotoWith(c, s4[c].at, Tail(s4[c].todo))
<1>1. NoCycle(s2)
  BY FrontCycles DEF Front!FrontInv, Front!FrontEndsSound
<1>2. ASSUME s2' = s2 \cup {<<s, t, relation>>}, ~Front!Refuses(s, t, relation) PROVE NoCycle(s2')
  <2>1. s \notin Reach(s2, t, relation)
    BY <1>2, FrontReach DEF Front!Refuses
  <2>2. ASSUME NEW rel, rel # "related_to", NEW a \in FrontIds, NEW b \in FrontIds, <<a, b, rel>> \in s2'
        PROVE  a \notin Reach(s2', b, rel)
    <3>1. \A p, q \in FrontIds : <<p, q, rel>> \in s2 => p \notin Reach(s2, q, rel)
      BY <1>1, <2>2 DEF NoCycle
    <3>2. CASE rel = relation
      BY <3>1, <3>2, <2>1, <2>2, <1>2, ReachNoCycle
    <3>3. CASE rel # relation
      <4>1. \A p, q \in FrontIds : <<p, q, rel>> \in s2' <=> <<p, q, rel>> \in s2
        BY <1>2, <3>3
      <4>2. Reach(s2', b, rel) = Reach(s2, b, rel)
        BY <4>1, ReachOther
      <4> QED BY <2>2, <3>1, <4>1, <4>2
    <3> QED BY <3>2, <3>3
  <2> QED BY <2>2 DEF NoCycle
<1>3. ASSUME s2' = s2 PROVE NoCycle(s2')
  BY <1>1, <1>3
<1>4. ASSUME relation # "related_to", Front!Cyclic(t, relation) PROVE FALSE
  <2>1. PICK a \in Reach(s2, t, relation), b \in Reach(s2, t, relation) :
           <<a, b, relation>> \in s2 /\ a \in Reach(s2, b, relation)
    BY <1>4, FrontReach DEF CyclicIn
  <2>2. a \in FrontIds /\ b \in FrontIds
    BY <2>1 DEF Reach
  <2> QED BY <1>1, <1>4, <2>1, <2>2 DEF NoCycle
<1> QED BY <1>2, <1>3, <1>4 DEF Front!AddEdge, Front!At

\* A link that the search made is of no other relation.
LEMMA FrontRelated ==
  ASSUME NoCycle(s2), NEW s, NEW t, s2' = s2 \cup {<<s, t, "related_to">>}
  PROVE  NoCycle(s2')
<1> SUFFICES ASSUME NEW rel, rel # "related_to", NEW a \in FrontIds, NEW b \in FrontIds, <<a, b, rel>> \in s2'
             PROVE  a \notin Reach(s2', b, rel)
  BY DEF NoCycle
<1>1. \A p, q \in FrontIds : <<p, q, rel>> \in s2' <=> <<p, q, rel>> \in s2
  OBVIOUS
<1>2. Reach(s2', b, rel) = Reach(s2, b, rel)
  BY <1>1, ReachOther
<1> QED BY <1>1, <1>2 DEF NoCycle

\* What a call says that is under way.
LEMMA FrontRead ==
  ASSUME Front!FrontEndsAssumption, Front!FrontInv, NEW c \in FrontCallers
  PROVE  LET k == s4[c] IN
         /\ NoCycle(s2) /\ FrontProc[c] \in Procs
         /\ k.at # "idle" =>
              /\ k.req \in Requests /\ k.writes \in FrontIds /\ k.vec \in BOOLEAN
              /\ k.req.id \in FrontIds /\ k.req.to \subseteq FrontIds
              /\ k.req.do \in {"store", "task", "edge", "search"}
              /\ k.req.do # "edge" => k.req.relation = "related_to"
              /\ k.req.do = "edge" =>
                   k.at \in {"endpoint", "embed", "upsert", "insert", "edge", "hung"} /\ k.todo \in Seq(FrontIds)
         /\ k.at = "endpoint" => k.req.do = "edge"
         /\ k.at = "context" => k.req.do = "task"
<1>1. NoCycle(s2)
  BY FrontCycles DEF Front!FrontInv, Front!FrontEndsSound
<1>2. Front!CallFits(c)
  BY DEF Front!FrontInv
<1> QED BY <1>1, <1>2 DEF Front!FrontEndsAssumption, Front!CallFits, Front!At

\* A call returns, or goes on to what fits its request.
LEMMA FrontReturns ==
  ASSUME Front!FrontInv, NEW c \in FrontCallers, Front!End(c),
         UNCHANGED <<s1, s3, s5>>, s4[c].at # "insert", NoCycle(s2')
  PROVE  Front!FrontInv'
<1>1. PICK label, req, writes, vec, near, todo, spoiled :
        label = "idle" /\ s4' = [s4 EXCEPT ![c] = Front!Call(label, req, writes, vec, near, todo, spoiled)]
  BY DEF Front!End, Front!Idle
<1>2. label # "insert" /\ label # "endpoint" /\ label # "context" /\ label # "hung" /\ ~(label # "idle")
  BY <1>1
<1> QED BY <1>1, <1>2, FrontQuiet

LEMMA FrontGoesOn ==
  ASSUME Front!FrontEndsAssumption, Front!FrontInv, NEW c \in FrontCallers,
         NEW label, NEW writes \in FrontIds, NEW vec \in BOOLEAN, NEW near, NEW todo,
         Front!Goes(c, label, writes, vec, near, todo),
         UNCHANGED <<s1, s3, s5>>, s4[c].at \notin {"idle", "insert"}, label \notin {"idle", "insert"}, NoCycle(s2'),
         s4[c].req.do = "edge" =>
           label \in {"endpoint", "embed", "upsert", "edge", "hung"} /\ todo \in Seq(FrontIds),
         label = "endpoint" => s4[c].req.do = "edge", label = "context" => s4[c].req.do = "task",
         label = "hung" => s4[c].req.relation = "related_to"
  PROVE  Front!FrontInv'
<1>1. PICK req, spoiled : /\ req = s4[c].req
                          /\ s4' = [s4 EXCEPT ![c] = Front!Call(label, req, writes, vec, near, todo, spoiled)]
  BY DEF Front!Goes
<1>2. req \in Requests
  BY <1>1, FrontRead
<1> QED BY <1>1, <1>2, FrontQuiet

LEMMA FrontEmbed ==
  ASSUME Front!FrontEndsAssumption, Front!FrontInv, NEW c \in FrontCallers, Front!EmbedOk(c) \/ Front!EmbedErr(c)
  PROVE  Front!FrontInv'
<1>1. s4[c].at \in {"embed", "again"} /\ UNCHANGED <<s1, s2, s3, s5>>
  BY DEF Front!EmbedOk, Front!EmbedErr, Front!At
<1>2. NoCycle(s2') /\ s4[c].writes \in FrontIds /\ s4[c].vec \in BOOLEAN
      /\ (s4[c].req.do = "edge" => s4[c].todo \in Seq(FrontIds))
  BY <1>1, FrontRead
<1>3. CASE Front!EmbedOk(c)
  <2>1. PICK label, near :
          /\ label = IF s4[c].req.do = "search" THEN "search" ELSE "upsert"
          /\ Front!Goes(c, label, s4[c].writes, TRUE, near, s4[c].todo)
    BY <1>3 DEF Front!EmbedOk
  <2>2. label \in {"search", "upsert"} /\ (s4[c].req.do = "edge" => label = "upsert")
    BY <2>1
  <2> QED BY <1>1, <1>2, <2>1, <2>2, FrontGoesOn
<1>4. CASE Front!EmbedErr(c)
  <2>1. CASE Front!End(c)
    BY <1>1, <1>2, <2>1, FrontReturns
  <2>2. CASE ~Front!End(c)
    <3>1. PICK label \in {"again", "upsert"} : Front!Goto(c, label) /\ s4[c].req.do \in {"store", "task"}
      BY <1>4, <2>2 DEF Front!EmbedErr
    <3> QED BY <1>1, <1>2, <3>1, FrontGoesOn DEF Front!Goto, Front!GotoWith
  <2> QED BY <2>1, <2>2
<1> QED BY <1>3, <1>4

LEMMA FrontEdges ==
  ASSUME Front!FrontEndsAssumption, Front!FrontInv, NEW c \in FrontCallers,
         Front!Endpoint(c) \/ Front!EdgeOf(c) \/ Front!Context(c)
  PROVE  Front!FrontInv'
<1> DEFINE k == s4[c]
<1>1. k.at \in {"endpoint", "edge", "context"} /\ UNCHANGED <<s1, s3, s5>>
  BY DEF Front!Endpoint, Front!EdgeOf, Front!Context, Front!At
<1>2. k.writes \in FrontIds /\ k.vec \in BOOLEAN /\ NoCycle(s2) /\ (k.req.do = "edge" => k.todo \in Seq(FrontIds))
  BY <1>1, FrontRead
<1>3. ASSUME NEW label \in {"edge", "hung", "link"}, Front!Goto(c, label), NoCycle(s2'),
             label = "hung" => k.req.relation = "related_to", label = "link" => k.req.do # "edge"
      PROVE  Front!FrontInv'
  BY <1>1, <1>2, <1>3, FrontGoesOn DEF Front!Goto, Front!GotoWith
<1>4. CASE Front!Endpoint(c)
  <2>1. s2' = s2 /\ k.at = "endpoint" /\ k.req.do = "edge"
    BY <1>4, FrontRead DEF Front!Endpoint, Front!At
  <2>2. CASE k.todo = <<>>
    BY <1>2, <1>3, <1>4, <2>1, <2>2 DEF Front!Endpoint
  <2>3. CASE k.todo # <<>>
    <3>1. Head(k.todo) \in FrontIds /\ Tail(k.todo) \in Seq(FrontIds)
      BY <1>2, <2>1, <2>3, HeadTailProperties
    <3>2. PICK label \in {"endpoint", "embed"} : Front!Goes(c, label, Head(k.todo), k.vec, k.near, Tail(k.todo))
      BY <1>4, <2>3 DEF Front!Endpoint
    <3> QED BY <1>1, <1>2, <2>1, <3>1, <3>2, FrontGoesOn
  <2> QED BY <2>2, <2>3
<1>5. CASE Front!EdgeOf(c)
  <2>1. PICK t \in k.req.to : k.at = "edge" /\ Front!AddEdge(c, k.req.id, t, k.req.relation)
    BY <1>5 DEF Front!EdgeOf, Front!At
  <2>2. k.req.id \in FrontIds /\ t \in FrontIds
    BY <2>1, FrontRead
  <2>3. NoCycle(s2') /\ ((Front!Goto(c, "hung") /\ k.req.relation = "related_to") \/ Front!End(c))
    BY <2>1, <2>2, FrontAddEdge
  <2> QED BY <1>1, <1>3, <2>1, <2>3, FrontReturns
<1>6. CASE Front!Context(c)
  <2>1. k.at = "context" /\ k.req.do = "task" /\ k.req.relation = "related_to"
    BY <1>6, FrontRead DEF Front!Context, Front!At
  <2>2. CASE Front!Goto(c, "link") /\ s2' = s2
    BY <1>2, <1>3, <2>1, <2>2
  <2>3. CASE Front!AddEdge(c, k.req.id, Head(k.todo), "related_to")
    <3>1. NoCycle(s2')
      <4>1. s2' = s2 \/ s2' = s2 \cup {<<k.req.id, Head(k.todo), "related_to">>}
        BY <2>3 DEF Front!AddEdge
      <4> QED BY <1>2, <4>1, FrontRelated
    <3>2. Front!Goto(c, "hung") \/ Front!GotoWith(c, "context", Tail(k.todo))
      BY <2>1, <2>3 DEF Front!AddEdge, Front!At
    <3>3. CASE Front!GotoWith(c, "context", Tail(k.todo))
      BY <1>1, <1>2, <2>1, <3>1, <3>3, FrontGoesOn DEF Front!GotoWith
    <3> QED BY <1>3, <2>1, <3>1, <3>2, <3>3
  <2> QED BY <1>6, <2>2, <2>3 DEF Front!Context
<1> QED BY <1>4, <1>5, <1>6

LEMMA FrontFinds ==
  ASSUME Front!FrontEndsAssumption, Front!FrontInv, NEW c \in FrontCallers,
         Front!Link(c) \/ Front!Linking(c) \/ Front!Find(c) \/ Front!Answer(c)
  PROVE  Front!FrontInv'
<1> DEFINE k == s4[c]
<1>1. k.at \in {"link", "linking", "search", "done"} /\ UNCHANGED <<s1, s3, s5>>
  BY DEF Front!Link, Front!Linking, Front!Find, Front!Answer, Front!At
<1>2. NoCycle(s2')
  <2>1. s2' = s2 \/ s2' = s2 \cup {<<k.req.id, Head(k.todo), "related_to">>}
    BY DEF Front!Link, Front!Linking, Front!Find, Front!Answer
  <2> QED BY <2>1, FrontRead, FrontRelated
<1>3. k.writes \in FrontIds /\ k.vec \in BOOLEAN /\ k.req.do # "edge"
  BY <1>1, FrontRead
<1>4. ASSUME NEW label \in {"linking", "done"}, NEW todo, Front!GotoWith(c, label, todo)
      PROVE  Front!FrontInv'
  BY <1>1, <1>2, <1>3, <1>4, FrontGoesOn DEF Front!GotoWith
<1>5. CASE Front!Answer(c)
  BY <1>1, <1>2, <1>5, FrontReturns DEF Front!Answer
<1>6. CASE Front!Link(c) \/ Front!Find(c)
  BY <1>4, <1>6 DEF Front!Link, Front!Find, Front!Goto
<1>7. CASE Front!Linking(c)
  BY <1>4, <1>7 DEF Front!Linking, Front!Goto
<1> QED BY <1>5, <1>6, <1>7

LEMMA FrontUpsert ==
  ASSUME Front!FrontEndsAssumption, Front!FrontInv, NEW c \in FrontCallers, Front!Upsert(c)
  PROVE  Front!FrontInv'
<1> DEFINE k == s4[c]
<1>1. k.at = "upsert" /\ UNCHANGED <<s1, s2, s5>> /\ Front!Goto(c, "insert")
  BY DEF Front!Upsert, Front!At
<1>2. /\ k.req \in Requests /\ k.writes \in FrontIds /\ k.vec \in BOOLEAN /\ FrontProc[c] \in Procs
      /\ (k.req.do = "edge" => k.todo \in Seq(FrontIds)) /\ NoCycle(s2)
  BY <1>1, FrontRead
<1>3. /\ s3 \in [Procs -> SUBSET FrontIds] /\ s3' \in [Procs -> SUBSET FrontIds]
      /\ \A p \in Procs : s3[p] \subseteq s3'[p]
      /\ \A p \in Procs : \A id \in s3'[p] : id \in s3[p] \/ (p = FrontProc[c] /\ id = k.writes /\ k.vec)
      /\ k.vec => k.writes \in s3'[FrontProc[c]]
  <2>1. s3 \in [Procs -> SUBSET FrontIds]
    BY DEF Front!FrontInv, Front!TypeOK
  <2>2. s3' = IF k.vec THEN [s3 EXCEPT ![FrontProc[c]] = @ \cup {k.writes}] ELSE s3
    BY DEF Front!Upsert
  <2> QED BY <1>2, <2>1, <2>2
<1>4. \A d \in FrontCallers \ {c} : s4[d].at = "insert" /\ s4[d].vec /\ ~s4[d].spoiled =>
        s4[d].writes \in s3'[FrontProc[d]]
  BY <1>3 DEF Front!FrontInv, Front!CallFits, Front!At, Front!FrontEndsAssumption
<1>5. PICK label, req, writes, vec, near, todo, spoiled :
        /\ label = "insert" /\ req = k.req /\ writes = k.writes /\ vec = k.vec /\ todo = k.todo
        /\ s4' = [s4 EXCEPT ![c] = Front!Call(label, req, writes, vec, near, todo, spoiled)]
  BY <1>1 DEF Front!Goto, Front!GotoWith, Front!Goes
<1>6. /\ s4' = [d \in FrontCallers |-> s4'[d]] /\ \A d \in FrontCallers : Front!CallFits(d)'
      /\ s4'[c] = Front!Call(label, req, writes, vec, near, todo, spoiled)
      /\ \A d \in FrontCallers \ {c} : s4'[d] = s4[d]
  <2>1. /\ req \in Requests /\ writes \in FrontIds /\ vec \in BOOLEAN
        /\ (req.do = "edge" => todo \in Seq(FrontIds)) /\ (vec => writes \in s3'[FrontProc[c]])
        /\ label = "insert"
        /\ label \in {"endpoint", "embed", "upsert", "insert", "edge", "hung"}
        /\ label \notin {"endpoint", "context", "hung"}
    BY <1>2, <1>3, <1>5
  <2> HIDE DEF k
  <2> QED BY <1>4, <1>5, <2>1, FrontGoes
<1>7. s4'[c].at = "insert" /\ s4'[c].vec = vec /\ s4'[c].writes = writes
  BY <1>5, <1>6 DEF Front!Call
<1>8. Front!FindsItsOwn'
  BY <1>1, <1>3 DEF Front!FrontInv, Front!TypeOK, Front!FrontEndsSound, Front!FindsItsOwn
<1>9. Front!NothingForeign'
  <2> SUFFICES ASSUME NEW p \in Procs, NEW id \in s3'[p], s1[id] = None
               PROVE  \E d \in FrontCallers : FrontProc[d] = p /\ s4'[d].vec /\ s4'[d].writes = id /\ s4'[d].at = "insert"
    BY <1>1 DEF Front!NothingForeign, Front!At
  <2>1. CASE id \in s3[p]
    <3>1. PICK d \in FrontCallers : FrontProc[d] = p /\ s4[d].vec /\ s4[d].writes = id /\ s4[d].at = "insert"
      BY <2>1 DEF Front!FrontInv, Front!FrontEndsSound, Front!NothingForeign, Front!At
    <3> QED BY <3>1, <1>1, <1>6
  <2>2. CASE p = FrontProc[c] /\ id = k.writes /\ k.vec
    BY <2>2, <1>5, <1>7
  <2> QED BY <1>3, <2>1, <2>2
<1>10. Front!CyclesAreLinks'
  <2>1. \A d \in FrontCallers : s4'[d].at = "hung" => s4'[d].req.relation = "related_to"
    BY <1>6 DEF Front!CallFits, Front!At
  <2> QED BY <1>1, <1>2, <2>1, FrontCycles
<1>11. Front!TypeOK'
  BY <1>1, <1>3 DEF Front!FrontInv, Front!TypeOK
<1> QED BY <1>6, <1>8, <1>9, <1>10, <1>11 DEF Front!FrontInv, Front!FrontEndsSound

LEMMA FrontInsert ==
  ASSUME Front!FrontEndsAssumption, Front!FrontInv, NEW c \in FrontCallers, Front!Insert(c)
  PROVE  Front!FrontInv'
<1> DEFINE k == s4[c]
           new == [category |-> k.req.category, vec |-> k.vec, shell |-> k.req.do = "edge"]
<1>1. k.at = "insert" /\ UNCHANGED <<s2, s3>> /\ s1' = [s1 EXCEPT ![k.writes] = new]
  BY DEF Front!Insert, Front!At
<1>2. /\ k.req \in Requests /\ k.writes \in FrontIds /\ k.vec \in BOOLEAN /\ FrontProc[c] \in Procs
      /\ (k.req.do = "edge" => k.todo \in Seq(FrontIds)) /\ NoCycle(s2)
  BY <1>1, FrontRead
<1>3. Front!TypeOK /\ Front!CallFits(c)
  BY DEF Front!FrontInv
<1>4. new # None /\ new \in [category : {r.category : r \in Requests}, vec : BOOLEAN, shell : BOOLEAN]
  BY <1>2 DEF Front!FrontEndsAssumption
<1>5. /\ s1'[k.writes] # None /\ \A id \in FrontIds \ {k.writes} : s1'[id] = s1[id]
      /\ s1' \in [FrontIds -> {None} \cup [category : {r.category : r \in Requests}, vec : BOOLEAN, shell : BOOLEAN]]
  <2>1. s1 \in [FrontIds -> {None} \cup [category : {r.category : r \in Requests}, vec : BOOLEAN, shell : BOOLEAN]]
    BY <1>3 DEF Front!TypeOK
  <2> HIDE DEF new
  <2> QED BY <1>1, <1>2, <1>4, <2>1
<1>6. PICK label, req, writes, vec, near, todo, spoiled :
        /\ req = k.req /\ writes = k.writes /\ vec = k.vec
        /\ label \in {"endpoint", "context", "link", "done"}
        /\ (label = "endpoint" <=> k.req.do = "edge") /\ (label = "context" <=> k.req.do = "task")
        /\ (k.req.do = "edge" => todo = k.todo)
        /\ s4' = [s4 EXCEPT ![c] = Front!Call(label, req, writes, vec, near, todo, spoiled)]
  <2>1. PICK label, todo : /\ Front!GotoWith(c, label, todo) /\ label = Front!AfterRow(c)
                           /\ (k.req.do # "task" => todo = k.todo)
    BY DEF Front!Insert
  <2>2. /\ label \in {"endpoint", "context", "link", "done"}
        /\ (label = "endpoint" <=> k.req.do = "edge") /\ (label = "context" <=> k.req.do = "task")
    BY <2>1 DEF Front!AfterRow
  <2> QED BY <2>1, <2>2 DEF Front!GotoWith, Front!Goes
<1>7. \A d \in FrontCallers : s4[d].at = "insert" /\ s4[d].vec /\ ~s4[d].spoiled =>
        s4[d].writes \in s3[FrontProc[d]]
  BY DEF Front!FrontInv, Front!CallFits, Front!At
<1>8. /\ s4' = [d \in FrontCallers |-> s4'[d]] /\ \A d \in FrontCallers : Front!CallFits(d)'
      /\ s4'[c] = Front!Call(label, req, writes, vec, near, todo, spoiled)
      /\ \A d \in FrontCallers \ {c} : s4'[d] = s4[d]
  <2>1. /\ label # "idle" => req \in Requests /\ writes \in FrontIds /\ vec \in BOOLEAN
        /\ label # "idle" /\ req.do = "edge" =>
             label \in {"endpoint", "embed", "upsert", "insert", "edge", "hung"} /\ todo \in Seq(FrontIds)
        /\ label = "endpoint" => req.do = "edge"
        /\ label = "context" => req.do = "task"
        /\ label # "hung" /\ label # "insert"
    BY <1>2, <1>6
  <2> QED BY <1>1, <1>6, <1>7, <2>1, FrontGoes
<1>9. Front!FindsItsOwn' /\ s5' \subseteq Procs \X FrontIds
  <2>1. s5' = LET a == <<FrontProc[c], k.writes>> IN IF k.vec /\ ~k.spoiled THEN s5 \cup {a} ELSE s5 \ {a}
    BY DEF Front!Insert
  <2>2. k.vec /\ ~k.spoiled => k.writes \in s3[FrontProc[c]]
    BY <1>1, <1>7
  <2> QED BY <1>1, <1>2, <1>3, <2>1, <2>2 DEF Front!FrontInv, Front!TypeOK, Front!FrontEndsSound, Front!FindsItsOwn
<1>10. Front!NothingForeign'
  <2> SUFFICES ASSUME NEW p \in Procs, NEW id \in s3[p], s1'[id] = None
               PROVE  \E d \in FrontCallers : FrontProc[d] = p /\ s4'[d].vec /\ s4'[d].writes = id /\ s4'[d].at = "insert"
    BY <1>1 DEF Front!NothingForeign, Front!At
  <2>1. id \in FrontIds /\ id # k.writes /\ s1[id] = None
    BY <1>3, <1>5 DEF Front!TypeOK
  <2>2. PICK d \in FrontCallers : FrontProc[d] = p /\ s4[d].vec /\ s4[d].writes = id /\ s4[d].at = "insert"
    BY <2>1 DEF Front!FrontInv, Front!FrontEndsSound, Front!NothingForeign, Front!At
  <2> QED BY <2>1, <2>2, <1>8
<1>11. Front!CyclesAreLinks'
  <2>1. \A d \in FrontCallers : s4'[d].at = "hung" => s4'[d].req.relation = "related_to"
    BY <1>8 DEF Front!CallFits, Front!At
  <2> QED BY <1>1, <1>2, <2>1, FrontCycles
<1>12. Front!TypeOK'
  BY <1>1, <1>3, <1>5, <1>9 DEF Front!TypeOK
<1> QED BY <1>8, <1>9, <1>10, <1>11, <1>12 DEF Front!FrontInv, Front!FrontEndsSound

LEMMA FrontInsertErr ==
  ASSUME Front!FrontEndsAssumption, Front!FrontInv, NEW c \in FrontCallers, Front!InsertErr(c)
  PROVE  Front!FrontInv'
<1> DEFINE k == s4[c]
           took(d) == FrontProc[d] = FrontProc[c] /\ k.vec /\ s4[d].at = "insert" /\ s4[d].writes = k.writes
<1>1. k.at = "insert" /\ UNCHANGED <<s1, s2>>
  BY DEF Front!InsertErr, Front!At
<1>2. k.writes \in FrontIds /\ k.vec \in BOOLEAN /\ FrontProc[c] \in Procs /\ NoCycle(s2)
  BY <1>1, FrontRead
<1>3. Front!TypeOK /\ \A d \in FrontCallers : Front!CallFits(d)
  BY DEF Front!FrontInv
<1>4. /\ s3' \in [Procs -> SUBSET FrontIds]
      /\ \A p \in Procs : s3'[p] = IF k.vec /\ p = FrontProc[c] THEN s3[p] \ {k.writes} ELSE s3[p]
  <2>1. s3' = IF k.vec THEN [s3 EXCEPT ![FrontProc[c]] = @ \ {k.writes}] ELSE s3
    BY DEF Front!InsertErr, Front!Withdraw
  <2>2. s3 \in [Procs -> SUBSET FrontIds]
    BY <1>3 DEF Front!TypeOK
  <2> QED BY <1>2, <2>1, <2>2
<1>5. s5' = IF k.vec THEN s5 \ {<<FrontProc[c], k.writes>>} ELSE s5
  BY DEF Front!InsertErr
<1>6. /\ s4' = [d \in FrontCallers |-> s4'[d]] /\ s4'[c] = Front!Idle
      /\ \A d \in FrontCallers \ {c} :
           s4'[d] = IF took(d)
                    THEN Front!Call("insert", s4[d].req, s4[d].writes, s4[d].vec, s4[d].near, s4[d].todo, TRUE)
                    ELSE s4[d]
  BY DEF Front!InsertErr, Front!At
<1>7. Front!CallFits(c)'
  BY <1>6 DEF Front!CallFits, Front!At, Front!Idle, Front!Call
<1>8. ASSUME NEW d \in FrontCallers, d # c PROVE Front!CallFits(d)'
  <2>1. Front!CallFits(d)
    BY <1>3
  <2>2. CASE took(d)
    <3>1. PICK new : new = Front!Call("insert", s4[d].req, s4[d].writes, s4[d].vec, s4[d].near, s4[d].todo, TRUE)
      OBVIOUS
    <3>2. /\ new = Front!Call(new.at, new.req, new.writes, new.vec, new.near, new.todo, new.spoiled)
          /\ new.at = "insert" /\ new.req = s4[d].req /\ new.writes = s4[d].writes /\ new.vec = s4[d].vec
          /\ new.todo = s4[d].todo /\ new.spoiled
      BY <3>1 DEF Front!Call
    <3>3. s4'[d] = new
      BY <1>6, <1>8, <2>2, <3>1
    <3>4. s4[d].at = "insert"
      BY <2>2
    <3> HIDE DEF took
    <3> QED BY <2>1, <3>2, <3>3, <3>4 DEF Front!CallFits, Front!At, Front!Call
  <2>3. CASE ~took(d)
    <3>1. s4'[d] = s4[d]
      BY <1>6, <1>8, <2>3
    <3>2. s4[d].at = "insert" /\ s4[d].vec /\ ~s4[d].spoiled => s4[d].writes \in s3'[FrontProc[d]]
      BY <2>1, <2>3, <1>4 DEF Front!CallFits, Front!At, Front!FrontEndsAssumption
    <3> HIDE DEF took
    <3> QED BY <2>1, <3>1, <3>2 DEF Front!CallFits, Front!At
  <2> QED BY <2>2, <2>3
<1>9. Front!FindsItsOwn' /\ s5' \subseteq Procs \X FrontIds
  <2>1. s5 \subseteq Procs \X FrontIds /\ \A a \in s5 : a[2] \in s3[a[1]]
    BY <1>3 DEF Front!TypeOK, Front!FrontInv, Front!FrontEndsSound, Front!FindsItsOwn
  <2> QED BY <1>4, <1>5, <2>1 DEF Front!FindsItsOwn
<1>10. Front!NothingForeign'
  <2> SUFFICES ASSUME NEW p \in Procs, NEW id \in s3'[p], s1[id] = None
               PROVE  \E d \in FrontCallers : FrontProc[d] = p /\ s4'[d].vec /\ s4'[d].writes = id /\ s4'[d].at = "insert"
    BY <1>1 DEF Front!NothingForeign, Front!At
  <2>1. id \in s3[p] /\ ~(k.vec /\ p = FrontProc[c] /\ id = k.writes)
    BY <1>4
  <2>2. PICK d \in FrontCallers : FrontProc[d] = p /\ s4[d].vec /\ s4[d].writes = id /\ s4[d].at = "insert"
    BY <2>1 DEF Front!FrontInv, Front!FrontEndsSound, Front!NothingForeign, Front!At
  <2>3. d # c /\ ~took(d)
    BY <2>1, <2>2
  <2>4. s4'[d] = s4[d]
    BY <1>6, <2>3
  <2> QED BY <2>2, <2>4
<1>11. Front!CyclesAreLinks'
  <2>1. \A d \in FrontCallers : s4'[d].at = "hung" => s4'[d].req.relation = "related_to"
    BY <1>7, <1>8 DEF Front!CallFits, Front!At
  <2> QED BY <1>1, <1>2, <2>1, FrontCycles
<1>12. Front!TypeOK'
  BY <1>1, <1>3, <1>4, <1>9 DEF Front!TypeOK
<1> QED BY <1>6, <1>7, <1>8, <1>9, <1>10, <1>11, <1>12 DEF Front!FrontInv, Front!FrontEndsSound

LEMMA FrontInitInv ==
  ASSUME Front!FrontEndsAssumption, Front!Init
  PROVE  Front!FrontInv
<1>1. /\ s1 = [id \in FrontIds |-> None] /\ s2 = {} /\ s3 = [p \in Procs |-> {}]
      /\ s4 = [c \in FrontCallers |-> Front!Idle] /\ s5 = {}
  BY DEF Front!Init
<1>2. s4 = [c \in FrontCallers |-> s4[c]]
  BY <1>1
<1>3. \A c \in FrontCallers : Front!CallFits(c)
  BY <1>1 DEF Front!CallFits, Front!At, Front!Idle, Front!Call
<1>4. Front!TypeOK
  BY <1>1 DEF Front!TypeOK
<1>5. Front!FindsItsOwn /\ Front!NothingForeign
  BY <1>1 DEF Front!FindsItsOwn, Front!NothingForeign
<1>6. Front!CyclesAreLinks
  <2>1. NoCycle(s2)
    BY <1>1 DEF NoCycle
  <2>2. \A c \in FrontCallers : s4[c].at # "hung"
    BY <1>1 DEF Front!Idle, Front!Call
  <2> QED BY <2>1, <2>2, FrontCycles
<1> QED BY <1>2, <1>3, <1>4, <1>5, <1>6 DEF Front!FrontInv, Front!FrontEndsSound

\* A process whose index is filled from the rows has what it has stored, and
\* nothing else; no call of it is about to write.
LEMMA FrontFills ==
  ASSUME Front!FrontEndsAssumption, Front!FrontInv, NEW p \in Procs,
         s3' = [s3 EXCEPT ![p] = Front!Embedded],
         s5' = {a \in s5 : a[1] # p} \cup {<<p, id>> : id \in Front!Embedded},
         UNCHANGED <<s1, s2>>, \A d \in FrontCallers : FrontProc[d] = p => s4[d].at # "insert",
         s4' = [d \in FrontCallers |-> s4'[d]],
         \A d \in FrontCallers : Front!CallFits(d)',
         \A d \in FrontCallers : s4[d].at = "insert" => s4'[d] = s4[d]
  PROVE  Front!FrontInv'
<1>1. Front!TypeOK /\ Front!FindsItsOwn /\ Front!NothingForeign /\ NoCycle(s2)
  BY FrontCycles DEF Front!FrontInv, Front!FrontEndsSound
<1>2. PICK E \in SUBSET FrontIds : E = Front!Embedded
  BY DEF Front!Embedded
<1>3. \A id \in E : s1[id] # None
  BY <1>2 DEF Front!Embedded
<1>4. /\ s3' \in [Procs -> SUBSET FrontIds] /\ s3'[p] = E
      /\ \A q \in Procs \ {p} : s3'[q] = s3[q]
  BY <1>1, <1>2 DEF Front!TypeOK
<1>5. s5' = {a \in s5 : a[1] # p} \cup {<<p, id>> : id \in E}
  BY <1>2
<1>6. s5' \subseteq Procs \X FrontIds
  BY <1>1, <1>5 DEF Front!TypeOK
<1>7. Front!FindsItsOwn'
  <2>1. ASSUME NEW a \in s5' PROVE a[2] \in s3'[a[1]]
    <3>1. CASE a \in s5 /\ a[1] # p
      BY <3>1, <1>1, <1>4 DEF Front!TypeOK, Front!FindsItsOwn
    <3>2. CASE \E id \in E : a = <<p, id>>
      BY <3>2, <1>4
    <3> QED BY <2>1, <3>1, <3>2, <1>5
  <2> QED BY <2>1 DEF Front!FindsItsOwn
<1>8. Front!NothingForeign'
  <2> SUFFICES ASSUME NEW q \in Procs, NEW id \in s3'[q], s1[id] = None
               PROVE  \E d \in FrontCallers : FrontProc[d] = q /\ s4'[d].vec /\ s4'[d].writes = id /\ s4'[d].at = "insert"
    BY DEF Front!NothingForeign, Front!At
  <2>1. q # p /\ id \in s3[q]
    BY <1>3, <1>4
  <2>2. PICK d \in FrontCallers : FrontProc[d] = q /\ s4[d].vec /\ s4[d].writes = id /\ s4[d].at = "insert"
    BY <2>1, <1>1 DEF Front!NothingForeign, Front!At
  <2> QED BY <2>2
<1>9. Front!CyclesAreLinks'
  <2>1. \A d \in FrontCallers : s4'[d].at = "hung" => s4'[d].req.relation = "related_to"
    BY DEF Front!CallFits, Front!At
  <2> QED BY <1>1, <2>1, FrontCycles
<1>10. Front!TypeOK'
  BY <1>1, <1>4, <1>6 DEF Front!TypeOK
<1> QED BY <1>7, <1>8, <1>9, <1>10 DEF Front!FrontInv, Front!FrontEndsSound

LEMMA FrontStart ==
  ASSUME Front!FrontEndsAssumption, Front!FrontInv, NEW p \in Procs, Front!Start(p)
  PROVE  Front!FrontInv'
<1>1. /\ UNCHANGED <<s1, s2, s4>> /\ s3' = [s3 EXCEPT ![p] = Front!Embedded]
      /\ s5' = {a \in s5 : a[1] # p} \cup {<<p, id>> : id \in Front!Embedded}
      /\ \A d \in FrontCallers : FrontProc[d] = p => s4[d].at = "idle"
  BY DEF Front!Start, Front!At
<1>2. Front!TypeOK /\ s4 = [d \in FrontCallers |-> s4[d]] /\ \A d \in FrontCallers : Front!CallFits(d)
  BY DEF Front!FrontInv
<1>3. \A q \in Procs \ {p} : s3'[q] = s3[q]
  BY <1>1, <1>2 DEF Front!TypeOK
<1>4. ASSUME NEW d \in FrontCallers PROVE Front!CallFits(d)'
  <2>1. Front!CallFits(d) /\ FrontProc[d] \in Procs
    BY <1>2 DEF Front!FrontEndsAssumption
  <2>2. s4[d].at = "insert" => s3'[FrontProc[d]] = s3[FrontProc[d]]
    BY <1>1, <1>3, <2>1
  <2> QED BY <1>1, <2>1, <2>2 DEF Front!CallFits, Front!At
<1> QED BY <1>1, <1>2, <1>4, FrontFills

\* A list of a finite set.
LEMMA FrontListed ==
  ASSUME NEW S, IsFiniteSet(S), S \subseteq FrontIds
  PROVE  Front!Listed(S) \in Seq(FrontIds)
<1>1. Front!Cardinality(S) = Cardinality(S) /\ Cardinality(S) \in Nat /\ ExistsBijection(1..Cardinality(S), S)
  BY FS_CardinalityType DEF Front!Cardinality, Cardinality
<1>2. \E s : s \in Front!Bijection(1..Front!Cardinality(S), S)
  BY <1>1 DEF ExistsBijection, Bijection, Injection, Surjection, IsInjective,
              Front!Bijection, Front!Injection, Front!Surjection, Front!IsInjective
<1>3. Front!Listed(S) \in Front!Bijection(1..Front!Cardinality(S), S)
  BY <1>2 DEF Front!Listed
<1>4. Front!Listed(S) \in [1..Cardinality(S) -> S]
  BY <1>1, <1>3 DEF Front!Bijection, Front!Injection
<1> QED BY <1>1, <1>4, SeqDef

LEMMA FrontBegin ==
  ASSUME Front!FrontEndsAssumption, Front!FrontInv, NEW c \in FrontCallers, Front!Begin(c)
  PROVE  Front!FrontInv'
<1> DEFINE p == FrontProc[c]
<1>1. s4[c].at = "idle" /\ UNCHANGED <<s1, s2>> /\ p \in Procs /\ NoCycle(s2)
  BY FrontRead DEF Front!Begin, Front!At
<1>2. Front!TypeOK
  BY DEF Front!FrontInv
<1>3. PICK r, label, todo :
        /\ r \in Requests /\ label \in {"endpoint", "edge", "upsert", "embed"}
        /\ (label = "endpoint" => r.do = "edge") /\ (r.do = "edge" => label \in {"endpoint", "edge"})
        /\ todo \in Seq(FrontIds)
        /\ s4' = [s4 EXCEPT ![c] = Front!Call(label, r, r.id, r.given, r.given, todo, FALSE)]
  <2>1. PICK r, label, todo :
          /\ r \in Requests
          /\ label = IF r.do = "edge" THEN (IF r.create THEN "endpoint" ELSE "edge")
                     ELSE IF r.given THEN "upsert" ELSE "embed"
          /\ todo = IF r.do = "edge" /\ r.create THEN <<r.id>> \o Front!Listed(r.to) ELSE <<>>
          /\ s4' = [s4 EXCEPT ![c] = Front!Call(label, r, r.id, r.given, r.given, todo, FALSE)]
    BY DEF Front!Begin
  <2>2. todo \in Seq(FrontIds)
    <3>1. r.id \in FrontIds /\ Front!Listed(r.to) \in Seq(FrontIds)
      <4>1. r.id \in FrontIds /\ r.to \subseteq FrontIds /\ IsFiniteSet(r.to)
        BY <2>1 DEF Front!FrontEndsAssumption, Front!IsFiniteSet, IsFiniteSet
      <4> QED BY <4>1, FrontListed
    <3>2. <<r.id>> \in Seq(FrontIds)
      BY <3>1
    <3> QED BY <2>1, <3>1, <3>2, ConcatProperties, EmptySeq
  <2>3. /\ label \in {"endpoint", "edge", "upsert", "embed"}
        /\ (label = "endpoint" => r.do = "edge") /\ (r.do = "edge" => label \in {"endpoint", "edge"})
    BY <2>1
  <2> QED BY <2>1, <2>2, <2>3
<1>4. r.id \in FrontIds /\ r.given \in BOOLEAN
  BY <1>3 DEF Front!FrontEndsAssumption
<1>5. PICK writes, vec, near, spoiled :
        /\ writes = r.id /\ vec = r.given
        /\ s4' = [s4 EXCEPT ![c] = Front!Call(label, r, writes, vec, near, todo, spoiled)]
  BY <1>3
<1>6. CASE Kind[p] # "cli"
  <2>1. UNCHANGED <<s3, s5>>
    <3>1. s3' = [s3 EXCEPT ![p] = s3[p]] /\ s5' = s5
      BY <1>6 DEF Front!Begin, Front!Opened
    <3>2. s3 \in [Procs -> SUBSET FrontIds]
      BY <1>2 DEF Front!TypeOK
    <3> QED BY <1>1, <3>1, <3>2
  <2>2. /\ label # "idle" => r \in Requests /\ writes \in FrontIds /\ vec \in BOOLEAN
        /\ label # "idle" /\ r.do = "edge" =>
             label \in {"endpoint", "embed", "upsert", "insert", "edge", "hung"} /\ todo \in Seq(FrontIds)
        /\ label = "endpoint" => r.do = "edge"
        /\ label = "context" => r.do = "task"
        /\ label # "hung" /\ label # "insert"
        /\ s4[c].at # "insert" /\ NoCycle(s2')
    BY <1>1, <1>3, <1>4, <1>5
  <2> QED BY <1>1, <1>5, <2>1, <2>2, FrontQuiet
<1>7. CASE Kind[p] = "cli"
  <2>1. /\ s3' = [s3 EXCEPT ![p] = Front!Embedded]
        /\ s5' = {a \in s5 : a[1] # p} \cup {<<p, id>> : id \in Front!Embedded}
    BY <1>7 DEF Front!Begin, Front!Opened
  <2>2. \A d \in FrontCallers : FrontProc[d] = p => d = c
    BY <1>7 DEF Front!FrontEndsAssumption
  <2>3. \A q \in Procs \ {p} : s3'[q] = s3[q]
    BY <1>1, <1>2, <2>1 DEF Front!TypeOK
  <2>4. \A d \in FrontCallers \ {c} : s4[d].at = "insert" /\ s4[d].vec /\ ~s4[d].spoiled =>
          s4[d].writes \in s3'[FrontProc[d]]
    BY <2>2, <2>3 DEF Front!FrontInv, Front!CallFits, Front!At, Front!FrontEndsAssumption
  <2>5. /\ label # "idle" => r \in Requests /\ writes \in FrontIds /\ vec \in BOOLEAN
        /\ label # "idle" /\ r.do = "edge" =>
             label \in {"endpoint", "embed", "upsert", "insert", "edge", "hung"} /\ todo \in Seq(FrontIds)
        /\ label = "endpoint" => r.do = "edge"
        /\ label = "context" => r.do = "task"
        /\ label # "hung" /\ label # "insert"
    BY <1>3, <1>4, <1>5
  <2>6. /\ s4' = [d \in FrontCallers |-> s4'[d]] /\ \A d \in FrontCallers : Front!CallFits(d)'
        /\ \A d \in FrontCallers \ {c} : s4'[d] = s4[d]
    BY <1>5, <2>4, <2>5, FrontGoes
  <2>7. \A d \in FrontCallers : FrontProc[d] = p => s4[d].at # "insert"
    BY <1>1, <2>2
  <2>8. \A d \in FrontCallers : s4[d].at = "insert" => s4'[d] = s4[d]
    BY <1>1, <2>6
  <2> HIDE DEF p
  <2> QED BY <1>1, <2>1, <2>6, <2>7, <2>8, FrontFills
<1> QED BY <1>6, <1>7

LEMMA FrontNextInv ==
  ASSUME Front!FrontEndsAssumption, Front!FrontInv, [Front!Next]_(Front!vars)
  PROVE  Front!FrontInv'
<1>1. CASE UNCHANGED Front!vars
  <2>1. UNCHANGED <<s1, s2, s3, s4, s5>>
    BY <1>1 DEF Front!vars
  <2>2. Front!TypeOK' /\ Front!FindsItsOwn' /\ Front!NothingForeign' /\ Front!CyclesAreLinks'
    BY <2>1, FrontCycles DEF Front!FrontInv, Front!FrontEndsSound, Front!TypeOK, Front!FindsItsOwn,
       Front!NothingForeign, Front!At
  <2>3. \A c \in FrontCallers : Front!CallFits(c)'
    BY <2>1 DEF Front!FrontInv, Front!CallFits, Front!At
  <2> QED BY <2>1, <2>2, <2>3 DEF Front!FrontInv, Front!FrontEndsSound
<1>2. ASSUME NEW p \in Procs, Front!Start(p) PROVE Front!FrontInv'
  BY <1>2, FrontStart
<1>3. ASSUME NEW c \in FrontCallers, Front!Begin(c) \/ Front!Step(c) PROVE Front!FrontInv'
  BY <1>3, FrontBegin, FrontEmbed, FrontUpsert, FrontInsert, FrontInsertErr, FrontEdges, FrontFinds DEF Front!Step
<1> QED BY <1>1, <1>2, <1>3 DEF Front!Next
-----------------------------------------------------------------------------
(* A step of Memory is a step of the machine it is about, in its slots.      *)

SchemaFocus == focus = "migrations" => Schema!SchemaInv
FactsFocus == focus = "consolidation" => Facts!ConsolidationInv
SummariesFocus == focus = "compression" => Summaries!CompressionInv

LEMMA SchemaKept ==
  ASSUME Schema!SchemaInv, UNCHANGED Schema!vars
  PROVE  Schema!SchemaInv'
BY DEF Schema!vars, Schema!SchemaInv, Schema!SchemaTypes, Schema!RunFits, Schema!Applied

\* However boots, rollbacks and deaths of processes interleave, the schema is
\* what the first files leave and the recorded files are among these
\* (src/internal/store/migration.go:18-33).  For all files of which one that
\* is run again changes nothing or comes to a statement that fails, and for
\* every number of processes.
THEOREM SchemaAlwaysMatches == Spec => []SchemaMatchesRows
<1>1. Init => SchemaFocus
  BY MemoryAssumption, SchemaInitInv DEF Init, SchemaFocus
<1>2. SchemaFocus /\ [Next]_slots => SchemaFocus'
  <2> SUFFICES ASSUME SchemaFocus, [Next]_slots, (focus = "migrations")' PROVE Schema!SchemaInv'
    BY DEF SchemaFocus
  <2>1. focus = "migrations" /\ [Schema!Next]_(Schema!vars)
    BY DEF Next, slots, Schema!vars
  <2> QED BY <2>1, MemoryAssumption, SchemaNextInv, SchemaKept DEF SchemaFocus
<1>3. SchemaFocus => SchemaMatchesRows
  BY DEF SchemaFocus, SchemaMatchesRows, Schema!SchemaInv, Schema!SchemaMatchesRows
<1> QED
  BY <1>1, <1>2, <1>3, PTL DEF Spec

LEMMA FactsFocused == Spec => []FactsFocus
<1>1. Init => FactsFocus
  BY MemoryAssumption, FactsInitInv DEF Init, FactsFocus
<1>2. FactsFocus /\ [Next]_slots => FactsFocus'
  <2> SUFFICES ASSUME FactsFocus, [Next]_slots, (focus = "consolidation")' PROVE Facts!ConsolidationInv'
    BY DEF FactsFocus
  <2>1. focus = "consolidation" /\ [Facts!Next]_(Facts!conVars)
    BY DEF Next, slots, Facts!conVars
  <2>2. UNCHANGED Facts!conVars => Facts!ConsolidationInv'
    BY <2>1 DEF Facts!conVars, FactsFocus, Facts!ConsolidationInv, Facts!RunFits, Facts!IsChunk, Facts!Traced
  <2> QED BY <2>1, <2>2, MemoryAssumption, FactsNextInv DEF FactsFocus
<1> QED BY <1>1, <1>2, PTL DEF Spec

LEMMA SummariesFocused == Spec => []SummariesFocus
<1>1. Init => SummariesFocus
  BY MemoryAssumption, SummariesInitInv DEF Init, SummariesFocus
<1>2. SummariesFocus /\ [Next]_slots => SummariesFocus'
  <2> SUFFICES ASSUME SummariesFocus, [Next]_slots, (focus = "compression")' PROVE Summaries!CompressionInv'
    BY DEF SummariesFocus
  <2>1. focus = "compression" /\ [Summaries!Next]_(Summaries!sumVars)
    BY DEF Next, slots, Summaries!sumVars
  <2>2. ASSUME UNCHANGED Summaries!sumVars PROVE Summaries!CompressionInv'
    <3>1. Summaries!CompressionInv /\ UNCHANGED <<s1, s2, s3, s4>>
      BY <2>1, <2>2 DEF Summaries!sumVars, SummariesFocus
    <3>2. ASSUME NEW ids PROVE Summaries!ClusterSound(ids) = Summaries!ClusterSound(ids)'
      BY <3>1 DEF Summaries!ClusterSound
    <3>3. ASSUME NEW d \in Summarisers PROVE Summaries!CallFits(s4[d])'
      <4>1. Summaries!CallFits(s4[d])
        BY <3>1 DEF Summaries!CompressionInv
      <4> QED BY <3>1, <3>2, <4>1 DEF Summaries!CallFits, Summaries!Follows
    <3>4. s4' = [d \in Summarisers |-> s4'[d]]
      BY <3>1 DEF Summaries!CompressionInv
    <3> QED BY <3>1, <3>3, <3>4, SummariesSame
  <2> QED BY <2>1, <2>2, MemoryAssumption, SummariesNextInv DEF SummariesFocus
<1> QED BY <1>1, <1>2, PTL DEF Spec

\* What is made from other rows stands for them: what consolidation archives
\* is told by a live fact, or by one that others archived
\* (src/internal/consolidation/service.go), and a summary is superseded by
\* one of the next generation that has all its sources (generate.go).  For
\* every number of runs that overlap, of rows and of summaries.
THEOREM DerivedStaysSound == Spec => []DerivedIsSound
<1>1. FactsFocus /\ SummariesFocus => DerivedIsSound
  BY MemoryAssumption, FactsTold, SummariesAreSound DEF FactsFocus, SummariesFocus, DerivedIsSound
<1> QED BY <1>1, FactsFocused, SummariesFocused, PTL

FrontFocus == focus = "frontends" => Front!FrontInv

\* A process finds what it has stored and nothing that has no row, and no check
\* for a cycle runs for ever but over links that were made by similarity
\* (src/internal/vector/index.go, src/internal/store/edge.go).  For every
\* number of processes, callers, ids, requests and calls.
THEOREM FrontEndsStaySound == Spec => []FrontEndsSound
<1>1. Init => FrontFocus
  BY MemoryAssumption, FrontInitInv DEF Init, FrontFocus
<1>2. FrontFocus /\ [Next]_slots => FrontFocus'
  <2> SUFFICES ASSUME FrontFocus, [Next]_slots, (focus = "frontends")' PROVE Front!FrontInv'
    BY DEF FrontFocus
  <2>1. focus = "frontends" /\ [Front!Next]_(Front!vars)
    BY DEF Next, slots, Front!vars
  <2> QED BY <2>1, MemoryAssumption, FrontNextInv DEF FrontFocus
<1>3. FrontFocus => FrontEndsSound
  BY DEF FrontFocus, FrontEndsSound, Front!FrontInv
<1> QED
  BY <1>1, <1>2, <1>3, PTL DEF Spec
=============================================================================
