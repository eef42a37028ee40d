----------------------------- MODULE VectorStore -----------------------------
(***************************************************************************)
(* The in-memory vector store (src/internal/vector/provider.go) and its    *)
(* loading at start-up (warm.go).  A namespace is a dense matrix with a    *)
(* map from ids to rows; a deleted row is replaced by the last one.  The   *)
(* mutex makes a batch atomic for the readers; a batch is one step per     *)
(* record here, and the next call starts when it is done.                  *)
(*                                                                         *)
(* A vector stands for the normalised copy and the metadata of its record. *)
(***************************************************************************)
EXTENDS Integers, Sequences, FiniteSets

CONSTANTS Namespaces, Default, Ids, Vectors,
          Dim,         \* length of a vector
          Decodes,     \* finite and read back with the configured dimension
          NoVec,
          MaxVectors,  \* 0: no limit
          WarmBatch,
          Batches,     \* what Upsert is called with
          Disks        \* embeddings of the live rows a process may find

\* What the constants are.
VectorStoreAssumption ==
    /\ Default \in Namespaces
    /\ Dim \in [Vectors -> Nat]
    /\ Decodes \subseteq Vectors
    /\ NoVec \notin Vectors
    /\ MaxVectors \in Nat
    /\ WarmBatch \in Nat \ {0}
    /\ Batches \subseteq Seq([ns : Namespaces, id : Ids, vec : Vectors])
    /\ Disks \subseteq [Ids -> Vectors \cup {NoVec}]

VARIABLES dims,    \* namespace -> dimension, 0 before the first record
          matrix,  \* namespace -> made, dim, rows of <<id, vector>>
          pos,     \* namespace -> id -> row, 0 for an unknown id
          call     \* the running call; of a start also the rows of the table

vars == <<dims, matrix, pos, call>>

NoCall == [op |-> "none", todo |-> <<>>, refused |-> {}, left |-> {},
           disk |-> [id \in Ids |-> NoVec]]

Init ==
    /\ dims = [ns \in Namespaces |-> 0]
    /\ matrix = [ns \in Namespaces |-> [made |-> FALSE, dim |-> 0, rows |-> <<>>]]
    /\ pos = [ns \in Namespaces |-> [id \in Ids |-> 0]]
    /\ call = NoCall

Count(ns) == Len(matrix[ns].rows)

\* totalLocked: the records of all namespaces.
Held == {p \in Namespaces \X Ids : pos[p[1]][p[2]] # 0}
Total == Cardinality(Held)
-----------------------------------------------------------------------------
Upsert(b) ==
    /\ call.todo = <<>> /\ call.left = {}
    /\ call' = [NoCall EXCEPT !.op = "upsert", !.todo = b]
    /\ UNCHANGED <<dims, matrix, pos>>

\* put
Place(ns, id, v) ==
    IF pos[ns][id] # 0
    THEN /\ matrix' = [matrix EXCEPT ![ns].rows = [@ EXCEPT ![pos[ns][id]] = <<id, v>>]]
         /\ UNCHANGED pos
    ELSE /\ matrix' = [matrix EXCEPT ![ns] =
              [made |-> TRUE, dim |-> Dim[v], rows |-> Append(@.rows, <<id, v>>)]]
         /\ pos' = [pos EXCEPT ![ns][id] = Count(ns) + 1]

\* Mutant of Fits: the limit is forgotten.
FitsAlways(ns, id, v) == dims[ns] \in {0, Dim[v]} /\ (matrix[ns].made => matrix[ns].dim = Dim[v])

\* upsertOne accepts the record: dimension of the namespace, capacity.
Fits(ns, id, v) ==
    /\ dims[ns] \in {0, Dim[v]}
    /\ matrix[ns].made => matrix[ns].dim = Dim[v]
    /\ pos[ns][id] # 0 \/ MaxVectors = 0 \/ Total < MaxVectors

\* One record of the batch.  A namespace exists, with a dimension, as soon as
\* a record of its dimension arrives, stored or not.
UpsertOne ==
    LET r == Head(call.todo) IN
    /\ call.todo # <<>>
    /\ IF Fits(r.ns, r.id, r.vec)
       THEN /\ Place(r.ns, r.id, r.vec)
            /\ dims' = [dims EXCEPT ![r.ns] = Dim[r.vec]]
            /\ call' = [call EXCEPT !.todo = Tail(@)]
       ELSE /\ matrix' = IF dims[r.ns] \in {0, Dim[r.vec]} /\ ~matrix[r.ns].made
                         THEN [matrix EXCEPT ![r.ns] = [@ EXCEPT !.made = TRUE, !.dim = Dim[r.vec]]]
                         ELSE matrix
            /\ call' = [call EXCEPT !.todo = Tail(@), !.refused = @ \cup {<<r.ns, r.id, r.vec>>}]
            /\ UNCHANGED <<dims, pos>>

\* Mutant of Delete: the id that moved keeps its old row.
DeleteForgetsMoved(ns, id) ==
    /\ call.todo = <<>> /\ call.left = {}
    /\ pos[ns][id] # 0
    /\ matrix' = [matrix EXCEPT ![ns].rows =
            SubSeq([@ EXCEPT ![pos[ns][id]] = @[Len(@)]], 1, Len(@) - 1)]
    /\ pos' = [pos EXCEPT ![ns][id] = 0]
    /\ call' = NoCall
    /\ UNCHANGED dims

\* remove: swap with the last row, then cut it off.
Delete(ns, id) ==
    LET row == pos[ns][id]
        last == matrix[ns].rows[Count(ns)]
    IN  /\ call.todo = <<>> /\ call.left = {}
        /\ row # 0
        /\ matrix' = [matrix EXCEPT ![ns].rows =
                SubSeq([@ EXCEPT ![row] = last], 1, Count(ns) - 1)]
        /\ pos' = [pos EXCEPT ![ns] = [[@ EXCEPT ![last[1]] = row] EXCEPT ![id] = 0]]
        /\ call' = NoCall
        /\ UNCHANGED dims
-----------------------------------------------------------------------------
\* A process starts with an empty store and warms it from the table.
Restart(d) ==
    /\ dims' = [ns \in Namespaces |-> 0]
    /\ matrix' = [ns \in Namespaces |-> [made |-> FALSE, dim |-> 0, rows |-> <<>>]]
    /\ pos' = [ns \in Namespaces |-> [id \in Ids |-> 0]]
    /\ call' = [NoCall EXCEPT !.op = "warm", !.left = {id \in Ids : d[id] # NoVec},
                              !.disk = d]

\* Mutant of WarmRow: a blob of another dimension is loaded as well.
WarmAnyRow(id) ==
    /\ call.op = "warm" /\ id \in call.left /\ Len(call.todo) < WarmBatch
    /\ call' = [call EXCEPT !.left = @ \ {id},
                            !.todo = Append(@, [ns |-> Default, id |-> id, vec |-> call.disk[id]])]
    /\ UNCHANGED <<dims, matrix, pos>>

\* One row of the query: decoded and collected, or skipped.
WarmRow(id) ==
    /\ call.op = "warm" /\ id \in call.left /\ Len(call.todo) < WarmBatch
    /\ call' = [call EXCEPT !.left = @ \ {id},
            !.todo = IF call.disk[id] \in Decodes
                     THEN Append(@, [ns |-> Default, id |-> id, vec |-> call.disk[id]]) ELSE @]
    /\ UNCHANGED <<dims, matrix, pos>>

\* flush, when the batch is full or the rows are read; then the next batch,
\* unless the Upsert of this one has reported an error.
WarmFlush ==
    /\ call.op = "warm" /\ call.todo # <<>>
    /\ Len(call.todo) = WarmBatch \/ call.left = {}
    /\ call' = [call EXCEPT !.op = "flush"]
    /\ UNCHANGED <<dims, matrix, pos>>

WarmNext ==
    /\ call.op = "flush" /\ call.todo = <<>> /\ call.refused = {} /\ call.left # {}
    /\ call' = [call EXCEPT !.op = "warm"]
    /\ UNCHANGED <<dims, matrix, pos>>

WarmFails ==
    /\ call.op = "flush" /\ call.todo = <<>> /\ call.refused # {} /\ call.left # {}
    /\ call' = [call EXCEPT !.left = {}]
    /\ UNCHANGED <<dims, matrix, pos>>

Next ==
    \/ \E b \in Batches : Upsert(b)
    \/ call.op \in {"upsert", "flush"} /\ UpsertOne
    \/ \E ns \in Namespaces, id \in Ids : Delete(ns, id)
    \/ \E d \in Disks : Restart(d)
    \/ \E id \in Ids : WarmRow(id)
    \/ WarmFlush \/ WarmNext \/ WarmFails

Spec == Init /\ [][Next]_vars
-----------------------------------------------------------------------------
RowOf(ns, id) == matrix[ns].rows[pos[ns][id]]

\* The rows of a namespace and the positions of its ids mirror each other
\* through every overwrite and swap, all rows have its dimension, and the
\* limit holds over all namespaces (provider.go:44-49, 60-61, 96-98).
DenseAndBounded ==
    /\ \A ns \in Namespaces :
         /\ \A id \in Ids : pos[ns][id] # 0 => pos[ns][id] <= Count(ns) /\ RowOf(ns, id)[1] = id
         /\ \A i \in 1..Count(ns) : pos[ns][matrix[ns].rows[i][1]] = i
         /\ \A i \in 1..Count(ns) : Dim[matrix[ns].rows[i][2]] = dims[ns]
         /\ dims[ns] # 0 => dims[ns] = matrix[ns].dim
    /\ MaxVectors # 0 => Total <= MaxVectors

\* A start that reports no error has loaded every row that can be decoded,
\* whatever the other rows hold (warm.go:25-28).
WarmIsComplete ==
    call.op = "flush" /\ call.todo = <<>> /\ call.left = {} /\ call.refused = {} =>
        \A id \in Ids :
            IF call.disk[id] \in Decodes
            THEN pos[Default][id] # 0 /\ RowOf(Default, id)[2] = call.disk[id]
            ELSE pos[Default][id] = 0

\* What the dense matrix is to a caller: a map from ids to vectors.
Vec(ns, id) == IF pos[ns][id] = 0 THEN NoVec ELSE RowOf(ns, id)[2]
Map == [ns \in Namespaces |-> [id \in Ids |-> Vec(ns, id)]]
Index == INSTANCE SearchIndex WITH map <- Map, refused <- call.refused

\* Every step is one of the map, or none (provider.go:44-49).
IndexStep == Index!Next \/ UNCHANGED Index!indexVars

\* What every step keeps: the shape of each namespace, m its matrix, p its
\* positions and d its dimension, and that a record leads back to its id.
Records == [ns : Namespaces, id : Ids, vec : Vectors]
Matrix == [made : BOOLEAN, dim : Nat, rows : Seq(Ids \X Vectors)]
Calls == [op : {"none", "upsert", "warm", "flush"}, todo : Seq(Records),
          refused : SUBSET (Namespaces \X Ids \X Vectors), left : SUBSET Ids,
          disk : [Ids -> Vectors \cup {NoVec}]]

VecTypes ==
    /\ dims \in [Namespaces -> Nat]
    /\ matrix \in [Namespaces -> Matrix]
    /\ pos \in [Namespaces -> [Ids -> Nat]]
    /\ call \in Calls

Dense(m, p, d) ==
    /\ \A id \in Ids : p[id] # 0 => p[id] <= Len(m.rows) /\ m.rows[p[id]][1] = id
    /\ \A i \in 1..Len(m.rows) : p[m.rows[i][1]] = i
    /\ \A i \in 1..Len(m.rows) : Dim[m.rows[i][2]] = d
    /\ d # 0 => d = m.dim
    /\ Len(m.rows) > 0 => m.made /\ m.dim = d

AllDense == \A ns \in Namespaces : Dense(matrix[ns], pos[ns], dims[ns])

Bounded == IsFiniteSet(Held) /\ (MaxVectors # 0 => Cardinality(Held) <= MaxVectors)

\* While a start loads without an error, a row of the table is still to be
\* read, in the batch, in the matrix, or cannot be decoded.
Warming == call.op \in {"warm", "flush"} /\ call.refused = {}
WarmKept ==
    Warming =>
        /\ \A k \in DOMAIN call.todo :
             LET r == call.todo[k] IN
             r.ns = Default /\ r.vec = call.disk[r.id] /\ r.vec \in Decodes
        /\ \A id \in Ids :
             /\ Map[Default][id] \in {NoVec, call.disk[id]}
             /\ Map[Default][id] # NoVec => call.disk[id] \in Decodes
             /\ call.disk[id] \in Decodes =>
                  \/ Map[Default][id] # NoVec \/ id \in call.left
                  \/ \E k \in DOMAIN call.todo : call.todo[k].id = id

VecShape == VecTypes /\ AllDense /\ Bounded
VecInv == VecShape /\ WarmKept
=============================================================================
