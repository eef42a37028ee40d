---------------------------- MODULE HybridSearch ----------------------------
(***************************************************************************)
(* Hybrid search (src/internal/vector/hybrid.go): a full text table kept   *)
(* in step with the entities by triggers, set up by statements of which    *)
(* each may fail unnoticed, and a search that fuses what the text and the  *)
(* vectors find.  Several processes share the database.                    *)
(***************************************************************************)
EXTENDS Naturals, Sequences, FiniteSets, Functions, FiniteSetsExt

CONSTANTS Procs, Ids,       \* entity ids are naturals, in their order
          Texts,
          HasFTS,           \* the driver is built with the fts5 module
          CanFail,          \* a statement of the set-up may fail
          Hits,             \* what the index of vectors may answer: sequences of ids
          Limit, MaxWrites, \* bounds
          None

VARIABLES text,       \* of each row; None: no row
          archived,
          table,      \* the full text table exists
          fts,        \* its rows: for each id a sequence of texts
          triggers,   \* those that exist, of "ai", "ad" and "au"
          setup,      \* of each process: how many statements it has run
          pc, lexical, vectors,    \* the search of each process
          writes,
          failed,     \* history: a statement of a set-up failed
          refused,    \* history: a write has been refused
          missed      \* history: rows of which an update or a deletion came
                      \* before its trigger, but not before the table

\* No text is the mark of a row that is not there.
HybridAssumption == None \notin Texts

hybridVars == <<text, archived, table, fts, triggers, setup, pc, lexical, vectors,
                writes, failed, refused, missed>>
searchVars == <<pc, lexical, vectors>>

Init ==
    /\ text \in [Ids -> Texts \cup {None}]
    /\ archived = {}
    /\ table = FALSE /\ fts = [i \in Ids |-> <<>>] /\ triggers = {}
    /\ setup = [p \in Procs |-> 0]
    /\ pc = [p \in Procs |-> "idle"]
    /\ lexical = [p \in Procs |-> <<>>] /\ vectors = [p \in Procs |-> <<>>]
    /\ writes = 0 /\ failed = FALSE /\ refused = FALSE /\ missed = {}

Live(i) == text[i] # None /\ i \notin archived
-----------------------------------------------------------------------------
\* A trigger without its table makes the statement that fires it an error.
Fires(trigger) == trigger \in triggers
Refused(trigger) == Fires(trigger) /\ ~table

Write ==
    /\ writes < MaxWrites /\ writes' = writes + 1
    /\ UNCHANGED <<table, triggers, setup, failed>> /\ UNCHANGED searchVars

\* A row the table is told of is as the table says again.
Told(i, trigger) ==
    missed' = IF Fires(trigger) THEN missed \ {i} ELSE IF table THEN missed \cup {i} ELSE missed

Insert(i, t) ==
    /\ Write /\ text[i] = None
    /\ IF Refused("ai") THEN refused' = TRUE /\ UNCHANGED <<text, fts>>
       ELSE /\ text' = [text EXCEPT ![i] = t]
            /\ fts' = IF Fires("ai") THEN [fts EXCEPT ![i] = Append(@, t)] ELSE fts
            /\ UNCHANGED refused
    /\ UNCHANGED <<archived, missed>>

Update(i, t) ==
    /\ Write /\ text[i] # None
    /\ IF Refused("au") THEN refused' = TRUE /\ UNCHANGED <<text, archived, fts, missed>>
       ELSE /\ \/ text' = [text EXCEPT ![i] = t] /\ UNCHANGED archived
               \/ t = text[i] /\ archived' = archived \cup {i} /\ UNCHANGED text
            /\ fts' = IF Fires("au") THEN [fts EXCEPT ![i] = <<t>>] ELSE fts
            /\ Told(i, "au")
            /\ UNCHANGED refused

Delete(i) ==
    /\ Write /\ text[i] # None
    /\ IF Refused("ad") THEN refused' = TRUE /\ UNCHANGED <<text, archived, fts, missed>>
       ELSE /\ text' = [text EXCEPT ![i] = None] /\ archived' = archived \ {i}
            /\ fts' = IF Fires("ad") THEN [fts EXCEPT ![i] = <<>>] ELSE fts
            /\ Told(i, "ad")
            /\ UNCHANGED refused
-----------------------------------------------------------------------------
\* Mutant of Backfill: rows that are in the table already are added again.
BackfillAll ==
    IF table THEN fts' = [i \in Ids |-> IF text[i] = None THEN fts[i] ELSE Append(fts[i], text[i])]
    ELSE UNCHANGED fts

\* Rows whose id the table does not have; without the table, an error.
Backfill ==
    IF table THEN fts' = [i \in Ids |-> IF text[i] # None /\ fts[i] = <<>> THEN <<text[i]>> ELSE fts[i]]
    ELSE UNCHANGED fts

\* The statements of EnsureFTS, in order; errors are ignored, and the
\* process never runs them again.
EnsureFTS(p) ==
    /\ setup[p] < 5 /\ setup' = [setup EXCEPT ![p] = @ + 1]
    /\ \E ok \in (IF CanFail THEN BOOLEAN ELSE {TRUE}) :
          /\ failed' = (failed \/ ~ok)
          /\ table' = (table \/ (ok /\ setup[p] = 0 /\ HasFTS))
          /\ triggers' = IF ok /\ setup[p] \in 1..3
                         THEN triggers \cup {<<"ai", "ad", "au">>[setup[p]]} ELSE triggers
          /\ IF ok /\ setup[p] = 4 THEN Backfill ELSE UNCHANGED fts
    /\ UNCHANGED <<text, archived, writes, refused, missed>> /\ UNCHANGED searchVars
-----------------------------------------------------------------------------
Orders(S) == Bijection(1..Cardinality(S), S)
Sorted(S, Before(_, _)) ==
    CHOOSE s \in Orders(S) : \A i, j \in DOMAIN s : i < j => Before(s[i], s[j])

First(s, n) == SubSeq(s, 1, IF Len(s) < n THEN Len(s) ELSE n)

\* The rows of the table that MATCH finds, joined with the live entities.
Matches(q) ==
    {r \in Ids \X (1..(MaxWrites + 1)) :
        Live(r[1]) /\ r[2] \in DOMAIN fts[r[1]] /\ fts[r[1]][r[2]] = q}

\* MATCH by rank, in an order of the module's own; if it is an error, for want
\* of the table or for the syntax of the query, LIKE by id; if that is one
\* too, or there is no query, nothing.
Lexical(p, q) ==
    /\ setup[p] = 5 /\ pc[p] = "idle"
    /\ pc' = [pc EXCEPT ![p] = "vectors"]
    /\ \/ /\ table
          /\ \E s \in Orders(Matches(q)) :
                lexical' = [lexical EXCEPT ![p] = [n \in DOMAIN First(s, 2 * Limit) |-> s[n][1]]]
       \/ lexical' = [lexical EXCEPT ![p] =
                        First(Sorted({i \in Ids : Live(i) /\ text[i] = q}, <), 2 * Limit)]
       \/ lexical' = [lexical EXCEPT ![p] = <<>>]
    /\ UNCHANGED <<text, archived, table, fts, triggers, setup, vectors, writes, failed, refused, missed>>

\* An index that fails, or no vector to ask with, finds nothing.
Vectors(p) ==
    /\ pc[p] = "vectors"
    /\ pc' = [pc EXCEPT ![p] = "fuse"]
    /\ \E h \in Hits : vectors' = [vectors EXCEPT ![p] = h]
    /\ UNCHANGED <<text, archived, table, fts, triggers, setup, lexical, writes, failed, refused, missed>>

\* 1 / (60 + rank), times a number that all of 61 to 64 divide.
Scale == 61 * 62 * 63 * 64
Share(s, i) == MapThenSumSet(LAMBDA k : Scale \div (60 + k), {k \in DOMAIN s : s[k] = i})
Score(p, i) == Share(lexical[p], i) + Share(vectors[p], i)

\* Mutant of Found: what the index knows need not be a live row.
FoundAny(p) == Range(lexical[p]) \cup Range(vectors[p])
\* The rows are read last: what has gone since is dropped.
Found(p) == {i \in Range(lexical[p]) \cup Range(vectors[p]) : Live(i)}

Answer(p) ==
    LET ranked == Sorted(Found(p), LAMBDA i, j : \/ Score(p, i) > Score(p, j)
                                                 \/ Score(p, i) = Score(p, j) /\ i < j)
    IN First(ranked, Limit)

\* The call returns Answer(p), or nothing when the rows cannot be read.
Fuse(p) ==
    /\ pc[p] = "fuse"
    /\ pc' = [pc EXCEPT ![p] = "idle"]
    /\ lexical' = [lexical EXCEPT ![p] = <<>>] /\ vectors' = [vectors EXCEPT ![p] = <<>>]
    /\ UNCHANGED <<text, archived, table, fts, triggers, setup, writes, failed, refused, missed>>

Next ==
    \/ \E i \in Ids, t \in Texts : Insert(i, t) \/ Update(i, t)
    \/ \E i \in Ids : Delete(i)
    \/ \E p \in Procs : EnsureFTS(p) \/ (\E q \in Texts : Lexical(p, q)) \/ Vectors(p) \/ Fuse(p)

Spec == Init /\ [][Next]_hybridVars
-----------------------------------------------------------------------------
\* What the table says of a row is what the row holds, whatever fails and
\* whenever it is written, unless an update or a deletion came when the table
\* but not yet its trigger was there, and none has come since.  And once a
\* process has set the table up, as long as no statement of a set-up failed,
\* every row is in it, those included that were written while one was under
\* way; and no more updates or deletions are missed (hybrid.go:166-187).
Exact(i) == IF text[i] = None THEN <<>> ELSE <<text[i]>>

FTSKept ==
    /\ \A i \in Ids \ missed : fts[i] \in {<<>>, Exact(i)}
    /\ HasFTS /\ ~failed /\ (\E p \in Procs : setup[p] = 5) =>
          /\ table /\ triggers = {"ai", "ad", "au"}
          /\ \A i \in Ids : text[i] # None => fts[i] # <<>>

\* Why: the triggers come after the table, and the rows that were written
\* before their trigger are added last.
HybridTypes ==
    /\ text \in [Ids -> Texts \cup {None}]
    /\ table \in BOOLEAN /\ failed \in BOOLEAN
    /\ triggers \subseteq {"ai", "ad", "au"}
    /\ fts \in [Ids -> Seq(Texts)]
    /\ setup \in [Procs -> 0..5]

FTSInv ==
    /\ HybridTypes
    /\ ~table => \A i \in Ids : fts[i] = <<>>
    /\ ~failed => \A p \in Procs :
          /\ HasFTS /\ setup[p] # 0 => table
          /\ setup[p] >= 2 => "ai" \in triggers
          /\ setup[p] >= 3 => "ad" \in triggers
          /\ setup[p] >= 4 => "au" \in triggers
    /\ FTSKept

\* An entity that both channels found is never behind one that only one of
\* them found no better, and an answer holds rows that were live when it
\* was made (hybrid.go:66-113).
AheadEverywhere(p, i, j) ==
    \A s \in {lexical[p], vectors[p]} : \A k \in DOMAIN s :
        s[k] = j => /\ \E n \in 1..(k - 1) : s[n] = i
                    /\ \A n \in DOMAIN s : s[n] = j => n = k
FusionHolds ==
    \A p \in Procs : pc[p] = "fuse" =>
        LET answer == Answer(p) IN
        /\ \A i \in Range(answer) : Live(i)
        /\ \A i, j \in Found(p) :
              /\ i \in Range(lexical[p]) \cap Range(vectors[p])
              /\ AheadEverywhere(p, i, j)
              /\ j \in Range(answer)
              => \E m, n \in DOMAIN answer : m < n /\ answer[m] = i /\ answer[n] = j

\* "non-fts5 builds and read-only databases degrade gracefully"
\* (hybrid.go:166-168): the set-up never makes a write fail.
DegradesGracefully == ~refused
=============================================================================
