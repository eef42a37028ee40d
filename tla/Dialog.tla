------------------------------- MODULE Dialog -------------------------------
(***************************************************************************)
(* The pipeline that turns a dialog into rows and vectors                  *)
(* (dialog.go, worker.go and contradiction_handler.go in                   *)
(* src/internal/ingestion): extract, embed, search the nearest entity for  *)
(* EVERY item, then for one item after the other match, merge or create in *)
(* one transaction, and change the vector index after the commit.          *)
(*                                                                         *)
(* A fact is a normalised content; the id of its entity is a hash of it,   *)
(* so the fact stands for the id as well.  The content of a row is the set *)
(* of the facts concatenated in it; a vector is the content it embeds.     *)
(***************************************************************************)
EXTENDS Integers, Sequences, FiniteSets

CONSTANTS Workers,      \* goroutines that process a message each
          Facts,
          Topic,        \* facts of one topic embed above dedup_threshold
          Negated,      \* facts that contain a negation word
          Messages,     \* what extraction may return: sequences of facts
          Resolutions,  \* what the configured resolver may decide
          CanFail,      \* embedding, search, transaction, vector operation
          MaxAttempts,
          MaxMessages,  \* bound
          None

VARIABLES rows,   \* id -> content and archived flag; no content = no row
          vec,    \* id -> embedded content; none = no vector
          links,  \* contradicts edges
          job,    \* what every worker is doing
          sent

vars == <<rows, vec, links, job, sent>>

Absent == [content |-> {}, archived |-> FALSE]

Idle == [pc |-> "idle", todo |-> <<>>, items |-> <<>>, try |-> 1,
         plan |-> None, ops |-> <<>>]

Init ==
    /\ rows = [f \in Facts |-> Absent]
    /\ vec = [f \in Facts |-> {}]
    /\ links = {}
    /\ job = [w \in Workers |-> Idle]
    /\ sent = 0
-----------------------------------------------------------------------------
Close(content, f) == content # {} /\ \A g \in content : Topic[g] = Topic[f]

\* Mutant of Flip: the detector compares the ids only.
NeverFlip(content, f) == content = {}

\* lexicalNegationFlip: one side has a negation word, the other has not.
Flip(content, f) == (\E g \in content : g \in Negated) # (f \in Negated)

\* The nearest vector: an equal one is nearer than any other; below the
\* threshold it does not matter which.
TopOne(f) ==
    LET equal == {g \in Facts : vec[g] = {f}}
        close == {g \in Facts : Close(vec[g], f)}
    IN  IF equal # {} THEN equal ELSE IF close # {} THEN close ELSE {None}

Store(id, content) == [op |-> "store", id |-> id, content |-> content]
Remove(id) == [op |-> "remove", id |-> id, content |-> {}]

\* The plan of one attempt: the row to write with its content, the row to
\* archive, the edge to add, and the vector operations.
Create(f, archive, link, ops) ==
    [id |-> f, content |-> {f}, archive |-> archive, link |-> link,
     ops |-> Append(ops, Store(f, {f}))]

Merge(f, id, content) ==
    [id |-> id, content |-> content, archive |-> None, link |-> None,
     ops |-> <<Remove(f), Store(id, content)>>]

\* handleContradiction, once the detector has fired.
Resolve(r, f, cand) ==
    IF r = "keepBoth"
    THEN Create(f, None, cand, <<>>)
    ELSE Create(f, cand, None, <<Remove(cand)>>)

\* findMatch and what follows.  The only hit of the search being the item's
\* own id is no match; an archived row is one.
Plans(f, cand) ==
    IF cand \in {None, f} \/ ~Close(rows[cand].content, f)
    THEN {Create(f, None, None, <<>>)}
    ELSE IF Flip(rows[cand].content, f)
         THEN {Resolve(r, f, cand) : r \in Resolutions}
         ELSE {Merge(f, cand, rows[cand].content \cup {f})}
-----------------------------------------------------------------------------
\* The items of a message that are left when some cannot be embedded.
Kept(m) ==
    {[i \in DOMAIN at |-> m[at[i]]] :
       at \in {f \in UNION {[1..n -> DOMAIN m] : n \in 1..Len(m)} :
                \A i, j \in DOMAIN f : i < j => f[i] < f[j]}}

\* Extraction and embedding.  An item that cannot be embedded is skipped, and
\* a message without items is done.
Receive(w, m) ==
    /\ job[w].pc = "idle"
    /\ sent < MaxMessages
    /\ sent' = sent + 1
    /\ \E items \in Kept(m) :
         /\ items = m \/ CanFail
         /\ job' = [job EXCEPT ![w] = [@ EXCEPT !.pc = "search", !.todo = items]]
    /\ UNCHANGED <<rows, vec, links>>

\* One query of searchTopOneEach; an error gives up the whole message.
Search(w) ==
    /\ job[w].pc = "search"
    /\ \/ \E cand \in TopOne(Head(job[w].todo)) :
            job' = [job EXCEPT ![w] = [@ EXCEPT
                      !.todo = Tail(job[w].todo),
                      !.items = Append(job[w].items, [fact |-> Head(job[w].todo), cand |-> cand]),
                      !.pc = IF Len(job[w].todo) = 1 THEN "match" ELSE "search"]]
       \/ CanFail /\ job' = [job EXCEPT ![w] = Idle]
    /\ UNCHANGED <<rows, vec, links, sent>>

\* The item is finished, or given up with an error that is only logged.
NextItem(w) ==
    job' = [job EXCEPT ![w] =
        IF Len(@.items) = 1 THEN Idle
        ELSE [Idle EXCEPT !.pc = "match", !.items = Tail(job[w].items)]]

\* processOneItemOnce up to the transaction: the row of the candidate is read
\* here, outside the transaction that will overwrite it.
Match(w) ==
    LET it == Head(job[w].items) IN
    /\ job[w].pc = "match"
    /\ \/ \E p \in Plans(it.fact, it.cand) :
            job' = [job EXCEPT ![w] = [@ EXCEPT !.pc = "commit", !.plan = p]]
       \/ CanFail /\ NextItem(w)
    /\ UNCHANGED <<rows, vec, links, sent>>

\* executeItemTx: upsert (the archived flag of the row stays), archive, edge.
Commit(w) ==
    LET p == job[w].plan IN
    /\ job[w].pc = "commit"
    /\ rows' = [f \in Facts |->
         [content |-> IF f = p.id THEN p.content ELSE rows[f].content,
          archived |-> rows[f].archived \/ f = p.archive]]
    /\ links' = IF p.link = None THEN links ELSE links \cup {<<p.id, p.link>>}
    /\ job' = [job EXCEPT ![w] = [@ EXCEPT !.pc = "ops", !.ops = p.ops]]
    /\ UNCHANGED <<vec, sent>>

\* Mutant of CommitFails: the vector operations are not skipped.
FailThenOps(w) ==
    /\ CanFail
    /\ job[w].pc = "commit"
    /\ job' = [job EXCEPT ![w] = [@ EXCEPT !.pc = "ops", !.ops = job[w].plan.ops]]
    /\ UNCHANGED <<rows, vec, links, sent>>

\* The transaction is rolled back.  SQLITE_BUSY repeats the attempt from the
\* match, a bounded number of times; another error ends the item.
CommitFails(w) ==
    /\ CanFail
    /\ job[w].pc = "commit"
    /\ \/ /\ job[w].try < MaxAttempts
          /\ job' = [job EXCEPT ![w] = [@ EXCEPT !.pc = "match", !.try = job[w].try + 1, !.plan = None]]
       \/ NextItem(w)
    /\ UNCHANGED <<rows, vec, links, sent>>

\* One operation of applyVIOps; its failure is only logged.
VectorOp(w) ==
    LET o == Head(job[w].ops) IN
    /\ job[w].pc = "ops"
    /\ \/ vec' = [vec EXCEPT ![o.id] = o.content]
       \/ CanFail /\ UNCHANGED vec
    /\ IF Len(job[w].ops) = 1 THEN NextItem(w)
       ELSE job' = [job EXCEPT ![w].ops = Tail(@)]
    /\ UNCHANGED <<rows, links, sent>>

Step(w) == Search(w) \/ Match(w) \/ Commit(w) \/ CommitFails(w) \/ VectorOp(w)

Next == \E w \in Workers : Step(w) \/ \E m \in Messages : Receive(w, m)

Spec == Init /\ [][Next]_vars
-----------------------------------------------------------------------------
\* However two workers interleave, whatever is retried and whatever an item
\* found when its message was searched: a row never asserts a fact and a
\* negated one of its topic together (README.md:293-297).
NoMixedRow ==
    \A id \in Facts : \A f, g \in rows[id].content : f \in Negated <=> g \in Negated

\* A vector always belongs to a committed row, whatever fails: the operations
\* on the index follow the commit (dialog.go:232-235).
NoOrphanVector == \A id \in Facts : vec[id] # {} => rows[id].content # {}

\* A contradicts edge joins two rows that are both stored
\* (dialog.go:244-268, worker.go:122-147).
LinksJoinRows ==
    \A l \in links : rows[l[1]].content # {} /\ rows[l[2]].content # {}

RowsStaySane == NoMixedRow /\ NoOrphanVector /\ LinksJoinRows

\* What every step keeps: rows never lose their content, what a worker is about
\* to write is sane, and its vector operations are of a row that is there.
DialogAssumption == Messages \subseteq Seq(Facts)

Sane(content) == \A f, g \in content : f \in Negated <=> g \in Negated
Ops == [op : {"store", "remove"}, id : Facts, content : SUBSET Facts]
PlanRows == [id : Facts, content : SUBSET Facts, archive : Facts \cup {None},
             link : Facts \cup {None}, ops : Seq(Ops)]
Jobs == [pc : {"idle", "search", "match", "commit", "ops"}, todo : Seq(Facts),
         items : Seq([fact : Facts, cand : Facts \cup {None}]), try : Nat,
         plan : PlanRows \cup {None}, ops : Seq(Ops)]

DialogTypes ==
    /\ rows \in [Facts -> [content : SUBSET Facts, archived : BOOLEAN]]
    /\ vec \in [Facts -> SUBSET Facts]
    /\ links \subseteq Facts \X Facts

PlanSane(p) ==
    /\ p \in PlanRows
    /\ p.content # {} /\ Sane(p.content)
    /\ p.link # None => rows[p.link].content # {}
    /\ p.ops # <<>> /\ \A k \in DOMAIN p.ops : p.ops[k].content # {} => p.ops[k].id = p.id

WorkerSane(j) ==
    /\ j.pc = "search" => j.todo # <<>>
    /\ j.pc \in {"match", "commit", "ops"} => j.items # <<>>
    /\ j.pc = "commit" => PlanSane(j.plan)
    /\ j.pc = "ops" => /\ j.ops # <<>>
                       /\ \A k \in DOMAIN j.ops :
                            j.ops[k].content # {} => rows[j.ops[k].id].content # {}

SaneJobs == {j \in Jobs : WorkerSane(j)}
DialogInv == DialogTypes /\ RowsStaySane /\ job \in [Workers -> SaneJobs]

\* "the new content is merged into the existing entity (concatenated ... if
\* not already substring-contained)" (README.md:297-299): what a row says is
\* never taken away by ingesting more.
MergedFactsStay == [][\A id \in Facts : rows[id].content \subseteq rows'[id].content]_rows
=============================================================================
