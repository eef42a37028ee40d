------------------------------- MODULE ReEmbed -------------------------------
(***************************************************************************)
(* ReEmbedAll (src/internal/reembed/service.go) next to the other users of *)
(* the database.  The pool has ONE connection (store/init.go): it is taken *)
(* by the rows of an open query, and a statement waits until it is free.   *)
(*                                                                         *)
(* A content is a version number, 0 the empty one; an embedding is of a    *)
(* content, by the old model or by the new one, whose dimension differs.   *)
(***************************************************************************)
EXTENDS Integers, Sequences, FiniteSets

CONSTANTS Ids,          \* numbers, in the order of the query
          Contents,     \* what the rows may say at first
          BatchSize,
          MaxEdits,     \* bound on the edits by other requests
          CanFail       \* a model, a statement, a client that goes away

VARIABLES content,
          embedded,   \* id -> content and model of the stored embedding
          indexed,    \* id -> the same of the vector in the index
          modelOf,    \* the model meta.embedding_dim is of
          conn,       \* "free", or "rows" while the query is open
          work,       \* the call
          edits

embVars == <<content, embedded, indexed, modelOf, conn, work, edits>>

NotStarted == [pc |-> "idle", cursor |-> <<>>, batch |-> <<>>, total |-> 0, skipped |-> 0,
               failed |-> 0, done |-> 0]

Init ==
    /\ content \in [Ids -> Contents]
    /\ embedded = [i \in Ids |-> [of |-> content[i], by |-> "old"]]
    /\ indexed = embedded
    /\ modelOf = "old"
    /\ conn = "free"
    /\ work = NotStarted
    /\ edits = 0
-----------------------------------------------------------------------------
\* The model name is stored and the query opened; its rows are those of now.
Start ==
    /\ work.pc = "idle" /\ conn = "free"
    /\ conn' = "rows"
    /\ work' = [work EXCEPT !.pc = "fetch",
                            !.cursor = [i \in 1..Cardinality(Ids) |-> [id |-> i, says |-> content[i]]]]
    /\ UNCHANGED <<content, embedded, indexed, modelOf, edits>>

\* rows.Next: a row without content is skipped; a full batch is processed at
\* once, the rows being open.
Fetch ==
    LET r == Head(work.cursor)
        read == [work EXCEPT !.cursor = Tail(@), !.total = @ + 1]
    IN  /\ work.pc = "fetch" /\ work.cursor # <<>>
        /\ work' = IF r.says = 0 THEN [read EXCEPT !.skipped = @ + 1]
                   ELSE [read EXCEPT !.batch = Append(@, r),
                                     !.pc = IF Len(work.batch) + 1 >= BatchSize THEN "embed" ELSE "fetch"]
        /\ UNCHANGED <<content, embedded, indexed, modelOf, conn, edits>>

\* Mutant of FetchEnd: the rows are closed when the function returns.
FetchEndKeepsRows ==
    /\ work.pc = "fetch" /\ work.cursor = <<>>
    /\ work' = [work EXCEPT !.pc = IF work.batch = <<>> THEN "finish" ELSE "embed"]
    /\ UNCHANGED <<content, embedded, indexed, modelOf, conn, edits>>

\* The last row has been read, which closes the rows.
FetchEnd ==
    /\ work.pc = "fetch" /\ work.cursor = <<>>
    /\ conn' = "free"
    /\ work' = [work EXCEPT !.pc = IF work.batch = <<>> THEN "finish" ELSE "embed"]
    /\ UNCHANGED <<content, embedded, indexed, modelOf, edits>>

\* The batch is done: on to the next rows, or to the end.
NextItem(w) ==
    [w EXCEPT !.batch = Tail(@),
              !.pc = IF Len(w.batch) > 1 THEN "embed" ELSE IF conn = "rows" THEN "fetch" ELSE "finish"]

\* A request to the model; an error or a wrong dimension counts as failed.
Embed ==
    /\ work.pc = "embed"
    /\ \/ work' = [work EXCEPT !.pc = "update"]
       \/ CanFail /\ work' = [NextItem(work) EXCEPT !.failed = @ + 1]
    /\ UNCHANGED <<content, embedded, indexed, modelOf, conn, edits>>

\* Mutant of Update: a failure is not counted.
UpdateForgetsFailure ==
    LET r == Head(work.batch) IN
    /\ work.pc = "update" /\ conn = "free"
    /\ \/ /\ embedded' = [embedded EXCEPT ![r.id] = [of |-> r.says, by |-> "new"]]
          /\ \/ indexed' = [indexed EXCEPT ![r.id] = embedded'[r.id]]
             \/ UNCHANGED indexed
          /\ work' = [NextItem(work) EXCEPT !.done = @ + 1]
       \/ /\ CanFail
          /\ work' = NextItem(work)
          /\ UNCHANGED <<embedded, indexed>>
    /\ UNCHANGED <<content, modelOf, conn, edits>>

\* The UPDATE, which asks the pool for a connection, and the index, whose
\* error is not looked at.
Update ==
    LET r == Head(work.batch) IN
    /\ work.pc = "update" /\ conn = "free"
    /\ \/ /\ embedded' = [embedded EXCEPT ![r.id] = [of |-> r.says, by |-> "new"]]
          /\ \/ indexed' = [indexed EXCEPT ![r.id] = embedded'[r.id]]
             \/ UNCHANGED indexed
          /\ work' = [NextItem(work) EXCEPT !.done = @ + 1]
       \/ /\ CanFail
          /\ work' = [NextItem(work) EXCEPT !.failed = @ + 1]
          /\ UNCHANGED <<embedded, indexed>>
    /\ UNCHANGED <<content, modelOf, conn, edits>>

\* The client goes away: the rows are closed; the items of a batch that is
\* being processed fail one by one, and then the iteration ends with the error
\* of the context, before it looks at a batch that is not full.
Cancel ==
    /\ CanFail
    /\ work.pc \in {"fetch", "embed", "update"} /\ conn = "rows"
    /\ conn' = "free"
    /\ work' = IF work.pc = "fetch" THEN [work EXCEPT !.pc = "error"]
               ELSE [work EXCEPT !.pc = "error", !.batch = <<>>, !.failed = @ + Len(work.batch)]
    /\ UNCHANGED <<content, embedded, indexed, modelOf, edits>>

\* The dimension is recorded, whatever has failed.
Finish ==
    /\ work.pc = "finish" /\ conn = "free"
    /\ modelOf' \in {"new"} \cup (IF CanFail THEN {modelOf} ELSE {})
    /\ work' = [work EXCEPT !.pc = "done"]
    /\ UNCHANGED <<content, embedded, indexed, conn, edits>>

\* Another request writes a row, its embedding and its vector.
Edit(i) ==
    /\ edits < MaxEdits /\ conn = "free"
    /\ edits' = edits + 1
    /\ content' = [content EXCEPT ![i] = @ + 1]
    /\ embedded' = [embedded EXCEPT ![i] = [of |-> content'[i], by |-> "new"]]
    /\ indexed' = [indexed EXCEPT ![i] = embedded'[i]]
    /\ UNCHANGED <<modelOf, conn, work>>

EmbStep == Start \/ Fetch \/ FetchEnd \/ Embed \/ Update \/ Finish

Next == EmbStep \/ Cancel \/ \E i \in Ids : Edit(i)

Spec == Init /\ [][Next]_embVars
FairSpec == Spec /\ WF_embVars(EmbStep)
-----------------------------------------------------------------------------
\* The report tells the truth about every row the query has returned, and the
\* new dimension is recorded only when each of them has been tried: what is
\* still by the old model then was empty or is among the failed
\* (service.go:84-118).
ReEmbedAccounts ==
    /\ work.total = work.skipped + work.failed + work.done + Len(work.batch)
    /\ modelOf = "new" =>
         /\ work.pc = "done" /\ work.total = Cardinality(Ids)
         /\ Cardinality({i \in Ids : embedded[i].by = "old"}) <= work.skipped + work.failed

Ended == work.pc \in {"done", "error"} /\ conn = "free"

\* "batch re-embeds all entities" (README.md:150): the call ends, and the
\* other requests have the connection again.
ReEmbedEnds == <>[]Ended
-----------------------------------------------------------------------------
(* Why the report is right: a row that has been read waits in the batch or *)
(* has been tried, and what is left by the old model then was skipped or   *)
(* has failed.                                                             *)
Rows == [id : Ids, says : Nat]
Works == [pc : {"idle", "fetch", "embed", "update", "finish", "done", "error"},
          cursor : Seq(Rows), batch : Seq(Rows),
          total : Nat, skipped : Nat, failed : Nat, done : Nat]
EmbTypes ==
    /\ content \in [Ids -> Nat]
    /\ embedded \in [Ids -> [of : Nat, by : {"old", "new"}]]
    /\ modelOf \in {"old", "new"} /\ conn \in {"free", "rows"}
    /\ work \in Works

OldAndTried ==
    {i \in 1..work.total : embedded[i].by = "old" /\ \A k \in DOMAIN work.batch : work.batch[k].id # i}

\* The rows come in the order of their numbers, and none is left out.
InOrder ==
    /\ Len(work.cursor) + work.total = Cardinality(Ids)
    /\ \A k \in DOMAIN work.cursor : work.cursor[k].id = work.total + k

EmbInv ==
    /\ EmbTypes
    /\ work.total = work.skipped + work.failed + work.done + Len(work.batch)
    /\ work.pc = "idle" => work = NotStarted
    /\ work.pc \in {"fetch", "embed", "update", "finish", "done"} =>
          InOrder /\ Cardinality(OldAndTried) <= work.skipped + work.failed
    /\ work.pc = "fetch" => conn = "rows"
    /\ work.pc \in {"embed", "update"} => work.batch # <<>> /\ (conn = "free" => work.cursor = <<>>)
    /\ work.pc \in {"finish", "done"} => work.batch = <<>> /\ work.cursor = <<>>
    /\ modelOf = "new" => work.pc = "done"
=============================================================================
