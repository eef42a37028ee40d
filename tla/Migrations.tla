----------------------------- MODULE Migrations -----------------------------
(***************************************************************************)
(* RunMigrations, RollbackMigration and the check at start-up              *)
(* (src/internal/store/migration.go, init.go), run by several processes on *)
(* one database file: a server with auto_migrate, one without, the command *)
(* line and POST /db/rollback.                                             *)
(*                                                                         *)
(* The schema is a set of names (tables, columns, indexes).  A statement   *)
(* does nothing when a name of "skip" is there (IF NOT EXISTS, or one of   *)
(* the two errors isIdempotentMigrationError lets pass), fails unless      *)
(* "needs" is there, and then adds "gives" and removes "takes".            *)
(***************************************************************************)
EXTENDS Integers, Sequences

CONSTANTS Processes,
          Script,         \* the statements of each embedded file, in their order
          MaxCalls,       \* bound: boots and rollbacks
          CanFail,        \* a statement of SQLite fails; a process dies
          NoFile

VARIABLES recorded,   \* schema_migrations: file -> applied_at, 0 = no row
          checksums,  \* the files with a row in migration_checksums
          schema,
          tx,         \* the one write transaction SQLite admits
          proc, calls

vars == <<recorded, checksums, schema, tx, proc, calls>>

NoTx == [owner |-> NoFile, file |-> NoFile, done |-> 0, schema |-> {}]
At(pc, todo, file) == [pc |-> pc, todo |-> todo, file |-> file]
Files == DOMAIN Script
Applied == {f \in Files : recorded[f] > 0}
Latest == CHOOSE n \in {0} \cup {recorded[f] : f \in Files} : \A f \in Files : recorded[f] <= n

\* What a statement leaves of names that it is run on.
Skipped(st, names) == st.skip \cap names # {}
Runs(st, names) == Skipped(st, names) \/ st.needs \subseteq names
After(st, names) == IF Skipped(st, names) THEN names ELSE (names \cup st.gives) \ st.takes

\* What the first k statements of a file leave, and the first n files, when
\* each of them is run to its end.
Along(f, names) ==
    LET left[k \in 0..Len(Script[f])] == IF k = 0 THEN names ELSE After(Script[f][k], left[k - 1])
    IN  left
Left[n \in 0..Len(Script)] == IF n = 0 THEN {} ELSE Along(n, Left[n - 1])[Len(Script[n])]

\* The files are sequences of statements; and one that is run again later
\* changes nothing or comes to a statement that fails (013 takes what 011
\* needs): no file brings back what a later one has taken away.
MigrationsAssumption ==
    /\ NoFile \notin Processes
    /\ Len(Script) \in Nat /\ Files = 1..Len(Script)
    /\ \A f \in Files : Len(Script[f]) \in Nat
    /\ \A n \in Files : \A f \in 1..n :
         \/ Along(f, Left[n])[Len(Script[f])] = Left[n]
         \/ \E k \in 1..Len(Script[f]) : ~Runs(Script[f][k], Along(f, Left[n])[k - 1])

Init ==
    /\ recorded = [f \in Files |-> 0]
    /\ checksums = {} /\ schema = {}
    /\ tx = NoTx
    /\ proc = [p \in Processes |-> At("idle", {}, NoFile)]
    /\ calls = 0

Busy(p) == proc[p].pc \in {"apply", "tx", "row", "sum"}
Goto(p, pc) == proc' = [proc EXCEPT ![p] = At(pc, proc[p].todo, proc[p].file)]
Ends(p, how) == proc' = [proc EXCEPT ![p] = At(how, {}, NoFile)]
-----------------------------------------------------------------------------
(* RunMigrations                                                           *)

\* What is pending is read once, before the first file is applied.
Boot(p) ==
    /\ ~Busy(p) /\ calls < MaxCalls
    /\ calls' = calls + 1
    /\ proc' = [proc EXCEPT ![p] = At("apply", Files \ Applied, NoFile)]
    /\ UNCHANGED <<recorded, checksums, schema, tx>>

\* auto_migrate is off: assertSchemaUpToDate only looks.
BootStrict(p) ==
    /\ ~Busy(p) /\ calls < MaxCalls
    /\ calls' = calls + 1
    /\ Ends(p, IF Applied = Files THEN "up" ELSE "refused")
    /\ UNCHANGED <<recorded, checksums, schema, tx>>

\* The transaction of the next file; the writers of other processes wait.
Begin(p) ==
    LET f == CHOOSE g \in proc[p].todo : \A h \in proc[p].todo : g <= h IN
    /\ proc[p].pc = "apply" /\ proc[p].todo # {} /\ tx = NoTx
    /\ tx' = [owner |-> p, file |-> f, done |-> 0, schema |-> schema]
    /\ proc' = [proc EXCEPT ![p] = At("tx", proc[p].todo \ {f}, NoFile)]
    /\ UNCHANGED <<recorded, checksums, schema, calls>>

\* The statement that is next.
Upcoming == Script[tx.file][tx.done + 1]

Statement(p) ==
    /\ proc[p].pc = "tx" /\ tx.done < Len(Script[tx.file])
    /\ Runs(Upcoming, tx.schema)
    /\ tx' = [owner |-> tx.owner, file |-> tx.file, done |-> tx.done + 1,
              schema |-> After(Upcoming, tx.schema)]
    /\ UNCHANGED <<recorded, checksums, schema, proc, calls>>

\* Mutant of HardError: what ran before the error stays.
ErrorKeepsStatements(p) ==
    /\ proc[p].pc = "tx"
    /\ CanFail /\ Ends(p, "error")
    /\ schema' = tx.schema
    /\ tx' = NoTx
    /\ UNCHANGED <<recorded, checksums, calls>>

\* Any other error rolls the file back and ends the run.
HardError(p) ==
    /\ proc[p].pc = "tx"
    /\ \/ CanFail /\ Ends(p, "error")
       \/ /\ tx.done < Len(Script[tx.file]) /\ ~Runs(Upcoming, tx.schema)
          /\ Ends(p, "broken")
    /\ tx' = NoTx
    /\ UNCHANGED <<recorded, checksums, schema, calls>>

\* Both rows and the commit.  The version is the key of both tables: a file
\* another process has recorded in the meantime fails here.
Record(p) ==
    /\ proc[p].pc = "tx" /\ tx.done = Len(Script[tx.file])
    /\ tx.file \notin Applied /\ tx.file \notin checksums
    /\ \E at \in {Latest, Latest + 1} \ {0} : recorded' = [recorded EXCEPT ![tx.file] = at]
    /\ checksums' = checksums \cup {tx.file}
    /\ schema' = tx.schema
    /\ tx' = NoTx /\ Goto(p, "apply")
    /\ UNCHANGED calls

RecordFails(p) ==
    /\ proc[p].pc = "tx" /\ tx.done = Len(Script[tx.file])
    /\ tx.file \in Applied \/ tx.file \in checksums
    /\ tx' = NoTx /\ Ends(p, "error")
    /\ UNCHANGED <<recorded, checksums, schema, calls>>

Finish(p) ==
    /\ proc[p].pc = "apply" /\ proc[p].todo = {}
    /\ Ends(p, "up")
    /\ UNCHANGED <<recorded, checksums, schema, tx, calls>>
-----------------------------------------------------------------------------
(* RollbackMigration: rows are deleted, the schema stays.                  *)

\* The last row by applied_at, which has seconds: any of those that share the
\* latest one.
Rollback(p) ==
    /\ ~Busy(p) /\ calls < MaxCalls
    /\ calls' = calls + 1
    /\ \E f \in Applied :
         /\ recorded[f] = Latest
         /\ proc' = [proc EXCEPT ![p] = At("row", {f}, NoFile)]
    /\ UNCHANGED <<recorded, checksums, schema, tx>>

RollbackTo(p, target) ==
    /\ ~Busy(p) /\ calls < MaxCalls
    /\ Applied # {}
    /\ calls' = calls + 1
    /\ proc' = [proc EXCEPT ![p] = At("row", {f \in Files : f > target}, target)]
    /\ UNCHANGED <<recorded, checksums, schema, tx>>

\* Two statements, no transaction; without a target their errors are logged
\* and the second one runs all the same.
DeleteRows(p) ==
    /\ proc[p].pc = "row" /\ tx = NoTx
    /\ \/ recorded' = [f \in Files |-> IF f \in proc[p].todo THEN 0 ELSE recorded[f]]
       \/ CanFail /\ proc[p].file = NoFile /\ UNCHANGED recorded
    /\ Goto(p, "sum")
    /\ UNCHANGED <<checksums, schema, tx, calls>>

DeleteChecksums(p) ==
    /\ proc[p].pc = "sum" /\ tx = NoTx
    /\ \/ checksums' = checksums \ proc[p].todo
       \/ CanFail /\ UNCHANGED checksums
    /\ Ends(p, "idle")
    /\ UNCHANGED <<recorded, schema, tx, calls>>

\* The process dies, or SQLITE_BUSY ends what it was doing.
Crash(p) ==
    /\ CanFail /\ Busy(p)
    /\ tx' = IF tx.owner = p THEN NoTx ELSE tx
    /\ Ends(p, "idle")
    /\ UNCHANGED <<recorded, checksums, schema, calls>>

Next ==
    \E p \in Processes :
      \/ Boot(p) \/ BootStrict(p) \/ Begin(p) \/ Statement(p) \/ HardError(p)
      \/ Record(p) \/ RecordFails(p) \/ Finish(p)
      \/ Rollback(p) \/ (\E t \in Files : RollbackTo(p, t))
      \/ DeleteRows(p) \/ DeleteChecksums(p) \/ Crash(p)

Spec == Init /\ [][Next]_vars
-----------------------------------------------------------------------------
\* However boots, rollbacks and deaths of processes interleave, the schema is
\* what the first n files leave when each of them is run to its end, and
\* every recorded file is one of these: no file is half there, and none is
\* recorded that was not run (migration.go:18-33).
SchemaMatchesRows == \E n \in 0..Len(Script) : schema = Left[n] /\ Applied \subseteq 1..n

\* "migrations [...] can now be re-applied safely" (migration.go:26-29): what
\* a rollback has made pending again does not stop the next boot.
ReapplyWorks == \A p \in Processes : proc[p].pc # "broken"
-----------------------------------------------------------------------------
SchemaTypes ==
    /\ recorded \in [Files -> Nat]
    /\ proc \in [Processes -> [pc : {"idle", "apply", "tx", "row", "sum", "up", "refused", "error", "broken"},
                              todo : SUBSET Files, file : Files \cup {NoFile}]]

\* What a run that is under way makes of the first n files: none of those
\* it has left behind is after them, and the file it is in is not after the
\* next one and stands where the statements that ran leave it.
RunFits(p, n) ==
    /\ proc[p].pc = "apply" => Files \ proc[p].todo \subseteq 1..n
    /\ proc[p].pc = "tx" =>
         /\ tx.owner = p /\ tx.file \in Files /\ tx.file <= n + 1
         /\ Files \ (proc[p].todo \cup {tx.file}) \subseteq 1..n
         /\ tx.done \in 0..Len(Script[tx.file])
         /\ tx.schema = Along(tx.file, Left[n])[tx.done]
         /\ \A k \in 1..tx.done : Runs(Script[tx.file][k], Along(tx.file, Left[n])[k - 1])

SchemaInv ==
    /\ SchemaTypes
    /\ \E n \in 0..Len(Script) :
         /\ schema = Left[n] /\ Applied \subseteq 1..n
         /\ \A p \in Processes : RunFits(p, n)
=============================================================================
