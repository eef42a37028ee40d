--------------------------- MODULE MCTaskWorkers ---------------------------
(* Small instances of TaskWorkers for TLC.                                 *)
EXTENDS TaskWorkers, TLC

ThreeTasks == 1..3
FourTasks == 1..4

\* The last task is the most urgent one.
MCPrio == [t \in Tasks |-> IF t = 3 THEN 1 ELSE 0]

MCSymmetry == Permutations(Workers) \cup Permutations(Clients)

Global == {NoGoal}
OneGoal == {NoGoal, 1}
=============================================================================
