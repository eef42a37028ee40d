--------------------------- MODULE MCEntityLocker ---------------------------
(* Small instances of EntityLocker for TLC.                                *)
EXTENDS EntityLocker, TLC

MCIDs == 1..3

\* Hashes that keep the order of the ids and never collide.
OrderedShards == (1 :> 3) @@ (2 :> 9) @@ (3 :> 12)

\* Overlapping batches, the empty one and one that takes every shard.
SafetyBatches == {{}, {1}, {1, 2}, {2, 3}, {1, 2, 3}}
=============================================================================
