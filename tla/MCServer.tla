------------------------------ MODULE MCServer ------------------------------
(* A small instance of ApiServer for TLC.                                  *)
EXTENDS ApiServer, TLC

MCScope == "r" :> "read" @@ "w" :> "write"

Request(path, method, key, word) ==
    [path |-> path, method |-> method, key |-> key, body |-> TRUE, fields |-> TRUE, word |-> word]

\* A store and an edge, which are checked for a reload, the edge with a key that
\* may not write, a dependency of the other vocabulary, which is not, a search
\* with the wrong method, and a probe.
MCRequests ==
    {Request("/store", "POST", "w", "a"), Request("/task/dep", "POST", "w", "b"),
     Request("/edge", "POST", "r", "a"), Request("/search", "GET", "r", "a"),
     Request("/health", "GET", "r", "a")}

MCLimiters == 1..(MaxReloads + 1)

MCSymmetry == Permutations(Clients)
=============================================================================
