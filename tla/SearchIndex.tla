----------------------------- MODULE SearchIndex -----------------------------
(***************************************************************************)
(* What a vector store promises to its callers: a map from the ids of a    *)
(* namespace to vectors, and an honest report of every record it did not   *)
(* store.  Nothing is ever evicted.                                        *)
(***************************************************************************)
CONSTANTS Namespaces, Ids, Vectors, NoVec

VARIABLES map,      \* namespace -> id -> vector
          refused   \* the records the running batch will report

indexVars == <<map, refused>>

Empty == [ns \in Namespaces |-> [id \in Ids |-> NoVec]]

Init == map = Empty /\ refused = {}

Begin == refused' = {} /\ UNCHANGED map

Put(ns, id, v) == map' = [map EXCEPT ![ns][id] = v] /\ UNCHANGED refused

Refuse(ns, id, v) == refused' = refused \cup {<<ns, id, v>>} /\ UNCHANGED map

Drop(ns, id) == map' = [map EXCEPT ![ns][id] = NoVec] /\ refused' = {}

\* The process ends; the index is memory.
Restart == map' = Empty /\ refused' = {}

Next == \/ Begin \/ Restart
        \/ \E ns \in Namespaces, id \in Ids, v \in Vectors : Put(ns, id, v) \/ Refuse(ns, id, v)
        \/ \E ns \in Namespaces, id \in Ids : Drop(ns, id)

Spec == Init /\ [][Next]_indexVars
==============================================================================
