----------------------------- MODULE TaskBoard -----------------------------
(***************************************************************************)
(* What a pool of workers is promised by the task service: a task is taken *)
(* at most once, and only when everything upstream of it is done; a task   *)
(* is dropped when it failed or when something upstream of it was dropped. *)
(***************************************************************************)
CONSTANTS Tasks, Workers, None

VARIABLES before,  \* before[t]: the tasks upstream of t
          state,   \* of every task
          holder   \* the task a worker has in hand, or None

boardVars == <<before, state, holder>>

Init ==
    /\ before \in [Tasks -> SUBSET Tasks]
    /\ state = [t \in Tasks |-> "open"]
    /\ holder = [w \in Workers |-> None]

MayStart(t) == state[t] = "open" /\ \A u \in before[t] : state[u] = "done"

Take(w, t) ==
    /\ holder[w] = None
    /\ MayStart(t)
    /\ state' = [state EXCEPT ![t] = "taken"]
    /\ holder' = [holder EXCEPT ![w] = t]
    /\ UNCHANGED before

\* The task is taken but its worker never hears of it.
Lose(t) ==
    /\ MayStart(t)
    /\ state' = [state EXCEPT ![t] = "taken"]
    /\ UNCHANGED <<before, holder>>

End(w, outcome) ==
    /\ holder[w] # None
    /\ state[holder[w]] = "taken"
    /\ state' = [state EXCEPT ![holder[w]] = outcome]
    /\ holder' = [holder EXCEPT ![w] = None]
    /\ UNCHANGED before

\* Open tasks downstream of a dropped one are dropped.
Drop(S) ==
    /\ \A t \in S : state[t] = "open" /\ \E u \in before[t] : state[u] = "dropped"
    /\ state' = [t \in Tasks |-> IF t \in S THEN "dropped" ELSE state[t]]
    /\ UNCHANGED <<before, holder>>

Next ==
    \/ \E w \in Workers, t \in Tasks : Take(w, t)
    \/ \E t \in Tasks : Lose(t)
    \/ \E w \in Workers : End(w, "done") \/ End(w, "dropped")
    \/ \E S \in SUBSET Tasks : Drop(S)

Spec == Init /\ [][Next]_boardVars
=============================================================================
