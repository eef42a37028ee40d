----------------------------- MODULE EnvManager -----------------------------
(***************************************************************************)
(* EnvManager (src/internal/cli/env/env.go): the runtime context behind an *)
(* atomic pointer.  A writer reads the current one, builds the next, and   *)
(* stores it; nothing makes the three one step.  The generation a Reload   *)
(* replaces is drained: some time later its context is cancelled and its   *)
(* database closed unless the next one has it too.                         *)
(***************************************************************************)
EXTENDS Naturals

CONSTANTS Writers,
          MaxEnvs,    \* bound on the environments ever built
          None

VARIABLES envs,       \* environment -> its context and its database
          current,
          built,
          writing,    \* what each writer is doing
          draining,   \* pairs: replaced, replaced by
          cancelled,  \* contexts
          closed      \* databases

envMgrVars == <<envs, current, built, writing, draining, cancelled, closed>>

Idle == [op |-> "idle", from |-> None]
Places == 1..MaxEnvs

\* The first environment has a context that can be cancelled.
Init ==
    /\ envs = [e \in Places |-> [ctx |-> e, db |-> 1]]
    /\ current = 1 /\ built = 1
    /\ writing = [w \in Writers |-> Idle]
    /\ draining = {} /\ cancelled = {} /\ closed = {}
-----------------------------------------------------------------------------
\* Reload and MutateSet start by reading the pointer; an invalid
\* configuration or a failing mutator leaves everything as it is.
BeginWrite(w, op) ==
    /\ writing[w] = Idle
    /\ writing' = [writing EXCEPT ![w] = [op |-> op, from |-> current]]
    /\ UNCHANGED <<envs, current, built, draining, cancelled, closed>>

Abandon(w) ==
    /\ writing[w].op # "idle"
    /\ writing' = [writing EXCEPT ![w] = Idle]
    /\ UNCHANGED <<envs, current, built, draining, cancelled, closed>>

Publish(w, env) ==
    /\ built < MaxEnvs
    /\ built' = built + 1
    /\ envs' = [envs EXCEPT ![built'] = env]
    /\ current' = built'
    /\ writing' = [writing EXCEPT ![w] = Idle]

\* Mutant of Reload: the new generation inherits the context of the old one.
ReloadInherits(w) ==
    /\ writing[w].op = "reload"
    /\ Publish(w, envs[writing[w].from])
    /\ draining' = draining \cup {<<writing[w].from, built'>>}
    /\ UNCHANGED <<cancelled, closed>>

\* A context of its own; the handles are carried over.
Reload(w) ==
    /\ writing[w].op = "reload"
    /\ Publish(w, [envs[writing[w].from] EXCEPT !.ctx = built + 1])
    /\ draining' = draining \cup {<<writing[w].from, built'>>}
    /\ UNCHANGED <<cancelled, closed>>

\* A clone, context included, in which the mutator may replace a handle.
MutateSet(w) ==
    /\ writing[w].op = "mutate"
    /\ \E db \in {envs[writing[w].from].db, built + 1} :
          Publish(w, [envs[writing[w].from] EXCEPT !.db = db])
    /\ UNCHANGED <<draining, cancelled, closed>>

GracefulDrain(prev, next) ==
    /\ <<prev, next>> \in draining
    /\ draining' = draining \ {<<prev, next>>}
    /\ cancelled' = cancelled \cup {envs[prev].ctx}
    /\ closed' = IF envs[prev].db # envs[next].db THEN closed \cup {envs[prev].db} ELSE closed
    /\ UNCHANGED <<envs, current, built, writing>>

Next ==
    \/ \E w \in Writers :
          \/ \E op \in {"reload", "mutate"} : BeginWrite(w, op)
          \/ Abandon(w) \/ Reload(w) \/ MutateSet(w)
    \/ \E d \in draining : GracefulDrain(d[1], d[2])

Spec == Init /\ [][Next]_envMgrVars
-----------------------------------------------------------------------------
\* With one writer at a time: a drain, however late it comes, reaches only
\* replaced generations (env.go:344-349, 381-389).
LiveEnvStays ==
    /\ envs[current].ctx \notin cancelled
    /\ envs[current].db \notin closed
-----------------------------------------------------------------------------
\* Why a drain is harmless: the context of a generation that is replaced is
\* older than that of every later one, and its database is also the next's.
EnvTypes ==
    /\ envs \in [Places -> [ctx : Nat, db : Nat]]
    /\ built \in Places
    /\ writing \in [Writers -> [op : {"idle", "reload", "mutate"}, from : Nat]]
    /\ draining \subseteq Places \X Places
    /\ cancelled \subseteq Nat

EnvInv ==
    /\ EnvTypes
    /\ current = built /\ envs[current].ctx <= built
    /\ \A w \in Writers : writing[w].op # "idle" => writing[w].from = current
    /\ \A d \in draining :
          /\ d[1] <= built /\ d[2] <= built
          /\ envs[d[1]].ctx < envs[current].ctx /\ envs[d[1]].db = envs[d[2]].db
    /\ \A c \in cancelled : c < envs[current].ctx
    /\ closed = {}
=============================================================================
