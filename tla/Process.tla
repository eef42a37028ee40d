------------------------------- MODULE Process -------------------------------
(***************************************************************************)
(* One run of the program, from main (src/main.go) through app.New, the    *)
(* hooks of the root command (cli/root.go), Env.EnsureDB and Env.Close     *)
(* (cli/env/env.go), Server.Serve (server/server.go) with the lifecycle    *)
(* manager and its components (lifecycle/), and back to Application.Stop.  *)
(*                                                                         *)
(* There are two database handles: the application opens one, and the hook *)
(* opens another and puts it into the environment.  Two contexts see the   *)
(* signals: that of main, and from its creation on that of Serve.          *)
(***************************************************************************)
EXTENDS Naturals, Sequences

CONSTANTS Commands,       \* of "leaf", "query", "apply", "serve"
          AutoMigrates,   \* the configured choices
          CanFail,        \* what touches the system may fail
          MaxRequests     \* bound on the requests served

Owners == {"app", "env"}
Components == <<"http", "gc", "consolidation">>
Background == {"gc", "consolidation"}
None == "none"

VARIABLES command, autoMigrate,
          schema,           \* "pending" or "current"
          stage,            \* where the main goroutine is
          pools, workers,   \* owner -> "none", "open", "closed"
          env,              \* the environment's handle and bookkeeping
          started,          \* the components that are running, in order
          jobs,             \* background component -> "none", "idle", "working", "ended"
          requests, served, \* handlers running; requests so far
          listening,
          signalled,        \* the contexts that are done, of "main" and "serve"
          exit

processVars == <<command, autoMigrate, schema, stage, pools, workers, env, started, jobs,
                 requests, served, listening, signalled, exit>>
handles == <<pools, workers, env>>
serving == <<started, jobs, requests, served, listening>>

Init ==
    /\ command \in Commands /\ autoMigrate \in AutoMigrates /\ schema \in {"pending", "current"}
    /\ stage = "main"
    /\ pools = [o \in Owners |-> "none"] /\ workers = pools
    /\ env = [db |-> None, keepOpen |-> FALSE, initDone |-> FALSE]
    /\ started = <<>> /\ jobs = [j \in Background |-> "none"]
    /\ requests = 0 /\ served = 0 /\ listening = FALSE
    /\ signalled = {} /\ exit = None

Opens(o) == pools' = [pools EXCEPT ![o] = "open"] /\ workers' = [workers EXCEPT ![o] = "open"]
\* Application.Stop and Env.Close: the worker drains, then the handle goes.
Closes(o) ==
    /\ pools' = [pools EXCEPT ![o] = IF @ = "open" THEN "closed" ELSE @]
    /\ workers' = [workers EXCEPT ![o] = IF @ = "open" THEN "closed" ELSE @]
Leaves(code) == stage' = "exited" /\ exit' = code
\* signalExitCode, of the context of main.
ExitCode(otherwise) == IF "main" \in signalled THEN "130" ELSE otherwise
-----------------------------------------------------------------------------
\* main: a command that needs no database gets an environment without one,
\* and its own hook in place of the root's.
Leaf ==
    /\ stage = "main" /\ command = "leaf"
    /\ \/ Leaves(ExitCode("0"))
       \/ CanFail /\ Leaves(ExitCode("1"))
    /\ UNCHANGED <<command, autoMigrate, schema, signalled>> /\ UNCHANGED handles /\ UNCHANGED serving

BadConfig ==
    /\ stage = "main" /\ CanFail
    /\ Leaves("1")
    /\ UNCHANGED <<command, autoMigrate, schema, signalled>> /\ UNCHANGED handles /\ UNCHANGED serving

\* app.New: refuses a database with pending migrations, whatever the command.
NewApplication ==
    /\ stage = "main" /\ command # "leaf"
    /\ \/ /\ autoMigrate \/ schema = "current"
          /\ schema' = "current"
          /\ Opens("app")
          /\ env' = [env EXCEPT !.db = "app", !.keepOpen = TRUE]
          /\ stage' = "preRun" /\ UNCHANGED exit
       \/ /\ (~autoMigrate /\ schema = "pending") \/ CanFail
          /\ Leaves("1")
          /\ UNCHANGED <<schema, pools, workers, env>>
    /\ UNCHANGED <<command, autoMigrate, signalled>> /\ UNCHANGED serving

\* EnsureDB or, for apply, EnsureDBForMigration; a later failure (the vector
\* store, warming it under a context that is done) leaves the handle open.
EnsureDB ==
    /\ stage = "preRun"
    /\ \/ /\ autoMigrate \/ command = "apply" \/ schema = "current"
          /\ schema' = IF autoMigrate THEN "current" ELSE schema
          /\ Opens("env")
          /\ env' = [env EXCEPT !.db = "env", !.initDone = TRUE]
          /\ \/ signalled = {} /\ stage' = "run"
             \/ (CanFail \/ signalled # {}) /\ stage' = "failed"
       \/ /\ CanFail \/ (~autoMigrate /\ command # "apply" /\ schema = "pending")
          /\ env' = [env EXCEPT !.initDone = TRUE]
          /\ stage' = "failed"
          /\ UNCHANGED <<schema, pools, workers>>
    /\ UNCHANGED <<command, autoMigrate, signalled, exit>> /\ UNCHANGED serving

RunCommand ==
    /\ stage = "run" /\ command \in {"query", "apply"}
    /\ \/ stage' = "postRun" /\ schema' = IF command = "apply" THEN "current" ELSE schema
       \/ (CanFail \/ signalled # {}) /\ stage' = "failed" /\ UNCHANGED schema
    /\ UNCHANGED <<command, autoMigrate, signalled, exit>> /\ UNCHANGED handles /\ UNCHANGED serving
-----------------------------------------------------------------------------
\* runServe: the embedder answers its ping, or the command fails; Serve
\* makes a context of its own.
Serve ==
    /\ stage = "run" /\ command = "serve"
    /\ \/ stage' = "starting"
       \/ (CanFail \/ signalled # {}) /\ stage' = "failed"
    /\ UNCHANGED <<command, autoMigrate, schema, signalled, exit>> /\ UNCHANGED handles /\ UNCHANGED serving

\* Every Start returns at once; GC and consolidation get a goroutine each.
StartComponent ==
    /\ stage = "starting"
    /\ LET c == Components[Len(started) + 1] IN
       /\ started' = Append(started, c)
       /\ listening' = (listening \/ c = "http")
       /\ jobs' = IF c \in Background THEN [jobs EXCEPT ![c] = "idle"] ELSE jobs
       /\ stage' = IF Len(started') = Len(Components) THEN "ready" ELSE stage
    /\ UNCHANGED <<command, autoMigrate, schema, requests, served, signalled, exit>> /\ UNCHANGED handles

Request ==
    /\ listening /\ served < MaxRequests
    /\ requests' = requests + 1 /\ served' = served + 1
    /\ UNCHANGED <<command, autoMigrate, schema, stage, started, jobs, listening, signalled, exit>> /\ UNCHANGED handles

Respond ==
    /\ requests > 0 /\ exit = None
    /\ requests' = requests - 1
    /\ UNCHANGED <<command, autoMigrate, schema, stage, started, jobs, served, listening, signalled, exit>>
    /\ UNCHANGED handles

\* The loop of a job: its select, its work, and out when the context is done.
Job(j) ==
    /\ exit = None
    /\ \/ jobs[j] = "idle" /\ jobs' = [jobs EXCEPT ![j] = "working"]
       \/ jobs[j] = "working" /\ jobs' = [jobs EXCEPT ![j] = "idle"]
       \/ jobs[j] = "idle" /\ "serve" \in signalled /\ jobs' = [jobs EXCEPT ![j] = "ended"]
    /\ UNCHANGED <<command, autoMigrate, schema, stage, started, requests, served, listening, signalled, exit>>
    /\ UNCHANGED handles

Signal ==
    /\ stage \notin {"main", "exited"}
    /\ signalled' = IF stage \in {"starting", "ready", "stopping", "shutdown"} THEN {"main", "serve"}
                    ELSE signalled \cup {"main"}
    /\ UNCHANGED <<command, autoMigrate, schema, stage, exit>> /\ UNCHANGED handles /\ UNCHANGED serving

Await ==
    /\ stage = "ready" /\ "serve" \in signalled
    /\ stage' = "stopping"
    /\ UNCHANGED <<command, autoMigrate, schema, signalled, exit>> /\ UNCHANGED handles /\ UNCHANGED serving

\* Manager.Stop, from the last component to the first.  Nobody waits for the
\* jobs; Shutdown closes the listener, then waits.
StopComponent ==
    /\ stage = "stopping"
    /\ LET c == started[Len(started)] IN
       /\ started' = SubSeq(started, 1, Len(started) - 1)
       /\ listening' = (listening /\ c # "http")
       /\ stage' = IF c = "http" THEN "shutdown" ELSE stage
    /\ UNCHANGED <<command, autoMigrate, schema, jobs, requests, served, signalled, exit>> /\ UNCHANGED handles

\* Mutant of Shutdown: no deadline.
ShutdownWaits ==
    /\ stage = "shutdown" /\ requests = 0
    /\ stage' = "postRun"
    /\ UNCHANGED <<command, autoMigrate, schema, signalled, exit>> /\ UNCHANGED handles /\ UNCHANGED serving

\* The handlers have finished, or ten seconds have passed.
Shutdown ==
    /\ stage = "shutdown"
    /\ stage' = "postRun"
    /\ UNCHANGED <<command, autoMigrate, schema, signalled, exit>> /\ UNCHANGED handles /\ UNCHANGED serving
-----------------------------------------------------------------------------
\* Mutant of PostRun: the handle is closed under whoever still works.
PostRunCloses ==
    /\ stage = "postRun"
    /\ Closes("env")
    /\ stage' = "returned"
    /\ UNCHANGED <<command, autoMigrate, schema, env, signalled, exit>> /\ UNCHANGED serving

\* The hook after a command that succeeded: Env.Close, unless KeepDBOpen.
PostRun ==
    /\ stage = "postRun"
    /\ IF env.keepOpen THEN UNCHANGED <<pools, workers>> ELSE Closes("env")
    /\ stage' = "returned"
    /\ UNCHANGED <<command, autoMigrate, schema, env, signalled, exit>> /\ UNCHANGED serving

\* Application.Stop on every way out of main.
Exit ==
    /\ stage \in {"returned", "failed"}
    /\ Closes("app")
    /\ Leaves(ExitCode(IF stage = "failed" THEN "1" ELSE "0"))
    /\ UNCHANGED <<command, autoMigrate, schema, env, signalled>> /\ UNCHANGED serving

MainStep ==
    \/ Leaf \/ BadConfig \/ NewApplication \/ EnsureDB \/ RunCommand
    \/ Serve \/ StartComponent \/ Await \/ StopComponent \/ Shutdown
    \/ PostRun \/ Exit

Next ==
    \/ MainStep
    \/ Request \/ Respond \/ Signal
    \/ \E j \in Background : Job(j)

Spec == Init /\ [][Next]_processVars
FairSpec == Spec /\ WF_processVars(MainStep)
-----------------------------------------------------------------------------
\* Whoever still works while the program shuts down works on an open
\* handle, and every way out of main has stopped the application
\* (server.go:295-309, main.go:107-125, lifecycle/components/*.go).
ShutdownIsSafe ==
    /\ exit = None /\ (requests > 0 \/ \E j \in Background : jobs[j] = "working") => pools[env.db] = "open"
    /\ exit # None => pools["app"] # "open" /\ workers["app"] # "open"
    /\ stage \in {"postRun", "returned"} => started = <<>> /\ ~listening

Ended == command # "serve" \/ "serve" \in signalled => exit # None

\* A command that does not serve ends by itself, and Serve ends after a
\* signal it has seen, whatever the handlers do (server.go:299-304).
ProgramEnds == <>[]Ended

\* What the commands and the error of the refusal promise: `db migrate apply`
\* leaves a database that is up to date (store/init.go:18, cli/db/migrate.go:79-82).
ApplyMigrates == (command = "apply" /\ exit # None) => schema = "current"
-----------------------------------------------------------------------------
\* Why nobody is left without a handle: only a stage after "run" has anybody
\* who works, on the handle of the environment, which the hook leaves open.
ProcessTypes ==
    /\ stage \in {"main", "preRun", "run", "starting", "ready", "stopping", "shutdown",
                  "postRun", "returned", "failed", "exited"}
    /\ pools \in [Owners -> {"none", "open", "closed"}]
    /\ workers \in [Owners -> {"none", "open", "closed"}]
    /\ env \in [db : {None, "app", "env"}, keepOpen : BOOLEAN, initDone : BOOLEAN]
    /\ jobs \in [Background -> {"none", "idle", "working", "ended"}]
    /\ requests \in Nat /\ listening \in BOOLEAN

ProcessInv ==
    /\ ProcessTypes
    /\ exit = None <=> stage # "exited"
    /\ started \in
          CASE stage = "starting" -> {<<>>, <<"http">>, <<"http", "gc">>}
            [] stage = "ready" -> {Components}
            [] stage = "stopping" -> {<<"http">>, <<"http", "gc">>, Components}
            [] OTHER -> {<<>>}
    /\ listening => started # <<>>
    /\ stage = "main" => pools["app"] = "none" /\ workers["app"] = "none"
    /\ stage \in {"main", "preRun", "run", "failed"} => requests = 0 /\ \A j \in Background : jobs[j] = "none"
    /\ stage \notin {"main", "failed", "exited"} => env.keepOpen
    /\ stage \notin {"main", "preRun", "failed", "exited"} => env.db = "env" /\ pools["env"] = "open"
    /\ stage = "exited" => pools["app"] # "open" /\ workers["app"] # "open"
=============================================================================
