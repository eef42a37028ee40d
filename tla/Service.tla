------------------------------ MODULE Service ------------------------------
(***************************************************************************)
(* The long tasks of a process, its life and its settings: nine machines   *)
(* that share no state.  A behaviour is of one of them, its focus.         *)
(***************************************************************************)
EXTENDS Slots, Integers, Sequences, FiniteSets

CONSTANTS
    CanFail,                                                         \* of several
    Tasks, Prio, NoGoal, Goal, CascadeLimit, Graphs, MaxCascades,    \* TaskRollback
    Ids, Contents, BatchSize, MaxEdits,                              \* ReEmbed
    Accessed, BufferSize, FlushSize, MaxTouches,                     \* MetricsWorker
    Writers, MaxEnvs,                                                \* EnvManager
    Commands, AutoMigrates, MaxRequests,                             \* Process
    Kinds, Attempts, Guarded, Candidates, Orders,                    \* AiClient
    Files, NewKeys, NewValues, MaxCommands,                          \* ConfigFile
    IniContents, MaxChanges, Unset, Absent, Garbage,                 \* ConfigLoad
    Callers, Endpoints, First, Timed, Checked, Readers, MaxCalls, MaxReads  \* Metrics

Rollback == INSTANCE TaskRollback WITH
    status <- s1, edges <- s2, hung <- s3, cascade <- s4, agent <- s5,
    runs <- s6, cascades <- s7

ReEmbed == INSTANCE ReEmbed WITH
    content <- s1, embedded <- s2, indexed <- s3, modelOf <- s4, conn <- s5,
    work <- s6, edits <- s7

Access == INSTANCE MetricsWorker WITH
    ch <- s1, chClosed <- s2, buffer <- s3, loop <- s4, stopping <- s5,
    touches <- s6, recorded <- s7, refused <- s8, dropped <- s9,
    panicked <- s10,
    BatchSize <- FlushSize, CanRefuse <- CanFail

Environment == INSTANCE EnvManager WITH
    envs <- s1, current <- s2, built <- s3, writing <- s4, draining <- s5,
    cancelled <- s6, closed <- s7,
    None <- 0

Process == INSTANCE Process WITH
    command <- s1, autoMigrate <- s2, schema <- s3, stage <- s4, pools <- s5,
    workers <- s6, env <- s7, started <- s8, jobs <- s9, requests <- s10,
    served <- s11, listening <- s12, signalled <- s13, exit <- s14

Model == INSTANCE AiClient WITH
    kind <- s1, candidates <- s2, step <- s3, attempt <- s4, body <- s5,
    answer <- s6, late <- s7, cancelled <- s8, overdue <- s9, emptied <- s10,
    result <- s11

File == INSTANCE ConfigFile WITH
    file <- s1, told <- s2, used <- s3, edits <- s4, lost <- s5, start <- s6,
    MaxEdits <- MaxCommands

Settings == INSTANCE ConfigLoad WITH
    files <- s1, flagGiven <- s2, envGiven <- s3, state <- s4, wired <- s5,
    live <- s6, edits <- s7,
    Contents <- IniContents, MaxEdits <- MaxChanges, None <- Unset

Counters == INSTANCE Metrics WITH
    legacy <- s1, prom <- s2, observed <- s3, req <- s4, reading <- s5,
    seen <- s6, outcomes <- s7, made <- s8,
    Guarded <- Checked, MaxRequests <- MaxCalls

\* The rows are numbered, every call may send a request, a file is a sequence
\* of lines, every endpoint has a counter of its own, and one counted with a
\* duration is counted first.
ASSUME ServiceAssumption ==
    /\ CanFail \in BOOLEAN
    /\ IsFiniteSet(Tasks) /\ Tasks \subseteq Nat /\ Prio \in [Tasks -> Int]
    /\ Goal \in Tasks /\ NoGoal \notin Tasks
    /\ Graphs \subseteq SUBSET (Tasks \X Tasks) /\ CascadeLimit \in Nat
    /\ IsFiniteSet(Ids) /\ Ids = 1..Cardinality(Ids) /\ Contents \subseteq Nat
    /\ MaxEnvs \in Nat \ {0}
    /\ Attempts \in [Kinds -> Nat \ {0}] /\ Candidates \subseteq Nat /\ Orders \subseteq Seq(Int)
    /\ \A f \in Files : File!IsLines(f)
    /\ IsFiniteSet(Callers)
    /\ Endpoints \subseteq Counters!Counters \ {"errors", "schema_conflict"}
    /\ First \subseteq Endpoints /\ Timed \subseteq First
    /\ Readers \in [DOMAIN Readers -> {"legacy", "prom"}]
-----------------------------------------------------------------------------
Init ==
    \/ focus = "rollback" /\ Rollback!Init /\ From8
    \/ focus = "reembed" /\ ReEmbed!Init /\ From8
    \/ focus = "access" /\ Access!Init /\ From11
    \/ focus = "environment" /\ Environment!Init /\ From8
    \/ focus = "process" /\ Process!Init /\ From15
    \/ focus = "model" /\ Model!Init /\ From12
    \/ focus = "file" /\ File!FileInit /\ From7
    \/ focus = "settings" /\ Settings!Init /\ From8
    \/ focus = "counters" /\ Counters!Init /\ From9

Next ==
    /\ UNCHANGED focus
    /\ \/ focus = "rollback" /\ Rollback!Next /\ Keep8
       \/ focus = "reembed" /\ ReEmbed!Next /\ Keep8
       \/ focus = "access" /\ Access!Next /\ Keep11
       \/ focus = "environment" /\ Environment!Next /\ Keep8
       \/ focus = "process" /\ Process!Next /\ Keep15
       \/ focus = "model" /\ Model!Next /\ Keep12
       \/ focus = "file" /\ File!FileNext /\ Keep7
       \/ focus = "settings" /\ Settings!Next /\ Keep8
       \/ focus = "counters" /\ Counters!Next /\ Keep9

Spec == Init /\ [][Next]_slots

\* What the code keeps doing: the loops of the cascade and of the agent, the
\* batch, the main goroutine and a call of a model.
FairSpec ==
    /\ Spec
    /\ WF_slots(focus = "rollback" /\ Rollback!CascadeStep /\ Keep8 /\ UNCHANGED focus)
    /\ WF_slots(focus = "rollback" /\ Rollback!AgentStep /\ Keep8 /\ UNCHANGED focus)
    /\ WF_slots(focus = "reembed" /\ ReEmbed!EmbStep /\ Keep8 /\ UNCHANGED focus)
    /\ WF_slots(focus = "process" /\ Process!MainStep /\ Keep15 /\ UNCHANGED focus)
    /\ WF_slots(focus = "model" /\ Model!CallStep /\ Keep12 /\ UNCHANGED focus)
-----------------------------------------------------------------------------
(* What every machine keeps; the comments and the code they are about are   *)
(* in its own module.                                                       *)

\* A cascade leaves nothing behind it has not looked at, and the agent
\* executes a task once for every path at most.
RollbackKeepsGraph == focus = "rollback" => Rollback!RollbackKeepsGraph

\* What a batch reports of its rows, and a worker of its accesses, adds up.
AccountsHold ==
    /\ focus = "reembed" => ReEmbed!ReEmbedAccounts
    /\ focus = "access" => Access!AccessesAccounted

\* Nobody works on a handle that is closed.
HandlesStayOpen ==
    /\ focus = "process" => Process!ShutdownIsSafe
    /\ focus = "environment" => Environment!LiveEnvStays

\* A call of a model sends what it should as often as it may.
CallIsSound == focus = "model" => Model!CallIsSound

\* The file says what the operator was told, and what runs can work with what
\* was read from it.
SettingsSound ==
    /\ focus = "file" => File!ConfigSound
    /\ focus = "settings" => Settings!RunsOnUsable

\* The two sets of counters say the same, and what was answered.
CountersAddUp == focus = "counters" => Counters!CountersAddUp

\* What starts ends: a cascade, the agent and the batch; a program without a
\* server, and one with it after a signal; a call of a model.
EverythingEnds ==
    <>[](/\ focus = "rollback" => Rollback!BothEnded
         /\ focus = "reembed" => ReEmbed!Ended
         /\ focus = "process" => Process!Ended
         /\ focus = "model" => Model!Returned)
=============================================================================
