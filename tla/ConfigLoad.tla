------------------------------ MODULE ConfigLoad ------------------------------
(***************************************************************************)
(* How hermem.ini becomes the configuration of a server: the choice of the *)
(* file, the parsing and its defaults, the validation, and the reload on   *)
(* SIGHUP (src/internal/config, main.go and cli/serve.go).  A file gives   *)
(* every key it has a raw value; numbers stand for the classes the code    *)
(* tells apart.                                                            *)
(***************************************************************************)
EXTENDS Integers, Sequences, FiniteSets, Functions

CONSTANTS Contents,      \* what a file may hold: records of raw values; None: no file
          MaxEdits,      \* bound on the edits of the files
          None, Absent, Garbage

VARIABLES files,       \* contents of the file of each source
          flagGiven, envGiven,    \* how the process was started
          state,       \* "down", "up" or "refused"
          wired,       \* what the process was wired with; None when it is down
          live,        \* what requests see, replaced by a reload
          edits

configVars == <<files, flagGiven, envGiven, state, wired, live, edits>>

Sources == {"flag", "env", "dir"}
Init ==
    /\ files \in [Sources -> Contents]
    /\ flagGiven \in BOOLEAN /\ envGiven \in BOOLEAN
    /\ state = "down" /\ wired = None /\ live = None /\ edits = 0
-----------------------------------------------------------------------------
\* lookupKey and the get functions.  A value that does not parse, and an
\* integer below its minimum, are as if the key were not there.
GetStr(raw, default) == IF raw = Absent THEN default ELSE raw
GetNumber(raw, default) == IF raw \in {Absent, Garbage} THEN default ELSE raw
GetInt(raw, default, min) ==
    IF raw \in {Absent, Garbage} THEN default ELSE IF raw < min THEN default ELSE raw
GetList(raw) == IF raw = Absent THEN <<>> ELSE SelectSeq(raw, LAMBDA s : s # "")

DefaultSchema ==
    [categories |-> {"world", "observation", "task"}, relations |-> {"related_to", "blocks"},
     stateful |-> {}, states |-> <<>>, blocking |-> "", unblocking |-> ""]
Defaults ==
    [provider |-> "ollama", url |-> "absolute", modelPath |-> "", dim |-> 768, timeout |-> 30,
     interval |-> 3600, dedup |-> 88, limited |-> FALSE, rps |-> 10, burst |-> 10, keyBy |-> "ip",
     apiKey |-> "", apiKeys |-> {}, extra |-> {}, schema |-> DefaultSchema]

\* ParseKeySpec: a scope that is missing or unknown is "admin".
ParseKeySpec(raw) ==
    [value |-> raw[1], scope |-> IF raw[2] \in {"read", "write"} THEN raw[2] ELSE "admin"]
-----------------------------------------------------------------------------
\* What ParseSchemaSection returns an error for.
WrongSection(s) ==
    \/ s.unknownKey
    \/ GetList(s.categories) = <<>> \/ GetList(s.relations) = <<>>
    \/ GetList(s.stateful) # <<>> /\ GetList(s.states) = <<>>
    \/ ~(Range(GetList(s.stateful)) \subseteq Range(GetList(s.categories)))
    \/ s.blocking # "" /\ s.blocking \notin Range(GetList(s.relations))
    \/ s.unblocking # "" /\ GetList(s.states) # <<>> /\ s.unblocking \notin Range(GetList(s.states))

\* Mutant of ParsedSchema: a section with an error is taken as far as it goes.
ParsedAnyway(s) ==
    IF s = Absent THEN DefaultSchema
    ELSE [categories |-> Range(GetList(s.categories)), relations |-> Range(GetList(s.relations)),
          stateful |-> Range(GetList(s.stateful)), states |-> GetList(s.states),
          blocking |-> s.blocking, unblocking |-> s.unblocking]

\* applyINIFields drops the error, and the section with it.
ParsedSchema(s) ==
    IF s = Absent THEN DefaultSchema
    ELSE IF WrongSection(s) THEN DefaultSchema
    ELSE [categories |-> Range(GetList(s.categories)), relations |-> Range(GetList(s.relations)),
          stateful |-> Range(GetList(s.stateful)), states |-> GetList(s.states),
          blocking |-> s.blocking, unblocking |-> s.unblocking]

\* applyINIFields: the fields that validation or another field looks at.
\* api_key wins over api_keys.
Applied(f) ==
    LET d == Defaults
        apiKey == GetStr(f.apiKey, d.apiKey)
        keys == IF f.apiKeys = Absent THEN {} ELSE {ParseKeySpec(k) : k \in Range(f.apiKeys)}
    IN [provider |-> GetStr(f.provider, d.provider), url |-> GetStr(f.url, d.url),
        modelPath |-> GetStr(f.modelPath, d.modelPath),
        dim |-> GetInt(f.dim, d.dim, 1), timeout |-> GetNumber(f.timeout, d.timeout),
        interval |-> GetNumber(f.interval, d.interval), dedup |-> GetNumber(f.dedup, d.dedup),
        limited |-> GetNumber(f.limited, d.limited), rps |-> GetNumber(f.rps, d.rps),
        burst |-> GetInt(f.burst, d.burst, 1), keyBy |-> GetStr(f.keyBy, d.keyBy),
        apiKey |-> apiKey, apiKeys |-> IF apiKey = "" THEN keys ELSE {},
        extra |-> Range(GetList(f.extra)), schema |-> ParsedSchema(f.schema)]

\* A missing file is the defaults.
LoadConfig(source) == IF files[source] = None THEN Defaults ELSE Applied(files[source])

ValidateSchema(s) ==
    /\ s.categories # {} /\ s.relations # {}
    /\ \A i, j \in DOMAIN s.states : s.states[i] = s.states[j] => i = j
    /\ s.stateful # {} => s.states # <<>>
    /\ s.unblocking # "" /\ s.states # <<>> => s.unblocking \in Range(s.states)
    /\ s.blocking # "" => s.blocking \in s.relations

KeyByNames == {"ip", "api_key", "apikey", "key", "global", ""}

\* Mutant of Validate: the limits are looked at only when the limiter is off.
ValidateRest(c) ==
    /\ c.dedup \in 0..100 /\ c.dim > 0 /\ c.timeout > 0
    /\ ~c.limited => c.rps > 0 /\ c.burst >= 1 /\ c.keyBy \in KeyByNames
    /\ ValidateSchema(c.schema)

Validate(c) ==
    /\ c.dedup \in 0..100
    /\ c.dim > 0
    /\ c.modelPath = "" => c.provider \in {"ollama", "openai"} /\ c.url = "absolute"
    /\ c.timeout > 0
    /\ ValidateSchema(c.schema)
    /\ c.limited => c.rps > 0 /\ c.burst >= 1 /\ c.keyBy \in KeyByNames

\* Validate also replaces a blank key_by of a limiter that is on.
Coerced(c) == IF c.limited /\ c.keyBy = "" THEN [c EXCEPT !.keyBy = "ip"] ELSE c
-----------------------------------------------------------------------------
\* LoadConfigFromSources: the flag, then the environment, then the
\* directory of the binary; no second choice when the file is missing.
SourceFor(flag) == IF flag THEN "flag" ELSE IF envGiven THEN "env" ELSE "dir"

Start ==
    /\ state = "down"
    /\ LET c == LoadConfig(SourceFor(flagGiven)) IN
       IF Validate(c)
       THEN state' = "up" /\ wired' = Coerced(c) /\ live' = Coerced(c)
       ELSE state' = "refused" /\ UNCHANGED <<wired, live>>
    /\ UNCHANGED <<files, flagGiven, envGiven, edits>>

\* The reload does not know of the flag.  A file that is refused changes
\* nothing; otherwise requests see the new state and the process keeps
\* what it was wired with.
Hup ==
    /\ state = "up"
    /\ LET c == LoadConfig(SourceFor(FALSE)) IN
       live' = IF Validate(c) THEN Coerced(c) ELSE live
    /\ UNCHANGED <<files, flagGiven, envGiven, state, wired, edits>>

Stop ==
    /\ state # "down" /\ edits < MaxEdits
    /\ state' = "down" /\ wired' = None /\ live' = None
    /\ UNCHANGED <<files, flagGiven, envGiven, edits>>

Edit(source, content) ==
    /\ edits < MaxEdits /\ edits' = edits + 1
    /\ files' = [files EXCEPT ![source] = content]
    /\ UNCHANGED <<flagGiven, envGiven, state, wired, live>>

Next == Start \/ Hup \/ Stop \/ \E s \in Sources, f \in Contents : Edit(s, f)
Spec == Init /\ [][Next]_configVars
-----------------------------------------------------------------------------
\* Whatever the files hold and however they change, a server that runs has
\* numbers it can work with, a limiter that is off or sound, one way of
\* telling its keys, and a schema whose parts refer to each other
\* (ini.go:156-354, schema.go:18-115).
UsableConfig(c) ==
    /\ c.dim > 0 /\ c.timeout > 0 /\ c.dedup \in 0..100
    /\ c.limited => c.rps > 0 /\ c.burst >= 1 /\ c.keyBy \in KeyByNames \ {""}
    /\ c.apiKey = "" \/ c.apiKeys = {}
    /\ c.schema.stateful \subseteq c.schema.categories
    /\ {c.schema.blocking} \ {""} \subseteq c.schema.relations
RunsOnUsable == state = "up" => UsableConfig(wired) /\ UsableConfig(live)

\* "Precedence is enforced strictly: flag > env > binary-dir"
\* (config.go:159-162): what requests see comes from the file the process
\* was started with.
PrecedenceKept ==
    [][state = "up" /\ state' = "up" /\ live' # live =>
          live' = Coerced(LoadConfig(SourceFor(flagGiven)))]_configVars

\* "Fail-fast on invalid schema", at startup and on SIGHUP
\* (CHANGELOG.md:587).
WrongSchemaRefused ==
    [][live' # live /\ state' = "up" =>
          \E s \in Sources : /\ live' = Coerced(LoadConfig(s))
                             /\ files[s] = None \/ files[s].schema = Absent \/ ~WrongSection(files[s].schema)]_configVars

\* retention/service.go:65: the ticker of the sweep panics otherwise.
SweepCanTick == state = "up" => wired.interval > 0
=============================================================================
