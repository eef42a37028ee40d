----------------------------- MODULE MCService -----------------------------
(* A small instance of Service for TLC.                                    *)
EXTENDS Service, TLC

\* A diamond, a chain and a fork of tasks.
MCTasks == 1..4
MCPrio == [t \in MCTasks |-> IF t = 3 THEN 1 ELSE 0]
MCGraphs == {{<<1, 2>>, <<1, 3>>, <<2, 4>>, <<3, 4>>}, {<<1, 2>>, <<2, 3>>, <<3, 4>>}, {<<1, 2>>, <<1, 3>>}}

\* The rows do not fill a batch: one that is full waits for itself, see
\* ReEmbed_stuck.
MCIds == 1..3
MCContents == {0, 1}

MCAccessed == 1..4
MCCommands == {"leaf", "query", "apply", "serve"}

\* Numbers of candidates that are none, and repeated ones, among the answers.
MCAttempts ==
    "embed" :> 4 @@ "ping" :> 4 @@ "ollamaRerank" :> 3 @@ "openaiRerank" :> 3 @@ "fetch" :> 5
MCKinds == DOMAIN MCAttempts
MCGuarded == MCKinds \ {"fetch"}
MCCandidates == {0, 1, 3}
MCOrders == UNION {[1..n -> -1..3] : n \in 0..3}

\* Files whose [server] section comes first: with keys, without a line for
\* them, and with settings before it.  Others: none at all; a setting or a
\* section before the heading, or one after it, with keys of its own; an
\* `api_key`; the list twice; no newline at the end.
Key(value, scope, label) == [value |-> value, scope |-> scope, label |-> label]
Line(kind, name, keys) == [kind |-> kind, name |-> name, keys |-> keys]
Server == Line("section", "server", {})
Other == Line("section", "other", {})
Setting == Line("setting", "", {})
Single == Line("single", "", {})
Blank == Line("blank", "", {})
MCFiles ==
    LET k1 == Key("k1", "admin", "a")
        k2 == Key("k2", "read", "b")
        Keys(ks) == Line("keys", "", ks)
    IN  {<<Server, Keys({k1, k2}), Setting, Blank>>,
         <<Server, Setting, Blank>>,
         <<Server, Setting, Setting, Keys({k2}), Blank>>,
         <<>>,
         <<Setting, Server, Keys({k1, k2}), Blank>>,
         <<Other, Setting, Server, Setting, Keys({k1}), Blank>>,
         <<Server, Setting, Other, Keys({k2}), Blank>>,
         <<Server, Keys({k1}), Single, Blank>>,
         <<Server, Keys({k1}), Keys({k2}), Blank>>,
         <<Server, Setting>>}
MCNewKeys == {Key("n1", "read", "x"), Key("n2", "write", "y")}

\* No file, an empty one, one that sets everything, and files that are wrong in
\* what validation or a default has to catch.
Empty ==
    [k \in {"provider", "url", "modelPath", "dim", "timeout", "interval", "dedup", "limited", "rps",
            "burst", "keyBy", "apiKey", "apiKeys", "extra", "schema"} |-> Absent]
Good ==
    [unknownKey |-> FALSE, categories |-> <<"world", "job">>, relations |-> <<"needs">>,
     stateful |-> <<"job">>, states |-> <<"new", "done">>, blocking |-> "needs", unblocking |-> "done"]
Full ==
    [Empty EXCEPT !.dim = 3, !.timeout = 5, !.interval = 60, !.dedup = 90, !.limited = TRUE, !.rps = 2,
        !.burst = 2, !.keyBy = "", !.apiKeys = <<<<"k", "reed">>, <<"l", "read">>>>, !.schema = Good]
MCIniContents ==
    {Unset, Empty, Full,
     [Full EXCEPT !.dim = 0, !.interval = 0, !.apiKey = "m"],
     [Full EXCEPT !.rps = 0, !.timeout = Garbage],
     [Full EXCEPT !.dedup = 200, !.schema = Absent],
     [Full EXCEPT !.keyBy = "host"],
     [Full EXCEPT !.schema = [Good EXCEPT !.blocking = "blocks", !.stateful = <<"task">>]]}

MCEndpoints == {"store", "graph_communities"}
MCFirst == {"graph_communities"}
MCChecked == {"store"}
MCReaders == "m" :> "legacy" @@ "g" :> "prom"
=============================================================================
