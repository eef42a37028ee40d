----------------------------- MODULE MCMemory -----------------------------
(* A small instance of Memory for TLC.                                     *)
EXTENDS Memory, TLC

\* Two workers; a fact, one that merges with it, and one that denies both.
MCDialogFacts == {"p", "q", "np"}
MCTopic == [f \in MCDialogFacts |-> 1]
MCNegated == {"np"}
MCMessages == {<<"p">>, <<"q">>, <<"np">>, <<"p", "np">>, <<"q", "p">>}

\* Two vectors that are decoded and one that is not; batches of one record,
\* and of two of which the second may not fit; tables of three rows, of four, and with a row
\* that is not decoded.
MCVectorIds == 1..4
MCDim == "a2" :> 2 @@ "b2" :> 2 @@ "z0" :> 0
MCVectorValues == DOMAIN MCDim
Record(ns, i, v) == [ns |-> ns, id |-> i, vec |-> v]
MCUpsertBatches ==
    {<<Record(n, i, v)>> : n \in {"n1", "n2"}, i \in 1..2, v \in DOMAIN MCDim}
    \cup {<<Record("n1", i, "a2"), Record("n1", j, v)>> : i, j \in 1..3, v \in {"b2", "z0"}}
MCDisks ==
    {<<"a2", "a2", "b2", None>>, <<"a2", "a2", "a2", "b2">>, <<"z0", "b2", None, None>>}

\* Four entities on a square, two of them with the same content.
MCEntities == 1..4
MCContent == <<"a", "b", "a", "c">>
MCCategory == <<"world", "opinion", "opinion", "world">>
MCScores == <<4, 8, 9, 2>>
MCTokens == <<1, 2, 1, 1>>
MCCategories == <<"world", "opinion">>
MCWorlds == SUBSET {<<1, 2>>, <<2, 3>>, <<3, 4>>, <<1, 4>>}
MCAsked == {{1}, {1, 2}}
MCLimits == [nodes : {0, 3}, budget : {0, 6}]

\* Two processes that set up the full text table of one database.
MCHits == {<<1, 2>>}

\* A chain of three observations, of which a chunk takes two.
MCNear == {<<1, 2>>, <<3, 4>>, <<4, 5>>}
MCLinked == {<<3, 2>>}

MCSimilar == {{{1, 2}, {2, 3}}, {{1, 2}, {1, 3}, {2, 3}}}
MCConfig == [min |-> 2, max |-> 2]

\* The confidences 0 and 3/2, which is not one.
MCGivenShares == {<<0, 2>>, <<3, 2>>}

\* A path, the same with chords, a shorter one, and two parts with a loop.
Path == {<<1, 2>>, <<2, 3>>, <<3, 4>>}
MCWeight ==
    [e \in Path \cup {<<4, 1>>, <<2, 4>>, <<3, 3>>} |-> IF e = <<2, 3>> THEN 2 ELSE 1]
MCInitialEdges ==
    {Path, Path \cup {<<4, 1>>, <<2, 4>>}, {<<1, 2>>, <<2, 4>>}, {<<1, 2>>, <<3, 4>>, <<3, 3>>}}

\* Two callers of the daemon and a command: three calls of the daemon, of
\* which two stores that overlap link each other and a check runs into the
\* cycle; a call of the daemon that a command runs through; two commands.
MCProcs == {"daemon", "cli"}
MCKind == "daemon" :> "http" @@ "cli" :> "cli"
MCFrontProc == "a" :> "daemon" @@ "b" :> "daemon" @@ "c" :> "cli"
MCBudgets ==
    LET Calls(a, b, c) == "a" :> a @@ "b" :> b @@ "c" :> c
    IN  {Calls(3, 0, 0), Calls(2, 1, 0), Calls(1, 0, 1), Calls(0, 0, 2)}
MCSchemaOf == [p \in MCProcs |-> {"world", "task"}]

\* Entities 1 and 2 are similar; an edge that would close a cycle can come
\* after the links that the two stores make.
MCClosest == <<<<1, 2, 3>>, <<2, 1, 3>>, <<3, 2, 1>>>>
MCSimilarTo == <<{1, 2}, {1, 2}, {3}>>
MCRequests ==
    LET Store(id, given) ==
          [do |-> "store", id |-> id, category |-> "world", given |-> given,
           to |-> {}, relation |-> "related_to", create |-> FALSE]
        Edge(source, target, relation) ==
          [do |-> "edge", id |-> source, category |-> "world", given |-> FALSE,
           to |-> {target}, relation |-> relation, create |-> TRUE]
    IN  {Store(1, FALSE), Store(2, TRUE), Edge(2, 1, "related_to"), Edge(1, 2, "causes"),
         [Store(3, FALSE) EXCEPT !.do = "task", !.category = "task", !.to = {1}],
         [Store(1, FALSE) EXCEPT !.do = "search"]}

\* The files 011, 013 and 015: tables, columns and indexes by their first use.
Statement(skip, needs, gives, takes) ==
    [skip |-> skip, needs |-> needs, gives |-> gives, takes |-> takes]
MCScript ==
    <<<<Statement({"tab"}, {}, {"tab", "text"}, {}),
        Statement({"i_text"}, {"text"}, {"i_text"}, {})>>,
      <<Statement({"ms"}, {"tab"}, {"ms"}, {}),
        Statement({}, {"ms", "text"}, {}, {}),
        Statement({}, {}, {}, {"i_text"}),
        Statement({}, {"text"}, {}, {"text"}),
        Statement({"i_ms"}, {"ms"}, {"i_ms"}, {})>>,
      <<Statement({"i_edge"}, {}, {"i_edge"}, {})>>>>
=============================================================================
