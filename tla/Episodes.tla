------------------------------ MODULE Episodes ------------------------------
(***************************************************************************)
(* Episodic memory (src/internal/episodic): sessions, episodes, their      *)
(* events, the links of an episode to entities and tasks, the timeline     *)
(* that merges the three, and the summary a model writes of an episode.    *)
(* Nothing of it runs in a transaction with anything else, apart from a    *)
(* batch of events.                                                        *)
(*                                                                         *)
(* An item is a row of events, episode_memories or episode_tasks; its role *)
(* stands for the type of an event, too.  The time of a row is milli-      *)
(* seconds, 0 the default of the column; that of an event is its caller's. *)
(* The ends of sessions and of episodes are columns that nothing here      *)
(* reads, and are left out.                                                *)
(***************************************************************************)
EXTENDS Integers, Sequences, FiniteSets, Functions

CONSTANTS Sessions, EpisodeIds,
          EventIds, Entities,   \* numbers: ids have an order
          Roles,
          MaxTime,              \* bound on the times that callers give
          MaxItems,             \* bound on the rows
          None

VARIABLES sessions,  \* those that have a row
          episodes,  \* episode -> session, summary
          items,     \* the rows of the three tables
          entities,  \* the rows of the table the links refer to
          reading    \* the running ReconstructTimeline or SummarizeEpisode

epiVars == <<sessions, episodes, items, entities, reading>>

Kinds == <<"event", "memory", "task">>
NoEpisode == [made |-> FALSE, session |-> None, summary |-> {}]
NotReading == [for |-> None, pc |-> "idle", ep |-> None, got |-> {}, list |-> <<>>, stay |-> {}]

Init ==
    /\ sessions = {}
    /\ episodes = [e \in EpisodeIds |-> NoEpisode]
    /\ items = {}
    /\ entities = Entities
    /\ reading = NotReading
-----------------------------------------------------------------------------
CreateSession(s) ==
    /\ s \notin sessions
    /\ sessions' = sessions \cup {s}
    /\ UNCHANGED <<episodes, items, entities, reading>>

\* The id is new, and the session, if any, is in its table.
CreateEpisode(e, s) ==
    /\ ~episodes[e].made
    /\ s # None => s \in sessions
    /\ episodes' = [episodes EXCEPT ![e] = [made |-> TRUE, session |-> s, summary |-> {}]]
    /\ UNCHANGED <<sessions, items, entities, reading>>

Item(kind, id, role, ep, at) == [kind |-> kind, id |-> id, role |-> role, ep |-> ep, at |-> at]

\* The rows the reader would have to show that have been there all along.
Change(rows) ==
    /\ items' = rows
    /\ reading' = [reading EXCEPT !.stay = @ \cap rows]

\* CreateEvents, and CreateEvent for one: every row of the batch is inserted,
\* or none, when an id is known already or an episode is not.
CreateEvents(batch) ==
    /\ Cardinality(items) + Cardinality(batch) <= MaxItems
    /\ \A i \in batch : episodes[i.ep].made /\ \A j \in items : j.kind = "event" => j.id # i.id
    /\ Change(items \cup batch)
    /\ UNCHANGED <<sessions, episodes, entities>>

\* LinkMemory, LinkTask.  ON CONFLICT DO NOTHING; the statement does not name
\* linked_at_ms.
Link(kind, id, role, ep) ==
    /\ Cardinality(items) < MaxItems
    /\ episodes[ep].made /\ id \in entities
    /\ Change(items \cup {Item(kind, id, role, ep, 0)})
    /\ UNCHANGED <<sessions, episodes, entities>>

\* UnlinkMemory, UnlinkTask
Unlink(i) ==
    /\ i.kind # "event"
    /\ Change(items \ {i})
    /\ UNCHANGED <<sessions, episodes, entities>>

\* The entity is deleted, and by the foreign keys its links.
DeleteEntity(id) ==
    /\ id \in entities
    /\ entities' = entities \ {id}
    /\ Change({i \in items : i.kind = "event" \/ i.id # id})
    /\ UNCHANGED <<sessions, episodes>>
-----------------------------------------------------------------------------
(* ReconstructTimeline                                                     *)

Place(kind) == CHOOSE n \in 1..3 : Kinds[n] = kind
KindRank(i) == Place(i.kind)

\* By time, then by entryLess, the kind and the id.
Before(i, j) ==
    \/ i.at < j.at
    \/ i.at = j.at /\ KindRank(i) < KindRank(j)
    \/ i.at = j.at /\ KindRank(i) = KindRank(j) /\ i.id < j.id

\* The feeds that have every row once, in order; the roles of one entity are a
\* tie, and come as the query returns them.
InOrder(rows) ==
    {list \in [1..Cardinality(rows) -> rows] :
       /\ Range(list) = rows
       /\ \A i, j \in DOMAIN list : i < j => ~Before(list[j], list[i])}

\* Mutant of RowsOf: an entity is shown once, whatever its roles.
RowsOfEntities(kind, ep) ==
    LET rows == {i \in items : i.kind = kind /\ i.ep = ep}
    IN  {CHOOSE i \in rows : i.id = n : n \in {i.id : i \in rows}}

\* eventsForEpisode, memoriesForEpisode, tasksForEpisode
RowsOf(kind, ep) == {i \in items : i.kind = kind /\ i.ep = ep}

BeginTimeline(e) ==
    /\ reading.pc = "idle"
    /\ reading' = [NotReading EXCEPT !.for = "timeline", !.pc = "event", !.ep = e,
                                     !.stay = {i \in items : i.ep = e}]
    /\ UNCHANGED <<sessions, episodes, items, entities>>

\* One of the queries; a summary needs no tasks.  After the last one of a
\* timeline comes the sort.
ReadTable ==
    LET n == Place(reading.pc)
        got == reading.got \cup RowsOf(reading.pc, reading.ep)
    IN  /\ reading.pc \in Range(Kinds)
        /\ \/ /\ reading.for = "summary" /\ n = 2
              /\ reading' = [reading EXCEPT !.pc = "ask", !.got = got]
           \/ /\ n = 3
              /\ \E list \in InOrder(got) :
                    reading' = [reading EXCEPT !.pc = "done", !.got = {}, !.list = list]
           \/ /\ n = 1 \/ (n = 2 /\ reading.for = "timeline")
              /\ reading' = [reading EXCEPT !.pc = Kinds[n + 1], !.got = got]
        /\ UNCHANGED <<sessions, episodes, items, entities>>

Return ==
    /\ reading.pc = "done"
    /\ reading' = NotReading
    /\ UNCHANGED <<sessions, episodes, items, entities>>
-----------------------------------------------------------------------------
(* SummarizeEpisode: two loads, a request to a model, one UPDATE.          *)

BeginSummary(e) ==
    /\ reading.pc = "idle" /\ episodes[e].made
    /\ reading' = [NotReading EXCEPT !.for = "summary", !.pc = "event", !.ep = e]
    /\ UNCHANGED <<sessions, episodes, items, entities>>

\* Of an empty episode the summary is empty, and no model is asked; else it
\* tells what the model extracted from all of it, or that there was nothing;
\* an error leaves the row alone.
PersistSummary ==
    /\ reading.pc = "ask"
    /\ \/ \E said \in {reading.got, {}} :
            episodes' = [episodes EXCEPT ![reading.ep].summary = said]
       \/ reading.got # {} /\ UNCHANGED episodes
    /\ reading' = NotReading
    /\ UNCHANGED <<sessions, items, entities>>

Next ==
    \/ \E s \in Sessions : CreateSession(s)
    \/ \E e \in EpisodeIds :
         \/ \E s \in Sessions \cup {None} : CreateEpisode(e, s)
         \/ BeginTimeline(e) \/ BeginSummary(e)
         \/ \E n \in Entities : \/ \E r \in Roles : Link("memory", n, r, e)
                                \/ Link("task", n, None, e)
    \/ \E ids \in (SUBSET EventIds) \ {{}}, e \in EpisodeIds, at \in 1..MaxTime :
         CreateEvents({Item("event", n, None, e, at) : n \in ids})
    \/ \E i \in items : Unlink(i)
    \/ \E n \in Entities : DeleteEntity(n)
    \/ ReadTable \/ Return \/ PersistSummary

Spec == Init /\ [][Next]_epiVars
-----------------------------------------------------------------------------
\* The three queries see three states of the database.  What has been there
\* from the first to the last is in the timeline, nothing is in it twice, all
\* of it is the episode's own and in order (timeline.go:84-90).
TimelineFaithful ==
    reading.pc = "done" =>
      /\ reading.stay \subseteq Range(reading.list)
      /\ \A i, j \in DOMAIN reading.list : i < j => ~Before(reading.list[j], reading.list[i])
      /\ \A i \in DOMAIN reading.list : reading.list[i].ep = reading.ep
      /\ Cardinality(Range(reading.list)) = Len(reading.list)

\* No link dangles, and a summary is of the episode it is stored with
\* (linking.go, summarization.go).
RowsBelong ==
    /\ \A i \in items : episodes[i.ep].made /\ (i.kind = "event" \/ i.id \in entities)
    /\ \A e \in EpisodeIds :
         /\ \A i \in episodes[e].summary : i.ep = e
         /\ episodes[e].session # None => episodes[e].session \in sessions

EpisodesKept == TimelineFaithful /\ RowsBelong

\* A batch is of so many events.
EpisodesAssumption == IsFiniteSet(EventIds) /\ MaxTime \in Nat

\* What every step keeps: rows that the reader has to show are there, and read
\* unless their table is still to come; what it has read is of its episode.
Rows == [kind : Range(Kinds), id : EventIds \cup Entities, role : Roles \cup {None},
         ep : EpisodeIds, at : Nat]
Readings == [for : {"timeline", "summary"} \cup {None},
             pc : {"idle", "ask", "done"} \cup Range(Kinds), ep : EpisodeIds \cup {None},
             got : SUBSET Rows, list : Seq(Rows), stay : SUBSET Rows]

EpisodeTypes ==
    /\ episodes \in [EpisodeIds -> [made : BOOLEAN, session : Sessions \cup {None}, summary : SUBSET Rows]]
    /\ items \subseteq Rows /\ entities \subseteq Entities
    /\ reading \in Readings

ReadingSound ==
    /\ IsFiniteSet(items) /\ IsFiniteSet(reading.got)
    /\ \A i \in reading.got : i.ep = reading.ep
    /\ \A i \in reading.stay : i \in items /\ i.ep = reading.ep
    /\ reading.pc # "idle" => reading.ep \in EpisodeIds
    /\ reading.pc \in Range(Kinds) =>
         \A i \in reading.stay : KindRank(i) < Place(reading.pc) => i \in reading.got

EpisodeInv == EpisodeTypes /\ ReadingSound /\ EpisodesKept

\* "the merged chronological feed" (timeline.go:80-83): what was recorded at
\* some time does not come before what was there by then.
LinkedInOrder == \A i \in items : i.at > 0
=============================================================================
