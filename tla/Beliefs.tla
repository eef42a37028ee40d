------------------------------- MODULE Beliefs -------------------------------
(***************************************************************************)
(* Beliefs, the evidence for and against them, their history and the       *)
(* propagation of confidence (src/internal/memory/belief, memory/evidence  *)
(* and evolution).  Every operation is one statement or transaction, but   *)
(* PropagateConfidence reads the evidence in one, the belief in another    *)
(* and writes the confidence in a third.                                   *)
(* A strength is a number of halves; a confidence is a pair <<s, t>> and   *)
(* stands for s / t.                                                       *)
(***************************************************************************)
EXTENDS Naturals, Sequences, FiniteSets

CONSTANTS Callers,
          MaxBeliefs, MaxEvidence, MaxRecords, MaxClock,  \* bounds
          MaxEdits,     \* bound on the writes outside of a propagation
          Given,        \* the confidences that callers pass, as pairs
          Named,        \* the statuses that callers pass
          None

VARIABLES beliefs,    \* sequence: the rowid of a belief is its index
          evidence,   \* sequence; a deleted row is None
          history,    \* sequence of records, never changed
          clock,      \* CURRENT_TIMESTAMP
          pc, held,   \* of each caller: where its propagation is, what it holds
          fresh,      \* callers whose belief nobody wrote to since they listed
                      \* the evidence about it
          edits

beliefVars == <<beliefs, evidence, history, clock, pc, held, fresh, edits>>

Ids == 1..MaxBeliefs
Rows == DOMAIN beliefs
Halves == 0..2
Polarities == {"support", "refute"}
Statuses == {"Active", "Superseded", "Archived"}

Init ==
    /\ beliefs = <<>> /\ evidence = <<>> /\ history = <<>>
    /\ clock = 0
    /\ pc = [c \in Callers |-> "idle"]
    /\ held = [c \in Callers |-> None]
    /\ fresh = {} /\ edits = 0

InRange(conf) == conf[1] <= conf[2]
Edit == edits < MaxEdits /\ edits' = edits + 1
Touched(b) == fresh' = {c \in fresh : held[c].belief # b}
-----------------------------------------------------------------------------
\* The caller names the status, or leaves it open: a belief may begin as
\* superseded, by nobody.  A confidence out of range is refused by the service
\* (as is an empty content), an unknown status by the table (CHECK in migration
\* 008); confidence 0 becomes 1 on the way in.
CreateBelief(conf, status) ==
    /\ Edit /\ Len(beliefs) < MaxBeliefs
    /\ IF InRange(conf) /\ status \in Statuses \cup {""}
       THEN beliefs' = Append(beliefs,
                [conf |-> IF conf[1] = 0 THEN <<2, 2>> ELSE conf,
                 status |-> IF status = "" THEN "Active" ELSE status,
                 by |-> None, archivedAt |-> None])
       ELSE UNCHANGED beliefs
    /\ UNCHANGED <<evidence, history, clock, pc, held, fresh>>

\* UPDATE ... WHERE id = ?: no row, no error but ErrNotFound.
SetConfidence(b, conf) ==
    IF b \in Rows /\ InRange(conf)
    THEN beliefs' = [beliefs EXCEPT ![b].conf = conf]
    ELSE UNCHANGED beliefs

UpdateConfidence(b, conf) ==
    /\ Edit
    /\ SetConfidence(b, conf) /\ Touched(b)
    /\ UNCHANGED <<evidence, history, clock, pc, held>>

Superseded(b, by) == [conf |-> beliefs[b].conf, status |-> "Superseded", by |-> by,
                      archivedAt |-> clock]

\* Mutant of MarkSuperseded: the successor is not looked up.
SupersededByAny(b, by) ==
    /\ Edit
    /\ IF b # by /\ b \in Rows
       THEN beliefs' = [beliefs EXCEPT ![b] = Superseded(b, by)]
       ELSE UNCHANGED beliefs
    /\ UNCHANGED <<evidence, history, clock, pc, held, fresh>>

\* A belief that has a successor can get another one, older ones included.
MarkSuperseded(b, by) ==
    /\ Edit
    /\ IF b # by /\ {b, by} \subseteq Rows
       THEN beliefs' = [beliefs EXCEPT ![b] = Superseded(b, by)]
       ELSE UNCHANGED beliefs
    /\ UNCHANGED <<evidence, history, clock, pc, held, fresh>>
-----------------------------------------------------------------------------
\* The foreign key refuses evidence about a belief that is not there.
CreateEvidence(b, polarity, strength) ==
    /\ Edit /\ Len(evidence) < MaxEvidence
    /\ b \in Rows
    /\ evidence' = Append(evidence, [belief |-> b, polarity |-> polarity,
                                     strength |-> IF strength = 0 THEN 2 ELSE strength])
    /\ Touched(b)
    /\ UNCHANGED <<beliefs, history, clock, pc, held>>

UpdateStrength(e, strength) ==
    /\ Edit /\ e \in DOMAIN evidence /\ evidence[e] # None
    /\ evidence' = [evidence EXCEPT ![e].strength = strength]
    /\ Touched(evidence[e].belief)
    /\ UNCHANGED <<beliefs, history, clock, pc, held>>

DeleteEvidence(e) ==
    /\ Edit /\ e \in DOMAIN evidence /\ evidence[e] # None
    /\ evidence' = [evidence EXCEPT ![e] = None]
    /\ Touched(evidence[e].belief)
    /\ UNCHANGED <<beliefs, history, clock, pc, held>>

ListForBelief(b) == {e \in DOMAIN evidence : evidence[e] # None /\ evidence[e].belief = b}

\* aggregatePolarity with AggregatorSum: a row counts as many halves as it is
\* strong.
Side(b, polarity) == {e \in ListForBelief(b) : evidence[e].polarity = polarity}
Sum(b, polarity) ==
    LET Of(s) == {e \in Side(b, polarity) : evidence[e].strength = s}
    IN Cardinality(Of(1)) + 2 * Cardinality(Of(2))

AggregateEvidence(b) == <<Sum(b, "support"), Sum(b, "support") + Sum(b, "refute")>>

\* GetSupportRefute: rows, whatever their strength.
GetSupportRefute(b) == [p \in Polarities |-> Cardinality(Side(b, p))]
-----------------------------------------------------------------------------
PropagateList(c, b) ==
    /\ pc[c] = "idle"
    /\ pc' = [pc EXCEPT ![c] = IF AggregateEvidence(b)[2] > 0 THEN "update" ELSE "get"]
    /\ held' = [held EXCEPT ![c] = [belief |-> b, conf |-> AggregateEvidence(b)]]
    /\ fresh' = fresh \cup {c}
    /\ UNCHANGED <<beliefs, evidence, history, clock, edits>>

\* Without evidence the confidence read now is written back later.
PropagateGet(c) ==
    /\ pc[c] = "get"
    /\ LET b == held[c].belief IN
       IF b \in Rows
       THEN /\ pc' = [pc EXCEPT ![c] = "update"]
            /\ held' = [held EXCEPT ![c].conf = beliefs[b].conf]
            /\ UNCHANGED fresh
       ELSE /\ pc' = [pc EXCEPT ![c] = "idle"]
            /\ held' = [held EXCEPT ![c] = None]
            /\ fresh' = fresh \ {c}
    /\ UNCHANGED <<beliefs, evidence, history, clock, edits>>

\* Mutant of PropagateUpdate: the support itself is written, not its share.
PropagateSupport(c) ==
    /\ pc[c] = "update"
    /\ SetConfidence(held[c].belief, <<IF held[c].conf[1] > 2 THEN 2 ELSE held[c].conf[1], 2>>)
    /\ pc' = [pc EXCEPT ![c] = "idle"]
    /\ held' = [held EXCEPT ![c] = None]
    /\ fresh' = fresh \ {c}
    /\ UNCHANGED <<evidence, history, clock, edits>>

PropagateUpdate(c) ==
    /\ pc[c] = "update"
    /\ SetConfidence(held[c].belief, held[c].conf)
    /\ pc' = [pc EXCEPT ![c] = "idle"]
    /\ held' = [held EXCEPT ![c] = None]
    /\ fresh' = fresh \ {c}
    /\ UNCHANGED <<evidence, history, clock, edits>>
-----------------------------------------------------------------------------
\* What is recorded is what the caller says, not what the row holds; the table
\* checks that the belief is there, and the confidence.
RecordHistory(b, conf, status) ==
    /\ Edit /\ Len(history) < MaxRecords
    /\ b \in Rows /\ InRange(conf)
    /\ history' = Append(history, [belief |-> b, conf |-> conf, status |-> status, at |-> clock])
    /\ UNCHANGED <<beliefs, evidence, clock, pc, held, fresh>>

Tick ==
    /\ clock < MaxClock
    /\ clock' = clock + 1
    /\ UNCHANGED <<beliefs, evidence, history, pc, held, fresh, edits>>

ListHistory(b) == {n \in DOMAIN history : history[n].belief = b}

\* The record of some that was written last, if there are any.
Newest(S) == {history[n] : n \in {i \in S : \A j \in S : j <= i}}

\* Mutant of StateAt: the newest record, whatever the time.
LatestState(b, t) == Newest(ListHistory(b))

\* ORDER BY created_at DESC, id DESC LIMIT 1: the clock does not go back.
StateAt(b, t) == Newest({n \in ListHistory(b) : history[n].at <= t})

ListActiveBeliefs == {b \in Rows : beliefs[b].status = "Active"}
GetSupersededBy(b) == IF b \in Rows THEN beliefs[b].by ELSE None
-----------------------------------------------------------------------------
Propagation(c) == (\E b \in Ids : PropagateList(c, b)) \/ PropagateGet(c) \/ PropagateUpdate(c)

Next ==
    \/ \E c \in Callers : Propagation(c)
    \/ \E conf \in Given, status \in Named : CreateBelief(conf, status)
    \/ \E b \in Ids, conf \in Given : UpdateConfidence(b, conf)
    \/ \E b, by \in Ids : MarkSuperseded(b, by)
    \/ \E b \in Ids, p \in Polarities, s \in Halves : CreateEvidence(b, p, s)
    \/ \E e \in 1..MaxEvidence, s \in Halves : UpdateStrength(e, s)
    \/ \E e \in 1..MaxEvidence : DeleteEvidence(e)
    \/ \E b \in Ids, conf \in Given, status \in Named : RecordHistory(b, conf, status)
    \/ Tick

Spec == Init /\ [][Next]_beliefVars
-----------------------------------------------------------------------------
\* A belief that names a successor names another one that exists, and is not
\* among the active ones any more; evidence is always about a belief that
\* exists, and counts and sums agree on which side has any weight.  That a
\* superseded belief has a successor (008_add_beliefs_table.sql:9) is not so:
\* CreateBelief takes the status from its caller.
LinksHold ==
    /\ \A b \in Rows :
          GetSupersededBy(b) # None =>
             /\ GetSupersededBy(b) \in Rows \ {b} /\ beliefs[b].archivedAt # None
             /\ b \notin ListActiveBeliefs
    /\ \A b \in Ids, p \in Polarities :
          /\ b \notin Rows => GetSupportRefute(b)[p] = 0
          /\ Sum(b, p) <= 2 * GetSupportRefute(b)[p]

\* While one caller propagates the confidence of a belief and nobody else
\* writes to it, the belief ends with the share of the support in the
\* evidence there is (evolution/propagation.go:25-31).  It need not when
\* evidence arrives between the list and the write, or when two
\* propagations of one belief write in the other order.
WritesShare ==
    \A c \in Callers : \A b \in Ids :
        ( /\ pc[c] = "update" /\ pc'[c] = "idle" /\ held[c].belief = b
          /\ c \in fresh /\ b \in Rows /\ AggregateEvidence(b)[2] > 0 )
        => beliefs'[b].conf[1] * AggregateEvidence(b)[2]
              = AggregateEvidence(b)[1] * beliefs'[b].conf[2]

PropagatedIsCurrent == [][WritesShare]_beliefVars

\* What a belief was at an instant that is over never changes again
\* (evolution/history.go:10-11, queries.go:32-37).
KeepsPast == \A b \in Ids, t \in 0..MaxClock : t < clock => StateAt(b, t)' = StateAt(b, t)

PastStands == [][KeepsPast]_beliefVars

\* What every step keeps.  What a fresh caller holds is what the evidence says,
\* or the evidence says nothing.
Confs == Nat \X Nat
BeliefsAssumption == None \notin Nat /\ Given \subseteq Confs

BeliefTypes ==
    /\ beliefs \in Seq([conf : Confs, status : Statuses,
                        by : Ids \cup {None}, archivedAt : Nat \cup {None}])
    /\ evidence \in Seq([belief : Ids, polarity : Polarities, strength : Halves] \cup {None})
    /\ history \in Seq([belief : Ids, conf : Confs, status : Named, at : Nat])
    /\ clock \in Nat
    /\ pc \in [Callers -> {"idle", "get", "update"}]
    /\ held \in [Callers -> [belief : Ids, conf : Confs] \cup {None}]
    /\ \A c \in Callers : pc[c] # "idle" => held[c] \in [belief : Ids, conf : Confs]
    /\ fresh \subseteq {c \in Callers : pc[c] # "idle"}

Successors == \A b \in Rows : beliefs[b].by # None =>
                 /\ beliefs[b].by \in Rows \ {b} /\ beliefs[b].archivedAt # None
                 /\ beliefs[b].status = "Superseded"

EvidenceOfRows == \A e \in DOMAIN evidence : evidence[e] # None => evidence[e].belief \in Rows

Shares == [b \in Ids |-> AggregateEvidence(b)]
FreshHoldShare ==
    \A c \in fresh :
      LET share == Shares[held[c].belief] IN
      share[2] > 0 => pc[c] = "update" /\ held[c].conf = share

BeliefInv == BeliefTypes /\ Successors /\ EvidenceOfRows /\ FreshHoldShare
=============================================================================
