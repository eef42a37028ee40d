------------------------------ MODULE AiClient ------------------------------
(***************************************************************************)
(* One call of a model (src/internal/ai): ResilientClient.Do with its      *)
(* retries, the decoding in doPOST, and what embedder, extractor and       *)
(* rerankers make of it; and SafeStreamFetch (src/internal/httputil),      *)
(* which has a loop of its own.                                            *)
(*                                                                         *)
(* An answer is "ok", "junk" (200, not decodable or too large), "client"   *)
(* (any other status that is not retried), "busy" (429 and 5xx) or         *)
(* "network".  A model that reranks answers with numbers of candidates.    *)
(***************************************************************************)
EXTENDS Integers, Sequences, FiniteSets

CONSTANTS Kinds,         \* the calls made
          Attempts,      \* kind -> how many requests it may send
          Guarded,       \* the kinds with a wall-clock guard
          Candidates,    \* the numbers of candidates to rerank
          Orders         \* what the model may answer, 0 the first candidate

None == "none"
NoBody == {"ping", "fetch"}
Rerankers == {"ollamaRerank", "openaiRerank"}
Transient == {"busy", "network"}

VARIABLES kind, candidates,
          step,        \* "prepare", "execute", "classify", "wait", "decode" or "returned"
          attempt, body, answer,
          late,        \* the guard's deadline has passed
          cancelled,   \* the caller's context is done
          overdue,     \* requests sent after either
          emptied,     \* a request went out with its body used up
          result       \* "value", "error", or the candidates in order

callVars == <<kind, candidates, step, attempt, body, answer, late, cancelled, overdue, emptied, result>>

AllOf(n) == [i \in 1..n |-> i - 1]

Init ==
    /\ kind \in Kinds
    /\ candidates \in (IF kind \in Rerankers THEN Candidates ELSE {0})
    /\ step = "execute" /\ attempt = 0
    /\ body = (IF kind \in NoBody THEN "none" ELSE "whole")
    /\ answer = None
    /\ late = FALSE /\ cancelled = FALSE /\ overdue = 0 /\ emptied = FALSE
    /\ result = <<>>

Returns(r) == step' = "returned" /\ result' = r
\* A reranker never fails: it gives back what it got.
Fails == Returns(IF kind \in Rerankers THEN AllOf(candidates) ELSE <<"error">>)
-----------------------------------------------------------------------------
\* Too few candidates to ask anybody.
TooFew == \/ kind = "ollamaRerank" /\ candidates = 0
          \/ kind = "openaiRerank" /\ candidates <= 1

NothingToRerank ==
    /\ step = "execute" /\ TooFew
    /\ Returns(AllOf(candidates))
    /\ UNCHANGED <<kind, candidates, attempt, body, answer, late, cancelled, overdue, emptied>>

\* A cancelled context fails the request at once.
Execute(a) ==
    /\ step = "execute" /\ ~TooFew
    /\ cancelled => a = "network"
    /\ answer' = a /\ attempt' = attempt + 1
    /\ body' = IF body = "whole" THEN "used" ELSE body
    /\ emptied' = (emptied \/ body = "used")
    /\ overdue' = IF cancelled \/ (late /\ kind \in Guarded) THEN overdue + 1 ELSE overdue
    /\ step' = "classify"
    /\ UNCHANGED <<kind, candidates, late, cancelled, result>>

\* Mutant of Classify: the guard looks at answers only, not at network errors.
ClassifyLate ==
    /\ step = "classify"
    /\ CASE answer \notin Transient -> step' = "decode" /\ UNCHANGED result
         [] answer \in Transient /\ (cancelled \/ (late /\ kind \in Guarded /\ answer = "busy")) -> Fails
         [] OTHER -> step' = "wait" /\ UNCHANGED result
    /\ UNCHANGED <<kind, candidates, attempt, body, answer, late, cancelled, overdue, emptied>>

\* Retry or not, after the answer.
Classify ==
    /\ step = "classify"
    /\ CASE answer \notin Transient -> step' = "decode" /\ UNCHANGED result
         [] answer \in Transient /\ (cancelled \/ (late /\ kind \in Guarded)) -> Fails
         [] OTHER -> step' = "wait" /\ UNCHANGED result
    /\ UNCHANGED <<kind, candidates, attempt, body, answer, late, cancelled, overdue, emptied>>

\* The client sleeps after the last attempt too; SafeStreamFetch only before
\* another one.
Wait ==
    /\ step = "wait"
    /\ IF cancelled \/ attempt >= Attempts[kind]
       THEN Fails
       ELSE step' = "prepare" /\ UNCHANGED result
    /\ UNCHANGED <<kind, candidates, attempt, body, answer, late, cancelled, overdue, emptied>>

\* Mutant of Prepare: the request is sent again as it is.
PrepareNothing ==
    /\ step = "prepare"
    /\ IF cancelled THEN Fails ELSE step' = "execute" /\ UNCHANGED result
    /\ UNCHANGED <<kind, candidates, attempt, body, answer, late, cancelled, overdue, emptied>>

\* GetBody, which doPOST has set.
Prepare ==
    /\ step = "prepare"
    /\ IF cancelled
       THEN Fails /\ UNCHANGED body
       ELSE step' = "execute" /\ body' = (IF body = "used" THEN "whole" ELSE body) /\ UNCHANGED result
    /\ UNCHANGED <<kind, candidates, attempt, answer, late, cancelled, overdue, emptied>>
-----------------------------------------------------------------------------
\* The numbers of a finite set from the smallest on, and what a sequence has
\* at some of its positions.
Ascending(S) == [k \in 1..Cardinality(S) |-> CHOOSE i \in S : Cardinality({j \in S : j < i}) = k - 1]
Chosen(s, P) == [k \in 1..Cardinality(P) |-> s[Ascending(P)[k]]]

Valid(order, n) == {i \in DOMAIN order : order[i] \in 0..(n - 1)}

\* Ollama: the answer's order without numbers that are none; nothing else is
\* looked at.
OllamaOrder(order, n) == IF Valid(order, n) = {} THEN AllOf(n) ELSE Chosen(order, Valid(order, n))

\* OpenAI: every number once, then the candidates that were not mentioned.
OpenAIOrder(order, n) ==
    LET firsts == {i \in Valid(order, n) : \A j \in Valid(order, n) : j < i => order[j] # order[i]}
    IN  Chosen(order, firsts) \o Ascending(0..(n - 1) \ {order[i] : i \in firsts})

\* Mutant of Reordered: nobody adds what the model forgot.
ReorderedAsTold(order) == OllamaOrder(order, candidates)

Reordered(order) ==
    IF kind = "ollamaRerank" THEN OllamaOrder(order, candidates) ELSE OpenAIOrder(order, candidates)

Decode ==
    /\ step = "decode"
    /\ IF answer = "ok"
       THEN IF kind \in Rerankers
            THEN \E order \in Orders : Returns(Reordered(order))
            ELSE Returns(<<"value">>)
       ELSE Fails
    /\ UNCHANGED <<kind, candidates, attempt, body, answer, late, cancelled, overdue, emptied>>

Deadline ==
    /\ ~late /\ step # "returned"
    /\ late' = TRUE
    /\ UNCHANGED <<kind, candidates, step, attempt, body, answer, cancelled, overdue, emptied, result>>

Cancel ==
    /\ ~cancelled /\ step # "returned"
    /\ cancelled' = TRUE
    /\ UNCHANGED <<kind, candidates, step, attempt, body, answer, late, overdue, emptied, result>>

CallStep ==
    \/ NothingToRerank
    \/ \E a \in {"ok", "junk", "client", "busy", "network"} : Execute(a)
    \/ Classify \/ Wait \/ Prepare \/ Decode

Next == CallStep \/ Deadline \/ Cancel

Spec == Init /\ [][Next]_callVars
FairSpec == Spec /\ WF_callVars(CallStep)
-----------------------------------------------------------------------------
IsPermutation(s, n) == Len(s) = n /\ {s[i] : i \in DOMAIN s} = 0..(n - 1)

\* The contract of Do (client.go:113-145): no more requests than attempts,
\* each with its body; at most one goes out after the deadline or the end of
\* the context.  A value comes from a good answer only, and a reranker gives
\* back every candidate it got when the call fails, and always with OpenAI
\* (reranker.go:75-76, 157-159).
CallIsSound ==
    /\ attempt <= Attempts[kind] /\ ~emptied /\ overdue <= 1
    /\ step = "returned" =>
          /\ kind \notin Rerankers => (result = <<"value">> <=> answer = "ok")
          /\ kind \in Rerankers =>
                /\ result # <<>> \/ candidates = 0
                /\ (kind = "openaiRerank" \/ answer # "ok") => IsPermutation(result, candidates)

Returned == step = "returned"

\* Whatever the server of the model answers, and however often, the caller
\* gets a result in the end (client.go:113-145).
CallEnds == <>[]Returned

\* "4 total attempts (1 initial + 3 retries)" (httputil.go:433)
FetchFourTimes == kind = "fetch" => attempt <= 4
-----------------------------------------------------------------------------
\* Why a call is sound: it waits only after an answer that is worth another
\* request, and a request that was overdue is not repeated.
CallTypes ==
    /\ kind \in Kinds /\ candidates \in Nat /\ attempt \in Nat /\ overdue \in Nat
    /\ step \in {"prepare", "execute", "classify", "wait", "decode", "returned"}
    /\ body \in {"none", "whole", "used"}
    /\ answer \in {None, "ok", "junk", "client"} \cup Transient
    /\ late \in BOOLEAN /\ cancelled \in BOOLEAN

CallInv ==
    /\ CallTypes
    /\ CallIsSound
    /\ step \in {"execute", "prepare"} => attempt < Attempts[kind]
    /\ step = "execute" => body # "used" /\ answer \in Transient \cup {None}
    /\ step \in {"wait", "prepare"} => answer \in Transient
    /\ overdue = 1 => /\ cancelled \/ (late /\ kind \in Guarded)
                      /\ step \in {"classify", "decode", "returned"}
=============================================================================
