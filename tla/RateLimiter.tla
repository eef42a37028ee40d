----------------------------- MODULE RateLimiter -----------------------------
(***************************************************************************)
(* The token buckets of the HTTP server (src/internal/server/ratelimit).   *)
(* A limiter has a bucket per key, made full at the first request, refilled*)
(* by the time since it was used last, and thrown away when it has been    *)
(* idle for longer than IdleTTL.  A reload makes a new limiter; a request  *)
(* may still be using the one before.  Every operation holds the lock of   *)
(* the shard of the key.                                                   *)
(***************************************************************************)
EXTENDS Integers, FiniteSets

CONSTANTS Limiters, Keys, Burst, Rps, IdleTTL

\* Nothing relates the three: a bucket may be thrown away before it is full.
ASSUME RateLimiterAssumption == Burst \in Nat \ {0} /\ Rps \in Nat \ {0} /\ IdleTTL \in Nat

VARIABLES clock,
          buckets,   \* limiter -> key -> the bucket
          admitted,  \* history: limiter -> key -> requests let through
          evicted    \* history: limiter -> key -> buckets thrown away

limVars == <<clock, buckets, admitted, evicted>>

NoBucket == [made |-> FALSE, tokens |-> 0, last |-> 0]

LimTypeOK ==
    /\ clock \in Nat
    /\ buckets \in [Limiters -> [Keys -> [made : BOOLEAN, tokens : Nat, last : Nat]]]
    /\ admitted \in [Limiters -> [Keys -> Nat]]
    /\ evicted \in [Limiters -> [Keys -> Nat]]

LimInit ==
    /\ clock = 0
    /\ buckets = [l \in Limiters |-> [k \in Keys |-> NoBucket]]
    /\ admitted = [l \in Limiters |-> [k \in Keys |-> 0]]
    /\ evicted = [l \in Limiters |-> [k \in Keys |-> 0]]

\* The bucket as Allow finds it: made, or refilled up to the burst.
Refilled(l, k) ==
    LET b == buckets[l][k]
        more == b.tokens + (clock - b.last) * Rps
    IN  IF ~b.made \/ more > Burst THEN Burst ELSE more

\* Allow: one token, or none left.
Admit(l, k) ==
    /\ Refilled(l, k) >= 1
    /\ buckets' = [buckets EXCEPT ![l][k] =
         [made |-> TRUE, tokens |-> Refilled(l, k) - 1, last |-> clock]]
    /\ admitted' = [admitted EXCEPT ![l][k] = @ + 1]
    /\ UNCHANGED <<clock, evicted>>

Reject(l, k) ==
    /\ Refilled(l, k) < 1
    /\ buckets' = [buckets EXCEPT ![l][k] =
         [made |-> TRUE, tokens |-> Refilled(l, k), last |-> clock]]
    /\ UNCHANGED <<clock, admitted, evicted>>

\* Mutant of Evict: whatever the sweeper comes across.
EvictAny(l, k) ==
    /\ buckets[l][k].made
    /\ buckets' = [buckets EXCEPT ![l][k] = NoBucket]
    /\ evicted' = [evicted EXCEPT ![l][k] = @ + 1]
    /\ UNCHANGED <<clock, admitted>>

\* One bucket of a sweep.
Evict(l, k) ==
    /\ buckets[l][k].made /\ buckets[l][k].last < clock - IdleTTL
    /\ buckets' = [buckets EXCEPT ![l][k] = NoBucket]
    /\ evicted' = [evicted EXCEPT ![l][k] = @ + 1]
    /\ UNCHANGED <<clock, admitted>>

Tick == clock' = clock + 1 /\ UNCHANGED <<buckets, admitted, evicted>>

LimNext ==
    \/ Tick
    \/ \E l \in Limiters, k \in Keys : Admit(l, k) \/ Reject(l, k) \/ Evict(l, k)

LimSpec == LimInit /\ [][LimNext]_limVars
-----------------------------------------------------------------------------
\* What a key has not earned of the burst it finds after an eviction: a bucket
\* is thrown away more than IdleTTL after its last use.
Unearned == IF Burst > Rps * (IdleTTL + 1) THEN Burst - Rps * (IdleTTL + 1) ELSE 0

\* A limiter never lets a key make more requests than the burst, what the rate
\* has added since it was started, and what the sweeper gave away by throwing
\* out buckets that were not full again; that is nothing where an idle bucket
\* is full before it goes, which no check of the configuration asks for
\* (limiter.go:1-20, 145, config/ini.go:325-331).
AdmittedBounded ==
    \A l \in Limiters, k \in Keys :
        admitted[l][k] <= Burst + Rps * clock + evicted[l][k] * Unearned
==============================================================================
