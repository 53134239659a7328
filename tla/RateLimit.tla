------------------------------- MODULE RateLimit -------------------------------
(***************************************************************************)
(* The hourly rate limiter (internal/util/ratelimit.go): Allow records the *)
(* calls it grants, forgets those that have expired and refuses once Limit *)
(* of them are left.  The mutex makes a call one step; between calls the   *)
(* clock goes on, never back.                                              *)
(***************************************************************************)
EXTENDS Integers, Sequences

CONSTANTS
    Keys,    \* what is limited, e.g. channels
    Limit,   \* grants per key and window
    Hour,    \* the length of the window, in ticks of the clock
    MaxTime  \* bound: how far the clock goes

ASSUME RateAssumption == Limit \in Nat /\ Hour \in Nat \ {0} /\ MaxTime \in Nat

VARIABLES
    now,      \* time.Now()
    hits,     \* r.hits: for each key the times it remembers
    granted   \* history: the times of all the grants of each key

limitVars == <<now, hits, granted>>

LimitInit ==
    /\ now = 0
    /\ hits = [k \in Keys |-> <<>>]
    /\ granted = [k \in Keys |-> <<>>]

\* Mutant: the cutoff is compared the wrong way round at the boundary.
ExpiredEarly(t) == t <= now - Hour

\* Mutant: the cutoff is a tick too early.
ExpiredLate(t) == t < now - Hour - 1

\* times[i].Before(cutoff)
Expired(t) == t < now - Hour

\* The loop that evicts: the first i entries have expired, the next has not.
Evicts(times, i) ==
    /\ \A j \in 1..i : Expired(times[j])
    /\ i < Len(times) => ~Expired(times[i + 1])

\* The first half of Allow: what is left of a key after the first i are gone.
Left(k, i) == SubSeq(hits[k], i + 1, Len(hits[k]))

\* Mutant: one grant too many.
UnderLimitOrAt(times) == Len(times) <= Limit

UnderLimit(times) == Len(times) < Limit

Grant(k) ==
    \E i \in 0..Len(hits[k]) :
        /\ Evicts(hits[k], i)
        /\ UnderLimit(Left(k, i))
        /\ hits' = [hits EXCEPT ![k] = Append(Left(k, i), now)]
        /\ granted' = [granted EXCEPT ![k] = Append(@, now)]
        /\ UNCHANGED now

Deny(k) ==
    \E i \in 0..Len(hits[k]) :
        /\ Evicts(hits[k], i)
        /\ ~UnderLimit(Left(k, i))
        /\ hits' = [hits EXCEPT ![k] = Left(k, i)]
        /\ UNCHANGED <<now, granted>>

Tick ==
    /\ now < MaxTime
    /\ now' = now + 1
    /\ UNCHANGED <<hits, granted>>

LimitNext == Tick \/ \E k \in Keys : Grant(k) \/ Deny(k)

LimitSpec == LimitInit /\ [][LimitNext]_limitVars

-------------------------------------------------------------------------------
(* Properties *)

\* Every variable has its type, and no key remembers more than Limit times, so
\* the map does not grow with the traffic of a key (ratelimit.go:32-46).
LimitTypeOK ==
    /\ now \in 0..MaxTime
    /\ hits \in [Keys -> Seq(Nat)] /\ \A k \in Keys : Len(hits[k]) <= Limit
    /\ granted \in [Keys -> Seq(Nat)]

\* At most Limit grants of one key in any window of an hour, wherever the
\* window begins: a grant and the Limit-th one after it are more than an hour
\* apart (ratelimit.go:26-47).
RollingLimit ==
    \A k \in Keys : \A i \in 1..Len(granted[k]) - Limit :
        granted[k][i + Limit] - granted[k][i] > Hour

\* Nobody is refused below the limit: when Allow would refuse a key, the
\* Limit-th of its grants, counted back from the last, is no more than an hour
\* old (ratelimit.go:32-41), whatever was refused or evicted before.
Refuses(k) ==
    \E i \in 0..Len(hits[k]) : Evicts(hits[k], i) /\ ~UnderLimit(Left(k, i))

RefusesOnlyFull ==
    \A k \in Keys : Refuses(k) =>
        /\ Len(granted[k]) >= Limit
        /\ Limit > 0 => granted[k][Len(granted[k]) - Limit + 1] >= now - Hour

\* What a key remembers are its last grants, and those it has forgotten are
\* more than an hour old: a refusal counts no grant twice, none of another key
\* and none that has expired.
Forgotten(k) == Len(granted[k]) - Len(hits[k])

RemembersTheHour ==
    \A k \in Keys :
        /\ Forgotten(k) >= 0
        /\ \A j \in 1..Len(hits[k]) : hits[k][j] = granted[k][Forgotten(k) + j]
        /\ \A i \in 1..Forgotten(k) : granted[k][i] < now - Hour
===============================================================================
