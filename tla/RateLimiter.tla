---------------------------- MODULE RateLimiter ----------------------------
(***************************************************************************)
(* The sliding-window rate limiter, for one key.                           *)
(*                                                                         *)
(* A request takes its timestamp in the application and then runs one      *)
(* Redis transaction: entries up to now - window are removed, the rest are *)
(* counted, the request's own timestamp is added whether or not it will be *)
(* admitted, and the key's time to live is renewed.  Members of the sorted *)
(* set are timestamps, so requests with one timestamp are one entry, and   *)
(* all but the first of them are never counted.  Time is counted in ticks  *)
(* of one second; requests that share a tick share a timestamp.            *)
(***************************************************************************)
EXTENDS Naturals, FiniteSets

CONSTANTS
    Callers,        \* requests; one that is refused or fails may be sent again
    Limit,          \* rate_limit_default
    Window,         \* rate_limit_window_seconds
    MaxClock        \* bound: ticks

ASSUME RateAssumption ==
    Limit \in Nat /\ Window \in Nat \ {0} /\ MaxClock \in Nat /\ IsFiniteSet(Callers)

VARIABLES
    clock,
    stamp,      \* request -> the timestamp it took, or none
    entries,    \* the sorted set
    ttl,        \* when the key expires
    newest,     \* the latest timestamp a transaction has used
    admitted,   \* the requests that were admitted
    unseen      \* those of them that the count of their window cannot rely on

rateVars == <<clock, stamp, entries, ttl, newest, admitted, unseen>>

NoStamp == [none |-> "stamp"]
Stamps == [now : Nat]

RateTypeOK ==
    /\ clock \in Nat /\ ttl \in Nat /\ newest \in Nat
    /\ stamp \in [Callers -> Stamps \cup {NoStamp}]
    /\ entries \subseteq 0 .. clock
    /\ admitted \subseteq Callers /\ unseen \subseteq admitted
    /\ \A q \in admitted : stamp[q] # NoStamp

RateInit ==
    /\ clock = 0 /\ ttl = 0 /\ newest = 0
    /\ stamp = [q \in Callers |-> NoStamp]
    /\ entries = {} /\ admitted = {} /\ unseen = {}

---------------------------------------------------------------------------
\* Time passes, and Redis drops the key when its time to live is over.
Tick ==
    /\ clock < MaxClock
    /\ clock' = clock + 1
    /\ entries' = IF clock + 1 >= ttl THEN {} ELSE entries
    /\ UNCHANGED <<stamp, ttl, newest, admitted, unseen>>

\* dispatch, up to now = time.time().
TakeStamp(q) ==
    /\ stamp[q] = NoStamp
    /\ stamp' = [stamp EXCEPT ![q] = [now |-> clock]]
    /\ UNCHANGED <<clock, entries, ttl, newest, admitted, unseen>>

\* A request that has its timestamp and no answer yet.
Unanswered(q) == stamp[q] # NoStamp /\ q \notin admitted

\* zremrangebyscore(0, now - window)
Kept(now) == {t \in entries : t + Window > now}

\* Mutant: the limit is passed before a request is refused.
ExceedsLimit(count) == count > Limit
\* current_count >= limit
OverLimit(count) == count >= Limit

\* The transaction: it records the request before it is known to be admitted.
Recorded(q) ==
    LET now == stamp[q].now IN
    /\ entries' = Kept(now) \cup {now}
    /\ ttl' = clock + Window + 1
    /\ newest' = IF now > newest THEN now ELSE newest
    /\ UNCHANGED clock

\* What keeps a request from being counted, or from counting: its timestamp is
\* recorded already, another transaction with a later one came first and removed
\* entries of its window, or it is later than the second by which the key outlives
\* the window.
Unreliable(q) ==
    stamp[q].now \in entries \/ stamp[q].now < newest \/ clock > stamp[q].now + 1

Admit(q) ==
    /\ Unanswered(q)
    /\ ~OverLimit(Cardinality(Kept(stamp[q].now)))
    /\ Recorded(q)
    /\ admitted' = admitted \cup {q}
    /\ unseen' = IF Unreliable(q) THEN unseen \cup {q} ELSE unseen
    /\ UNCHANGED stamp

\* The answer 429; or the answer of Redis is lost and the request fails.
Refuse(q) ==
    /\ Unanswered(q)
    /\ Recorded(q)
    /\ stamp' = [stamp EXCEPT ![q] = NoStamp]
    /\ UNCHANGED <<admitted, unseen>>

\* Redis fails before it has run the transaction: nothing catches the exception
\* and the request is not served.
RedisFails(q) ==
    /\ Unanswered(q)
    /\ stamp' = [stamp EXCEPT ![q] = NoStamp]
    /\ UNCHANGED <<clock, entries, ttl, newest, admitted, unseen>>

RateNext ==
    \/ Tick
    \/ \E q \in Callers : TakeStamp(q) \/ Admit(q) \/ Refuse(q) \/ RedisFails(q)

RateSpec == RateInit /\ [][RateNext]_rateVars

---------------------------------------------------------------------------
\* The requests admitted in the window that ends at t.
InWindow(t) == {q \in admitted : stamp[q].now <= t /\ stamp[q].now + Window > t}

\* No window that ends at an admitted request holds more admitted requests than the
\* limit and those of them that came with a timestamp already recorded, out of order
\* or late.  rate_limiter.py:6 promises the limit itself; what exceeds it is never
\* more than these, however requests, refusals, expiry of the key and failures of
\* Redis interleave.
ExcessIsUnseen ==
    \A q \in admitted :
        LET all == InWindow(stamp[q].now)
        IN  Cardinality(all) <= Limit + Cardinality(all \cap unseen)
===========================================================================
