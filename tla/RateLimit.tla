----------------------------- MODULE RateLimit -----------------------------
(***************************************************************************)
(* The token buckets in front of POST /api/v1/payments (rate_limit.py and  *)
(* create_payment in api.py), in memory or in Redis.                       *)
(*                                                                         *)
(* Time is counted in ticks, tokens in parts: a token is Unit parts and    *)
(* Refill parts come back per tick, so refill_per_second is                *)
(* Refill * TicksPerSecond / Unit and every amount is a whole number; the  *)
(* rounding of floats is left out.  The in-memory limiter reads a          *)
(* monotonic clock.  The script reads the server's clock, which may be     *)
(* set back.                                                               *)
(***************************************************************************)
EXTENDS Integers, Sequences, FiniteSetsExt

CONSTANTS
    Merchants, Capacity, Unit, Refill, TicksPerSecond,
    MaxTime,       \* bound: ticks
    MaxRequests,   \* bound: requests
    MaxSetBack,    \* bound: ticks by which the server's clock is set back
    None

ASSUME BucketAssumption ==
    /\ {Capacity, Unit, Refill, TicksPerSecond} \subseteq Nat \ {0}
    /\ {MaxTime, MaxRequests, MaxSetBack} \subseteq Nat
    /\ None \notin [tokens : Int, updated : Int, expires : Int]

VARIABLES
    backend,    \* coordination_backend: "memory" or "redis"
    now,        \* true time
    setBack,    \* how far the clock that is read has been set back
    buckets,    \* the bucket of each merchant, None when it has none
    requests,   \* history: number of requests
    spent,      \* history: when each merchant's tokens were spent
    due         \* history: since when a refused merchant has been told that
                \* it may try again

vars == <<backend, now, setBack, buckets, requests, spent, due>>

Full == Capacity * Unit

Bucket == [tokens : 0 .. Full, updated : Int, expires : Int]

TypeOK ==
    /\ backend \in {"memory", "redis"}
    /\ now \in 0 .. MaxTime
    /\ setBack \in 0 .. MaxSetBack
    /\ buckets \in [Merchants -> {None} \cup Bucket]
    /\ requests \in 0 .. MaxRequests
    /\ spent \in [Merchants -> Seq(0 .. MaxTime)]
    /\ due \in [Merchants -> Nat \cup {None}]

Init ==
    /\ backend \in {"memory", "redis"}
    /\ now = 0
    /\ setBack = 0
    /\ buckets = [m \in Merchants |-> None]
    /\ requests = 0
    /\ spent = [m \in Merchants |-> <<>>]
    /\ due = [m \in Merchants |-> None]

-----------------------------------------------------------------------------
Clock == now - setBack

CeilDiv(a, b) == (a + b - 1) \div b

\* A bucket in memory stays; the hash in Redis is gone once its TTL is over.
HasBucket(m) ==
    /\ buckets[m] # None
    /\ backend = "memory" \/ Clock < buckets[m].expires

\* Slip: the bucket overflows.
RefilledUncapped(m) ==
    IF HasBucket(m)
    THEN buckets[m].tokens + Max({0, Clock - buckets[m].updated}) * Refill
    ELSE Full

\* What the bucket holds when it is looked at now.
Refilled(m) ==
    IF HasBucket(m)
    THEN Min({Full, buckets[m].tokens + Max({0, Clock - buckets[m].updated}) * Refill})
    ELSE Full

\* Slip: the wait is rounded down.
RetryAfterFloor(tokens) == Max({1, (Unit - tokens) \div (Refill * TicksPerSecond)})

\* retry_after_seconds of a refusal; the script does without the max.
RetryAfter(tokens) == Max({1, CeilDiv(Unit - tokens, Refill * TicksPerSecond)})

\* The TTL of the hash in seconds: twice the time an empty bucket takes to fill.
Expire == CeilDiv(2 * Full, Refill * TicksPerSecond)

Allowed(m) == Refilled(m) >= Unit

\* Slip: a refused request pays what there is.
ConsumeAll(m) ==
    buckets' = [buckets EXCEPT ![m] =
      [tokens |-> IF Allowed(m) THEN Refilled(m) - Unit ELSE 0,
       updated |-> Clock, expires |-> Clock + Expire * TicksPerSecond]]

\* consume: refill, take a token if there is one, and write the bucket back
\* in either case.
Consume(m) ==
    buckets' = [buckets EXCEPT ![m] =
      [tokens |-> IF Allowed(m) THEN Refilled(m) - Unit ELSE Refilled(m),
       updated |-> Clock, expires |-> Clock + Expire * TicksPerSecond]]

Arrives == requests < MaxRequests /\ requests' = requests + 1

\* create_payment with a limiter that answers: 429 with Retry-After, or on to
\* the validation and the payment service.  consume is one step, under the
\* lock or in the script.
CreatePayment(m) ==
    /\ Arrives
    /\ Consume(m)
    /\ IF Allowed(m)
       THEN /\ spent' = [spent EXCEPT ![m] = Append(@, now)]
            /\ due' = [due EXCEPT ![m] = None]
       ELSE LET again == now + RetryAfter(Refilled(m)) * TicksPerSecond IN
            /\ due' = [due EXCEPT ![m] = IF @ = None THEN again ELSE Min({@, again})]
            /\ UNCHANGED spent
    /\ UNCHANGED <<backend, now, setBack>>

\* eval raises, whether or not the script ran: RateLimitUnavailable, 503.
ConsumeUnavailable(m) ==
    /\ backend = "redis"
    /\ Arrives
    /\ \/ UNCHANGED <<buckets, spent, due>>
       \/ /\ Consume(m)
          /\ spent' = IF Allowed(m) THEN [spent EXCEPT ![m] = Append(@, now)] ELSE spent
          /\ due' = IF Allowed(m) THEN [due EXCEPT ![m] = None] ELSE due
    /\ UNCHANGED <<backend, now, setBack>>

Tick ==
    /\ now < MaxTime
    /\ now' = now + 1
    /\ UNCHANGED <<backend, setBack, buckets, requests, spent, due>>

\* The Redis server's clock is set back: what was promised before is void.
\* Hashes past their TTL may have been removed by then, or become valid again.
ClockSetBack ==
    /\ backend = "redis"
    /\ setBack < MaxSetBack
    /\ setBack' = setBack + 1
    /\ due' = [m \in Merchants |-> None]
    /\ \E removed \in SUBSET {m \in Merchants : ~HasBucket(m)} :
         buckets' = [m \in Merchants |-> IF m \in removed THEN None ELSE buckets[m]]
    /\ UNCHANGED <<backend, now, requests, spent>>

Next ==
    \/ \E m \in Merchants : CreatePayment(m) \/ ConsumeUnavailable(m)
    \/ Tick
    \/ ClockSetBack

Spec == Init /\ [][Next]_vars

-----------------------------------------------------------------------------
(* Properties. *)

\* In no stretch of time are more of a merchant's tokens spent than the
\* capacity and what came back in that stretch (consume), with buckets that
\* expire, answers that are lost and a clock that is set back.
BurstsBounded ==
    \A m \in Merchants : \A i, j \in DOMAIN spent[m] :
      i <= j => (j - i + 1) * Unit <= Full + (spent[m][j] - spent[m][i]) * Refill

\* A merchant refused with Retry-After finds a token once that time is over,
\* unless another request of its own took it: refused retries in between,
\* the rounding and the expiry do not put it off (consume).
RetryAfterKept ==
    \A m \in Merchants : due[m] # None /\ now >= due[m] => Allowed(m)

\* A merchant is refused only for its own requests: one more would exceed
\* what some stretch of time up to now allows (consume; a merchant that
\* spent nothing is never refused), as long as the clock is not set back.
RefusedOnlyWhenSpent ==
    \A m \in Merchants :
      ~Allowed(m) /\ setBack = 0 =>
        \E i \in DOMAIN spent[m] :
          (Len(spent[m]) - i + 2) * Unit > Full + (now - spent[m][i]) * Refill
=============================================================================
