--------------------------- MODULE RateLimitProofs ---------------------------
(***************************************************************************)
(* The token buckets, proved for any merchants, capacity, refill rate and  *)
(* bounds, either backend, lost answers and a clock that is set back.      *)
(***************************************************************************)
EXTENDS RateLimit, TLAPS

\* What a bucket would hold at some time if it never expired.
LevelAt(bucket, clock) ==
    IF bucket = None
    THEN Full
    ELSE Min({Full, bucket.tokens + Max({0, clock - bucket.updated}) * Refill})

Level(m) == LevelAt(buckets[m], Clock)

\* A hash outlives the time in which it fills; no bucket is ahead of a clock
\* that matters.
BucketsInv ==
    \A m \in Merchants :
      buckets[m] # None =>
        /\ buckets[m].expires = buckets[m].updated + Expire * TicksPerSecond
        /\ setBack = 0 \/ due[m] # None => buckets[m].updated <= Clock

\* The parts spent, and those that came back, since a token was spent.
SpentSince(m, i) == (Len(spent[m]) - i + 1) * Unit
BackSince(m, i) == (now - spent[m][i]) * Refill

\* From each token spent until now, what was spent and what is left do not
\* exceed the capacity and what came back.
SpentInv ==
    \A m \in Merchants : \A i \in DOMAIN spent[m] :
      SpentSince(m, i) + Level(m) <= Full + BackSince(m, i)

\* A merchant told to come back has a token, or will have one by then.
DueInv ==
    \A m \in Merchants :
      due[m] # None =>
        /\ buckets[m] # None
        /\ \/ Level(m) >= Unit
           \/ now < due[m] /\ Level(m) + (due[m] - now) * Refill >= Unit

\* A bucket is full, or all that some stretch allows was spent or is left.
Accounted(m) ==
    \/ Level(m) = Full
    \/ \E i \in DOMAIN spent[m] : SpentSince(m, i) + Level(m) >= Full + BackSince(m, i)

RateInv ==
    /\ TypeOK
    /\ BucketsInv
    /\ SpentInv
    /\ BurstsBounded
    /\ DueInv
    /\ setBack = 0 => \A m \in Merchants : Accounted(m)

-----------------------------------------------------------------------------
(* Arithmetic. *)

\* The smaller of two numbers.
LEMMA MinOf ==
  ASSUME NEW a \in Int, NEW b \in Int
  PROVE  Min({a, b}) = IF a <= b THEN a ELSE b
<1> DEFINE c == IF a <= b THEN a ELSE b
<1>1. c \in {a, b} /\ \A y \in {a, b} : c <= y
  OBVIOUS
<1>2. \A x \in {a, b} : (\A y \in {a, b} : x <= y) => x = c
  OBVIOUS
<1> QED
  BY <1>1, <1>2 DEF Min

\* The larger of two numbers.
LEMMA MaxOf ==
  ASSUME NEW a \in Int, NEW b \in Int
  PROVE  Max({a, b}) = IF a >= b THEN a ELSE b
<1> DEFINE c == IF a >= b THEN a ELSE b
<1>1. c \in {a, b} /\ \A y \in {a, b} : c >= y
  OBVIOUS
<1>2. \A x \in {a, b} : (\A y \in {a, b} : x >= y) => x = c
  OBVIOUS
<1> QED
  BY <1>1, <1>2 DEF Max

\* A quotient rounded up covers the dividend.
LEMMA CeilDivCovers ==
  ASSUME NEW a \in Nat, NEW b \in Nat \ {0}
  PROVE  CeilDiv(a, b) \in Nat /\ CeilDiv(a, b) * b >= a
<1> DEFINE n == a + b - 1
           q == n \div b
<1>1. n \in Nat
  OBVIOUS
<1>2. q \in Nat
  BY <1>1
<1>3. n = b * q + (n % b) /\ n % b \in 0 .. b - 1
  BY <1>1
<1>4. q * b >= a
  BY <1>1, <1>2, <1>3
<1> QED
  BY <1>2, <1>4 DEF CeilDiv

\* Facts on products that the provers need said.
LEMMA Products ==
  ASSUME NEW a \in Int, NEW b \in Int, NEW c \in Int
  PROVE  /\ a * b \in Int
         /\ (a + 1) * b = a * b + b
         /\ (a - 1) * b = a * b - b
         /\ 0 * b = 0
         /\ 1 * b = b
         /\ (a * b) * c = a * (b * c)
         /\ a * b = b * a
OBVIOUS

\* A product grows with its factor.
LEMMA ProductGrows ==
  ASSUME NEW a \in Nat, NEW b \in Nat, NEW c \in Nat, a <= b
  PROVE  a * c <= b * c /\ a * c \in Nat /\ b * c \in Nat
OBVIOUS

\* The parameters, as numbers.
LEMMA Constants ==
  /\ Full \in Nat /\ Full >= Unit
  /\ Unit \in Nat /\ Unit > 0
  /\ Refill \in Nat /\ Refill > 0
  /\ TicksPerSecond \in Nat /\ TicksPerSecond > 0
  /\ Refill * TicksPerSecond \in Nat \ {0}
  /\ MaxTime \in Nat /\ MaxSetBack \in Nat /\ MaxRequests \in Nat
<1>1. /\ Capacity \in Nat \ {0}
      /\ Unit \in Nat \ {0}
      /\ Refill \in Nat \ {0}
      /\ TicksPerSecond \in Nat \ {0}
  BY BucketAssumption
<1>2. 1 * Unit <= Full /\ Full \in Nat
  BY <1>1, ProductGrows DEF Full
<1>3. 1 * TicksPerSecond <= Refill * TicksPerSecond /\ Refill * TicksPerSecond \in Nat
  BY <1>1, ProductGrows
<1> QED
  BY <1>1, <1>2, <1>3, BucketAssumption

\* An expired hash would be full.
LEMMA ExpireFills ==
  /\ Expire \in Nat
  /\ Expire * TicksPerSecond \in Nat
  /\ (Expire * TicksPerSecond) * Refill >= Full
<1>1. 2 * Full \in Nat
  BY Constants
<1>2. Expire \in Nat /\ Expire * (Refill * TicksPerSecond) >= 2 * Full
  BY <1>1, Constants, CeilDivCovers DEF Expire
<1>3. Expire * TicksPerSecond \in Nat
  BY <1>2, Constants, ProductGrows
<1>4. Expire * (Refill * TicksPerSecond) = (Expire * TicksPerSecond) * Refill
  BY <1>2, Constants, Products
<1> QED
  BY <1>2, <1>3, <1>4, Constants

\* Retry-After is long enough for a token.
LEMMA RetryAfterFills ==
  ASSUME NEW tokens \in Nat, tokens < Unit
  PROVE  /\ RetryAfter(tokens) * TicksPerSecond \in Nat \ {0}
         /\ tokens + (RetryAfter(tokens) * TicksPerSecond) * Refill >= Unit
<1> DEFINE c == CeilDiv(Unit - tokens, Refill * TicksPerSecond)
           r == RetryAfter(tokens)
<1>1. Unit - tokens \in Nat
  BY Constants
<1>2. c \in Nat /\ c * (Refill * TicksPerSecond) >= Unit - tokens
  BY <1>1, Constants, CeilDivCovers
<1>3. r \in Nat /\ r >= 1 /\ r >= c
  BY <1>2, MaxOf DEF RetryAfter
<1>4. c * (Refill * TicksPerSecond) <= r * (Refill * TicksPerSecond)
  BY <1>2, <1>3, Constants, ProductGrows
<1>5. r * (Refill * TicksPerSecond) = (r * TicksPerSecond) * Refill
  BY <1>3, Constants, Products
<1>6. 1 * TicksPerSecond <= r * TicksPerSecond /\ r * TicksPerSecond \in Nat
  BY <1>3, Constants, ProductGrows
<1>7. (r * TicksPerSecond) * Refill \in Nat
  BY <1>6, Constants, ProductGrows
<1>8. r * (Refill * TicksPerSecond) \in Nat /\ c * (Refill * TicksPerSecond) \in Nat
  BY <1>2, <1>3, Constants, ProductGrows
<1>9. (r * TicksPerSecond) * Refill >= Unit - tokens
  BY <1>1, <1>2, <1>4, <1>5, <1>7, <1>8
<1> HIDE DEF c, r
<1> QED
  BY <1>6, <1>7, <1>9, Constants DEF r
-----------------------------------------------------------------------------
(* How levels change. *)

Parts(bucket, clock) ==
    bucket.tokens
      + (IF clock >= bucket.updated THEN (clock - bucket.updated) * Refill ELSE 0)

\* A stored bucket holds at most the capacity.
LEMMA BucketIsSome ==
  ASSUME NEW bucket \in Bucket
  PROVE  bucket # None /\ bucket.tokens \in Nat /\ bucket.updated \in Int /\ bucket.tokens <= Full
<1>1. bucket \in [tokens : Int, updated : Int, expires : Int]
  BY Constants DEF Bucket
<1> QED
  BY <1>1, Constants, BucketAssumption DEF Bucket

\* The level of a stored bucket is what it holds and what it was refilled, capped.
LEMMA LevelOf ==
  ASSUME NEW bucket \in Bucket, NEW clock \in Int
  PROVE  /\ Parts(bucket, clock) \in Nat
         /\ LevelAt(bucket, clock)
              = IF Full <= Parts(bucket, clock) THEN Full ELSE Parts(bucket, clock)
<1> DEFINE t == bucket.tokens
           e == clock - bucket.updated
           passed == IF clock >= bucket.updated THEN e ELSE 0
<1>1. bucket # None /\ t \in Nat /\ bucket.updated \in Int
  BY BucketIsSome
<1>2. e \in Int
  BY <1>1
<1>3. Max({0, e}) = passed /\ passed \in Nat
  BY <1>1, <1>2, MaxOf
<1>4. passed * Refill \in Nat
  BY <1>3, Constants, ProductGrows
<1>5. passed * Refill = IF clock >= bucket.updated THEN e * Refill ELSE 0
  BY Constants, Products
<1>6. LevelAt(bucket, clock) = Min({Full, t + passed * Refill})
  BY <1>1, <1>3 DEF LevelAt
<1>7. LevelAt(bucket, clock)
        = IF Full <= t + passed * Refill THEN Full ELSE t + passed * Refill
  BY <1>1, <1>4, <1>6, Constants, MinOf
<1>8. Parts(bucket, clock) = t + passed * Refill
  BY <1>5 DEF Parts
<1> HIDE DEF passed
<1> QED
  BY <1>1, <1>4, <1>7, <1>8

\* A level is between nothing and the capacity.
LEMMA LevelAtTyped ==
  ASSUME NEW bucket \in {None} \cup Bucket, NEW clock \in Int
  PROVE  LevelAt(bucket, clock) \in Nat /\ LevelAt(bucket, clock) <= Full
<1>1. CASE bucket = None
  BY <1>1, Constants DEF LevelAt
<1>2. CASE bucket \in Bucket
  BY <1>2, LevelOf, Constants
<1> QED
  BY <1>1, <1>2

\* A tick adds Refill parts, unless the bucket is full or ahead of the clock.
LEMMA LevelAtNext ==
  ASSUME NEW bucket \in {None} \cup Bucket, NEW clock \in Int
  PROVE  /\ LevelAt(bucket, clock) <= LevelAt(bucket, clock + 1)
         /\ LevelAt(bucket, clock + 1) <= LevelAt(bucket, clock) + Refill
         /\ \/ bucket # None /\ clock < bucket.updated
            \/ LevelAt(bucket, clock + 1) = Full
            \/ LevelAt(bucket, clock + 1) = LevelAt(bucket, clock) + Refill
<1>1. CASE bucket = None
  <2>1. LevelAt(bucket, clock) = Full /\ LevelAt(bucket, clock + 1) = Full
    BY <1>1 DEF LevelAt
  <2> QED
    BY <2>1, Constants
<1>2. CASE bucket \in Bucket
  <2> DEFINE t == bucket.tokens
             u == bucket.updated
             p == Parts(bucket, clock)
             q == Parts(bucket, clock + 1)
  <2>1. bucket # None /\ u \in Int /\ t \in Nat
    BY <1>2, BucketIsSome
  <2>2. p \in Nat /\ LevelAt(bucket, clock) = IF Full <= p THEN Full ELSE p
    BY <1>2, LevelOf
  <2>3. q \in Nat /\ LevelAt(bucket, clock + 1) = IF Full <= q THEN Full ELSE q
    BY <1>2, LevelOf
  <2>4. CASE clock >= u
    <3>1. clock - u \in Int /\ clock + 1 - u = (clock - u) + 1 /\ clock + 1 >= u
      BY <2>1, <2>4
    <3>2. ((clock - u) + 1) * Refill = (clock - u) * Refill + Refill
      BY <3>1, Constants, Products
    <3>3. (clock - u) * Refill \in Int
      BY <3>1, Constants, Products
    <3>4. p = t + (clock - u) * Refill
      BY <2>4 DEF Parts
    <3>5. q = t + (clock + 1 - u) * Refill
      <4>1. clock + 1 >= bucket.updated
        BY <3>1
      <4> QED
        BY <2>1, <4>1, Constants DEF Parts
    <3>6. q = p + Refill
      BY <2>1, <3>1, <3>2, <3>3, <3>4, <3>5, Constants
    <3> HIDE DEF p, q
    <3>7. CASE Full <= p
      BY <2>2, <2>3, <3>6, <3>7, Constants
    <3>8. CASE p < Full
      BY <2>2, <2>3, <3>6, <3>8, Constants
    <3> QED
      BY <2>2, <3>7, <3>8, Constants
  <2>5. CASE clock < u
    <3>1. p = t
      BY <2>1, <2>5 DEF Parts
    <3>2. clock + 1 >= u => clock + 1 - u = 0
      BY <2>1, <2>5
    <3>3. q = t
      BY <2>1, <2>5, <3>2, Constants, Products DEF Parts
    <3> QED
      BY <2>1, <2>2, <2>3, <2>5, <3>1, <3>3, Constants
  <2> QED
    BY <2>1, <2>4, <2>5
<1> QED
  BY <1>1, <1>2

\* The state of a merchant, typed.
LEMMA TypedState ==
  ASSUME TypeOK, NEW m \in Merchants
  PROVE  /\ Clock \in Int
         /\ now \in Nat
         /\ buckets[m] \in {None} \cup Bucket
         /\ Level(m) \in Nat
         /\ Level(m) <= Full
         /\ spent[m] \in Seq(0 .. MaxTime)
         /\ Len(spent[m]) \in Nat
         /\ DOMAIN spent[m] = 1 .. Len(spent[m])
         /\ \A i \in DOMAIN spent[m] : spent[m][i] \in Nat
         /\ due[m] # None => due[m] \in Nat
<1>1. Clock \in Int /\ now \in Nat
  BY Constants DEF TypeOK, Clock
<1>2. buckets[m] \in {None} \cup Bucket
  BY DEF TypeOK
<1>3. Level(m) \in Nat /\ Level(m) <= Full
  BY <1>1, <1>2, LevelAtTyped DEF Level
<1>4. spent[m] \in Seq(0 .. MaxTime)
  BY DEF TypeOK
<1>5. Len(spent[m]) \in Nat /\ DOMAIN spent[m] = 1 .. Len(spent[m])
  BY <1>4
<1>6. \A i \in DOMAIN spent[m] : spent[m][i] \in Nat
  <2> DEFINE Times == 0 .. MaxTime
  <2>1. spent[m] \in Seq(Times)
    BY <1>4
  <2>2. Times \subseteq Nat
    BY Constants
  <2> HIDE DEF Times
  <2>3. \A i \in DOMAIN spent[m] : spent[m][i] \in Times
    BY <2>1
  <2> QED
    BY <2>2, <2>3
<1>7. due[m] # None => due[m] \in Nat
  BY DEF TypeOK
<1> QED
  BY <1>1, <1>2, <1>3, <1>4, <1>5, <1>6, <1>7

\* An expired bucket is read as full, which is what it would be.
LEMMA RefilledIsLevel ==
  ASSUME TypeOK, BucketsInv, NEW m \in Merchants
  PROVE  Refilled(m) = Level(m)
<1>1. CASE HasBucket(m) \/ buckets[m] = None
  BY <1>1 DEF Refilled, Level, LevelAt, HasBucket
<1>2. CASE ~HasBucket(m) /\ buckets[m] # None
  <2> DEFINE u == buckets[m].updated
             ttl == Expire * TicksPerSecond
  <2>1. buckets[m] \in Bucket /\ Clock \in Int
    BY <1>2, TypedState
  <2>2. u \in Int /\ buckets[m].expires \in Int /\ buckets[m].tokens \in Nat
    BY <2>1, BucketIsSome DEF Bucket
  <2>3. ttl \in Nat /\ ttl * Refill >= Full
    BY ExpireFills
  <2>4. Clock >= u + ttl
    BY <1>2, <2>1, <2>2 DEF HasBucket, BucketsInv
  <2> HIDE DEF ttl
  <2>5. ttl <= Clock - u /\ Clock - u \in Nat
    BY <2>1, <2>2, <2>3, <2>4
  <2>6. /\ ttl * Refill <= (Clock - u) * Refill
        /\ (Clock - u) * Refill \in Nat
        /\ ttl * Refill \in Nat
    BY <2>3, <2>5, Constants, ProductGrows
  <2>7. Clock >= u
    BY <2>1, <2>2, <2>5
  <2>8. Parts(buckets[m], Clock) = buckets[m].tokens + (Clock - u) * Refill
    BY <2>7 DEF Parts
  <2>9. Parts(buckets[m], Clock) >= Full
    BY <2>2, <2>3, <2>6, <2>8, Constants
  <2>10. Level(m) = Full
    BY <2>1, <2>9, LevelOf, Constants DEF Level
  <2> QED
    BY <1>2, <2>10 DEF Refilled
<1> QED
  BY <1>1, <1>2

-----------------------------------------------------------------------------
(* The steps. *)

\* What was spent and what came back, as numbers.
LEMMA SinceTyped ==
  ASSUME TypeOK, NEW m \in Merchants, NEW i \in DOMAIN spent[m]
  PROVE  SpentSince(m, i) \in Int /\ BackSince(m, i) \in Int
<1>1. i \in Int /\ Len(spent[m]) \in Int /\ spent[m][i] \in Int /\ now \in Int
  BY TypedState
<1>2. Len(spent[m]) - i + 1 \in Int /\ now - spent[m][i] \in Int
  BY <1>1
<1> QED
  BY <1>2, Constants, Products DEF SpentSince, BackSince

\* Time passes and leaves the buckets alone.
LEMMA TickTyped ==
  ASSUME RateInv, Tick
  PROVE  TypeOK' /\ BucketsInv'
<1>1. now' \in 0 .. MaxTime /\ Clock' = Clock + 1 /\ Clock \in Int
  BY Constants DEF RateInv, TypeOK, Tick, Clock
<1>2. TypeOK'
  BY <1>1 DEF RateInv, TypeOK, Tick, Bucket, Full
<1>3. ASSUME NEW m \in Merchants, buckets[m] # None PROVE buckets[m].updated \in Int
  BY <1>3, BucketIsSome DEF RateInv, TypeOK
<1> QED
  BY <1>1, <1>2, <1>3 DEF RateInv, BucketsInv, Tick, Expire

\* With a tick a bucket gets back at most what the window allows.
LEMMA TickKeeps ==
  ASSUME RateInv, Tick
  PROVE  RateInv'
<1>1. TypeOK /\ BucketsInv /\ TypeOK' /\ BucketsInv'
  BY TickTyped DEF RateInv
<1>2. /\ now' = now + 1
      /\ Clock' = Clock + 1
      /\ UNCHANGED <<setBack, buckets, spent, due>>
  BY <1>1, Constants DEF Tick, Clock, TypeOK
<1>3. ASSUME NEW m \in Merchants
      PROVE  /\ Level(m) <= Level(m)'
             /\ Level(m)' <= Level(m) + Refill
             /\ \/ buckets[m] # None /\ Clock < buckets[m].updated
                \/ Level(m)' = Full
                \/ Level(m)' = Level(m) + Refill
  <2>1. Level(m)' = LevelAt(buckets[m], Clock + 1)
    BY <1>2 DEF Level, LevelAt
  <2> QED
    BY <1>1, <2>1, TypedState, LevelAtNext DEF Level
<1>4. ASSUME NEW m \in Merchants PROVE Level(m)' \in Nat /\ Level(m)' <= Full
  <2>1. Level(m)' = LevelAt(buckets[m], Clock + 1)
    BY <1>2 DEF Level, LevelAt
  <2>2. Clock + 1 \in Int /\ buckets[m] \in {None} \cup Bucket
    BY <1>1, TypedState
  <2> QED
    BY <2>1, <2>2, LevelAtTyped
<1>5. ASSUME NEW m \in Merchants, NEW i \in DOMAIN spent[m]
      PROVE  SpentSince(m, i)' = SpentSince(m, i) /\ BackSince(m, i)' = BackSince(m, i) + Refill
  <2>1. now - spent[m][i] \in Int /\ (now + 1) - spent[m][i] = (now - spent[m][i]) + 1
    <3>1. now \in Nat /\ spent[m][i] \in Nat
      BY <1>1, TypedState
    <3> QED
      BY <3>1
  <2>2. ((now - spent[m][i]) + 1) * Refill = (now - spent[m][i]) * Refill + Refill
    BY <2>1, Constants, Products
  <2> QED
    BY <1>2, <2>1, <2>2 DEF SpentSince, BackSince
<1>6. SpentInv'
  <2> SUFFICES ASSUME NEW m \in Merchants, NEW i \in DOMAIN spent[m]
               PROVE  SpentSince(m, i)' + Level(m)' <= Full + BackSince(m, i)'
    BY <1>2 DEF SpentInv, Full
  <2>1. SpentSince(m, i) + Level(m) <= Full + BackSince(m, i)
    BY DEF RateInv, SpentInv
  <2>2. SpentSince(m, i) \in Int /\ BackSince(m, i) \in Int
    BY <1>1, SinceTyped
  <2>3. Level(m) \in Nat
    BY <1>1, TypedState
  <2> QED
    BY <1>3, <1>4, <1>5, <2>1, <2>2, <2>3, Constants
<1>7. BurstsBounded'
  BY <1>2 DEF RateInv, BurstsBounded, Full
<1>8. DueInv'
  <2> SUFFICES ASSUME NEW m \in Merchants, due[m] # None
               PROVE  /\ buckets[m] # None
                      /\ \/ Level(m)' >= Unit
                         \/ now + 1 < due[m] /\ Level(m)' + (due[m] - (now + 1)) * Refill >= Unit
    BY <1>2 DEF DueInv
  <2>1. /\ buckets[m] # None
        /\ \/ Level(m) >= Unit
           \/ now < due[m] /\ Level(m) + (due[m] - now) * Refill >= Unit
    BY DEF RateInv, DueInv
  <2>2. Level(m) \in Nat /\ due[m] \in Nat /\ now \in Nat /\ Clock \in Int
    BY <1>1, TypedState
  <2>3. buckets[m].updated \in Int /\ buckets[m].updated <= Clock
    BY <1>1, <2>1, BucketIsSome, TypedState DEF BucketsInv
  <2>4. Level(m)' = Full \/ Level(m)' = Level(m) + Refill
    BY <1>3, <2>2, <2>3
  <2>5. CASE Level(m) >= Unit
    BY <1>3, <1>4, <2>1, <2>2, <2>5, Constants
  <2>6. CASE Level(m)' = Full
    BY <2>1, <2>6, Constants
  <2>7. CASE Level(m)' = Level(m) + Refill /\ ~(Level(m) >= Unit)
    <3>1. now < due[m] /\ Level(m) + (due[m] - now) * Refill >= Unit
      BY <2>1, <2>7
    <3>2. due[m] - now \in Int /\ due[m] - (now + 1) = (due[m] - now) - 1
      BY <2>2
    <3>3. ((due[m] - now) - 1) * Refill = (due[m] - now) * Refill - Refill
          /\ (due[m] - now) * Refill \in Int
      BY <3>2, Constants, Products
    <3>4. Level(m)' + (due[m] - (now + 1)) * Refill >= Unit
      BY <2>2, <2>7, <3>1, <3>2, <3>3, Constants
    <3>5. CASE now + 1 < due[m]
      BY <2>1, <3>4, <3>5
    <3>6. CASE due[m] - (now + 1) = 0
      <4>1. 0 * Refill = 0
        BY Constants, Products
      <4> QED
        BY <1>4, <2>1, <3>4, <3>6, <4>1, Constants
    <3> QED
      BY <2>2, <3>1, <3>5, <3>6
  <2> QED
    BY <2>4, <2>5, <2>6, <2>7
<1>9. ASSUME setBack' = 0, NEW m \in Merchants PROVE Accounted(m)'
  <2>1. setBack = 0 /\ Accounted(m)
    BY <1>2, <1>9 DEF RateInv
  <2>2. Level(m) \in Nat /\ Clock \in Int
    BY <1>1, TypedState
  <2>3. Level(m)' = Full \/ Level(m)' = Level(m) + Refill
    <3>1. buckets[m] # None => buckets[m].updated \in Int /\ buckets[m].updated <= Clock
      BY <1>1, <2>1, BucketIsSome, TypedState DEF BucketsInv
    <3> QED
      BY <1>3, <2>2, <3>1
  <2>4. CASE Level(m)' = Full
    BY <2>4 DEF Accounted, Full
  <2>5. CASE Level(m)' = Level(m) + Refill /\ Level(m)' # Full
    <3>1. Level(m) # Full
      BY <1>4, <2>5, Constants
    <3>2. PICK i \in DOMAIN spent[m] : SpentSince(m, i) + Level(m) >= Full + BackSince(m, i)
      BY <2>1, <3>1 DEF Accounted
    <3>3. SpentSince(m, i) \in Int /\ BackSince(m, i) \in Int
      BY <1>1, SinceTyped
    <3>4. SpentSince(m, i)' + Level(m)' >= Full + BackSince(m, i)'
      BY <1>5, <2>2, <2>5, <3>2, <3>3, Constants
    <3> QED
      BY <1>2, <3>4 DEF Accounted, Full
  <2> QED
    BY <2>3, <2>4, <2>5
<1> QED
  BY <1>1, <1>6, <1>7, <1>8, <1>9 DEF RateInv

\* A clock set back takes levels back; only full buckets are removed.
LEMMA ClockSetBackKeeps ==
  ASSUME RateInv, ClockSetBack
  PROVE  RateInv'
<1>1. TypeOK /\ BucketsInv
  BY DEF RateInv
<1>2. /\ setBack' = setBack + 1
      /\ setBack \in Nat
      /\ Clock' = Clock - 1
      /\ due' = [m \in Merchants |-> None]
      /\ UNCHANGED <<backend, now, requests, spent>>
  BY <1>1, Constants DEF ClockSetBack, Clock, TypeOK
<1>3. PICK removed \in SUBSET {m \in Merchants : ~HasBucket(m)} :
        buckets' = [m \in Merchants |-> IF m \in removed THEN None ELSE buckets[m]]
  BY DEF ClockSetBack
<1>4. TypeOK'
  <2>1. buckets' \in [Merchants -> {None} \cup Bucket]
    BY <1>1, <1>3 DEF TypeOK
  <2>2. setBack' \in 0 .. MaxSetBack
    BY <1>1, Constants DEF ClockSetBack, TypeOK
  <2>3. due' \in [Merchants -> Nat \cup {None}]
    BY <1>2
  <2> QED
    BY <1>1, <1>2, <2>1, <2>2, <2>3 DEF TypeOK, Bucket, Full
<1>5. BucketsInv'
  <2> SUFFICES ASSUME NEW m \in Merchants, buckets'[m] # None
               PROVE  buckets'[m].expires = buckets'[m].updated + Expire * TicksPerSecond
    BY <1>2 DEF BucketsInv, Expire, CeilDiv, Full
  <2>1. buckets'[m] = buckets[m] /\ buckets[m] # None
    BY <1>3
  <2> QED
    BY <1>1, <2>1 DEF BucketsInv
<1>6. ASSUME NEW m \in Merchants
      PROVE  Level(m)' \in Nat /\ Level(m)' <= Level(m)
  <2>1. Clock \in Int /\ buckets[m] \in {None} \cup Bucket /\ Level(m) \in Nat
    BY <1>1, TypedState
  <2>2. CASE m \in removed
    <3>1. buckets'[m] = None
      BY <1>3, <2>2
    <3>2. Level(m)' = Full
      BY <3>1 DEF Level, LevelAt, Full
    <3>3. Level(m) = Full
      BY <1>1, <2>2, RefilledIsLevel DEF Refilled
    <3> QED
      BY <3>2, <3>3, Constants
  <2>3. CASE m \notin removed
    <3>1. buckets'[m] = buckets[m]
      BY <1>3, <2>3
    <3>2. Level(m)' = LevelAt(buckets[m], Clock - 1)
      BY <1>2, <3>1 DEF Level, LevelAt
    <3>3. Clock - 1 \in Int /\ (Clock - 1) + 1 = Clock
      BY <2>1
    <3>4. LevelAt(buckets[m], Clock - 1) <= LevelAt(buckets[m], (Clock - 1) + 1)
      BY <2>1, <3>3, LevelAtNext
    <3>5. LevelAt(buckets[m], Clock - 1) \in Nat
      BY <2>1, <3>3, LevelAtTyped
    <3> QED
      BY <3>2, <3>3, <3>4, <3>5 DEF Level
  <2> QED
    BY <2>2, <2>3
<1>7. SpentInv'
  <2> SUFFICES ASSUME NEW m \in Merchants, NEW i \in DOMAIN spent[m]
               PROVE  SpentSince(m, i) + Level(m)' <= Full + BackSince(m, i)
    BY <1>2 DEF SpentInv, SpentSince, BackSince, Full
  <2>1. SpentSince(m, i) + Level(m) <= Full + BackSince(m, i)
    BY DEF RateInv, SpentInv
  <2>2. SpentSince(m, i) \in Int /\ BackSince(m, i) \in Int /\ Level(m) \in Nat
    BY <1>1, SinceTyped, TypedState
  <2> QED
    BY <1>6, <2>1, <2>2, Constants
<1>8. BurstsBounded'
  BY <1>2 DEF RateInv, BurstsBounded, Full
<1>9. DueInv'
  BY <1>2 DEF DueInv
<1>10. setBack' # 0
  BY <1>2
<1> QED
  BY <1>4, <1>5, <1>7, <1>8, <1>9, <1>10 DEF RateInv

\* consume writes down what there is, less the token it takes.
LEMMA ConsumeLevels ==
  ASSUME RateInv, NEW m \in Merchants, Consume(m), UNCHANGED <<now, setBack>>
  PROVE  /\ buckets' \in [Merchants -> {None} \cup Bucket]
         /\ buckets'[m] # None
         /\ buckets'[m].updated = Clock
         /\ buckets'[m].expires = buckets'[m].updated + Expire * TicksPerSecond
         /\ Allowed(m) <=> Level(m) >= Unit
         /\ Level(m)' = IF Allowed(m) THEN Level(m) - Unit ELSE Level(m)
         /\ \A u \in Merchants \ {m} : buckets'[u] = buckets[u] /\ Level(u)' = Level(u)
<1> DEFINE left == IF Allowed(m) THEN Level(m) - Unit ELSE Level(m)
           bucket == [tokens |-> left, updated |-> Clock,
                      expires |-> Clock + Expire * TicksPerSecond]
<1>1. TypeOK /\ BucketsInv
  BY DEF RateInv
<1>2. Refilled(m) = Level(m) /\ (Allowed(m) <=> Level(m) >= Unit)
  BY <1>1, RefilledIsLevel DEF Allowed
<1>3. Level(m) \in Nat /\ Level(m) <= Full /\ Clock \in Int /\ Clock' = Clock
  BY <1>1, TypedState DEF Clock
<1>4. left \in 0 .. Full
  BY <1>2, <1>3, Constants
<1>5. buckets' = [buckets EXCEPT ![m] = bucket]
  BY <1>2 DEF Consume
<1> HIDE DEF left
<1>6. Clock + Expire * TicksPerSecond \in Int
  BY <1>3, ExpireFills
<1>7. bucket \in Bucket
  BY <1>3, <1>4, <1>6 DEF Bucket
<1>8. buckets'[m] = bucket /\ \A u \in Merchants \ {m} : buckets'[u] = buckets[u]
  BY <1>1, <1>5 DEF TypeOK
<1>9. buckets' \in [Merchants -> {None} \cup Bucket]
  BY <1>1, <1>5, <1>7 DEF TypeOK
<1>10. bucket # None /\ bucket.updated = Clock /\ bucket.tokens = left
       /\ bucket.expires = Clock + Expire * TicksPerSecond
  BY <1>7, BucketIsSome
<1>11. Level(m)' = left
  <2>1. Level(m)' = LevelAt(bucket, Clock)
    BY <1>3, <1>8 DEF Level, LevelAt
  <2>2. Clock - Clock = 0 /\ 0 * Refill = 0
    BY <1>3, Constants, Products
  <2>3. Parts(bucket, Clock) = left
    BY <1>3, <1>4, <1>10, <2>2, Constants DEF Parts
  <2>4. LevelAt(bucket, Clock) = IF Full <= left THEN Full ELSE left
    BY <1>3, <1>7, <2>3, LevelOf
  <2> QED
    BY <1>4, <2>1, <2>4, Constants
<1>12. \A u \in Merchants \ {m} : Level(u)' = Level(u)
  BY <1>3, <1>8 DEF Level, LevelAt
<1> QED
  BY <1>2, <1>8, <1>9, <1>10, <1>11, <1>12 DEF left

\* consume stores a bucket that expires when it would be full.
LEMMA ConsumeBuckets ==
  ASSUME RateInv, NEW m \in Merchants, Consume(m), UNCHANGED <<now, setBack>>,
         \A u \in Merchants \ {m} : due'[u] = due[u]
  PROVE  BucketsInv'
<1> SUFFICES ASSUME NEW u \in Merchants, buckets'[u] # None
             PROVE  /\ buckets'[u].expires = buckets'[u].updated + Expire * TicksPerSecond
                    /\ setBack = 0 \/ due'[u] # None => buckets'[u].updated <= Clock
  BY DEF BucketsInv, Clock, Expire, CeilDiv, Full
<1>1. Clock \in Int
  BY TypedState DEF RateInv
<1>2. CASE u = m
  BY <1>1, <1>2, ConsumeLevels
<1>3. CASE u # m
  BY <1>3, ConsumeLevels DEF RateInv, BucketsInv
<1> QED
  BY <1>2, <1>3

\* A request that is let through spends a token.
LEMMA SpendKeeps ==
  ASSUME RateInv, NEW m \in Merchants, Consume(m), Allowed(m),
         UNCHANGED <<backend, now, setBack>>, requests' \in 0 .. MaxRequests,
         spent' = [spent EXCEPT ![m] = Append(@, now)],
         due' = [due EXCEPT ![m] = None]
  PROVE  RateInv'
<1>1. TypeOK /\ BucketsInv
  BY DEF RateInv
<1>0. PICK n \in Nat : n = Len(spent[m])
  BY <1>1, TypedState
<1>2. due' \in [Merchants -> Nat \cup {None}] /\ due'[m] = None
      /\ \A u \in Merchants \ {m} : due'[u] = due[u]
  BY <1>1 DEF TypeOK
<1>3. /\ spent[m] \in Seq(0 .. MaxTime)
      /\ n \in Nat
      /\ DOMAIN spent[m] = 1 .. n
      /\ now \in Nat
      /\ now \in 0 .. MaxTime
  BY <1>0, <1>1, TypedState DEF TypeOK
<1>4. /\ Append(spent[m], now) \in Seq(0 .. MaxTime)
      /\ spent'[m] = Append(spent[m], now)
      /\ \A u \in Merchants \ {m} : spent'[u] = spent[u]
  BY <1>1, <1>3 DEF TypeOK
<1>5. spent' \in [Merchants -> Seq(0 .. MaxTime)]
  BY <1>1, <1>4 DEF TypeOK
<1>6. /\ Len(spent'[m]) = n + 1
      /\ DOMAIN spent'[m] = 1 .. n + 1
      /\ spent'[m][n + 1] = now
      /\ \A i \in 1 .. n : spent'[m][i] = spent[m][i]
  BY <1>0, <1>3, <1>4
<1>7. /\ Level(m)' = Level(m) - Unit
      /\ Level(m) >= Unit
      /\ \A u \in Merchants \ {m} : Level(u)' = Level(u) /\ buckets'[u] = buckets[u]
  BY ConsumeLevels
<1>8. TypeOK'
  <2>1. buckets' \in [Merchants -> {None} \cup Bucket]
    BY ConsumeLevels
  <2> QED
    BY <1>1, <1>2, <1>5, <2>1 DEF TypeOK, Bucket, Full
<1>9. BucketsInv'
  BY <1>2, ConsumeBuckets
<1>10. ASSUME NEW i \in 1 .. n
       PROVE  SpentSince(m, i)' = SpentSince(m, i) + Unit /\ BackSince(m, i)' = BackSince(m, i)
  <2>1. n - i + 1 \in Int /\ (n + 1) - i + 1 = (n - i + 1) + 1
    BY <1>3
  <2>2. ((n - i + 1) + 1) * Unit = (n - i + 1) * Unit + Unit
    BY <2>1, Constants, Products
  <2>3. SpentSince(m, i)' = ((n + 1) - i + 1) * Unit
    BY <1>6 DEF SpentSince
  <2> QED
    BY <1>0, <1>6, <2>1, <2>2, <2>3 DEF SpentSince, BackSince
<1>11. SpentSince(m, n + 1)' = Unit /\ BackSince(m, n + 1)' = 0
  <2>1. (n + 1) - (n + 1) + 1 = 1 /\ now - now = 0
    BY <1>3
  <2>2. 1 * Unit = Unit /\ 0 * Refill = 0
    BY Constants, Products
  <2>3. SpentSince(m, n + 1)' = ((n + 1) - (n + 1) + 1) * Unit
    BY <1>6 DEF SpentSince
  <2>4. BackSince(m, n + 1)' = (now - now) * Refill
    BY <1>6 DEF BackSince
  <2> QED
    BY <2>1, <2>2, <2>3, <2>4
<1>12. ASSUME NEW i \in 1 .. n
       PROVE  SpentSince(m, i) \in Int /\ BackSince(m, i) \in Int /\ Level(m) \in Nat
  BY <1>1, <1>3, SinceTyped, TypedState
<1>13. ASSUME NEW i \in 1 .. n + 1
       PROVE  SpentSince(m, i)' + Level(m)' <= Full + BackSince(m, i)'
  <2>1. CASE i \in 1 .. n
    <3>1. SpentSince(m, i) + Level(m) <= Full + BackSince(m, i)
      BY <1>3, <2>1 DEF RateInv, SpentInv
    <3> QED
      BY <1>7, <1>10, <1>12, <2>1, <3>1, Constants
  <2>2. CASE i = n + 1
    <3>1. Level(m) \in Nat /\ Level(m) <= Full
      BY <1>1, TypedState
    <3>2. SpentSince(m, i)' = Unit /\ BackSince(m, i)' = 0
      BY <1>11, <2>2
    <3> QED
      BY <1>7, <3>1, <3>2, Constants
  <2> QED
    BY <1>3, <2>1, <2>2
<1>14. SpentInv'
  <2> SUFFICES ASSUME NEW u \in Merchants, NEW i \in DOMAIN spent'[u]
               PROVE  SpentSince(u, i)' + Level(u)' <= Full + BackSince(u, i)'
    BY DEF SpentInv, Full
  <2>1. CASE u = m
    BY <1>6, <1>13, <2>1
  <2>2. CASE u # m
    <3>1. SpentSince(u, i) + Level(u) <= Full + BackSince(u, i)
      BY <1>4, <2>2 DEF RateInv, SpentInv
    <3>2. SpentSince(u, i)' = SpentSince(u, i) /\ BackSince(u, i)' = BackSince(u, i)
      BY <1>4, <2>2 DEF SpentSince, BackSince
    <3> QED
      BY <1>7, <2>2, <3>1, <3>2
  <2> QED
    BY <2>1, <2>2
<1>15. BurstsBounded'
  <2> SUFFICES ASSUME NEW u \in Merchants, NEW i \in DOMAIN spent'[u], NEW j \in DOMAIN spent'[u],
                      i <= j
               PROVE  (j - i + 1) * Unit <= Full + (spent'[u][j] - spent'[u][i]) * Refill
    BY DEF BurstsBounded, Full
  <2>1. CASE u # m
    BY <1>4, <2>1 DEF RateInv, BurstsBounded
  <2>2. CASE u = m /\ j \in 1 .. n
    <3>1. i \in 1 .. n
      BY <1>3, <1>6, <2>2
    <3>2. (j - i + 1) * Unit <= Full + (spent[m][j] - spent[m][i]) * Refill
      BY <1>3, <2>2, <3>1 DEF RateInv, BurstsBounded
    <3> QED
      BY <1>6, <2>2, <3>1, <3>2
  <2>3. CASE u = m /\ j = n + 1
    <3>1. i \in 1 .. n + 1
      BY <1>6, <2>3
    <3>2. SpentSince(m, i)' + Level(m)' <= Full + BackSince(m, i)'
      BY <1>13, <3>1
    <3>3. /\ SpentSince(m, i)' = (j - i + 1) * Unit
          /\ BackSince(m, i)' = (spent'[m][j] - spent'[m][i]) * Refill
      BY <1>6, <2>3 DEF SpentSince, BackSince
    <3>4. SpentSince(m, i)' \in Int /\ BackSince(m, i)' \in Int
      <4>1. CASE i \in 1 .. n
        BY <1>10, <1>12, <4>1, Constants
      <4>2. CASE i = n + 1
        BY <1>11, <4>2, Constants
      <4> QED
        BY <1>3, <3>1, <4>1, <4>2
    <3>5. Level(m)' \in Nat
      <4>1. Level(m) \in Nat
        BY <1>1, TypedState
      <4> QED
        BY <1>7, <4>1, Constants
    <3>6. SpentSince(m, i)' <= Full + BackSince(m, i)'
      BY <3>2, <3>4, <3>5, Constants
    <3> QED
      BY <2>3, <3>3, <3>6
  <2>4. u = m => j \in 1 .. n \/ j = n + 1
    BY <1>3, <1>6
  <2> QED
    BY <2>1, <2>2, <2>3, <2>4
<1>16. DueInv'
  <2> SUFFICES ASSUME NEW u \in Merchants, due'[u] # None
               PROVE  /\ buckets'[u] # None
                      /\ \/ Level(u)' >= Unit
                         \/ now < due'[u] /\ Level(u)' + (due'[u] - now) * Refill >= Unit
    BY DEF DueInv
  <2>1. u # m
    BY <1>2
  <2> QED
    BY <1>2, <1>7, <2>1 DEF RateInv, DueInv
<1>17. ASSUME setBack' = 0, NEW u \in Merchants PROVE Accounted(u)'
  <2>1. Accounted(u)
    BY <1>17 DEF RateInv
  <2>2. CASE u # m
    <3>1. /\ spent'[u] = spent[u]
          /\ Level(u)' = Level(u)
      BY <1>4, <1>7, <2>2
    <3> QED
      BY <2>1, <3>1 DEF Accounted, SpentSince, BackSince, Full
  <2>3. CASE u = m /\ Level(m) = Full
    <3>1. SpentSince(m, n + 1)' + Level(m)' >= Full + BackSince(m, n + 1)'
      BY <1>7, <1>11, <2>3, Constants
    <3>2. n + 1 \in DOMAIN spent'[m]
      BY <1>3, <1>6
    <3> QED
      BY <2>3, <3>1, <3>2 DEF Accounted, Full
  <2>4. CASE u = m /\ Level(m) # Full
    <3>1. PICK i \in DOMAIN spent[m] : SpentSince(m, i) + Level(m) >= Full + BackSince(m, i)
      BY <2>1, <2>4 DEF Accounted
    <3>2. i \in 1 .. n /\ i \in DOMAIN spent'[m]
      BY <1>3, <1>6
    <3>3. /\ SpentSince(m, i)' = SpentSince(m, i) + Unit
          /\ BackSince(m, i)' = BackSince(m, i)
      BY <1>10, <3>2
    <3>4. SpentSince(m, i) \in Int /\ BackSince(m, i) \in Int /\ Level(m) \in Nat
      BY <1>12, <3>2
    <3>5. SpentSince(m, i)' + Level(m)' >= Full + BackSince(m, i)'
      BY <1>7, <3>1, <3>3, <3>4, Constants
    <3> QED
      BY <2>4, <3>2, <3>5 DEF Accounted, Full
  <2> QED
    BY <2>2, <2>3, <2>4
<1> QED
  BY <1>8, <1>9, <1>14, <1>15, <1>16, <1>17 DEF RateInv

\* A refused request, or one whose refusal was lost, costs nothing.
LEMMA RefuseKeeps ==
  ASSUME RateInv, NEW m \in Merchants, Consume(m), ~Allowed(m),
         UNCHANGED <<backend, now, setBack, spent>>, requests' \in 0 .. MaxRequests,
         due' \in [Merchants -> Nat \cup {None}],
         \A u \in Merchants \ {m} : due'[u] = due[u],
         \/ due'[m] \in {due[m], None}
         \/ now < due'[m] /\ Level(m) + (due'[m] - now) * Refill >= Unit
  PROVE  RateInv'
<1>1. TypeOK /\ BucketsInv
  BY DEF RateInv
<1>2. \A u \in Merchants : Level(u)' = Level(u)
  BY ConsumeLevels
<1>3. TypeOK'
  <2>1. buckets' \in [Merchants -> {None} \cup Bucket]
    BY ConsumeLevels
  <2> QED
    BY <1>1, <2>1 DEF TypeOK, Bucket, Full
<1>4. BucketsInv'
  BY ConsumeBuckets
<1>5. SpentInv'
  BY <1>2 DEF RateInv, SpentInv, SpentSince, BackSince, Full
<1>6. BurstsBounded'
  BY DEF RateInv, BurstsBounded, Full
<1>7. DueInv'
  <2> SUFFICES ASSUME NEW u \in Merchants, due'[u] # None
               PROVE  /\ buckets'[u] # None
                      /\ \/ Level(u)' >= Unit
                         \/ now < due'[u] /\ Level(u)' + (due'[u] - now) * Refill >= Unit
    BY DEF DueInv
  <2>1. CASE u = m
    BY <1>2, <2>1, ConsumeLevels DEF RateInv, DueInv
  <2>2. CASE u # m
    BY <1>2, <2>2, ConsumeLevels DEF RateInv, DueInv
  <2> QED
    BY <2>1, <2>2
<1>8. ASSUME setBack' = 0, NEW u \in Merchants PROVE Accounted(u)'
  <2>1. Accounted(u)
    BY <1>8 DEF RateInv
  <2> QED
    BY <1>2, <2>1 DEF Accounted, SpentSince, BackSince, Full
<1> QED
  BY <1>3, <1>4, <1>5, <1>6, <1>7, <1>8 DEF RateInv

\* A request that asks the limiter keeps the accounts.
LEMMA CreatePaymentKeeps ==
  ASSUME RateInv, NEW m \in Merchants, CreatePayment(m)
  PROVE  RateInv'
<1>1. TypeOK /\ BucketsInv
  BY DEF RateInv
<1>2. requests' \in 0 .. MaxRequests
  BY <1>1, Constants DEF CreatePayment, Arrives, TypeOK
<1>3. Consume(m) /\ UNCHANGED <<backend, now, setBack>>
  BY DEF CreatePayment
<1>4. CASE Allowed(m)
  BY <1>2, <1>3, <1>4, SpendKeeps DEF CreatePayment
<1>5. CASE ~Allowed(m)
  <2> DEFINE wait == RetryAfter(Level(m)) * TicksPerSecond
             again == now + wait
  <2>1. Level(m) \in Nat /\ now \in Nat /\ (due[m] # None => due[m] \in Nat)
    BY <1>1, TypedState
  <2>2. Refilled(m) = Level(m) /\ Level(m) < Unit
    BY <1>1, <1>5, <2>1, RefilledIsLevel, Constants DEF Allowed
  <2>3. wait \in Nat \ {0} /\ Level(m) + wait * Refill >= Unit
    BY <2>1, <2>2, RetryAfterFills
  <2>4. /\ spent' = spent
        /\ due' = [due EXCEPT ![m] = IF @ = None THEN again ELSE Min({@, again})]
    BY <1>5, <2>2 DEF CreatePayment
  <2> HIDE DEF wait
  <2>5. again \in Nat /\ now < again /\ again - now = wait
    BY <2>1, <2>3
  <2> HIDE DEF again
  <2>6. due[m] # None => Min({due[m], again}) \in {due[m], again}
    BY <2>1, <2>5, MinOf
  <2>7. due'[m] \in {due[m], again} /\ \A u \in Merchants \ {m} : due'[u] = due[u]
    BY <1>1, <2>4, <2>6 DEF TypeOK
  <2>8. due' \in [Merchants -> Nat \cup {None}]
    BY <1>1, <2>4, <2>5, <2>6 DEF TypeOK
  <2> QED
    BY <1>2, <1>3, <1>5, <2>3, <2>4, <2>5, <2>7, <2>8, RefuseKeeps
<1> QED
  BY <1>4, <1>5

\* A request that finds Redis away changes no account.
LEMMA ConsumeUnavailableKeeps ==
  ASSUME RateInv, NEW m \in Merchants, ConsumeUnavailable(m)
  PROVE  RateInv'
<1>1. TypeOK /\ BucketsInv
  BY DEF RateInv
<1>2. requests' \in 0 .. MaxRequests
  BY <1>1, Constants DEF ConsumeUnavailable, Arrives, TypeOK
<1>3. UNCHANGED <<backend, now, setBack>>
  BY DEF ConsumeUnavailable
<1>4. CASE UNCHANGED <<buckets, spent, due>>
  <2>1. TypeOK'
    BY <1>1, <1>2, <1>3, <1>4 DEF TypeOK, Bucket, Full
  <2>2. \A u \in Merchants : Level(u)' = Level(u)
    BY <1>3, <1>4 DEF Level, LevelAt, Clock, Full
  <2>3. BucketsInv'
    BY <1>1, <1>3, <1>4 DEF BucketsInv, Clock, Expire, CeilDiv, Full
  <2>4. SpentInv' /\ BurstsBounded' /\ DueInv'
    BY <1>3, <1>4, <2>2 DEF RateInv, SpentInv, BurstsBounded, DueInv, SpentSince, BackSince, Full
  <2>5. ASSUME setBack' = 0, NEW u \in Merchants PROVE Accounted(u)'
    BY <1>3, <1>4, <2>2, <2>5 DEF RateInv, Accounted, SpentSince, BackSince, Full
  <2> QED
    BY <2>1, <2>3, <2>4, <2>5 DEF RateInv
<1>5. CASE Consume(m) /\ Allowed(m) /\ spent' = [spent EXCEPT ![m] = Append(@, now)]
           /\ due' = [due EXCEPT ![m] = None]
  BY <1>2, <1>3, <1>5, SpendKeeps
<1>6. CASE Consume(m) /\ ~Allowed(m) /\ spent' = spent /\ due' = due
  BY <1>1, <1>2, <1>3, <1>6, RefuseKeeps DEF TypeOK
<1> QED
  BY <1>4, <1>5, <1>6 DEF ConsumeUnavailable

-----------------------------------------------------------------------------
(* The theorems. *)

\* Every bucket is full at first.
LEMMA RateInit == Init => RateInv
<1> SUFFICES ASSUME Init PROVE RateInv
  OBVIOUS
<1>1. <<>> \in Seq(0 .. MaxTime) /\ DOMAIN <<>> = {}
  OBVIOUS
<1>2. TypeOK
  BY <1>1, Constants DEF Init, TypeOK
<1>3. BucketsInv /\ DueInv
  BY DEF Init, BucketsInv, DueInv
<1>4. SpentInv /\ BurstsBounded
  BY <1>1 DEF Init, SpentInv, BurstsBounded
<1>5. \A m \in Merchants : Accounted(m)
  BY DEF Init, Accounted, Level, LevelAt
<1> QED
  BY <1>2, <1>3, <1>4, <1>5 DEF RateInv

\* Every step keeps the invariant.
LEMMA RateStep == RateInv /\ [Next]_vars => RateInv'
<1> SUFFICES ASSUME RateInv, [Next]_vars PROVE RateInv'
  OBVIOUS
<1>1. ASSUME NEW m \in Merchants, CreatePayment(m) \/ ConsumeUnavailable(m) PROVE RateInv'
  BY <1>1, CreatePaymentKeeps, ConsumeUnavailableKeeps
<1>2. CASE Tick
  BY <1>2, TickKeeps
<1>3. CASE ClockSetBack
  BY <1>3, ClockSetBackKeeps
<1>4. CASE UNCHANGED vars
  <2>1. TypeOK'
    BY <1>4 DEF vars, RateInv, TypeOK, Bucket, Full
  <2>2. \A u \in Merchants : Level(u)' = Level(u)
    BY <1>4 DEF vars, Level, LevelAt, Clock, Full
  <2>3. BucketsInv'
    BY <1>4 DEF vars, RateInv, BucketsInv, Clock, Expire, CeilDiv, Full
  <2>4. SpentInv' /\ BurstsBounded' /\ DueInv'
    BY <1>4, <2>2
       DEF vars, RateInv, SpentInv, BurstsBounded, DueInv, SpentSince, BackSince, Full
  <2>5. ASSUME setBack' = 0, NEW u \in Merchants PROVE Accounted(u)'
    BY <1>4, <2>2, <2>5 DEF vars, RateInv, Accounted, SpentSince, BackSince, Full
  <2> QED
    BY <2>1, <2>3, <2>4, <2>5 DEF RateInv
<1> QED
  BY <1>1, <1>2, <1>3, <1>4 DEF Next

\* The invariant holds throughout.
LEMMA RateInvariant == Spec => []RateInv
BY RateInit, RateStep, PTL DEF Spec

\* Buckets hold between nothing and the capacity, whatever the clock does.
THEOREM RateTypeCorrect == Spec => []TypeOK
<1>1. RateInv => TypeOK
  BY DEF RateInv
<1> QED
  BY <1>1, RateInvariant, PTL

\* No stretch of time sees more of a merchant's tokens spent than the capacity
\* and what came back in it, for every capacity, rate and sequence of requests
\* (consume).
THEOREM RateBurstsBounded == Spec => []BurstsBounded
<1>1. RateInv => BurstsBounded
  BY DEF RateInv
<1> QED
  BY <1>1, RateInvariant, PTL

\* retry_after_seconds is never too short (consume).
THEOREM RateRetryAfterKept == Spec => []RetryAfterKept
<1>1. ASSUME RateInv, NEW m \in Merchants, due[m] # None, now >= due[m] PROVE Allowed(m)
  <2>1. TypeOK /\ BucketsInv
    BY <1>1 DEF RateInv
  <2>2. Refilled(m) = Level(m) /\ due[m] \in Nat /\ now \in Nat
    BY <1>1, <2>1, RefilledIsLevel, TypedState
  <2>3. Level(m) >= Unit
    BY <1>1, <2>2 DEF RateInv, DueInv
  <2> QED
    BY <2>2, <2>3 DEF Allowed
<1>2. RateInv => RetryAfterKept
  BY <1>1 DEF RetryAfterKept
<1> QED
  BY <1>2, RateInvariant, PTL

\* A merchant is refused only when some stretch of time allows no more
\* (consume): the buckets of others, refused requests and the expiry of its
\* hash never cost it a token.
THEOREM RateRefusedOnlyWhenSpent == Spec => []RefusedOnlyWhenSpent
<1>1. ASSUME RateInv, NEW m \in Merchants, ~Allowed(m), setBack = 0
      PROVE  \E i \in DOMAIN spent[m] :
               (Len(spent[m]) - i + 2) * Unit > Full + (now - spent[m][i]) * Refill
  <2>1. TypeOK /\ BucketsInv /\ Accounted(m)
    BY <1>1 DEF RateInv
  <2>2. Refilled(m) = Level(m) /\ Level(m) \in Nat
    BY <2>1, RefilledIsLevel, TypedState
  <2>3. Level(m) < Unit
    BY <1>1, <2>2, Constants DEF Allowed
  <2>4. PICK i \in DOMAIN spent[m] : SpentSince(m, i) + Level(m) >= Full + BackSince(m, i)
    BY <2>1, <2>2, <2>3, Constants DEF Accounted
  <2>5. SpentSince(m, i) \in Int /\ BackSince(m, i) \in Int
    BY <2>1, SinceTyped
  <2>6. SpentSince(m, i) + Unit > Full + BackSince(m, i)
    BY <2>2, <2>3, <2>4, <2>5, Constants
  <2>7. i \in Int /\ Len(spent[m]) \in Int
    <3>1. DOMAIN spent[m] = 1 .. Len(spent[m]) /\ Len(spent[m]) \in Nat
      BY <2>1, TypedState
    <3> QED
      BY <3>1
  <2>8. Len(spent[m]) - i + 1 \in Int /\ Len(spent[m]) - i + 2 = (Len(spent[m]) - i + 1) + 1
    BY <2>7
  <2>9. ((Len(spent[m]) - i + 1) + 1) * Unit = SpentSince(m, i) + Unit
    BY <2>8, Constants, Products DEF SpentSince
  <2>10. (Len(spent[m]) - i + 2) * Unit > Full + BackSince(m, i)
    BY <2>6, <2>8, <2>9
  <2> QED
    BY <2>10 DEF BackSince
<1>2. RateInv => RefusedOnlyWhenSpent
  BY <1>1 DEF RefusedOnlyWhenSpent
<1> QED
  BY <1>2, RateInvariant, PTL

=============================================================================
