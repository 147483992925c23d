# PySwitch in TLA+

TLA+ models of PySwitch, a payment orchestration service: FastAPI handlers on
one asyncio event loop, a payment service that calls providers with retry,
failover and a circuit breaker per provider, an idempotency coordinator, a
payment store with an outbox, and a worker that publishes the outbox to a
broker. The models follow `src/pyswitch/`; PROJECT.json maps every definition
to the lines it stands for.

## Inventory

| Component | State | Operations | What is hard | What makes it correct |
| --- | --- | --- | --- | --- |
| Circuit breaker (`reliability.py`) | state, run of failures, probe slots, opening time | `allow_request`, `record_success`, `record_failure` | answers arrive long after the request was admitted, in any order | closed exactly below the threshold; bounded probes; recovers by itself |
| Provider calls (`service.py` `_attempt_provider`, admin endpoints of `api.py`) | in-flight counters, semaphores, circuit events | admit, call, report, recover, reconfigure | suspension between counter, breaker and event; cancellation; replaced semaphores | the counter matches the calls, nobody waiting for a permit is stranded; each transition is announced |
| Idempotency (`idempotency.py`, in memory) | record and event per key | `acquire`, `complete`, `abort` | waiters whose owner fails; same key, other data | one owner per claim, nobody waits in vain |
| `PaymentService.create` | claim, candidates, attempts, payment | lookup, route, attempt, retry, fail over, save, complete | crash or cancellation between save and complete; store failures; ambiguous timeouts | one payment per key, answers are stored payments of the same data |
| `PaymentService.refund` | lock per payment, refunded amount | lock, get, refund, save | concurrent partial refunds; save fails after the refund; a second process, which the lock does not reach | never more than the amount; record, status and events agree |
| Payment store (`store.py`, `db/`) | payments, key index, outbox rows | get, save with events, append, unsent, mark | commit whose answer is lost | payment and events together |
| Outbox dispatcher, broker (`outbox.py`, `broker.py`) | list under way, attempt, log | poll, publish, mark, start, stop | publish succeeds and mark fails; stop in between; the dispatchers of several processes read the same rows; transactions commit in another order than their stamps | at least once, in the order stamped and committed, nothing lost |
| Consumers (`consumers.py`) | ids seen, effects | consume | redelivery; an effect that raises | effects once, in order |
| Routing (`routing.py`) | round-robin position, credits, window of outcomes | `choose` (five strategies), `start_request`, `finish_request` | the list of healthy providers and the rates change between calls | fair shares whatever came before; statistics are exact |
| Rate limiter (`rate_limit.py`) | tokens and time per merchant | consume, in memory and as a Redis script | rounding, expiry, a clock set back, a lost answer | bounded bursts, honest Retry-After, refused only for what was spent |
| Idempotency in Redis (`idempotency.py`) | hash with expiry | claim script, complete, abort | expiry while executing, two-call abort, several processes | as in memory, while the claim lives |
| Runtime (`runtime.py`, lifespan and `/ready` of `api.py`) | backends, producer, worker, open resources | build, start, readiness, close | any call may raise; readiness takes several steps | users end before what they use; close leaves nothing; `/ready` is true |
| Configuration, observability, migrations, scripts | none that another part reads | | | |

Interaction: a request calls `create`, which claims its key, asks the store,
calls providers through the gate, saves payment and events in one transaction
and completes the claim. Circuit transitions append events to the same outbox.
The dispatcher reads the outbox and knows nothing of the service. Everything of
one process runs on one event loop: a step of the models runs from one `await`
that can suspend to the next, so uncontended locks and plain code never
interleave, while store, provider and broker calls do.

## Modules

| Module | Models |
| --- | --- |
| `CircuitBreaker` | one breaker, as operators on a record. `_opened_at` is kept as `cooled`, the only thing the code asks about it; the clock may set it at any time the circuit is open |
| `ProviderGate` | the concurrent calls of one provider: `operation()` in `_attempt_provider` with breaker, in-flight counter, semaphore and circuit events; `recover` and `config` of the admin API |
| `Idempotency` | the records of `MemoryIdempotencyCoordinator`, as operators |
| `PaymentService` | `create` for concurrent requests of one process, using `Idempotency` and `CircuitBreaker`; crash and restart |
| `RedisClaims` | `create` in several processes with `RedisIdempotencyCoordinator` and the database; one step per Redis command, claims that expire |
| `OncePerKey` | what `create` promises about a key: one worker at a time, settled once, answers are what it was settled with |
| `Outbox` | rows, the dispatchers of several processes, broker log, consumers |
| `Refunds` | `refund` for concurrent requests on one payment, in two processes |
| `RateLimit` | the token buckets and the part of `create_payment` that asks them |
| `Routing` | `ProviderRouter`: strategies and statistics, with the attempts that feed them and the endpoints that change health and strategy |
| `Runtime` | `build_runtime`, `Runtime.start`, `close`, `readiness`, the lifespan and `GET /ready` |
| `ProviderGateProofs`, `PaymentServiceProofs`, `RedisClaimsProofs`, `OutboxProofs`, `RefundsProofs`, `RateLimitProofs`, `RoutingProofs`, `RuntimeProofs` | theorems about the module of that name |
| `MCPaymentService`, `MCRedisClaims`, `MCOutbox`, `MCRateLimit`, `MCRouting` | instances for TLC |

Correspondence, where it is not by name:

- `ProviderGate.pc`: `queued` is waiting in `async with semaphore`, `calling` is
  inside `create_payment`, `opened`/`closed` are waiting for the outbox append
  in `_record_failure`/`_record_success`. `sem[c]` is the semaphore object the
  call read: `limits` lists the semaphores installed so far, and a call keeps
  the one it read. `opened` and `closed` count appends that returned,
  `reopened` failures of a half-open circuit. `faulted`
  records which kinds of faults have happened, so that one run says both what
  holds always and what holds until a fault of some kind.
- `PaymentService`: a payment is named after the request that creates it.
  `work[r]` is the local state of `create`: candidates left, attempts at the
  present one (`attempts` of `_attempt_provider`), `payment.attempts` and
  `payment.status`. `pc = "complete"` is after the commit of the save and before
  its caller resumes, so a cancellation or a lost answer there finds the payment
  stored and the claim not completed. `charged` is a history variable.
- The router is any choice of a healthy provider, so what is shown of `create`
  holds for every strategy. `HTTP_502` and `HTTP_503` are treated by the code
  exactly as `PROVIDER_UNAVAILABLE`, which stands for the three.
- `RedisClaims`: the provider loop is one step (`execute`); `hset`/`expire` are
  the commands of `complete`, `hget`/`delete` those of `abort`. A command that
  raises or whose caller is cancelled took effect or did not, and is then over: a
  command that reaches Redis after its caller went on is not modelled. The TTL is
  kept as whether a record has one. `lapsed` and `charged` are history variables.
- `Outbox`: events are numbered by their `created_at`, which is set before the
  transaction commits. No commit order is assumed: a transaction may commit after
  younger rows were listed, published and marked, as those of different payments do,
  and refunds of one payment by two processes, whose locks are process-local.
  `committed` keeps the order of the commits, and the order of delivery is stated
  for events that were stamped and committed in the same order (`Before`). These
  include the events of one transaction, and those of a payment whose transactions
  wait for each other: its refunds in one process, and its creation before any
  refund, as long as the clocks agree with that order. An event that commits late is
  delivered late, and the program promises no more. An effect that raises leaves its
  id seen and its delivery to come again.
- `Refunds`: `Elsewhere` are the requests of the second process. A save reads the
  row (`Find`) and later commits the columns that differ from what it read and
  the refund rows that are new. `lost` (money paid back whose save failed) and
  `overlapped` (both processes were refunding at once) are history variables.
- `RateLimit`: time in ticks, tokens in parts, so that every amount is a whole
  number; the rounding of floats is not modelled. The clock the script reads may
  be set back; a forward jump, which only refills, and a Redis that loses its
  data, which fills every bucket, are not modelled.
- `Routing`: rates, weights and average latencies are exact multiples of
  `1 / Scale`, the exponents of the composite score whole numbers; `_next` is kept modulo a multiple of every list's length. Circuits
  belong to `ProviderGate`; here an open one is a choice (`Skip`). `picks` starts
  anew whenever list, configuration or a success rate changes: shares are about
  the time in between, from whatever position and credits came before.
- `Runtime`: `selected` are the parts with an external backend. `down` is what a
  check would find unavailable now; a probe remembers what was down at some time
  and what was down all the time it ran.

A definition introduced by "Slip:" is a deliberately wrong variant of the
definition after it. No specification uses it; PROJECT.json ("mutants") names
for every property a slip that, put in place of the real definition, makes TLC
report that property violated: each property can fail.

## Runs

The type invariants of the gate and of `create` are checked and proved, those of
`RedisClaims`, `Outbox`, `Refunds`, `RateLimit` and `Routing` only proved (as part of
each inductive invariant); the runs are spent on the other properties. Fault classes are constants (`CallFaults`, `ServiceFaults`, `RefundFaults`, `RedisFaults`), so
one model serves the fault-free and the faulty questions.

| Run | Shows |
| --- | --- |
| `GateFaults` | three calls, threshold 2, one probe, two permits, up to 3 provider errors, unexpected exceptions, cancellation, failing appends, admin recovery and one semaphore replacement (to none or to 1 permit): breaker and failures agree, probes stay bounded and every taken slot belongs to a call that will report, the counter is exact (or, after a lost call, errs upward only), circuit events and transitions match one to one, the circuit closes again and again once errors stop, every admitted call returns |
| `ServiceFaults` | three requests of one key, two fingerprints, two providers, two attempts, threshold 2, all faults: the nine invariants of `create` |
| `ServiceFaultsLive` | three requests of one key under all faults: every request ends, and `create` implements `OncePerKey` |
| `RedisClaimsShared` | three requests of one key in different processes, all faults: no two work on the key and none charges it twice unless a claim lapsed under its owner (or the charging request was lost), answers are the stored payment of the key, no key stays locked |
| `OutboxDelivery` | a transaction of two events and one stamped between them, committed in either order, two dispatchers, lists of at most two rows, two attempts, up to two faults: nothing is lost or invented, log and effects keep the order of stamps and commits |
| `OutboxLive` | the same transactions and dispatchers, one fault, and a call that fails gives up its list at once: everything is delivered |
| `RefundsOfOnePayment` | three refunds of an amount of 3 asking for 1, 2, 4 or the rest, one of them in a second process, all faults |
| `RateLimitBuckets` | two merchants, capacity 2, a token every 3 ticks at 2 ticks a second (so that waits are rounded), 13 ticks, five requests, both backends: bursts, Retry-After and refusals against what was really spent |
| `RoutingShares` | two concurrent payments, three providers, five choices, one failed attempt or open circuit, two changes of health or strategy, a window of 2, six policies |
| `RuntimeLifecycle` | all eight selections of backends, two lifespans, three faults or outages, one probe at a time |
| `GateLostProbe`, `ServiceTimeout` | expected violations, below |

Bounds. Three calls are the least with which a probe, a late answer from before
the opening and a refused request exist at once; three requests are an owner, a
waiter and one with other data (or two waiters). One key is enough because keys
share nothing but the breakers. Two providers give failover and its end.
`MaxAttempts = 2` with threshold 2 lets a retry meet the circuit that an earlier
request's failure and its own opened. `MaxErrors`, `MaxReconfigs` and `MaxFaults`
bound otherwise unbounded counters (so do `MaxPicks`, `MaxFailures` and
`MaxChanges` of `Routing`, `MaxTime`, `MaxRequests` and `MaxSetBack` of `RateLimit`,
`MaxRuns` of `Runtime`); they also make faults finite, which the
liveness properties need. Two dispatchers are the least that race; three events
in two transactions are the least with which a list is cut, a transaction has two
events and another commits between older and younger stamps; `OutboxLive` has one
attempt, so that its one fault gives up a list. Thirteen ticks are more than a bucket's lifetime in Redis (12), so it
expires. Five choices go round three providers once and more after a change of
the list. Symmetry is used in runs without temporal properties (requests,
merchants, payments and dispatchers); `MCRedisClaims` instead fixes the data of the
requests up to renaming.

Fairness. Provider, store and broker calls return (weak fairness of each task's
next step): mock providers sleep a bounded time, and store clients have
timeouts. `asyncio.Semaphore` and `asyncio.Lock` serve waiters in order (strong
fairness of taking them). Time passes (weak fairness of `Clock`, `Wake` and
`RecordExpires`: Redis drops a key when its TTL is over).
`CircuitCloses` also assumes that requests keep arriving, as nobody else probes
an open circuit; a worker that was stopped is started again. A task that was
cancelled ends, and the calls of a shutdown return (weak fairness of `Teardown`). No fairness is
assumed of faults, errors or administrators.

### Where code and documentation disagree

Two runs check a sentence of the documentation, and TLC finds a behaviour of the
code that contradicts it.

- `GateLostProbe`: a probe that raises something other than `ProviderError`
  neither closes nor opens the circuit; with the only slot taken, every request
  is refused until an administrator recovers the provider
  (`docs/adr/0001-reliability-policy.md:9`).
- `ServiceTimeout`: timeout, then `PROVIDER_UNAVAILABLE` on the retry, then a
  charge at the next provider (`README.md:45`).

Three more sentences hold only with a condition, which the properties of
`GateFaults` carry:

- A call admitted before the circuit opened that succeeds afterwards closes it
  with the cooldown still running; `docs/state-machines.md:76` excludes the
  provider "until cooldown or admin recovery". `CircuitFollowsFailures` says what
  is true instead: closed exactly below the threshold.
- A cancelled call stays in the in-flight counter, which `docs/observability.md:20`
  calls the "current provider calls": `InflightExact` promises equality until the
  first cancellation or failed append, and from then on a count that is too high
  but never too low.
- After `max_concurrency` is set, calls holding permits of the former semaphore
  and calls of the new one together may exceed the limit that `README.md:37`
  promises. No property claims that promise; `AdmittedCallsReturn` says that nobody
  waiting for a former semaphore is stranded.

`docs/adr/0003` and `README.md:86` claim serialized refunds within one process
only, and `Refunds` shows the same: `NeverOverRefunded`, `RecordAddsUp` and
`RefusedForGood` hold until two processes overlap. `RefundsAreRecorded` holds even
then: no refund row or event is lost, only `refunded_amount` and `status` are
overwritten.

## Proofs

The theorems hold for every value of the constants under the named assumptions
of the modules: `BreakerAssumption` (threshold and probe limit are positive),
`GateAssumption` (the calls are finitely many, limits and bounds are naturals),
`ServiceAssumption` (`None` is no request, fingerprint or provider; the provider
list is a list; at least one attempt), `RedisAssumption` (`None` is no request or
fingerprint), `OutboxAssumption` (events are numbered and each belongs to one transaction;
lists and attempts are at least 1), `RefundAssumption` (amounts are
positive), `BucketAssumption` (capacity, rate and ticks are positive),
`RoutingAssumption` (the providers are a list without repetition, window and scale
are positive, a rate over a window is a multiple of `1 / Scale`, positions are kept
modulo a multiple of every list's length, the policies use the five strategies). Every set of
faults is covered, as the fault classes are constants too, and so is every bound:
the proofs use that the bounds are numbers and nothing else.

`ProviderGateProofs` begins with one breaker. It is sound (`SoundBreaker`) when it is
closed exactly below the threshold and its probe counter is within the limit; a new
breaker is sound and each operation keeps it so. (`PaymentServiceProofs` needs only
that an operation leaves a breaker, which it proves for itself.) The module proves `TypeOK`, `CircuitFollowsFailures`, `ProbeSlotsHeld`,
`InflightExact` and `EventsPaired`. The third and fourth are not inductive: that probes are
bounded needs that every call which is still probing is unanswered and was
counted in the breaker's slots, and that the counter covers the outstanding
calls needs both sides as cardinalities. The inductive invariant is

    TypeOK /\ SoundBreaker(breaker)
    /\ Cardinality(probing) <= breaker.probes /\ probing \subseteq Unanswered
    /\ inflight >= Cardinality(Outstanding)

with one lemma per action, which adds or removes one call at most. The two
equalities that hold until a fault of the worse kinds (`Exact`) are inductive
relative to it: a second invariant, proved action by action with the first as
hypothesis. `EventsPaired` is a third one, an equality: a call that opens or closes
the circuit is counted at once as about to append its event, and the history variable
`reopened` counts the openings of a half-open circuit, which no closing preceded.

`PaymentServiceProofs` proves for `create`:

- `ServiceTypeCorrect`: types. They are not inductive alone, since a request that
  calls a provider takes the head of its candidates and a save stores its
  status: `WorkInProgress` adds that the candidates are not empty while providers
  are called and that the status is terminal at the save.
- `ServiceClaimsOwned`, `ServiceWaitersAwaitOwner`, `ServiceCompletedIsStored`,
  `ServiceOnePaymentPerKey`, `ServiceStoredIsNotExecuted`,
  `ServiceAnswersAreStored`: the six properties that tie claims, store and
  answers. Together, with what a request at `complete`, at `replay` and after its
  answer knows, they are inductive (`ClaimInv`), and none is alone: one payment
  per key rests on the executing request finding nothing stored, which rests on
  owning the claim, which rests on the record being the owner's own. The steps
  fall into four kinds with a lemma each: the owner goes on, the owner leaves
  (abort or complete, waking its waiters), a request without claim goes on, and
  the claim is taken; the save and the crash have lemmas of their own.
- `ServiceImplementsOncePerKey`: the same four kinds, seen through the mapping of
  the owner of a claim to the worker of its key, are a stutter, `Stop` or
  `Answer`, a stutter or `Answer`, and `Begin`; the save is `Settle`, the crash
  stops all workers.
- `ServiceChargedOncePerKey`: a request charges one provider at most, and unless
  it was lost its charge is about to be saved or stored as its key's payment
  (`ChargedInv`). Two charges of a key would then be two owners of its claim, two
  payments of the key, or an owner of a key that is stored; `ClaimInv` excludes
  the three.
- `ServiceEventsMatchPayments`: inductive relative to `ClaimInv`, because a save
  appends the events of a payment that was not stored.
- `ServiceHistoryExplainsStatus`: the stored attempts are those of `work[r]`, so the
  invariant (`HistoryInv`) is about work in progress: the attempts so far are blocks,
  the pending ones are retries of the present candidate numbered from 1, and no
  candidate that is left has been tried. `JoinBlocks` is the lemma that matters: a
  block of a new provider after sound attempts gives sound attempts.

`RedisClaimsProofs` has two invariants. `StoreInv` (types, what a request knows at
each command of its way out, completed hashes name the stored payment) gives
`AnswersAreStored`; it says nothing of a hash that is absent or only claimed, so it
survives every loss. `ClaimInv` is about keys of which no claim has lapsed: a request
that works on such a key has its fingerprint in the hash, nobody else works on it,
and nothing is stored while it executes. It gives `ExclusiveUnlessLapsed`, and with
where a request that charged can be (`ChargedLocals`) `ChargedOnceUnlessLapsed`.

`OutboxProofs`. The order in the log is not inductive, since a dispatcher publishes
from a list it read long ago. What is: the log has no gaps (`Gapless`: before an
event come all that precede it), and every dispatcher's list, read on from the log,
has none (`Listed`): a list is the oldest of what is not marked, and what is marked
is in the log. Transactions commit in any order; what keeps the invariant is that
they come after the rows there are, so what precedes a row is settled when the row
is saved (`OrderSettled`), and a list that holds it was read later. A consumer's
record is gapless because it has seen all of the log up to its position
(`CaughtUp`); that effects happen once is the set of ids it has seen.

`RefundsProofs` proves the four safety properties of `Refunds`. `RefundInv`
contains two accounts: what was paid back is the sum of the saved refunds, of those
on their way to a save and of what was lost, always; and until two processes overlap
(`Alone`) at most one request refunds, on what is stored, so what it is about to save
fits the amount and refusals stay right. The sums are over finite sets of refund
rows. That a sum gains and loses what is added and removed is a fact about a
recursive definition (`MapThenSumSet`); the library's induction rules cannot be
applied here, since they take an operator as parameter, and the lemmas argue
instead by a smallest counterexample, which exists because `<` on the naturals is
well-founded (`Least`, `Smallest`).

`RateLimitProofs`. A bucket is compared with the level it would have if it never
expired (`RefilledIsLevel`: `consume` cannot tell, since a hash outlives the time in
which it fills). From each token spent until now, tokens spent and the level do
not exceed capacity and refill (`SpentInv`), which gives `BurstsBounded` when the next
one is spent; the converse (`Accounted`), true as long as the clock is not set back,
gives `RefusedOnlyWhenSpent`. `DueInv` says that a refused merchant has a token or
will have one by the time it was told, which the rounding up of `RetryAfter` gives.

`RuntimeProofs` proves `UsersBeforeResources`, `ClosedAfterShutdown` and
`ReadyIsTrue`, for any number of lifespans and faults. The first two follow from
what is there in each phase (`InPhase`): a worker exists only while its producer
runs and everything built is open, and is gone before anything is closed.
`ReadyIsTrue` relates an answer to the time it took; its inductive form (`Kept`)
says that a probe under way runs while the application serves, that what was
down all the while is down now, and that the checks made so far have found
whatever they looked at and was down all the while. It uses nothing of the
checks but that they are a list of dependencies fixed by the selection.

`RoutingProofs` proves the three properties of `Routing` and one that they rest on,
for any number of providers, payments and changes.

- `CreditsBounded`: the credits of `_weighted_round_robin` stay within
  `(N - 1) * Scale` for N providers, although weights and list differ from choice to
  choice. The bound is not inductive: a provider that is not chosen gains its
  weight, and only what the others hold says that it cannot be at its limit. The
  inductive form is about every set of providers (`WithinRoom`): all credits add up
  to 0, and k providers hold at most `Scale * k * (N - k)` between them. When the
  chosen one is in the set, it pays at least what the set got; when it is not, it
  held at least as much as each of the list, and `RoomShared` derives the bound from
  those of the set with the chosen one and of the set without the listed ones.
- `WeightedFair`: since the last change, a provider's credit moved by its weight per
  choice and by the total per time it was chosen (`Account`, which remembers the
  credits at that change). How far its share is off is therefore a difference of two
  credits, and the bound above applies to both.
- `RoundRobinFair`: the position alone says nothing of the shares. What is inductive
  (`Turns`) is that the providers from the one at which the present round began up to
  the position, cyclically, have one payment more than the others. That a step of
  `_next` modulo `Cycle` is a step modulo the length of the list is arithmetic of
  remainders (`NextPosition`).
- `StatsCurrent`: the window slides with the outcomes (`WindowSlides`), and the
  in-flight counter is the number of attempts under way because an attempt under way
  keeps its candidate.
- `RoutingTypeCorrect` needs that every strategy returns a provider of the list and
  weights lie between 0 and `Scale`. Sums are treated as in `RefundsProofs`.

Only model-checked: liveness (`CircuitCloses`, `AdmittedCallsReturn`,
`RequestsEnd` of `create` in memory and over Redis, `CommittedIsDelivered`,
`RefundsEnd`, `ShutdownEnds`), which needs fairness and ENABLED and is out of the
prover's reach, and the two expected violations, which TLC shows by a behaviour.
That the arithmetic of the greedy strategies (`AverageLatency`, `CompositeScore`)
computes what its name says is not stated as a theorem: the averages are folds over
sequences, and no property depends on their values.

## Not modelled

- Backoff lengths, latencies and probabilities of the mock providers: no
  property tells them apart.
- `list` queries, response formats, validation, configuration, metrics and logs:
  they keep no state another component reads. `p95_latency_ms` and the running
  totals of `ProviderStats` are only reported.
- Exploration of the greedy strategies: `lowest_latency` prefers providers it has
  data about, `highest_success_rate` and `composite` do not come back to a provider
  whose window looks bad. The code means them so; no property claims more.
- Stamps of events that tie: `unsent` has no second key to sort by, so the order of
  such events is not defined. (Stamps that a clock set back, or the clocks of two
  processes, put in another order than the commits are covered: `Before` does not
  relate such events.)
- Kafka partitions: `KafkaBroker.publish` sends no key, so the single log of `Outbox`
  is a topic of one partition; over several, Kafka itself keeps no order.
- A consumer that restarts: `seen` is in memory, so it would run effects again. The
  broker's redelivery to a running consumer is modelled.
- Several processes with the in-memory coordinator: it is process-local, and the
  documentation claims nothing for this case.
- The merchants table: a save that fails on it is one of the store faults.
- Migrations, scripts, dashboards and load tests: tooling that drives the program
  from outside.

## Plan

Done: the core (`CircuitBreaker`, `ProviderGate`, `Idempotency`, `PaymentService`,
`OncePerKey`), `RedisClaims`, `Outbox`, `Refunds`, `RateLimit`, `Routing` and `Runtime`,
and the proofs above. Every safety property that a passing run checks is proved for
all values of the constants, and so is the refinement of `OncePerKey`; the liveness
properties stay with TLC. What would extend the project next, in this order:

1. Stamps of events that tie (`created_at` in `db/repository.py`), which `Outbox`
   takes as distinct, partitions, and consumers that restart.
2. Redis commands that take effect after their caller went on, in `RedisClaims`.
3. The running totals and `p95_latency_ms` of `ProviderStats`, if anything comes to
   depend on them.
