------------------------------ MODULE Routing ------------------------------
(***************************************************************************)
(* ProviderRouter (routing.py): the five strategies over a list of healthy *)
(* providers that changes, and the statistics they read, which the         *)
(* attempts of concurrent payments write (service.py).                     *)
(*                                                                         *)
(* Rates, weights and averages are fractions with a denominator of at most *)
(* WindowSize; they are kept as multiples of 1 / Scale, exactly.  Python's *)
(* _next grows for ever, but is only used modulo the length of a list: it  *)
(* is kept modulo Cycle, a multiple of every length.                       *)
(*                                                                         *)
(* Circuits are in ProviderGate: here an open one is a choice (Skip).  A   *)
(* cancelled attempt, which stays in inflight for good, is there too.      *)
(***************************************************************************)
EXTENDS Integers, FiniteSets, Sequences, FiniteSetsExt, SequencesExt

CONSTANTS
    Providers,     \* the configured list of providers
    Slots,         \* concurrent payments
    WindowSize,
    Scale, Cycle,
    Outcomes,      \* set of [ok |-> BOOLEAN, latency |-> seconds]
    Policies,      \* the pairs of strategy and composite weights in use
    MaxPicks,      \* bound: calls of choose
    MaxFailures,   \* bound: failed attempts, open circuits
    MaxChanges     \* bound: changes of health or configuration

P == Range(Providers)

Strategies == {"round_robin", "weighted_round_robin", "lowest_latency",
               "highest_success_rate", "composite"}

\* CompositeWeights refuses an exponent above MAX_COMPOSITE_WEIGHT.
Exponents == [{"success", "latency", "load", "recent_failure"} -> 0 .. 5]

ASSUME RoutingAssumption ==
    /\ Providers \in Seq(P) /\ IsInjective(Providers)
    /\ WindowSize \in Nat \ {0}
    /\ Scale \in Nat \ {0} /\ Scale % 20 = 0
    /\ \A n \in 1 .. WindowSize : Scale % n = 0
    /\ Cycle \in Nat \ {0}
    /\ \A n \in 1 .. Len(Providers) : Cycle % n = 0
    /\ Outcomes \subseteq [ok : BOOLEAN, latency : Nat]
    /\ Policies \subseteq Strategies \X Exponents

VARIABLES
    strategy, exponents,
    next,        \* _next
    credit,      \* _weighted_current
    recent,      \* ProviderStats.recent
    inflight,    \* ProviderStats.inflight
    healthy,     \* the providers whose health_check is True
    calls,       \* the candidates each payment has left, the present one first
    active,      \* the payments whose present attempt is under way
    picks,       \* history: who was chosen since health, configuration or a
                 \* success rate changed
    done,        \* history: the outcomes of each provider, latest last
    count        \* history: [picks, failures, changes]

router == <<strategy, exponents, next, credit>>
stats == <<recent, inflight, done>>
vars == <<router, stats, healthy, calls, active, picks, count>>

Zero == [p \in P |-> 0]

TypeOK ==
    /\ <<strategy, exponents>> \in Policies
    /\ next \in 0 .. Cycle - 1
    /\ credit \in [P -> Int]
    /\ recent \in [P -> Seq(Outcomes)]
    /\ \A p \in P : Len(recent[p]) <= WindowSize
    /\ inflight \in [P -> Nat]
    /\ healthy \subseteq P
    /\ calls \in [Slots -> Seq(P)]
    /\ active \subseteq Slots
    /\ picks \in [P -> Nat]
    /\ done \in [P -> Seq(Outcomes)]

Init ==
    /\ \E policy \in Policies : strategy = policy[1] /\ exponents = policy[2]
    /\ next = 0
    /\ credit = Zero
    /\ recent = [p \in P |-> <<>>]
    /\ inflight = Zero
    /\ healthy = P
    /\ calls = [s \in Slots |-> <<>>]
    /\ active = {}
    /\ picks = Zero
    /\ done = [p \in P |-> <<>>]
    /\ count = [picks |-> 0, failures |-> 0, changes |-> 0]

-----------------------------------------------------------------------------
(* Statistics. *)

Sum(f, S) == MapThenSumSet(LAMBDA p : f[p], S)

Good(w) == Cardinality({i \in DOMAIN w : w[i].ok})
Seconds(w) == FoldLeft(LAMBDA a, o : a + o.latency, 0, w)

SuccessRate(w) == IF w = <<>> THEN Scale ELSE (Good(w) * Scale) \div Len(w)
AverageLatency(w) == IF w = <<>> THEN 0 ELSE (Seconds(w) * Scale) \div Len(w)

\* Slip: a full window keeps its oldest entries.
FinishKeepsOldest(w, o) == IF Len(w) = WindowSize THEN w ELSE Append(w, o)

\* The window of ProviderStats.finish.
Finish(w, o) == IF Len(w) = WindowSize THEN Append(Tail(w), o) ELSE Append(w, o)

-----------------------------------------------------------------------------
(* The strategies: each picks one of list, a sequence of providers. *)

Index(list, p) == CHOOSE i \in DOMAIN list : list[i] = p

LexLess(a, b) == \E i \in DOMAIN a : a[i] < b[i] /\ \A j \in 1 .. i - 1 : a[j] = b[j]

First(key) == CHOOSE p \in DOMAIN key : \A q \in DOMAIN key \ {p} : LexLess(key[p], key[q])

\* A provider that was never tried comes after every other.
LowestLatency(list) ==
    First([p \in Range(list) |-> <<IF recent[p] = <<>> THEN 1 ELSE 0, AverageLatency(recent[p]),
                                   -SuccessRate(recent[p]), Index(list, p)>>])

HighestSuccessRate(list) ==
    First([p \in Range(list) |-> <<-SuccessRate(recent[p]), AverageLatency(recent[p]),
                                   inflight[p], Index(list, p)>>])

\* Python's 0 ** 0 is 1.
Power(b, e) == IF e = 0 THEN 1 ELSE b ^ e

\* composite_score as numerator and denominator.
CompositeScore(p) ==
    LET rate == SuccessRate(recent[p])
        e == exponents IN
    [num |-> Power(rate, e.success) * Power(Scale, e.latency + e.recent_failure),
     den |-> Power(Scale, e.success) * Power(Scale + AverageLatency(recent[p]), e.latency)
             * Power(1 + inflight[p], e.load) * Power(2 * Scale - rate, e.recent_failure)]

\* max returns the first of the highest.
SelectComposite(list) ==
    LET AtLeast(p, q) == CompositeScore(p).num * CompositeScore(q).den
                           >= CompositeScore(q).num * CompositeScore(p).den IN
    list[CHOOSE i \in DOMAIN list :
           /\ \A j \in DOMAIN list : AtLeast(list[i], list[j])
           /\ \A j \in 1 .. i - 1 : ~AtLeast(list[j], list[i])]

Weight(p) == IF SuccessRate(recent[p]) < Scale \div 20 THEN Scale \div 20 ELSE SuccessRate(recent[p])

\* The credits once every provider of the list got its weight.
Credited(list) == [p \in P |-> IF p \in Range(list) THEN credit[p] + Weight(p) ELSE credit[p]]

WeightedRoundRobin(list) ==
    First([p \in Range(list) |-> <<-Credited(list)[p], Index(list, p)>>])

\* Slip: the chosen provider pays nothing.
ChargedNothing(list) == Credited(list)

\* The chosen provider pays the weights of all.
Charged(list) == [Credited(list) EXCEPT ![WeightedRoundRobin(list)] = @ - Sum([p \in P |-> Weight(p)], Range(list))]

RoundRobin(list) == list[(next % Len(list)) + 1]

\* Slip: two positions per choice.
AdvanceTwo == (next + 2) % Cycle

Advance == (next + 1) % Cycle

\* choose and its effect on the router.
Choose(list, p) ==
    \/ /\ strategy = "round_robin"
       /\ p = RoundRobin(list)
       /\ next' = Advance
       /\ UNCHANGED <<strategy, exponents, credit>>
    \/ /\ strategy = "weighted_round_robin"
       /\ p = WeightedRoundRobin(list)
       /\ credit' = Charged(list)
       /\ UNCHANGED <<strategy, exponents, next>>
    \/ strategy = "lowest_latency" /\ p = LowestLatency(list) /\ UNCHANGED router
    \/ strategy = "highest_success_rate" /\ p = HighestSuccessRate(list) /\ UNCHANGED router
    \/ strategy = "composite" /\ p = SelectComposite(list) /\ UNCHANGED router

-----------------------------------------------------------------------------
\* The providers of S in the order of the configured list.
InOrder(S) ==
    CHOOSE list \in [1 .. Cardinality(S) -> S] :
      /\ Range(list) = S
      /\ \A i, j \in DOMAIN list :
           i < j => Index(Providers, list[i]) < Index(Providers, list[j])

Healthy == InOrder(healthy)

StartRequest(s, p) ==
    /\ inflight' = [inflight EXCEPT ![p] = @ + 1]
    /\ active' = active \cup {s}

\* create: choose among the healthy providers, the others follow in order.
Route(s) ==
    /\ calls[s] = <<>>
    /\ healthy # {}
    /\ count.picks < MaxPicks
    /\ count' = [count EXCEPT !.picks = @ + 1]
    /\ \E p \in healthy :
         /\ Choose(Healthy, p)
         /\ calls' = [calls EXCEPT ![s] = <<p>> \o InOrder(healthy \ {p})]
         /\ picks' = [picks EXCEPT ![p] = @ + 1]
    /\ UNCHANGED <<stats, healthy, active>>

\* An attempt, or a retry, at the present candidate.
Attempt(s) ==
    /\ calls[s] # <<>>
    /\ s \notin active
    /\ StartRequest(s, Head(calls[s]))
    /\ UNCHANGED <<router, recent, done, healthy, calls, picks, count>>

\* The candidate's circuit is open: the payment goes on with the next one.
Skip(s) ==
    /\ calls[s] # <<>>
    /\ s \notin active
    /\ count.failures < MaxFailures
    /\ count' = [count EXCEPT !.failures = @ + 1]
    /\ calls' = [calls EXCEPT ![s] = Tail(@)]
    /\ UNCHANGED <<router, stats, healthy, active, picks>>

\* finish_request.  After a failure the payment retries, goes on with the
\* other providers or gives up.
FinishRequest(s, o) ==
    LET p == Head(calls[s]) IN
    /\ s \in active
    /\ active' = active \ {s}
    /\ inflight' = [inflight EXCEPT ![p] = IF @ > 0 THEN @ - 1 ELSE 0]
    /\ recent' = [recent EXCEPT ![p] = Finish(@, o)]
    /\ done' = [done EXCEPT ![p] = Append(@, o)]
    /\ IF o.ok
       THEN calls' = [calls EXCEPT ![s] = <<>>] /\ UNCHANGED count
       ELSE /\ count.failures < MaxFailures
            /\ count' = [count EXCEPT !.failures = @ + 1]
            /\ \E rest \in {calls[s], Tail(calls[s]), <<>>} : calls' = [calls EXCEPT ![s] = rest]
    /\ picks' = IF SuccessRate(recent'[p]) = SuccessRate(recent[p]) THEN picks ELSE Zero
    /\ UNCHANGED <<router, healthy>>

Changes ==
    /\ count.changes < MaxChanges
    /\ count' = [count EXCEPT !.changes = @ + 1]
    /\ picks' = Zero

\* POST .../fail, and .../recover as far as routing goes.
FailProvider(p) ==
    /\ Changes
    /\ p \in healthy
    /\ healthy' = healthy \ {p}
    /\ UNCHANGED <<router, stats, calls, active>>

RecoverProvider(p) ==
    /\ Changes
    /\ p \notin healthy
    /\ healthy' = healthy \cup {p}
    /\ UNCHANGED <<router, stats, calls, active>>

\* PUT /api/v1/admin/routing
ConfigureRouting(st, e) ==
    /\ Changes
    /\ <<st, e>> # <<strategy, exponents>>
    /\ strategy' = st
    /\ exponents' = e
    /\ UNCHANGED <<next, credit, stats, healthy, calls, active>>

Next ==
    \/ \E s \in Slots : \/ Route(s) \/ Attempt(s) \/ Skip(s)
                        \/ \E o \in Outcomes : FinishRequest(s, o)
    \/ \E p \in P : FailProvider(p) \/ RecoverProvider(p)
    \/ \E policy \in Policies : ConfigureRouting(policy[1], policy[2])

Spec == Init /\ [][Next]_vars

-----------------------------------------------------------------------------
(* Properties. *)

\* While the list of healthy providers stays the same, round robin gives
\* every provider of it the same number of payments, give or take one,
\* wherever the position stood when the list last changed (_round_robin).
RoundRobinShare ==
    strategy = "round_robin" =>
      \A p, q \in healthy : picks[p] - picks[q] <= 1

\* While list and success rates stay the same, every provider gets payments
\* in proportion to its weight, up to a constant that does not grow with
\* the number of payments, whatever credits the providers were left with by
\* earlier rates and lists (_weighted_round_robin).
WeightedShare ==
    LET total == Sum([p \in P |-> Weight(p)], healthy)
        n == Sum(picks, healthy) IN
    strategy = "weighted_round_robin" =>
      \A p \in healthy :
        LET off == picks[p] * total - n * Weight(p) IN
        /\ off <= 2 * (Len(Providers) - 1) * Scale
        /\ -off <= 2 * (Len(Providers) - 1) * Scale

\* What the strategies read is true: the window holds the latest outcomes
\* in the order in which concurrent attempts finished, and inflight is the
\* number of attempts under way (ProviderStats.start, finish).
StatsAreCurrent ==
    \A p \in P :
      /\ recent[p] = SubSeq(done[p], Len(done[p]) - Len(recent[p]) + 1, Len(done[p]))
      /\ Len(recent[p]) = IF Len(done[p]) < WindowSize THEN Len(done[p]) ELSE WindowSize
      /\ inflight[p] = Cardinality({s \in active : Head(calls[s]) = p})
=============================================================================
