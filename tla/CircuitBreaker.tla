--------------------------- MODULE CircuitBreaker ---------------------------
(***************************************************************************)
(* The circuit breaker of one payment provider (reliability.py), as        *)
(* operators on a breaker record.  Two state machines use them: the        *)
(* concurrent calls of one provider (ProviderGate) and the payments that   *)
(* fail over between providers (PaymentService).                           *)
(*                                                                         *)
(* `_opened_at' is read only to decide whether the cooldown has elapsed    *)
(* since the last opening, so a breaker keeps that answer, `cooled',       *)
(* instead of a time: opening the circuit resets it, and CooldownElapses,  *)
(* which the clock takes at any moment, sets it.                           *)
(***************************************************************************)
EXTENDS Naturals

CONSTANTS
    FailureThreshold,     \* failure_threshold
    HalfOpenProbeLimit    \* half_open_probe_limit

\* The constructor refuses smaller values.
ASSUME BreakerAssumption ==
    /\ FailureThreshold \in Nat \ {0}
    /\ HalfOpenProbeLimit \in Nat \ {0}

CircuitState == {"CLOSED", "OPEN", "HALF_OPEN"}

Breaker == [state : CircuitState, consecutive_failures : Nat,
            probes : Nat, cooled : BOOLEAN]

NewBreaker == [state |-> "CLOSED", consecutive_failures |-> 0,
               probes |-> 0, cooled |-> FALSE]

-----------------------------------------------------------------------------
\* The first half of allow_request: an open circuit whose cooldown is over
\* becomes half-open, with no probe admitted yet.
AfterCooldown(b) ==
    IF b.state = "OPEN" /\ b.cooled
    THEN [b EXCEPT !.state = "HALF_OPEN", !.probes = 0]
    ELSE b

\* Slip: one probe too many.
AdmitsOneMore(b) ==
    LET h == AfterCooldown(b) IN
    h.state = "CLOSED" \/ (h.state = "HALF_OPEN" /\ h.probes <= HalfOpenProbeLimit)

\* What allow_request returns.
Admits(b) ==
    LET h == AfterCooldown(b) IN
    \/ h.state = "CLOSED"
    \/ h.state = "HALF_OPEN" /\ h.probes < HalfOpenProbeLimit

\* The breaker allow_request leaves behind: an admitted half-open request
\* takes a probe slot.
AfterRequest(b) ==
    LET h == AfterCooldown(b) IN
    IF h.state = "HALF_OPEN" /\ h.probes < HalfOpenProbeLimit
    THEN [h EXCEPT !.probes = @ + 1]
    ELSE h

\* Slip: the run of failures is not reset.
RecordSuccessKeepsFailures(b) == [b EXCEPT !.state = "CLOSED", !.probes = 0]

RecordSuccess(b) ==
    [state |-> "CLOSED", consecutive_failures |-> 0,
     probes |-> 0, cooled |-> b.cooled]

\* Slip: only a closed circuit opens.
RecordFailureWhenClosed(b) ==
    LET failures == b.consecutive_failures + 1 IN
    IF b.state = "CLOSED" /\ failures >= FailureThreshold
    THEN [state |-> "OPEN", consecutive_failures |-> failures,
          probes |-> 0, cooled |-> FALSE]
    ELSE [b EXCEPT !.consecutive_failures = failures]

RecordFailure(b) ==
    LET failures == b.consecutive_failures + 1 IN
    IF b.state = "HALF_OPEN" \/ failures >= FailureThreshold
    THEN [state |-> "OPEN", consecutive_failures |-> failures,
          probes |-> 0, cooled |-> FALSE]
    ELSE [b EXCEPT !.consecutive_failures = failures]

\* The clock passes `_opened_at + cooldown_seconds' of an open circuit.
CooldownElapses(b) == [b EXCEPT !.cooled = TRUE]

-----------------------------------------------------------------------------
\* Facts about one breaker that every sequence of the operations keeps.
\* The circuit is closed exactly while fewer than failure_threshold failures
\* have come in a row, half-open periods and late answers included.
ClosedIffBelowThreshold(b) ==
    b.state = "CLOSED" <=> b.consecutive_failures < FailureThreshold

\* A half-open circuit holds between one and half_open_probe_limit probe slots
\* taken, and no slot outlives the half-open period.
ProbeSlotsInRange(b) ==
    IF b.state = "HALF_OPEN"
    THEN b.probes \in 1 .. HalfOpenProbeLimit
    ELSE b.probes = 0
=============================================================================
