---------------------------- MODULE ProviderGate ----------------------------
(***************************************************************************)
(* The calls that concurrent tasks make to ONE provider: `operation' inside *)
(* PaymentService._attempt_provider, with the circuit breaker it asks and  *)
(* informs, the in-flight counter, the concurrency semaphore and the       *)
(* outbox events of circuit transitions, and the administrator's recovery. *)
(*                                                                         *)
(* A step runs from one suspension point to the next.  The circuit lock is *)
(* never held across one, so asking the breaker, counting the call and     *)
(* reading the provider's present semaphore are a single step, and so are  *)
(* the provider's answer and the breaker's record of it; the append of a   *)
(* circuit event to the outbox is a step of its own.                       *)
(*                                                                         *)
(* CallFaults turns on what may go wrong besides a ProviderError:          *)
(*   "unexpected"  create_payment raises some other Exception              *)
(*   "cancel"      the task is cancelled at a suspension point             *)
(*   "append"      the outbox append of a circuit event raises             *)
(***************************************************************************)
EXTENDS CircuitBreaker, FiniteSets, Sequences

CONSTANTS
    Calls,          \* slots for concurrent calls; a slot is reused
    InitialLimit,   \* max_concurrency or provider_concurrency_limit; 0 = none
    NewLimits,      \* limits the administrator may install
    CallFaults,
    MaxErrors,      \* bound: provider errors and faults in a behaviour
    MaxReconfigs    \* bound: semaphore replacements in a behaviour

ASSUME GateAssumption ==
    /\ IsFiniteSet(Calls)
    /\ InitialLimit \in Nat
    /\ NewLimits \subseteq Nat
    /\ CallFaults \subseteq {"unexpected", "cancel", "append"}
    /\ MaxErrors \in Nat
    /\ MaxReconfigs \in Nat

VARIABLES
    breaker,      \* circuits[provider]
    pc,           \* where each call is
    sem,          \* the semaphore each call read, an index into limits
    limits,       \* the limits of the semaphores installed so far
    inflight,     \* router.stats[provider].inflight
    probing,      \* history: outstanding calls admitted as probes of the
                  \* present half-open period
    opened,       \* circuit_opened events whose append returned
    closed,       \* circuit_closed events whose append returned
    recovering,   \* the admin handler is appending its circuit_closed event
    reopened,     \* history: failures that found the circuit half-open
    errors,       \* history: provider errors and faults so far
    faulted       \* history: the kinds of CallFaults met so far

vars == <<breaker, pc, sem, limits, inflight, probing, opened, closed,
          recovering, reopened, errors, faulted>>

\* idle      no call; refused: as idle, the last request met an open circuit
\* queued    admitted by the breaker, waiting for a semaphore permit
\* calling   inside provider.create_payment, holding a permit if there is one
\* opened    the failure handler is appending circuit_opened
\* closed    the success path is appending circuit_closed
PC == {"idle", "refused", "queued", "calling", "opened", "closed"}

Outstanding == {c \in Calls : pc[c] \in {"queued", "calling", "closed"}}

Unanswered == {c \in Calls : pc[c] \in {"queued", "calling"}}

AtProvider == {c \in Calls : pc[c] = "calling"}

Holders(i) == {c \in AtProvider : sem[c] = i}

CurrentLimit == limits[Len(limits)]

TypeOK ==
    /\ breaker \in Breaker
    /\ pc \in [Calls -> PC]
    /\ sem \in [Calls -> Nat]
    /\ \A c \in Calls : sem[c] \in 1 .. Len(limits)
    /\ limits \in Seq(Nat)
    /\ limits # <<>>
    /\ inflight \in Nat
    /\ probing \subseteq Calls
    /\ opened \in Nat
    /\ closed \in Nat
    /\ recovering \in BOOLEAN
    /\ reopened \in Nat
    /\ errors \in Nat
    /\ faulted \subseteq CallFaults

Init ==
    /\ breaker = NewBreaker
    /\ pc = [c \in Calls |-> "idle"]
    /\ sem = [c \in Calls |-> 1]
    /\ limits = <<InitialLimit>>
    /\ inflight = 0
    /\ probing = {}
    /\ opened = 0
    /\ closed = 0
    /\ recovering = FALSE
    /\ reopened = 0
    /\ errors = 0
    /\ faulted = {}

-----------------------------------------------------------------------------
\* ProviderStats.finish as far as the counter goes.
FinishRequest(n) == IF n > 0 THEN n - 1 ELSE 0

\* Slots that are not using the provider may carry a new request.
Free(c) == pc[c] \in {"idle", "refused"}

\* _allow_provider returns True; start_request counts the call, which then
\* waits for a permit of the semaphore installed now, if there is one.
Admit(c) ==
    /\ Free(c)
    /\ Admits(breaker)
    /\ breaker' = AfterRequest(breaker)
    /\ inflight' = inflight + 1
    /\ sem' = [sem EXCEPT ![c] = Len(limits)]
    /\ pc' = [pc EXCEPT ![c] = IF CurrentLimit = 0 THEN "calling" ELSE "queued"]
    /\ probing' = IF breaker'.state = "HALF_OPEN" THEN probing \cup {c} ELSE probing
    /\ UNCHANGED <<limits, opened, closed, recovering, reopened, errors, faulted>>

\* _allow_provider returns False: the request fails with CIRCUIT_OPEN.
Refuse(c) ==
    /\ Free(c)
    /\ ~Admits(breaker)
    /\ breaker' = AfterRequest(breaker)
    /\ pc' = [pc EXCEPT ![c] = "refused"]
    /\ UNCHANGED <<sem, limits, inflight, probing,
                   opened, closed, recovering, reopened, errors, faulted>>

\* Slip: the limit is read again after the wait.
AcquirePermitRereadsLimit(c) ==
    /\ pc[c] = "queued"
    /\ Cardinality(Holders(sem[c])) < CurrentLimit
    /\ pc' = [pc EXCEPT ![c] = "calling"]
    /\ UNCHANGED <<breaker, sem, limits, inflight, probing,
                   opened, closed, recovering, reopened, errors, faulted>>

\* async with semaphore
AcquirePermit(c) ==
    /\ pc[c] = "queued"
    /\ Cardinality(Holders(sem[c])) < limits[sem[c]]
    /\ pc' = [pc EXCEPT ![c] = "calling"]
    /\ UNCHANGED <<breaker, sem, limits, inflight, probing,
                   opened, closed, recovering, reopened, errors, faulted>>

\* The probes that still belong to the half-open period once the breaker is b.
StillProbing(b, c) == IF b.state = "HALF_OPEN" THEN probing \ {c} ELSE {}

\* Slip: a late failure of an open circuit announces it again.
FailAnnouncesAgain(c) ==
    /\ pc[c] = "calling"
    /\ errors < MaxErrors
    /\ errors' = errors + 1
    /\ inflight' = FinishRequest(inflight)
    /\ breaker' = RecordFailure(breaker)
    /\ pc' = [pc EXCEPT ![c] = IF breaker'.state = "OPEN" THEN "opened" ELSE "idle"]
    /\ probing' = StillProbing(breaker', c)
    /\ reopened' = reopened + (IF breaker.state = "HALF_OPEN" THEN 1 ELSE 0)
    /\ UNCHANGED <<sem, limits, opened, closed, recovering, faulted>>

\* create_payment raises ProviderError: finish_request, then _record_failure.
\* A transition (always to OPEN) leaves a circuit_opened event to append.
Fail(c) ==
    /\ pc[c] = "calling"
    /\ errors < MaxErrors
    /\ errors' = errors + 1
    /\ inflight' = FinishRequest(inflight)
    /\ breaker' = RecordFailure(breaker)
    /\ pc' = [pc EXCEPT ![c] = IF breaker'.state # breaker.state THEN "opened" ELSE "idle"]
    /\ probing' = StillProbing(breaker', c)
    /\ reopened' = reopened + (IF breaker.state = "HALF_OPEN" THEN 1 ELSE 0)
    /\ UNCHANGED <<sem, limits, opened, closed, recovering, faulted>>

\* Slip: a success without a transition is not counted out.
SucceedUncounted(c) ==
    /\ pc[c] = "calling"
    /\ breaker' = RecordSuccess(breaker)
    /\ probing' = StillProbing(breaker', c)
    /\ pc' = [pc EXCEPT ![c] = IF breaker'.state # breaker.state THEN "closed" ELSE "idle"]
    /\ UNCHANGED <<sem, limits, inflight, opened, closed, recovering, reopened, errors, faulted>>

\* create_payment returns: _record_success comes before finish_request, so a
\* transition (always to CLOSED) suspends the call while it is still counted.
Succeed(c) ==
    /\ pc[c] = "calling"
    /\ breaker' = RecordSuccess(breaker)
    /\ probing' = StillProbing(breaker', c)
    /\ IF breaker'.state # breaker.state
       THEN /\ pc' = [pc EXCEPT ![c] = "closed"]
            /\ UNCHANGED inflight
       ELSE /\ pc' = [pc EXCEPT ![c] = "idle"]
            /\ inflight' = FinishRequest(inflight)
    /\ UNCHANGED <<sem, limits, opened, closed, recovering, reopened, errors, faulted>>

\* outbox.append of the circuit event returns.
AppendOpened(c) ==
    /\ pc[c] = "opened"
    /\ opened' = opened + 1
    /\ pc' = [pc EXCEPT ![c] = "idle"]
    /\ UNCHANGED <<breaker, sem, limits, inflight, probing,
                   closed, recovering, reopened, errors, faulted>>

AppendClosed(c) ==
    /\ pc[c] = "closed"
    /\ closed' = closed + 1
    /\ inflight' = FinishRequest(inflight)
    /\ pc' = [pc EXCEPT ![c] = "idle"]
    /\ UNCHANGED <<breaker, sem, limits, probing, opened, recovering, reopened, errors, faulted>>

\* outbox.append raises: the exception leaves operation() from either
\* handler, on the success path without finish_request.
AppendRaises(c) ==
    /\ "append" \in CallFaults
    /\ errors < MaxErrors
    /\ errors' = errors + 1
    /\ faulted' = faulted \cup {"append"}
    /\ pc[c] \in {"opened", "closed"}
    /\ pc' = [pc EXCEPT ![c] = "idle"]
    /\ UNCHANGED <<breaker, sem, limits, inflight, probing, opened, closed, recovering, reopened>>

\* create_payment raises an Exception that is no ProviderError: the handler
\* calls finish_request and tells the breaker nothing.
RaiseUnexpected(c) ==
    /\ "unexpected" \in CallFaults
    /\ errors < MaxErrors
    /\ errors' = errors + 1
    /\ faulted' = faulted \cup {"unexpected"}
    /\ pc[c] = "calling"
    /\ inflight' = FinishRequest(inflight)
    /\ pc' = [pc EXCEPT ![c] = "idle"]
    /\ probing' = StillProbing(breaker, c)
    /\ UNCHANGED <<breaker, sem, limits, opened, closed, recovering, reopened>>

\* CancelledError is no Exception: no handler of operation() runs.  The
\* permit is returned by `async with'.
Cancel(c) ==
    /\ "cancel" \in CallFaults
    /\ errors < MaxErrors
    /\ errors' = errors + 1
    /\ faulted' = faulted \cup {"cancel"}
    /\ ~Free(c)
    /\ pc' = [pc EXCEPT ![c] = "idle"]
    /\ probing' = StillProbing(breaker, c)
    /\ UNCHANGED <<breaker, sem, limits, inflight, opened, closed, recovering, reopened>>

\* POST .../recover: the endpoint reports a success to the breaker.
AdminRecover ==
    /\ ~recovering
    /\ breaker' = RecordSuccess(breaker)
    /\ probing' = {}
    /\ recovering' = (breaker'.state # breaker.state)
    /\ UNCHANGED <<pc, sem, limits, inflight, opened, reopened, closed, errors, faulted>>

AdminAppendClosed ==
    /\ recovering
    /\ recovering' = FALSE
    /\ closed' = closed + 1
    /\ UNCHANGED <<breaker, pc, sem, limits, inflight, probing, opened, reopened, errors, faulted>>

AdminAppendRaises ==
    /\ "append" \in CallFaults
    /\ errors < MaxErrors
    /\ errors' = errors + 1
    /\ faulted' = faulted \cup {"append"}
    /\ recovering
    /\ recovering' = FALSE
    /\ UNCHANGED <<breaker, pc, sem, limits, inflight, probing, opened, reopened, closed>>

\* PUT .../config with max_concurrency: set_provider_concurrency installs a
\* fresh semaphore; calls that read the former one keep it.
SetProviderConcurrency(n) ==
    /\ Len(limits) <= MaxReconfigs
    /\ limits' = Append(limits, n)
    /\ UNCHANGED <<breaker, pc, sem, inflight, probing,
                   opened, closed, recovering, reopened, errors, faulted>>

Clock ==
    /\ breaker.state = "OPEN"
    /\ ~breaker.cooled
    /\ breaker' = CooldownElapses(breaker)
    /\ UNCHANGED <<pc, sem, limits, inflight, probing,
                   opened, closed, recovering, reopened, errors, faulted>>

Next ==
    \/ \E c \in Calls : \/ Admit(c) \/ Refuse(c) \/ AcquirePermit(c)
                        \/ Fail(c) \/ Succeed(c)
                        \/ AppendOpened(c) \/ AppendClosed(c) \/ AppendRaises(c)
                        \/ RaiseUnexpected(c) \/ Cancel(c)
    \/ AdminRecover \/ AdminAppendClosed \/ AdminAppendRaises
    \/ \E n \in NewLimits : SetProviderConcurrency(n)
    \/ Clock

\* Provider calls and outbox appends return, asyncio.Semaphore serves its
\* queue in order, time passes; and requests keep arriving, which is the
\* environment's part.
Fairness ==
    /\ \A c \in Calls : /\ SF_vars(AcquirePermit(c))
                        /\ WF_vars(Fail(c) \/ Succeed(c))
                        /\ WF_vars(AppendOpened(c) \/ AppendClosed(c) \/ AppendRaises(c))
                        /\ WF_vars(Admit(c))
    /\ WF_vars(AdminAppendClosed \/ AdminAppendRaises)
    /\ WF_vars(Clock)

Spec == Init /\ [][Next]_vars /\ Fairness

-----------------------------------------------------------------------------
(* Properties. *)

\* The breaker is closed exactly while the run of failures is below the
\* threshold (reliability.py record_failure, record_success), whatever the
\* order in which concurrent, late and probing calls report.
CircuitFollowsFailures == ClosedIffBelowThreshold(breaker)

\* Probe slots and probes agree: never more slots are taken than
\* half_open_probe_limit, nor more calls of the half-open period outstanding
\* than slots (allow_request); and every taken slot belongs to a call that
\* will still report to the breaker, since otherwise a half-open circuit
\* refuses every request and nothing but an administrator can move it.  Only
\* exceptions that are no ProviderError, and cancellations, lose a slot
\* (_attempt_provider).
ProbeSlotsHeld ==
    /\ ProbeSlotsInRange(breaker)
    /\ probing \subseteq Unanswered
    /\ Cardinality(probing) <= breaker.probes
    /\ faulted \subseteq {"append"} => Cardinality(probing) = breaker.probes

\* The in-flight counter that routing and metrics read (start_request,
\* finish_request) is the number of calls that have not returned, until a call
\* is cancelled or a circuit event cannot be appended; from then on it errs in
\* one direction only and never misses an outstanding call, so max(0, ...) in
\* finish never hides one.
InflightExact ==
    /\ inflight >= Cardinality(Outstanding)
    /\ faulted \subseteq {"unexpected"} => inflight = Cardinality(Outstanding)

\* Appends and transitions pair up (_record_circuit_transition): apart from the
\* openings of a half-open circuit, which had been opened before, the events
\* appended or on their way are as many openings as closings, and one opening
\* more while the circuit is not closed, until an append fails or is cancelled.
\* No event is lost, doubled or of the wrong kind, whoever makes the
\* transitions and in whatever order the appends return.
EventsPaired ==
    faulted \subseteq {"unexpected"} =>
    opened + Cardinality({c \in Calls : pc[c] = "opened"})
      = closed + Cardinality({c \in Calls : pc[c] = "closed"})
        + (IF recovering THEN 1 ELSE 0)
        + (IF breaker.state = "CLOSED" THEN 0 ELSE 1)
        + reopened

\* A probe that ends decides the circuit: closed if it succeeded, open again
\* if it failed; it never leaves the circuit half-open (_attempt_provider).
ProbesDecide ==
    [][\A c \in probing : c \notin probing' => breaker'.state # "HALF_OPEN"]_vars

\* A provider whose errors stop is used normally again: its circuit closes
\* time and again without an administrator, unless a probe was lost.
CircuitCloses == []<>(breaker.state = "CLOSED" \/ ~(faulted \subseteq {"append"}))

\* Every call the breaker admitted gets its permit and returns, across
\* semaphore replacements, errors and cancellations of other calls.
AdmittedCallsReturn == \A c \in Calls : pc[c] = "queued" ~> Free(c)
=============================================================================
