------------------------- MODULE ProviderGateProofs -------------------------
(***************************************************************************)
(* The calls of one provider, proved for any number of concurrent calls,   *)
(* any thresholds, limits and faults.                                      *)
(***************************************************************************)
EXTENDS ProviderGate, FiniteSetTheorems, TLAPS

-----------------------------------------------------------------------------
(* What the operations of one breaker keep. *)

\* A breaker is well-formed: typed, closed exactly below the threshold, its
\* probe slots in range.
SoundBreaker(b) ==
    b \in Breaker /\ ClosedIffBelowThreshold(b) /\ ProbeSlotsInRange(b)

\* A new breaker (CircuitBreaker.__init__) is well-formed.
LEMMA NewBreakerSound == SoundBreaker(NewBreaker)
  BY BreakerAssumption
  DEF SoundBreaker, NewBreaker, Breaker, CircuitState, ClosedIffBelowThreshold, ProbeSlotsInRange

\* allow_request keeps a breaker well-formed, whether it admits or refuses.
LEMMA AfterRequestSound ==
  ASSUME NEW b, SoundBreaker(b)
  PROVE  SoundBreaker(AfterRequest(b))
<1> DEFINE h == AfterCooldown(b)
<1>1. /\ h \in Breaker
      /\ ClosedIffBelowThreshold(h)
      /\ h.state = "HALF_OPEN" => h.probes \in 0 .. HalfOpenProbeLimit
      /\ h.state # "HALF_OPEN" => h.probes = 0
      /\ h.state = "HALF_OPEN" /\ h.probes = 0 => 0 < HalfOpenProbeLimit
  <2>1. CASE b.state = "OPEN" /\ b.cooled
    <3>1. h = [state |-> "HALF_OPEN", consecutive_failures |-> b.consecutive_failures,
               probes |-> 0, cooled |-> b.cooled]
      BY <2>1 DEF SoundBreaker, AfterCooldown, Breaker
    <3>2. b.cooled \in BOOLEAN
      BY DEF SoundBreaker, Breaker
    <3> QED
      BY <2>1, <3>1, <3>2, BreakerAssumption
      DEF SoundBreaker, Breaker, CircuitState, ClosedIffBelowThreshold
  <2>2. CASE ~(b.state = "OPEN" /\ b.cooled)
    BY <2>2, BreakerAssumption
    DEF SoundBreaker, AfterCooldown, Breaker, CircuitState,
        ClosedIffBelowThreshold, ProbeSlotsInRange
  <2> QED BY <2>1, <2>2
<1>2. AfterRequest(b) =
        IF h.state = "HALF_OPEN" /\ h.probes < HalfOpenProbeLimit
        THEN [h EXCEPT !.probes = @ + 1] ELSE h
  BY DEF AfterRequest
<1> HIDE DEF h
<1>3. CASE h.state = "HALF_OPEN" /\ h.probes < HalfOpenProbeLimit
  BY <1>1, <1>2, <1>3, BreakerAssumption
  DEF SoundBreaker, Breaker, CircuitState, ClosedIffBelowThreshold, ProbeSlotsInRange
<1>4. CASE ~(h.state = "HALF_OPEN" /\ h.probes < HalfOpenProbeLimit)
  BY <1>1, <1>2, <1>4, BreakerAssumption
  DEF SoundBreaker, Breaker, CircuitState, ClosedIffBelowThreshold, ProbeSlotsInRange
<1> QED BY <1>3, <1>4

\* record_success keeps a breaker well-formed and closes it.
LEMMA RecordSuccessSound ==
  ASSUME NEW b, SoundBreaker(b)
  PROVE  SoundBreaker(RecordSuccess(b)) /\ RecordSuccess(b).state = "CLOSED"
<1>1. b.cooled \in BOOLEAN
  BY DEF SoundBreaker, Breaker
<1> QED
  BY <1>1, BreakerAssumption
  DEF SoundBreaker, RecordSuccess, Breaker, CircuitState, ClosedIffBelowThreshold, ProbeSlotsInRange

\* record_failure keeps a breaker well-formed and never leaves it half-open;
\* if it changes the state, it opens the circuit.
LEMMA RecordFailureSound ==
  ASSUME NEW b, SoundBreaker(b)
  PROVE  /\ SoundBreaker(RecordFailure(b))
         /\ RecordFailure(b).state # "HALF_OPEN"
         /\ RecordFailure(b).state # b.state => RecordFailure(b).state = "OPEN"
  BY BreakerAssumption
  DEF SoundBreaker, RecordFailure, Breaker, CircuitState,
      ClosedIffBelowThreshold, ProbeSlotsInRange

\* The clock keeps a breaker well-formed.
LEMMA CooldownElapsesSound ==
  ASSUME NEW b, SoundBreaker(b)
  PROVE  SoundBreaker(CooldownElapses(b))
  BY DEF SoundBreaker, CooldownElapses, Breaker, CircuitState,
         ClosedIffBelowThreshold, ProbeSlotsInRange

\* An admitted request finds the circuit closed and leaves the breaker alone,
\* or takes a probe slot: the first one of a half-open period that begins
\* with it, or one more of the present period.
LEMMA AdmittedProbe ==
  ASSUME NEW b, SoundBreaker(b), Admits(b)
  PROVE  LET n == AfterRequest(b) IN
         \/ b.state = "CLOSED" /\ n = b
         \/ b.state = "OPEN" /\ n.state = "HALF_OPEN" /\ n.probes = 1
         \/ b.state = "HALF_OPEN" /\ n.state = "HALF_OPEN" /\ n.probes = b.probes + 1
  BY BreakerAssumption
  DEF SoundBreaker, Admits, AfterRequest, AfterCooldown, Breaker, CircuitState,
      ClosedIffBelowThreshold, ProbeSlotsInRange

\* A refused request leaves the breaker as it was.
LEMMA RefusedUnchanged ==
  ASSUME NEW b, SoundBreaker(b), ~Admits(b)
  PROVE  AfterRequest(b) = b
  BY BreakerAssumption
  DEF SoundBreaker, Admits, AfterRequest, AfterCooldown, Breaker, CircuitState,
      ClosedIffBelowThreshold, ProbeSlotsInRange

-----------------------------------------------------------------------------
(* The calls of one provider. *)

\* The inductive invariant: types, a well-formed breaker, probes that are
\* calls without an answer and at most as many as slots taken, and an in-flight
\* counter that misses no outstanding call.
IInv ==
    /\ TypeOK
    /\ SoundBreaker(breaker)
    /\ Cardinality(probing) <= breaker.probes
    /\ probing \subseteq Unanswered
    /\ inflight >= Cardinality(Outstanding)

\* Sets of calls are finite, and adding or removing a call changes their size
\* by at most one.
LEMMA CallSets ==
  ASSUME NEW S, S \subseteq Calls, NEW c \in Calls
  PROVE  /\ IsFiniteSet(S)
         /\ Cardinality(S) \in Nat
         /\ Cardinality(S \cup {c}) = IF c \in S THEN Cardinality(S) ELSE Cardinality(S) + 1
         /\ Cardinality(S \ {c}) = IF c \in S THEN Cardinality(S) - 1 ELSE Cardinality(S)
         /\ c \in S => Cardinality(S) > 0
<1>1. IsFiniteSet(S)
  BY GateAssumption, FS_Subset
<1>2. Cardinality(S) \in Nat
  BY <1>1, FS_CardinalityType
<1>3. c \in S => Cardinality(S) > 0
  BY <1>1, <1>2, FS_EmptySet
<1> QED BY <1>1, <1>2, <1>3, FS_AddElement, FS_RemoveElement

\* The counter after finish_request, when it covered n calls before.
LEMMA FinishCovers ==
  ASSUME NEW i \in Nat, NEW n \in Nat, i >= n
  PROVE  /\ FinishRequest(i) \in Nat
         /\ FinishRequest(i) >= n - 1
  BY DEF FinishRequest

\* The initial state satisfies the invariant.
LEMMA InitIInv == Init => IInv
<1> SUFFICES ASSUME Init PROVE IInv
  OBVIOUS
<1>1. SoundBreaker(breaker)
  BY NewBreakerSound DEF Init
<1>2. TypeOK
  <2>1. limits \in Seq(Nat) /\ limits # <<>> /\ Len(limits) = 1
    BY GateAssumption DEF Init
  <2>2. sem \in [Calls -> Nat] /\ \A c \in Calls : sem[c] \in 1 .. Len(limits)
    BY <2>1 DEF Init
  <2>3. recovering \in BOOLEAN
    BY DEF Init
  <2>4. breaker \in Breaker
    BY <1>1 DEF SoundBreaker
  <2>5. pc \in [Calls -> PC] /\ inflight \in Nat /\ probing \subseteq Calls
        /\ opened \in Nat /\ closed \in Nat /\ reopened \in Nat /\ errors \in Nat
        /\ faulted \subseteq CallFaults
    BY DEF Init, PC
  <2> QED BY <2>1, <2>2, <2>3, <2>4, <2>5 DEF TypeOK
<1>3. Outstanding = {} /\ probing = {}
  BY DEF Init, Outstanding
<1>4. breaker.probes = 0 /\ inflight = 0
  BY DEF Init, NewBreaker
<1> QED BY <1>1, <1>2, <1>3, <1>4, FS_EmptySet DEF IInv

\* Admitting a call: one more outstanding, and a probe slot for each probe.
LEMMA AdmitIInv ==
  ASSUME IInv, NEW c \in Calls, Admit(c)
  PROVE  IInv'
<1>1. SoundBreaker(breaker')
  BY AfterRequestSound DEF IInv, Admit
<1>2. TypeOK'
  <2>1. breaker' \in Breaker
    BY <1>1 DEF SoundBreaker
  <2>2. pc' \in [Calls -> PC] /\ inflight' \in Nat /\ probing' \subseteq Calls
    BY DEF IInv, TypeOK, Admit, PC
  <2>3. sem' \in [Calls -> Nat] /\ \A d \in Calls : sem'[d] \in 1 .. Len(limits)
    BY DEF IInv, TypeOK, Admit
  <2> QED BY <2>1, <2>2, <2>3 DEF IInv, TypeOK, Admit
<1>3. c \notin Outstanding /\ Outstanding' = Outstanding \cup {c}
  BY DEF IInv, TypeOK, Admit, Free, Outstanding, PC
<1>4. Outstanding \subseteq Calls /\ probing \subseteq Calls
  BY DEF IInv, TypeOK, Outstanding
<1>5. inflight' >= Cardinality(Outstanding')
  <2>1. Cardinality(Outstanding') = Cardinality(Outstanding) + 1
    BY <1>3, <1>4, CallSets
  <2>2. Cardinality(Outstanding) \in Nat
    BY <1>4, CallSets
  <2>3. inflight' = inflight + 1 /\ inflight \in Nat /\ inflight >= Cardinality(Outstanding)
    BY DEF IInv, TypeOK, Admit
  <2> QED BY <2>1, <2>2, <2>3
<1>6. probing' \subseteq Unanswered'
  BY DEF IInv, TypeOK, Admit, Unanswered, PC
<1>7. Cardinality(probing') <= breaker'.probes
  <2>1. /\ Cardinality(probing) \in Nat /\ breaker.probes \in Nat
        /\ c \notin probing /\ Cardinality(probing \cup {c}) = Cardinality(probing) + 1
    BY <1>3, <1>4, CallSets DEF IInv, TypeOK, Breaker, Unanswered, Outstanding
  <2>2. \/ breaker.state = "CLOSED" /\ breaker' = breaker
        \/ breaker.state = "OPEN" /\ breaker'.state = "HALF_OPEN" /\ breaker'.probes = 1
        \/ breaker.state = "HALF_OPEN" /\ breaker'.state = "HALF_OPEN"
           /\ breaker'.probes = breaker.probes + 1
    BY AdmittedProbe DEF IInv, Admit
  <2>3. breaker.state # "HALF_OPEN" => breaker.probes = 0
    BY DEF IInv, SoundBreaker, ProbeSlotsInRange
  <2>4. probing' = IF breaker'.state = "HALF_OPEN" THEN probing \cup {c} ELSE probing
    BY DEF Admit
  <2> QED BY <2>1, <2>2, <2>3, <2>4 DEF IInv
<1> QED BY <1>1, <1>2, <1>5, <1>6, <1>7 DEF IInv

\* A refused call changes nothing but its own place.
LEMMA RefuseIInv ==
  ASSUME IInv, NEW c \in Calls, Refuse(c)
  PROVE  IInv'
<1>1. breaker' = breaker
  BY RefusedUnchanged DEF IInv, Refuse
<1>2. Outstanding' = Outstanding /\ Unanswered' = Unanswered
  BY DEF IInv, TypeOK, Refuse, Free, Outstanding, Unanswered, PC
<1>3. TypeOK'
  BY <1>1 DEF IInv, TypeOK, Refuse, PC
<1> QED BY <1>1, <1>2, <1>3 DEF IInv, Refuse

\* A call that gets its permit was and stays outstanding.
LEMMA AcquirePermitIInv ==
  ASSUME IInv, NEW c \in Calls, AcquirePermit(c)
  PROVE  IInv'
<1>1. Outstanding' = Outstanding /\ Unanswered' = Unanswered
  BY DEF IInv, TypeOK, AcquirePermit, Outstanding, Unanswered, PC
<1>2. TypeOK'
  BY DEF IInv, TypeOK, AcquirePermit, PC
<1> QED BY <1>1, <1>2 DEF IInv, AcquirePermit

\* A call that leaves, counted out or not, reporting to the breaker or not:
\* the part of the invariant about sets and counters.
LEMMA LeavingCall ==
  ASSUME IInv, NEW c \in Calls,
         Outstanding' = Outstanding \ {c},
         Unanswered' = Unanswered \ {c},
         probing' = StillProbing(breaker', c),
         breaker'.state = "HALF_OPEN" => breaker' = breaker,
         SoundBreaker(breaker'),
         \/ inflight' = inflight
         \/ c \in Outstanding /\ inflight' = FinishRequest(inflight)
  PROVE  /\ inflight' \in Nat
         /\ inflight' >= Cardinality(Outstanding')
         /\ probing' \subseteq Unanswered'
         /\ probing' \subseteq Calls
         /\ Cardinality(probing') <= breaker'.probes
<1>1. Outstanding \subseteq Calls /\ probing \subseteq Calls /\ inflight \in Nat
  BY DEF IInv, TypeOK, Outstanding
<1>2. inflight' \in Nat /\ inflight' >= Cardinality(Outstanding')
  <2>1. Cardinality(Outstanding) \in Nat /\ inflight >= Cardinality(Outstanding)
    BY <1>1, CallSets DEF IInv
  <2>2. Cardinality(Outstanding') =
          IF c \in Outstanding THEN Cardinality(Outstanding) - 1 ELSE Cardinality(Outstanding)
    BY <1>1, CallSets
  <2>3. CASE inflight' = inflight
    BY <1>1, <2>1, <2>2, <2>3
  <2>4. CASE c \in Outstanding /\ inflight' = FinishRequest(inflight)
    BY <1>1, <2>1, <2>2, <2>4, FinishCovers
  <2> QED BY <2>3, <2>4
<1>3. CASE breaker'.state = "HALF_OPEN"
  <2>1. probing' = probing \ {c} /\ breaker' = breaker
    BY <1>3 DEF StillProbing
  <2>2. Cardinality(probing') <= Cardinality(probing) /\ Cardinality(probing') \in Nat
    <3>1. Cardinality(probing) \in Nat
      BY <1>1, CallSets
    <3>2. Cardinality(probing') \in Nat
      BY <1>1, <2>1, CallSets, probing \ {c} \subseteq Calls
    <3>3. Cardinality(probing') =
            IF c \in probing THEN Cardinality(probing) - 1 ELSE Cardinality(probing)
      BY <1>1, <2>1, CallSets
    <3> QED BY <3>1, <3>2, <3>3
  <2>3. Cardinality(probing) \in Nat /\ breaker.probes \in Nat
    BY <1>1, CallSets DEF IInv, TypeOK, Breaker
  <2> QED BY <1>1, <1>2, <2>1, <2>2, <2>3 DEF IInv
<1>4. CASE breaker'.state # "HALF_OPEN"
  <2>1. probing' = {}
    BY <1>4 DEF StillProbing
  <2>2. breaker'.probes = 0
    BY <1>4 DEF SoundBreaker, ProbeSlotsInRange
  <2> QED BY <1>2, <2>1, <2>2, FS_EmptySet
<1> QED BY <1>3, <1>4

\* A provider error.
LEMMA FailIInv ==
  ASSUME IInv, NEW c \in Calls, Fail(c)
  PROVE  IInv'
<1>1. SoundBreaker(breaker') /\ breaker'.state # "HALF_OPEN"
  BY RecordFailureSound DEF IInv, Fail
<1>2. /\ c \in Outstanding /\ Outstanding' = Outstanding \ {c}
      /\ Unanswered' = Unanswered \ {c}
  BY DEF IInv, TypeOK, Fail, Outstanding, Unanswered, PC
<1>3. /\ inflight' \in Nat /\ inflight' >= Cardinality(Outstanding')
      /\ probing' \subseteq Unanswered' /\ probing' \subseteq Calls
      /\ Cardinality(probing') <= breaker'.probes
  BY <1>1, <1>2, LeavingCall DEF Fail
<1>4. TypeOK'
  BY <1>1, <1>3 DEF IInv, TypeOK, Fail, PC, SoundBreaker
<1> QED BY <1>1, <1>3, <1>4 DEF IInv

\* A success, with or without a transition to announce.
LEMMA SucceedIInv ==
  ASSUME IInv, NEW c \in Calls, Succeed(c)
  PROVE  IInv'
<1>1. SoundBreaker(breaker') /\ breaker'.state = "CLOSED"
  BY RecordSuccessSound DEF IInv, Succeed
<1>2. CASE breaker'.state # breaker.state
  <2>1. Outstanding' = Outstanding /\ inflight' = inflight /\ probing' = {}
    BY <1>1, <1>2 DEF IInv, TypeOK, Succeed, Outstanding, PC, StillProbing
  <2>2. breaker'.probes = 0
    BY <1>1 DEF SoundBreaker, ProbeSlotsInRange
  <2>3. TypeOK'
    BY <1>1, <1>2, <2>1 DEF IInv, TypeOK, Succeed, PC, SoundBreaker
  <2> QED BY <1>1, <2>1, <2>2, <2>3, FS_EmptySet DEF IInv
<1>3. CASE breaker'.state = breaker.state
  <2>1. /\ c \in Outstanding /\ Outstanding' = Outstanding \ {c}
        /\ Unanswered' = Unanswered \ {c}
    BY <1>3 DEF IInv, TypeOK, Succeed, Outstanding, Unanswered, PC
  <2>2. /\ inflight' \in Nat /\ inflight' >= Cardinality(Outstanding')
        /\ probing' \subseteq Unanswered' /\ probing' \subseteq Calls
        /\ Cardinality(probing') <= breaker'.probes
    BY <1>1, <1>3, <2>1, LeavingCall DEF Succeed
  <2>3. TypeOK'
    BY <1>1, <1>3, <2>2 DEF IInv, TypeOK, Succeed, PC, SoundBreaker
  <2> QED BY <1>1, <2>2, <2>3 DEF IInv
<1> QED BY <1>2, <1>3

\* The append of circuit_opened: the call had left already.
LEMMA AppendOpenedIInv ==
  ASSUME IInv, NEW c \in Calls, AppendOpened(c)
  PROVE  IInv'
<1>1. Outstanding' = Outstanding /\ Unanswered' = Unanswered
  BY DEF IInv, TypeOK, AppendOpened, Outstanding, Unanswered, PC
<1>2. TypeOK'
  BY DEF IInv, TypeOK, AppendOpened, PC
<1> QED BY <1>1, <1>2 DEF IInv, AppendOpened

\* The append of circuit_closed, after which the call is counted out.
LEMMA AppendClosedIInv ==
  ASSUME IInv, NEW c \in Calls, AppendClosed(c)
  PROVE  IInv'
<1>1. /\ c \in Outstanding /\ Outstanding' = Outstanding \ {c}
      /\ Unanswered' = Unanswered /\ c \notin Unanswered
  BY DEF IInv, TypeOK, AppendClosed, Outstanding, Unanswered, PC
<1>2. Outstanding \subseteq Calls /\ inflight \in Nat
  BY DEF IInv, TypeOK, Outstanding
<1>3. inflight' \in Nat /\ inflight' >= Cardinality(Outstanding')
  <2>1. Cardinality(Outstanding) \in Nat /\ inflight >= Cardinality(Outstanding)
    BY <1>2, CallSets DEF IInv
  <2>2. Cardinality(Outstanding') = Cardinality(Outstanding) - 1
    BY <1>1, <1>2, CallSets
  <2> QED BY <1>2, <2>1, <2>2, FinishCovers DEF AppendClosed
<1>4. TypeOK'
  BY <1>3 DEF IInv, TypeOK, AppendClosed, PC
<1> QED BY <1>1, <1>3, <1>4 DEF IInv, AppendClosed

\* A failed append: the call leaves and the counter stays.
LEMMA AppendRaisesIInv ==
  ASSUME IInv, NEW c \in Calls, AppendRaises(c)
  PROVE  IInv'
<1>1. Outstanding' = Outstanding \ {c} /\ Unanswered' = Unanswered
  BY DEF IInv, TypeOK, AppendRaises, Outstanding, Unanswered, PC
<1>2. Outstanding \subseteq Calls /\ inflight \in Nat
  BY DEF IInv, TypeOK, Outstanding
<1>3. inflight >= Cardinality(Outstanding')
  <2>1. Cardinality(Outstanding) \in Nat /\ inflight >= Cardinality(Outstanding)
    BY <1>2, CallSets DEF IInv
  <2>2. Cardinality(Outstanding') =
          IF c \in Outstanding THEN Cardinality(Outstanding) - 1 ELSE Cardinality(Outstanding)
    BY <1>1, <1>2, CallSets
  <2> QED BY <1>2, <2>1, <2>2
<1>4. TypeOK'
  BY DEF IInv, TypeOK, AppendRaises, PC
<1> QED BY <1>1, <1>3, <1>4 DEF IInv, AppendRaises

\* An unexpected exception: counted out, the breaker is not told.
LEMMA RaiseUnexpectedIInv ==
  ASSUME IInv, NEW c \in Calls, RaiseUnexpected(c)
  PROVE  IInv'
<1>1. /\ c \in Outstanding /\ Outstanding' = Outstanding \ {c}
      /\ Unanswered' = Unanswered \ {c}
  BY DEF IInv, TypeOK, RaiseUnexpected, Outstanding, Unanswered, PC
<1>2. SoundBreaker(breaker') /\ breaker' = breaker
  BY DEF IInv, RaiseUnexpected
<1>3. /\ inflight' \in Nat /\ inflight' >= Cardinality(Outstanding')
      /\ probing' \subseteq Unanswered' /\ probing' \subseteq Calls
      /\ Cardinality(probing') <= breaker'.probes
  BY <1>1, <1>2, LeavingCall DEF RaiseUnexpected
<1>4. TypeOK'
  BY <1>2, <1>3 DEF IInv, TypeOK, RaiseUnexpected, PC
<1> QED BY <1>2, <1>3, <1>4 DEF IInv

\* A cancelled call: neither counted out nor reported.
LEMMA CancelIInv ==
  ASSUME IInv, NEW c \in Calls, Cancel(c)
  PROVE  IInv'
<1>1. Outstanding' = Outstanding \ {c} /\ Unanswered' = Unanswered \ {c}
  BY DEF IInv, TypeOK, Cancel, Outstanding, Unanswered, PC
<1>2. SoundBreaker(breaker') /\ breaker' = breaker /\ inflight' = inflight
  BY DEF IInv, Cancel
<1>3. /\ inflight' \in Nat /\ inflight' >= Cardinality(Outstanding')
      /\ probing' \subseteq Unanswered' /\ probing' \subseteq Calls
      /\ Cardinality(probing') <= breaker'.probes
  BY <1>1, <1>2, LeavingCall DEF Cancel
<1>4. TypeOK'
  BY <1>2, <1>3 DEF IInv, TypeOK, Cancel, PC
<1> QED BY <1>2, <1>3, <1>4 DEF IInv

\* The administrator's steps, the clock and a new semaphore.
LEMMA EnvironmentIInv ==
  ASSUME IInv,
         \/ AdminRecover \/ AdminAppendClosed \/ AdminAppendRaises
         \/ \E n \in NewLimits : SetProviderConcurrency(n)
         \/ Clock
  PROVE  IInv'
<1>1. CASE AdminRecover
  <2>1. SoundBreaker(breaker') /\ breaker'.state = "CLOSED"
    BY <1>1, RecordSuccessSound DEF IInv, AdminRecover
  <2>2. breaker'.probes = 0 /\ breaker' \in Breaker
    BY <2>1 DEF SoundBreaker, ProbeSlotsInRange
  <2>3. Outstanding' = Outstanding /\ probing' = {} /\ recovering' \in BOOLEAN
    BY <1>1 DEF AdminRecover, Outstanding
  <2>4. TypeOK'
    BY <1>1, <2>2, <2>3 DEF IInv, TypeOK, AdminRecover
  <2> QED BY <1>1, <2>1, <2>2, <2>3, <2>4, FS_EmptySet DEF IInv, AdminRecover
<1>2. CASE AdminAppendClosed \/ AdminAppendRaises
  <2>1. Outstanding' = Outstanding /\ Unanswered' = Unanswered
    BY <1>2 DEF AdminAppendClosed, AdminAppendRaises, Outstanding, Unanswered
  <2>2. TypeOK'
    <3>1. recovering' \in BOOLEAN
      BY <1>2 DEF AdminAppendClosed, AdminAppendRaises
    <3>2. closed' \in Nat /\ errors' \in Nat
      BY <1>2 DEF IInv, TypeOK, AdminAppendClosed, AdminAppendRaises
    <3> QED BY <1>2, <3>1, <3>2 DEF IInv, TypeOK, AdminAppendClosed, AdminAppendRaises
  <2> QED BY <1>2, <2>1, <2>2 DEF IInv, AdminAppendClosed, AdminAppendRaises
<1>3. CASE \E n \in NewLimits : SetProviderConcurrency(n)
  <2>1. PICK n \in NewLimits : SetProviderConcurrency(n)
    BY <1>3
  <2>2. Outstanding' = Outstanding /\ Unanswered' = Unanswered
    BY <2>1 DEF SetProviderConcurrency, Outstanding, Unanswered
  <2>3. limits' \in Seq(Nat) /\ limits' # <<>> /\ Len(limits') = Len(limits) + 1
    <3>1. limits \in Seq(Nat) /\ n \in Nat /\ limits' = Append(limits, n)
      BY <2>1, GateAssumption DEF IInv, TypeOK, SetProviderConcurrency
    <3> QED BY <3>1
  <2>4. sem' = sem /\ \A c \in Calls : sem'[c] \in 1 .. Len(limits')
    BY <2>1, <2>3 DEF IInv, TypeOK, SetProviderConcurrency
  <2>5. TypeOK'
    BY <2>1, <2>3, <2>4 DEF IInv, TypeOK, SetProviderConcurrency
  <2> QED BY <2>1, <2>2, <2>5 DEF IInv, SetProviderConcurrency
<1>4. CASE Clock
  <2>1. SoundBreaker(breaker') /\ breaker'.probes = breaker.probes
    BY <1>4, CooldownElapsesSound DEF IInv, TypeOK, Breaker, Clock, CooldownElapses
  <2>2. Outstanding' = Outstanding /\ Unanswered' = Unanswered
    BY <1>4 DEF Clock, Outstanding, Unanswered
  <2>3. breaker' \in Breaker
    BY <2>1 DEF SoundBreaker
  <2>4. TypeOK'
    BY <1>4, <2>3 DEF IInv, TypeOK, Clock
  <2> QED BY <1>4, <2>1, <2>2, <2>4 DEF IInv, Clock
<1> QED BY <1>1, <1>2, <1>3, <1>4

\* Every step keeps the invariant.
LEMMA NextIInv == IInv /\ [Next]_vars => IInv'
<1> SUFFICES ASSUME IInv, [Next]_vars PROVE IInv'
  OBVIOUS
<1>1. CASE UNCHANGED vars
  BY <1>1 DEF IInv, TypeOK, vars, Outstanding, Unanswered
<1>2. CASE \E c \in Calls : \/ Admit(c) \/ Refuse(c) \/ AcquirePermit(c)
                             \/ Fail(c) \/ Succeed(c)
                             \/ AppendOpened(c) \/ AppendClosed(c) \/ AppendRaises(c)
                             \/ RaiseUnexpected(c) \/ Cancel(c)
  BY <1>2, AdmitIInv, RefuseIInv, AcquirePermitIInv, FailIInv, SucceedIInv,
     AppendOpenedIInv, AppendClosedIInv, AppendRaisesIInv, RaiseUnexpectedIInv, CancelIInv
<1>3. CASE \/ AdminRecover \/ AdminAppendClosed \/ AdminAppendRaises
           \/ \E n \in NewLimits : SetProviderConcurrency(n)
           \/ Clock
  BY <1>3, EnvironmentIInv
<1> QED BY <1>1, <1>2, <1>3 DEF Next

\* The invariant holds throughout every behaviour.
THEOREM GateInvariant == Spec => []IInv
<1> QED BY InitIInv, NextIInv, PTL DEF Spec

\* Every reachable state of the calls of one provider is well-typed.
THEOREM GateTypeCorrect == Spec => []TypeOK
<1>1. IInv => TypeOK
  BY DEF IInv
<1> QED BY <1>1, GateInvariant, PTL

\* However concurrent, late and probing calls report, and whatever faults
\* strike, the circuit is closed exactly while the run of failures is below
\* failure_threshold (record_success, record_failure).
THEOREM GateCircuitFollowsFailures == Spec => []CircuitFollowsFailures
<1>1. IInv => CircuitFollowsFailures
  BY DEF IInv, SoundBreaker, CircuitFollowsFailures
<1> QED BY <1>1, GateInvariant, PTL

-----------------------------------------------------------------------------
(* What is exact until a fault of some kind. *)

Exact ==
    /\ faulted \subseteq {"unexpected"} => inflight = Cardinality(Outstanding)
    /\ faulted \subseteq {"append"} => Cardinality(probing) = breaker.probes

\* The sizes of the invariant's sets are numbers.
LEMMA Sizes ==
  ASSUME IInv
  PROVE  /\ Cardinality(Outstanding) \in Nat /\ Cardinality(probing) \in Nat
         /\ inflight \in Nat /\ breaker.probes \in Nat
         /\ breaker.state # "HALF_OPEN" => Cardinality(probing) = breaker.probes
<1>1. Outstanding \subseteq Calls /\ probing \subseteq Calls
  BY DEF IInv, TypeOK, Outstanding
<1>2. Cardinality(Outstanding) \in Nat /\ Cardinality(probing) \in Nat
  BY <1>1, GateAssumption, FS_Subset, FS_CardinalityType
<1>3. inflight \in Nat /\ breaker.probes \in Nat
  BY DEF IInv, TypeOK, Breaker
<1>4. breaker.state # "HALF_OPEN" => breaker.probes = 0 /\ Cardinality(probing) <= 0
  BY DEF IInv, SoundBreaker, ProbeSlotsInRange
<1> QED BY <1>2, <1>3, <1>4

\* An admitted call is counted, and has a slot of its own if it is a probe.
LEMMA AdmitExact ==
  ASSUME IInv, Exact, NEW c \in Calls, Admit(c)
  PROVE  Exact'
<1>1. c \notin Outstanding /\ c \notin probing /\ Outstanding' = Outstanding \cup {c}
  BY DEF IInv, TypeOK, Admit, Free, Outstanding, Unanswered, PC
<1>2. /\ Cardinality(Outstanding \cup {c}) = Cardinality(Outstanding) + 1
      /\ Cardinality(probing \cup {c}) = Cardinality(probing) + 1
  BY <1>1, CallSets DEF IInv, TypeOK, Outstanding
<1>3. \/ breaker.state = "CLOSED" /\ breaker' = breaker
      \/ breaker.state = "OPEN" /\ breaker'.state = "HALF_OPEN" /\ breaker'.probes = 1
      \/ breaker.state = "HALF_OPEN" /\ breaker'.state = "HALF_OPEN"
         /\ breaker'.probes = breaker.probes + 1
  BY AdmittedProbe DEF IInv, Admit
<1>4. breaker.state # "HALF_OPEN" => breaker.probes = 0
  BY DEF IInv, SoundBreaker, ProbeSlotsInRange
<1>5. faulted' \subseteq {"unexpected"} => inflight' = Cardinality(Outstanding')
  BY <1>1, <1>2 DEF Exact, Admit
<1>6. faulted' \subseteq {"append"} => Cardinality(probing') = breaker'.probes
  BY <1>2, <1>3, <1>4, Sizes DEF Exact, Admit
<1> QED BY <1>5, <1>6 DEF Exact

\* A call that is counted out was counted.
LEMMA CountedOut ==
  ASSUME IInv, Exact, NEW c \in Outstanding,
         Outstanding' = Outstanding \ {c}, inflight' = FinishRequest(inflight),
         faulted \subseteq {"unexpected"}
  PROVE  inflight' = Cardinality(Outstanding')
<1>1. Outstanding \subseteq Calls
  BY DEF Outstanding
<1>2. Cardinality(Outstanding') = Cardinality(Outstanding) - 1 /\ Cardinality(Outstanding) > 0
  BY <1>1, CallSets
<1> QED BY <1>2, Sizes DEF Exact, FinishRequest

\* A call that reports leaves no half-open period behind.
LEMMA ReportExact ==
  ASSUME IInv, IInv', Exact, NEW c \in Calls, Fail(c) \/ Succeed(c)
  PROVE  Exact'
<1>1. breaker'.state # "HALF_OPEN"
  BY RecordFailureSound, RecordSuccessSound DEF IInv, Fail, Succeed
<1>2. Cardinality(probing') = breaker'.probes
  <2>1. breaker'.probes = 0 /\ Cardinality(probing') <= 0 /\ probing' \subseteq Calls
    BY <1>1 DEF IInv, TypeOK, SoundBreaker, ProbeSlotsInRange
  <2>2. Cardinality(probing') \in Nat
    BY <2>1, GateAssumption, FS_Subset, FS_CardinalityType
  <2> QED BY <2>1, <2>2
<1>3. ASSUME faulted' \subseteq {"unexpected"} PROVE inflight' = Cardinality(Outstanding')
  <2>1. \/ inflight' = inflight /\ Outstanding' = Outstanding
        \/ /\ c \in Outstanding /\ Outstanding' = Outstanding \ {c}
           /\ inflight' = FinishRequest(inflight)
    BY DEF IInv, TypeOK, Fail, Succeed, Outstanding, PC
  <2>2. faulted \subseteq {"unexpected"}
    BY <1>3 DEF Fail, Succeed
  <2> QED BY <2>1, <2>2, CountedOut DEF Exact
<1> QED BY <1>2, <1>3 DEF Exact

\* Every step keeps what is exact.
LEMMA NextExact == IInv /\ IInv' /\ Exact /\ [Next]_vars => Exact'
<1> SUFFICES ASSUME IInv, IInv', Exact, [Next]_vars PROVE Exact'
  OBVIOUS
<1>1. CASE \E c \in Calls : Admit(c)
  BY <1>1, AdmitExact
<1>2. CASE \E c \in Calls : Fail(c) \/ Succeed(c)
  BY <1>2, ReportExact
<1>3. ASSUME NEW c \in Calls, Refuse(c) \/ AcquirePermit(c) \/ AppendOpened(c) PROVE Exact'
  <2>1. Outstanding' = Outstanding
    BY <1>3 DEF IInv, TypeOK, Refuse, AcquirePermit, AppendOpened, Free, Outstanding, PC
  <2>2. breaker' = breaker
    BY <1>3, RefusedUnchanged DEF IInv, Refuse, AcquirePermit, AppendOpened
  <2> QED BY <1>3, <2>1, <2>2 DEF Exact, Refuse, AcquirePermit, AppendOpened
<1>4. ASSUME NEW c \in Calls, AppendClosed(c) \/ RaiseUnexpected(c) PROVE Exact'
  <2>1. c \in Outstanding /\ Outstanding' = Outstanding \ {c} /\ inflight' = FinishRequest(inflight)
    BY <1>4 DEF IInv, TypeOK, AppendClosed, RaiseUnexpected, Outstanding, PC
  <2>2. faulted \subseteq faulted'
    BY <1>4 DEF AppendClosed, RaiseUnexpected
  <2>3. faulted' \subseteq {"append"} => Cardinality(probing') = breaker'.probes
    BY <1>4 DEF Exact, AppendClosed, RaiseUnexpected
  <2>4. faulted' \subseteq {"unexpected"} => inflight' = Cardinality(Outstanding')
    BY <2>1, <2>2, CountedOut
  <2> QED BY <2>3, <2>4 DEF Exact
<1>5. CASE \E c \in Calls : AppendRaises(c) \/ Cancel(c)
  BY <1>5 DEF Exact, AppendRaises, Cancel
<1>6. CASE AdminRecover
  <2>1. breaker'.state = "CLOSED" /\ breaker'.probes = 0
    BY <1>6 DEF AdminRecover, RecordSuccess
  <2>2. probing' = {} /\ Outstanding' = Outstanding
    BY <1>6 DEF AdminRecover, Outstanding
  <2> QED BY <1>6, <2>1, <2>2, FS_EmptySet DEF Exact, AdminRecover
<1>7. CASE \/ AdminAppendClosed \/ AdminAppendRaises \/ UNCHANGED vars
           \/ \E n \in NewLimits : SetProviderConcurrency(n)
  <2>1. /\ Outstanding' = Outstanding /\ inflight' = inflight /\ probing' = probing
        /\ breaker' = breaker /\ faulted \subseteq faulted'
    BY <1>7 DEF AdminAppendClosed, AdminAppendRaises, SetProviderConcurrency, vars, Outstanding
  <2> QED BY <2>1 DEF Exact
<1>8. CASE Clock
  <2>1. breaker'.probes = breaker.probes
    BY <1>8 DEF IInv, TypeOK, Breaker, Clock, CooldownElapses
  <2>2. Outstanding' = Outstanding
    BY <1>8 DEF Clock, Outstanding
  <2> QED BY <1>8, <2>1, <2>2 DEF Exact, Clock
<1> QED BY <1>1, <1>2, <1>3, <1>4, <1>5, <1>6, <1>7, <1>8 DEF Next

\* No slot is taken at first.
LEMMA InitExact == Init => Exact
<1> SUFFICES ASSUME Init PROVE Exact
  OBVIOUS
<1>1. Outstanding = {} /\ probing = {} /\ breaker.probes = 0 /\ inflight = 0
  BY DEF Init, Outstanding, NewBreaker
<1> QED BY <1>1, FS_EmptySet DEF Exact

\* Slots and probes agree until a call is lost.
LEMMA GateExact == Spec => []Exact
  BY InitExact, NextExact, GateInvariant, PTL DEF Spec

\* A half-open circuit never has more unanswered probes than slots taken, nor
\* more slots than half_open_probe_limit (allow_request), and no slot is lost
\* until a call ends without reporting (_attempt_provider).
THEOREM GateProbeSlotsHeld == Spec => []ProbeSlotsHeld
<1>1. IInv /\ Exact => ProbeSlotsHeld
  BY DEF IInv, Exact, SoundBreaker, ProbeSlotsHeld
<1> QED BY <1>1, GateInvariant, GateExact, PTL

\* The in-flight counter never misses an outstanding call, whatever faults
\* strike, and is exact until a call is cancelled or an append fails
\* (start_request, finish_request).
THEOREM GateInflightExact == Spec => []InflightExact
<1>1. IInv /\ Exact => InflightExact
  BY DEF IInv, Exact, InflightExact
<1> QED BY <1>1, GateInvariant, GateExact, PTL

-----------------------------------------------------------------------------
(* Circuit events and transitions. *)

Opening == {c \in Calls : pc[c] = "opened"}
Closing == {c \in Calls : pc[c] = "closed"}
Recoveries == IF recovering THEN 1 ELSE 0
NotClosed == IF breaker.state = "CLOSED" THEN 0 ELSE 1

\* As many openings as closings, apart from those of a half-open circuit, and
\* one more while the circuit is not closed.
Paired ==
    opened + Cardinality(Opening)
      = closed + Cardinality(Closing) + Recoveries + NotClosed + reopened

\* The counts of events and of calls about to append one are numbers.
LEMMA EventSizes ==
  ASSUME TypeOK
  PROVE  /\ opened \in Nat
         /\ closed \in Nat
         /\ Cardinality(Opening) \in Nat
         /\ Cardinality(Closing) \in Nat
         /\ Recoveries \in Nat
         /\ NotClosed \in Nat
         /\ reopened \in Nat
<1>1. Opening \subseteq Calls /\ Closing \subseteq Calls
  BY DEF Opening, Closing
<1>2. Cardinality(Opening) \in Nat /\ Cardinality(Closing) \in Nat
  BY <1>1, GateAssumption, FS_Subset, FS_CardinalityType
<1> QED
  BY <1>2 DEF TypeOK, Recoveries, NotClosed

\* How a move of one call changes who is about to append an event.
LEMMA EventsOf ==
  ASSUME TypeOK, NEW c \in Calls, NEW where \in PC, pc' = [pc EXCEPT ![c] = where]
  PROVE  /\ pc[c] # "opened" /\ where # "opened" => Opening' = Opening
         /\ pc[c] # "opened" /\ where = "opened"
              => Cardinality(Opening') = Cardinality(Opening) + 1
         /\ pc[c] = "opened" /\ where # "opened"
              => Cardinality(Opening') = Cardinality(Opening) - 1
         /\ pc[c] # "closed" /\ where # "closed" => Closing' = Closing
         /\ pc[c] # "closed" /\ where = "closed"
              => Cardinality(Closing') = Cardinality(Closing) + 1
         /\ pc[c] = "closed" /\ where # "closed"
              => Cardinality(Closing') = Cardinality(Closing) - 1
<1>1. Opening \subseteq Calls /\ Closing \subseteq Calls
  BY DEF Opening, Closing
<1>2. /\ c \in Opening <=> pc[c] = "opened"
      /\ c \in Closing <=> pc[c] = "closed"
  BY DEF Opening, Closing
<1>3. Opening' = IF where = "opened" THEN Opening \cup {c} ELSE Opening \ {c}
  BY DEF Opening, TypeOK
<1>4. Closing' = IF where = "closed" THEN Closing \cup {c} ELSE Closing \ {c}
  BY DEF Closing, TypeOK
<1>5. /\ pc[c] # "opened" => Cardinality(Opening \cup {c}) = Cardinality(Opening) + 1
      /\ pc[c] = "opened" => Cardinality(Opening \ {c}) = Cardinality(Opening) - 1
  BY <1>1, <1>2, CallSets
<1>6. /\ pc[c] # "closed" => Cardinality(Closing \cup {c}) = Cardinality(Closing) + 1
      /\ pc[c] = "closed" => Cardinality(Closing \ {c}) = Cardinality(Closing) - 1
  BY <1>1, <1>2, CallSets
<1>7. pc[c] # "opened" /\ where # "opened" => Opening' = Opening
  BY <1>2, <1>3
<1>8. pc[c] # "closed" /\ where # "closed" => Closing' = Closing
  BY <1>2, <1>4
<1> QED
  BY <1>3, <1>4, <1>5, <1>6, <1>7, <1>8

\* A step of a call that neither owes nor announces an event.
LEMMA QuietCall ==
  ASSUME IInv, Paired, NEW c \in Calls, NEW where \in PC,
         pc' = [pc EXCEPT ![c] = where],
         pc[c] \notin {"opened", "closed"}, where \notin {"opened", "closed"},
         UNCHANGED <<opened, closed, recovering, reopened>>,
         breaker'.state = "CLOSED" <=> breaker.state = "CLOSED"
  PROVE  Paired'
<1>0. /\ TypeOK
      /\ opened \in Nat
      /\ closed \in Nat
      /\ Cardinality(Opening) \in Nat
      /\ Cardinality(Closing) \in Nat
      /\ Recoveries \in Nat
      /\ NotClosed \in Nat
      /\ reopened \in Nat
  BY EventSizes DEF IInv
<1>1. Opening' = Opening /\ Closing' = Closing
  BY <1>0, EventsOf
<1>2. Recoveries' = Recoveries /\ NotClosed' = NotClosed
  BY DEF Recoveries, NotClosed
<1> QED
  BY <1>1, <1>2 DEF Paired

\* Admission and refusal append no event.
LEMMA AdmitPaired ==
  ASSUME IInv, Paired, NEW c \in Calls, Admit(c) \/ Refuse(c) \/ AcquirePermit(c)
  PROVE  Paired'
<1>1. pc[c] \notin {"opened", "closed"}
  BY DEF Admit, Refuse, AcquirePermit, Free
<1>2. UNCHANGED <<opened, closed, recovering, reopened>>
  BY DEF Admit, Refuse, AcquirePermit
<1>3. \E where \in PC \ {"opened", "closed"} : pc' = [pc EXCEPT ![c] = where]
  BY DEF Admit, Refuse, AcquirePermit, PC
<1>4. breaker'.state = "CLOSED" <=> breaker.state = "CLOSED"
  <2>1. CASE Admit(c)
    BY <2>1, AdmittedProbe DEF IInv, Admit
  <2>2. CASE Refuse(c) \/ AcquirePermit(c)
    BY <2>2, RefusedUnchanged DEF IInv, Refuse, AcquirePermit
  <2> QED
    BY <2>1, <2>2
<1> QED
  BY <1>1, <1>2, <1>3, <1>4, QuietCall

\* A failure that opens the circuit is about to say so.
LEMMA FailPaired ==
  ASSUME IInv, Paired, NEW c \in Calls, Fail(c)
  PROVE  Paired'
<1>0. /\ TypeOK
      /\ opened \in Nat
      /\ closed \in Nat
      /\ Cardinality(Opening) \in Nat
      /\ Cardinality(Closing) \in Nat
      /\ Recoveries \in Nat
      /\ NotClosed \in Nat
      /\ reopened \in Nat
  BY EventSizes DEF IInv
<1>1. "opened" \in PC /\ "idle" \in PC /\ pc[c] = "calling"
  BY DEF Fail, PC
<1>2. /\ breaker'.state # breaker.state => breaker'.state = "OPEN"
      /\ breaker'.state # "HALF_OPEN"
      /\ breaker.state \in {"CLOSED", "OPEN", "HALF_OPEN"}
  BY RecordFailureSound DEF IInv, Fail, TypeOK, Breaker, CircuitState
<1>3. opened' = opened /\ closed' = closed /\ Recoveries' = Recoveries
  BY DEF Fail, Recoveries
<1>4. CASE breaker'.state # breaker.state
  <2>1. pc' = [pc EXCEPT ![c] = "opened"]
    BY <1>4 DEF Fail
  <2>2. Cardinality(Opening') = Cardinality(Opening) + 1 /\ Closing' = Closing
    BY <1>0, <1>1, <2>1, EventsOf
  <2>3. NotClosed' = 1 /\ reopened' = reopened + NotClosed
    BY <1>2, <1>4 DEF Fail, NotClosed
  <2> QED
    BY <1>0, <1>3, <2>2, <2>3 DEF Paired
<1>5. CASE breaker'.state = breaker.state
  <2>1. pc' = [pc EXCEPT ![c] = "idle"]
    BY <1>5 DEF Fail
  <2>2. reopened' = reopened
    BY <1>0, <1>2, <1>5 DEF Fail
  <2> QED
    BY <1>1, <1>5, <2>1, <2>2, QuietCall DEF Fail
<1> QED
  BY <1>4, <1>5

\* A success that closes the circuit is about to say so.
LEMMA SucceedPaired ==
  ASSUME IInv, Paired, NEW c \in Calls, Succeed(c)
  PROVE  Paired'
<1>0. /\ TypeOK
      /\ opened \in Nat
      /\ closed \in Nat
      /\ Cardinality(Opening) \in Nat
      /\ Cardinality(Closing) \in Nat
      /\ Recoveries \in Nat
      /\ NotClosed \in Nat
      /\ reopened \in Nat
  BY EventSizes DEF IInv
<1>1. "closed" \in PC /\ "idle" \in PC /\ pc[c] = "calling"
  BY DEF Succeed, PC
<1>2. breaker'.state = "CLOSED"
  BY RecordSuccessSound DEF IInv, Succeed
<1>3. opened' = opened /\ closed' = closed /\ Recoveries' = Recoveries /\ reopened' = reopened
  BY DEF Succeed, Recoveries
<1>4. CASE breaker'.state # breaker.state
  <2>1. pc' = [pc EXCEPT ![c] = "closed"]
    BY <1>4 DEF Succeed
  <2>2. Opening' = Opening /\ Cardinality(Closing') = Cardinality(Closing) + 1
    BY <1>0, <1>1, <2>1, EventsOf
  <2>3. NotClosed' = 0 /\ NotClosed = 1
    BY <1>2, <1>4 DEF NotClosed
  <2> QED
    BY <1>0, <1>3, <2>2, <2>3 DEF Paired
<1>5. CASE breaker'.state = breaker.state
  <2>1. pc' = [pc EXCEPT ![c] = "idle"]
    BY <1>5 DEF Succeed
  <2> QED
    BY <1>1, <1>5, <2>1, QuietCall DEF Succeed
<1> QED
  BY <1>4, <1>5

\* The event appended is the one that was due.
LEMMA AppendPaired ==
  ASSUME IInv, Paired, NEW c \in Calls, AppendOpened(c) \/ AppendClosed(c)
  PROVE  Paired'
<1>0. /\ TypeOK
      /\ opened \in Nat
      /\ closed \in Nat
      /\ Cardinality(Opening) \in Nat
      /\ Cardinality(Closing) \in Nat
      /\ Recoveries \in Nat
      /\ NotClosed \in Nat
      /\ reopened \in Nat
  BY EventSizes DEF IInv
<1>1. "idle" \in PC /\ pc' = [pc EXCEPT ![c] = "idle"]
  BY DEF AppendOpened, AppendClosed, PC
<1>2. Recoveries' = Recoveries /\ NotClosed' = NotClosed /\ reopened' = reopened
  BY DEF AppendOpened, AppendClosed, Recoveries, NotClosed
<1>3. CASE AppendOpened(c)
  <2>1. pc[c] = "opened" /\ opened' = opened + 1 /\ closed' = closed
    BY <1>3 DEF AppendOpened
  <2>2. Cardinality(Opening') = Cardinality(Opening) - 1 /\ Closing' = Closing
    BY <1>1, <2>1, <1>0, EventsOf
  <2> QED
    BY <1>2, <2>1, <2>2, <1>0 DEF Paired
<1>4. CASE AppendClosed(c)
  <2>1. pc[c] = "closed" /\ opened' = opened /\ closed' = closed + 1
    BY <1>4 DEF AppendClosed
  <2>2. Opening' = Opening /\ Cardinality(Closing') = Cardinality(Closing) - 1
    BY <1>1, <2>1, <1>0, EventsOf
  <2> QED
    BY <1>2, <2>1, <2>2, <1>0 DEF Paired
<1> QED
  BY <1>3, <1>4

\* The administrator's recovery takes a transition to announce or none.
LEMMA AdminPaired ==
  ASSUME IInv, Paired, AdminRecover \/ AdminAppendClosed
  PROVE  Paired'
<1>0. /\ TypeOK
      /\ opened \in Nat
      /\ closed \in Nat
      /\ Cardinality(Opening) \in Nat
      /\ Cardinality(Closing) \in Nat
      /\ Recoveries \in Nat
      /\ NotClosed \in Nat
      /\ reopened \in Nat
  BY EventSizes DEF IInv
<1>1. Opening' = Opening /\ Closing' = Closing /\ opened' = opened /\ reopened' = reopened
  BY DEF AdminRecover, AdminAppendClosed, Opening, Closing
<1>2. CASE AdminRecover
  <2>1. breaker'.state = "CLOSED"
    BY <1>2, RecordSuccessSound DEF IInv, AdminRecover
  <2>2. ~recovering /\ (recovering' <=> breaker'.state # breaker.state) /\ closed' = closed
    BY <1>2, Zenon DEF AdminRecover
  <2>3. Recoveries = 0 /\ NotClosed' = 0
    BY <2>1, <2>2 DEF Recoveries, NotClosed
  <2>4. Recoveries' = NotClosed
    BY <2>1, <2>2 DEF Recoveries, NotClosed
  <2> QED
    BY <1>0, <1>1, <2>2, <2>3, <2>4 DEF Paired
<1>3. CASE AdminAppendClosed
  <2>1. Recoveries = 1 /\ Recoveries' = 0 /\ closed' = closed + 1 /\ NotClosed' = NotClosed
    BY <1>3 DEF AdminAppendClosed, Recoveries, NotClosed
  <2> QED
    BY <1>1, <2>1, <1>0 DEF Paired
<1> QED
  BY <1>2, <1>3

PairedUntilLost == faulted \subseteq {"unexpected"} => Paired

\* Every step keeps the events paired until one is lost.
LEMMA NextPaired == IInv /\ PairedUntilLost /\ [Next]_vars => PairedUntilLost'
<1> SUFFICES ASSUME IInv, PairedUntilLost, [Next]_vars, faulted' \subseteq {"unexpected"}
             PROVE  Paired'
  BY DEF PairedUntilLost
<1>1. ASSUME NEW c \in Calls,
             \/ Admit(c) \/ Refuse(c) \/ AcquirePermit(c) \/ Fail(c) \/ Succeed(c)
             \/ AppendOpened(c) \/ AppendClosed(c)
      PROVE  Paired'
  <2>1. Paired
    BY <1>1 DEF PairedUntilLost, Admit, Refuse, AcquirePermit, Fail, Succeed,
                AppendOpened, AppendClosed
  <2> QED
    BY <1>1, <2>1, AdmitPaired, FailPaired, SucceedPaired, AppendPaired
<1>2. ASSUME NEW c \in Calls, RaiseUnexpected(c) PROVE Paired'
  <2>1. Paired
    BY <1>2 DEF PairedUntilLost, RaiseUnexpected
  <2>2. /\ pc[c] = "calling"
        /\ pc' = [pc EXCEPT ![c] = "idle"]
        /\ UNCHANGED <<breaker, opened, closed, recovering, reopened>>
        /\ "idle" \in PC
    BY <1>2 DEF RaiseUnexpected, PC
  <2> QED
    BY <2>1, <2>2, QuietCall
<1>3. ~ \E c \in Calls : AppendRaises(c) \/ Cancel(c)
  BY DEF AppendRaises, Cancel
<1>4. ~AdminAppendRaises
  BY DEF AdminAppendRaises
<1>5. CASE AdminRecover \/ AdminAppendClosed
  <2>1. Paired
    BY <1>5 DEF PairedUntilLost, AdminRecover, AdminAppendClosed
  <2> QED
    BY <1>5, <2>1, AdminPaired
<1>6. CASE (\E n \in NewLimits : SetProviderConcurrency(n)) \/ Clock \/ UNCHANGED vars
  <2>1. UNCHANGED <<pc, opened, closed, recovering, reopened, faulted>>
    BY <1>6 DEF SetProviderConcurrency, Clock, vars
  <2>2. breaker'.state = breaker.state
    BY <1>6 DEF IInv, TypeOK, Breaker, SetProviderConcurrency, Clock, CooldownElapses, vars
  <2>3. Opening' = Opening /\ Closing' = Closing /\ Recoveries' = Recoveries
    BY <2>1 DEF Opening, Closing, Recoveries
  <2>4. NotClosed' = NotClosed
    BY <2>2 DEF NotClosed
  <2> QED
    BY <2>1, <2>3, <2>4 DEF PairedUntilLost, Paired
<1> QED
  BY <1>1, <1>2, <1>3, <1>4, <1>5, <1>6 DEF Next

\* A closed circuit owes no event.
LEMMA InitPaired == Init => PairedUntilLost
<1> SUFFICES ASSUME Init PROVE Paired
  BY DEF PairedUntilLost
<1>1. Opening = {} /\ Closing = {}
  BY DEF Init, Opening, Closing
<1>2. Recoveries = 0 /\ NotClosed = 0 /\ opened = 0 /\ closed = 0 /\ reopened = 0
  BY DEF Init, NewBreaker, Recoveries, NotClosed
<1> QED
  BY <1>1, <1>2, FS_EmptySet DEF Paired

\* circuit_opened and circuit_closed events pair up with the transitions,
\* whoever makes them and in whatever order the appends return, until an append
\* fails or is cancelled (_record_circuit_transition).
THEOREM GateEventsPaired == Spec => []EventsPaired
<1>1. PairedUntilLost => EventsPaired
  BY DEF PairedUntilLost, Paired, EventsPaired, Opening, Closing, Recoveries, NotClosed
<1> QED
  BY <1>1, InitPaired, NextPaired, GateInvariant, PTL DEF Spec
=============================================================================
