------------------------ MODULE PaymentServiceProofs ------------------------
(***************************************************************************)
(* PaymentService.create, proved for any requests, keys, data, providers,  *)
(* retry and circuit parameters, and every combination of faults.          *)
(***************************************************************************)
EXTENDS PaymentService, SequenceTheorems, TLAPS

\* What a request on its way is working on: it has a candidate while it calls
\* providers, and a terminal status when it saves.
WorkInProgress ==
    \A r \in Requests :
      /\ pc[r] \in {"attempt", "calling"} => work[r].cands # <<>>
      /\ pc[r] \in {"save", "complete"} => work[r].status \in {"SUCCEEDED", "FAILED"}
      /\ pc[r] = "save" /\ work[r].status = "SUCCEEDED" => work[r].cands # <<>>

\* Types, with what they need to be inductive.
TypeInv ==
    /\ TypeOK
    /\ WorkInProgress

-----------------------------------------------------------------------------
(* Types. *)

\* What allow_request, record_success, record_failure and the clock leave is a
\* breaker (ProviderGateProofs says more of them).
LEMMA BreakerTyped ==
  ASSUME NEW b \in Breaker
  PROVE  /\ AfterRequest(b) \in Breaker
         /\ RecordSuccess(b) \in Breaker
         /\ RecordFailure(b) \in Breaker
         /\ CooldownElapses(b) \in Breaker
<1>1. /\ b.consecutive_failures \in Nat /\ b.probes \in Nat /\ b.cooled \in BOOLEAN
      /\ b.state \in CircuitState
  BY DEF Breaker
<1>2. AfterCooldown(b) \in Breaker
  BY DEF AfterCooldown, Breaker, CircuitState
<1>3. AfterRequest(b) \in Breaker
  BY <1>2 DEF AfterRequest, Breaker
<1>4. RecordSuccess(b) \in Breaker
  BY <1>1 DEF RecordSuccess, Breaker, CircuitState
<1>5. RecordFailure(b) \in Breaker
  BY DEF RecordFailure, Breaker, CircuitState
<1>6. CooldownElapses(b) \in Breaker
  BY DEF CooldownElapses, Breaker
<1> QED BY <1>3, <1>4, <1>5, <1>6

\* So is a new breaker.
LEMMA NewBreakerTyped == NewBreaker \in Breaker
  BY DEF NewBreaker, Breaker, CircuitState

\* _attempt_provider marks the last attempt of a list of attempts.
LEMMA MarkFailedTyped ==
  ASSUME NEW s \in Seq(Attempt)
  PROVE  MarkFailed(s) \in Seq(Attempt)
<1>1. CASE s = <<>>
  BY <1>1 DEF MarkFailed
<1>2. CASE s # <<>>
  <2>1. Len(s) \in 1 .. Len(s) /\ Len(s) \in Nat /\ s \in [1 .. Len(s) -> Attempt]
    BY <1>2
  <2>2. s[Len(s)] \in Attempt
    BY <2>1
  <2>3. [s[Len(s)] EXCEPT !.result = "FAILED"] \in Attempt
    BY <2>2 DEF Attempt
  <2>4. MarkFailed(s) = [s EXCEPT ![Len(s)] = [s[Len(s)] EXCEPT !.result = "FAILED"]]
    BY <1>2 DEF MarkFailed
  <2>5. MarkFailed(s) \in [1 .. Len(s) -> Attempt]
    BY <2>1, <2>3, <2>4
  <2> QED BY <2>1, <2>5
<1> QED BY <1>1, <1>2

\* Giving up on a candidate leaves work that goes on with the next one, or
\* that has FAILED.
LEMMA GiveUpTyped ==
  ASSUME NEW w \in Work, w.cands # <<>>, NEW s \in Seq(Attempt), NEW code
  PROVE  /\ GiveUp(w, s, code) \in Work
         /\ GiveUp(w, s, code).status \in {"PROCESSING", "FAILED"}
         /\ GiveUp(w, s, code).status # "FAILED" => GiveUp(w, s, code).cands # <<>>
<1> DEFINE more == FailsOver(code) /\ Len(w.cands) > 1
<1>1. w.cands \in Seq(ProviderNames) /\ w.attempts \in Seq(Attempt)
  BY DEF Work
<1>2. Tail(w.cands) \in Seq(ProviderNames) /\ (more => Tail(w.cands) # <<>>)
  <2>1. /\ Tail(w.cands) \in Seq(ProviderNames)
        /\ Len(Tail(w.cands)) = Len(w.cands) - 1
        /\ Len(w.cands) \in Nat
    BY <1>1, HeadTailProperties, LenProperties
  <2>2. Tail(w.cands) = <<>> => Len(Tail(w.cands)) = 0
    BY EmptySeq
  <2>3. more => Len(w.cands) > 1
    OBVIOUS
  <2> HIDE DEF more
  <2> QED BY <2>1, <2>2, <2>3
<1>3. w.attempts \o MarkFailed(s) \in Seq(Attempt)
  BY <1>1, MarkFailedTyped
<1>4. GiveUp(w, s, code) =
        [cands |-> IF more THEN Tail(w.cands) ELSE <<>>, pending |-> <<>>,
         attempts |-> w.attempts \o MarkFailed(s),
         status |-> IF more THEN "PROCESSING" ELSE "FAILED"]
  BY DEF GiveUp
<1>5. CASE more
  BY <1>2, <1>3, <1>4, <1>5 DEF Work
<1>6. CASE ~more
  BY <1>3, <1>4, <1>6 DEF Work
<1> QED BY <1>5, <1>6

\* The router's orders are non-empty lists of providers.
LEMMA OrdersTyped ==
  ASSUME NEW order \in CandidateOrders
  PROVE  order \in Seq(ProviderNames) /\ order # <<>>
<1>1. PICK n \in 1 .. Len(Providers) : order \in [1 .. n -> ProviderNames]
  BY DEF CandidateOrders
<1>2. n \in Nat /\ n > 0
  BY <1>1, ServiceAssumption
<1>3. order \in Seq(ProviderNames) /\ Len(order) = n
  BY <1>1, <1>2
<1> QED BY <1>2, <1>3

\* A request that works on nothing has well-typed work.
LEMMA NoWorkTyped == NoWork \in Work
  BY DEF NoWork, Work

\* The service starts well-typed, with nothing under way.
LEMMA InitTypeInv == Init => TypeInv
<1> SUFFICES ASSUME Init PROVE TypeInv
  OBVIOUS
<1>1. circuits \in [ProviderNames -> Breaker]
  BY NewBreakerTyped DEF Init
<1>2. pc \in [Requests -> PC] /\ records \in [Keys -> Record(Fingerprints, Requests)]
  BY DEF Init, PC, Absent, Record
<1>3. payments \in [Requests -> Payment] /\ work \in [Requests -> Work]
  BY NoWorkTyped DEF Init, NoPayment, Payment
<1>4. WorkInProgress
  BY DEF Init, WorkInProgress
<1>5. keyIndex \in [Keys -> Requests \cup {None}] /\ returned \in [Requests -> Requests \cup {None}]
      /\ charged \subseteq Requests \X ProviderNames
  BY DEF Init
<1>6. data \in [Requests -> [key : Keys, fp : Fingerprints]]
  BY DEF Init
<1>7. outbox \in Seq([payment : Requests, type : {"created", "processing", "SUCCEEDED", "FAILED"}])
  BY DEF Init
<1> QED BY <1>1, <1>2, <1>3, <1>4, <1>5, <1>6, <1>7 DEF TypeInv, TypeOK

\* Where every request is after event.set().
LEMMA WakeEffect ==
  ASSUME pc \in [Requests -> PC], NEW r \in Requests, NEW where \in PC, GoAndWake(r, where)
  PROVE  /\ pc' \in [Requests -> PC]
         /\ \A q \in Requests :
              pc'[q] = IF q = r THEN where
                       ELSE IF pc[q] = "waiting" /\ Key(q) = Key(r) THEN "woken" ELSE pc[q]
<1>1. \A q \in Requests :
        pc'[q] = IF q = r THEN where
                 ELSE IF pc[q] = "waiting" /\ Key(q) = Key(r) THEN "woken" ELSE pc[q]
  BY DEF GoAndWake
<1>2. "woken" \in PC
  BY DEF PC
<1>3. \A q \in Requests : pc'[q] \in PC
  BY <1>1, <1>2
<1>4. pc' = [q \in Requests |-> pc'[q]]
  BY DEF GoAndWake
<1> QED BY <1>1, <1>3, <1>4

\* Where every request is after a step of one request.
LEMMA GoEffect ==
  ASSUME pc \in [Requests -> PC], NEW r \in Requests, NEW where \in PC, Go(r, where)
  PROVE  /\ pc' \in [Requests -> PC]
         /\ \A q \in Requests : pc'[q] = IF q = r THEN where ELSE pc[q]
  BY DEF Go

\* A request that has ended, or lost its claim, has no work to look after.
LEMMA StopsWorking ==
  ASSUME TypeInv, NEW r \in Requests,
         work' = [work EXCEPT ![r] = NoWork],
         pc' \in [Requests -> PC],
         pc'[r] \in Ended,
         \A q \in Requests \ {r} : pc'[q] = pc[q] \/ pc'[q] = "woken"
  PROVE  work' \in [Requests -> Work] /\ WorkInProgress'
<1>1. work' \in [Requests -> Work]
  BY NoWorkTyped DEF TypeInv, TypeOK
<1>2. \A q \in Requests \ {r} : work'[q] = work[q]
  BY DEF TypeInv, TypeOK
<1> QED BY <1>1, <1>2 DEF TypeInv, WorkInProgress, Ended

\* abort keeps the types: the record is deleted or left alone, the caller ends.
LEMMA AbortTyped ==
  ASSUME TypeInv, NEW r \in Requests, NEW outcome \in Ended, AbortClaim(r, outcome)
  PROVE  /\ records' \in [Keys -> Record(Fingerprints, Requests)]
         /\ pc' \in [Requests -> PC]
         /\ work' \in [Requests -> Work]
         /\ WorkInProgress'
<1>1. records' \in [Keys -> Record(Fingerprints, Requests)]
  <2>1. Absent \in Record(Fingerprints, Requests)
    BY DEF Absent, Record
  <2>2. records' = records \/ records' = [records EXCEPT ![Key(r)] = Absent]
    BY DEF AbortClaim
  <2> QED BY <2>1, <2>2 DEF TypeInv, TypeOK
<1>2. outcome \in PC /\ pc \in [Requests -> PC]
  BY DEF PC, TypeInv, TypeOK
<1>3. GoAndWake(r, outcome) \/ Go(r, outcome)
  BY DEF AbortClaim
<1>4. /\ pc' \in [Requests -> PC]
      /\ pc'[r] = outcome
      /\ \A q \in Requests \ {r} : pc'[q] = pc[q] \/ pc'[q] = "woken"
  BY <1>2, <1>3, WakeEffect, GoEffect
<1>5. work' = [work EXCEPT ![r] = NoWork]
  BY DEF AbortClaim
<1> QED BY <1>1, <1>4, <1>5, StopsWorking

\* complete keeps the types, whether it finds the claim or raises.
LEMMA CompleteTyped ==
  ASSUME TypeInv, NEW r \in Requests, NEW p \in Requests,
         NEW outcome \in {"returned", "failed"}, CompleteClaim(r, p, outcome)
  PROVE  /\ records' \in [Keys -> Record(Fingerprints, Requests)]
         /\ pc' \in [Requests -> PC]
         /\ work' \in [Requests -> Work]
         /\ WorkInProgress'
         /\ returned' \in [Requests -> Requests \cup {None}]
<1>1. CASE Completable(records[Key(r)], Fp(r))
  <2>1. records' \in [Keys -> Record(Fingerprints, Requests)]
    <3>1. Completed(Fp(r), p) \in Record(Fingerprints, Requests)
      BY DEF TypeInv, TypeOK, Completed, Record, Fp
    <3> QED BY <1>1, <3>1 DEF TypeInv, TypeOK, CompleteClaim
  <2>2. outcome \in PC /\ outcome \in Ended /\ pc \in [Requests -> PC]
    BY DEF PC, Ended, TypeInv, TypeOK
  <2>3. GoAndWake(r, outcome) /\ work' = [work EXCEPT ![r] = NoWork]
    BY <1>1 DEF CompleteClaim
  <2>4. /\ pc' \in [Requests -> PC]
        /\ pc'[r] = outcome
        /\ \A q \in Requests \ {r} : pc'[q] = pc[q] \/ pc'[q] = "woken"
    BY <2>2, <2>3, WakeEffect
  <2>5. returned' \in [Requests -> Requests \cup {None}]
    BY <1>1 DEF TypeInv, TypeOK, CompleteClaim
  <2> QED BY <2>1, <2>2, <2>3, <2>4, <2>5, StopsWorking
<1>2. CASE ~Completable(records[Key(r)], Fp(r))
  <2>1. AbortClaim(r, "error") /\ returned' = returned
    BY <1>2 DEF CompleteClaim
  <2>2. "error" \in Ended
    BY DEF Ended
  <2> QED BY <2>1, <2>2, AbortTyped DEF TypeInv, TypeOK
<1> QED BY <1>1, <1>2

\* The records, and the key and the fingerprint of a request.
LEMMA DataTyped ==
  ASSUME TypeInv, NEW r \in Requests
  PROVE  Key(r) \in Keys /\ Fp(r) \in Fingerprints
  BY DEF TypeInv, TypeOK, Key, Fp

\* Acquire moves one request that has no work to a place without work.
LEMMA AcquireTypeInv ==
  ASSUME TypeInv, NEW r \in Requests, Acquire(r)
  PROVE  TypeInv'
<1> DEFINE decision == Decision(records[Key(r)], Fp(r))
           where == CASE decision = "CLAIMED" -> "lookup"
                      [] decision = "CONFLICT" -> "conflict"
                      [] decision = "COMPLETED" -> "replay"
                      [] decision = "WAIT" -> "waiting"
<1>1. Key(r) \in Keys /\ Fp(r) \in Fingerprints /\ records[Key(r)] \in Record(Fingerprints, Requests)
  BY DataTyped DEF TypeInv, TypeOK
<1>2. decision \in {"CLAIMED", "CONFLICT", "COMPLETED", "WAIT"}
  BY <1>1 DEF Decision, Record
<1>3. where \in {"lookup", "conflict", "replay", "waiting"}
  BY <1>2
<1>4. where \in PC
  BY <1>3 DEF PC, Owning, Ended
<1>5. Go(r, where)
  BY DEF Acquire
<1>6. /\ pc' \in [Requests -> PC]
      /\ \A q \in Requests : pc'[q] = IF q = r THEN where ELSE pc[q]
  BY <1>4, <1>5, GoEffect DEF TypeInv, TypeOK
<1>7. WorkInProgress'
  BY <1>3, <1>6 DEF TypeInv, WorkInProgress, Acquire
<1>8. records' \in [Keys -> Record(Fingerprints, Requests)]
  <2>1. Claimed(Fp(r)) \in Record(Fingerprints, Requests)
    BY <1>1 DEF Claimed, Record
  <2>2. records' = records \/ records' = [records EXCEPT ![Key(r)] = Claimed(Fp(r))]
    BY DEF Acquire
  <2> QED BY <2>1, <2>2 DEF TypeInv, TypeOK
<1> QED BY <1>6, <1>7, <1>8 DEF TypeInv, TypeOK, Acquire

\* A replay ends the request, with or without an answer.
LEMMA ReplayTypeInv ==
  ASSUME TypeInv, NEW r \in Requests, Replay(r)
  PROVE  TypeInv'
<1> DEFINE p == records[Key(r)].payment
<1>1. p \in Requests \cup {None}
  BY DataTyped DEF TypeInv, TypeOK, Record
<1>2. returned' \in [Requests -> Requests \cup {None}]
  BY <1>1 DEF Replay, TypeInv, TypeOK
<1>3. Go(r, "returned") \/ Go(r, "error")
  BY DEF Replay
<1>4. "returned" \in PC /\ "error" \in PC
  BY DEF PC, Ended
<1>5. /\ pc' \in [Requests -> PC]
      /\ pc'[r] \in {"returned", "error"}
      /\ \A q \in Requests \ {r} : pc'[q] = pc[q]
  BY <1>3, <1>4, GoEffect DEF TypeInv, TypeOK
<1>6. WorkInProgress'
  BY <1>5 DEF TypeInv, WorkInProgress, Replay
<1> QED BY <1>2, <1>5, <1>6 DEF TypeInv, TypeOK, Replay

\* The lookup goes on to the providers, aborts or completes.
LEMMA LookupTypeInv ==
  ASSUME TypeInv, NEW r \in Requests, Lookup(r)
  PROVE  TypeInv'
<1> DEFINE p == keyIndex[Key(r)]
<1>1. p \in Requests \cup {None}
  BY DataTyped DEF TypeInv, TypeOK
<1>2. CASE p = None
  <2>1. Go(r, "route") /\ UNCHANGED <<records, work, returned>>
    BY <1>2 DEF Lookup
  <2>2. "route" \in PC
    BY DEF PC, Owning
  <2>3. /\ pc' \in [Requests -> PC]
        /\ \A q \in Requests : pc'[q] = IF q = r THEN "route" ELSE pc[q]
    BY <2>1, <2>2, GoEffect DEF TypeInv, TypeOK
  <2>4. WorkInProgress'
    BY <2>1, <2>3 DEF TypeInv, WorkInProgress
  <2> QED BY <2>1, <2>3, <2>4 DEF TypeInv, TypeOK, Lookup
<1>3. CASE p # None /\ Fp(p) # Fp(r)
  <2>1. AbortClaim(r, "conflict") /\ returned' = returned
    BY <1>3 DEF Lookup
  <2>2. "conflict" \in Ended
    BY DEF Ended
  <2> QED BY <2>1, <2>2, AbortTyped DEF TypeInv, TypeOK, Lookup
<1>4. CASE p # None /\ Fp(p) = Fp(r)
  <2>1. CompleteClaim(r, p, "returned") /\ p \in Requests
    BY <1>1, <1>4 DEF Lookup
  <2> QED BY <2>1, CompleteTyped DEF TypeInv, TypeOK, Lookup
<1> QED BY <1>2, <1>3, <1>4

\* The router hands over at least one provider, or create aborts.
LEMMA RouteTypeInv ==
  ASSUME TypeInv, NEW r \in Requests, Route(r)
  PROVE  TypeInv'
<1>1. CASE AbortClaim(r, "error")
  <2>1. "error" \in Ended
    BY DEF Ended
  <2> QED BY <1>1, <2>1, AbortTyped DEF TypeInv, TypeOK, Route
<1>2. ASSUME NEW order \in CandidateOrders,
             work' = [work EXCEPT ![r].cands = order], Go(r, "attempt"), UNCHANGED records
      PROVE  TypeInv'
  <2>1. order \in Seq(ProviderNames) /\ order # <<>>
    BY OrdersTyped
  <2>2. "attempt" \in PC
    BY DEF PC, Owning
  <2>3. /\ pc' \in [Requests -> PC]
        /\ \A q \in Requests : pc'[q] = IF q = r THEN "attempt" ELSE pc[q]
    BY <1>2, <2>2, GoEffect DEF TypeInv, TypeOK
  <2>4. work' \in [Requests -> Work]
    BY <1>2, <2>1 DEF TypeInv, TypeOK, Work
  <2>5. work'[r].cands = order /\ \A q \in Requests \ {r} : work'[q] = work[q]
    BY <1>2 DEF TypeInv, TypeOK, Work
  <2>6. WorkInProgress'
    BY <2>1, <2>3, <2>5 DEF TypeInv, WorkInProgress
  <2> QED BY <1>2, <2>3, <2>4, <2>6 DEF TypeInv, TypeOK, Route
<1> QED BY <1>1, <1>2 DEF Route

\* The provider a request is at.
LEMMA CandidateTyped ==
  ASSUME TypeInv, NEW r \in Requests, pc[r] \in {"attempt", "calling"}
  PROVE  /\ work[r] \in Work /\ work[r].cands # <<>>
         /\ Head(work[r].cands) \in ProviderNames
         /\ work[r].pending \in Seq(Attempt) /\ work[r].attempts \in Seq(Attempt)
<1>1. work[r] \in Work /\ work[r].cands # <<>>
  BY DEF TypeInv, TypeOK, WorkInProgress
<1>2. work[r].cands \in Seq(ProviderNames)
      /\ work[r].pending \in Seq(Attempt) /\ work[r].attempts \in Seq(Attempt)
  BY <1>1 DEF Work
<1> QED BY <1>1, <1>2, HeadTailProperties

\* One breaker changes.
LEMMA CircuitsTyped ==
  ASSUME TypeInv, NEW p \in ProviderNames, NEW b \in Breaker,
         circuits' = [circuits EXCEPT ![p] = b]
  PROVE  circuits' \in [ProviderNames -> Breaker]
  BY DEF TypeInv, TypeOK

\* Admission changes one breaker and keeps the candidate.
LEMMA CallProviderTypeInv ==
  ASSUME TypeInv, NEW r \in Requests, CallProvider(r)
  PROVE  TypeInv'
<1> DEFINE p == Head(work[r].cands)
<1>1. p \in ProviderNames /\ work[r].cands # <<>>
  BY CandidateTyped DEF CallProvider
<1>2. circuits' = [circuits EXCEPT ![p] = AfterRequest(circuits[p])]
  BY DEF CallProvider
<1>3. AfterRequest(circuits[p]) \in Breaker
  BY <1>1, BreakerTyped DEF TypeInv, TypeOK
<1>4. circuits' \in [ProviderNames -> Breaker]
  BY <1>1, <1>2, <1>3, CircuitsTyped
<1>5. "calling" \in PC
  BY DEF PC, Owning
<1>6. /\ pc' \in [Requests -> PC]
      /\ \A q \in Requests : pc'[q] = IF q = r THEN "calling" ELSE pc[q]
  BY <1>5, GoEffect DEF TypeInv, TypeOK, CallProvider
<1>7. WorkInProgress'
  BY <1>1, <1>6 DEF TypeInv, WorkInProgress, CallProvider
<1> QED BY <1>4, <1>6, <1>7 DEF TypeInv, TypeOK, CallProvider

\* A request goes on with work w, or saves it.
LEMMA GoesOnTyped ==
  ASSUME TypeInv, NEW r \in Requests, NEW w \in Work,
         w.status # "FAILED" => w.cands # <<>>,
         work' = [work EXCEPT ![r] = w], Go(r, AfterGiveUp(w))
  PROVE  /\ work' \in [Requests -> Work]
         /\ pc' \in [Requests -> PC]
         /\ WorkInProgress'
<1>1. AfterGiveUp(w) \in PC
  BY DEF AfterGiveUp, PC, Owning
<1>2. /\ pc' \in [Requests -> PC]
      /\ \A q \in Requests : pc'[q] = IF q = r THEN AfterGiveUp(w) ELSE pc[q]
  BY <1>1, GoEffect DEF TypeInv, TypeOK
<1>3. work' \in [Requests -> Work] /\ \A q \in Requests : work'[q] = IF q = r THEN w ELSE work[q]
  BY DEF TypeInv, TypeOK
<1>4. WorkInProgress'
  BY <1>2, <1>3 DEF TypeInv, WorkInProgress, AfterGiveUp
<1> QED BY <1>2, <1>3, <1>4

\* A refused request goes on with its next candidate or with FAILED.
LEMMA MeetOpenCircuitTypeInv ==
  ASSUME TypeInv, NEW r \in Requests, MeetOpenCircuit(r)
  PROVE  TypeInv'
<1> DEFINE p == Head(work[r].cands)
           w == GiveUp(work[r], work[r].pending, "CIRCUIT_OPEN")
<1>1. /\ p \in ProviderNames /\ work[r] \in Work /\ work[r].cands # <<>>
      /\ work[r].pending \in Seq(Attempt)
  BY CandidateTyped DEF MeetOpenCircuit
<1>2. circuits' = [circuits EXCEPT ![p] = AfterRequest(circuits[p])]
  BY DEF MeetOpenCircuit
<1>3. AfterRequest(circuits[p]) \in Breaker
  BY <1>1, BreakerTyped DEF TypeInv, TypeOK
<1>4. circuits' \in [ProviderNames -> Breaker]
  BY <1>1, <1>2, <1>3, CircuitsTyped
<1>5. w \in Work /\ (w.status # "FAILED" => w.cands # <<>>)
  BY <1>1, GiveUpTyped
<1>6. work' = [work EXCEPT ![r] = w] /\ Go(r, AfterGiveUp(w))
  BY DEF MeetOpenCircuit
<1> HIDE DEF w
<1>7. work' \in [Requests -> Work] /\ pc' \in [Requests -> PC] /\ WorkInProgress'
  BY <1>5, <1>6, GoesOnTyped
<1> QED BY <1>4, <1>7 DEF TypeInv, TypeOK, MeetOpenCircuit

\* A failed attempt is retried, or the provider is given up.
LEMMA ProviderFailsTypeInv ==
  ASSUME TypeInv, NEW r \in Requests, NEW code \in ErrorCodes, ProviderFails(r, code)
  PROVE  TypeInv'
<1> DEFINE p == Head(work[r].cands)
           n == Len(work[r].pending) + 1
           attempt == [provider |-> p, number |-> n, code |-> code,
                       result |-> IF Retryable(code) THEN "RETRY" ELSE "FAILED"]
           tried == Append(work[r].pending, attempt)
           w == IF Retryable(code) /\ n < MaxAttempts
                THEN [work[r] EXCEPT !.pending = tried]
                ELSE GiveUp(work[r], tried, code)
<1>1. /\ p \in ProviderNames /\ work[r] \in Work /\ work[r].cands # <<>>
      /\ work[r].pending \in Seq(Attempt)
  BY CandidateTyped DEF ProviderFails
<1>2. circuits' = [circuits EXCEPT ![p] = RecordFailure(circuits[p])]
  BY DEF ProviderFails
<1>3. RecordFailure(circuits[p]) \in Breaker
  BY <1>1, BreakerTyped DEF TypeInv, TypeOK
<1>4. circuits' \in [ProviderNames -> Breaker]
  BY <1>1, <1>2, <1>3, CircuitsTyped
<1>5. work' = [work EXCEPT ![r] = w] /\ Go(r, AfterGiveUp(w))
  BY DEF ProviderFails
<1>6. tried \in Seq(Attempt)
  <2>1. n \in Nat \ {0}
    BY <1>1, LenProperties
  <2>2. attempt \in Attempt
    BY <1>1, <2>1 DEF Attempt
  <2> QED BY <1>1, <2>2
<1>7. w \in Work /\ (w.status # "FAILED" => w.cands # <<>>)
  <2> HIDE DEF tried
  <2>1. CASE Retryable(code) /\ n < MaxAttempts
    BY <1>1, <1>6, <2>1 DEF Work
  <2>2. CASE ~(Retryable(code) /\ n < MaxAttempts)
    BY <1>1, <1>6, <2>2, GiveUpTyped
  <2> QED BY <2>1, <2>2
<1> HIDE DEF w
<1>8. work' \in [Requests -> Work] /\ pc' \in [Requests -> PC] /\ WorkInProgress'
  BY <1>5, <1>7, GoesOnTyped
<1> QED BY <1>4, <1>8 DEF TypeInv, TypeOK, ProviderFails

\* A success goes to the save with its provider still at hand.
LEMMA ProviderSucceedsTypeInv ==
  ASSUME TypeInv, NEW r \in Requests, ProviderSucceeds(r)
  PROVE  TypeInv'
<1> DEFINE p == Head(work[r].cands)
           attempt == [provider |-> p, number |-> Len(work[r].pending) + 1,
                       result |-> "SUCCEEDED", code |-> "OK"]
           all == work[r].attempts \o Append(work[r].pending, attempt)
           w == [cands |-> work[r].cands, pending |-> <<>>, attempts |-> all,
                 status |-> "SUCCEEDED"]
<1>1. /\ p \in ProviderNames /\ work[r] \in Work /\ work[r].cands # <<>>
      /\ work[r].pending \in Seq(Attempt) /\ work[r].attempts \in Seq(Attempt)
  BY CandidateTyped DEF ProviderSucceeds
<1>2. circuits' = [circuits EXCEPT ![p] = RecordSuccess(circuits[p])]
  BY DEF ProviderSucceeds
<1>3. RecordSuccess(circuits[p]) \in Breaker
  BY <1>1, BreakerTyped DEF TypeInv, TypeOK
<1>4. circuits' \in [ProviderNames -> Breaker]
  BY <1>1, <1>2, <1>3, CircuitsTyped
<1>5. all \in Seq(Attempt)
  <2>1. Len(work[r].pending) + 1 \in Nat \ {0}
    BY <1>1, LenProperties
  <2>2. attempt \in Attempt
    BY <1>1, <2>1 DEF Attempt
  <2>3. Append(work[r].pending, attempt) \in Seq(Attempt)
    BY <1>1, <2>2
  <2> QED BY <1>1, <2>3
<1>6. work' = [work EXCEPT ![r] = w]
  BY DEF ProviderSucceeds
<1>7. w \in Work
  BY <1>1, <1>5 DEF Work
<1>8. w.status = "SUCCEEDED" /\ w.cands = work[r].cands
  OBVIOUS
<1> HIDE DEF w
<1>9. "save" \in PC
  BY DEF PC, Owning
<1>10. /\ pc' \in [Requests -> PC]
       /\ \A q \in Requests : pc'[q] = IF q = r THEN "save" ELSE pc[q]
  BY <1>9, GoEffect DEF TypeInv, TypeOK, ProviderSucceeds
<1>11. work' \in [Requests -> Work] /\ \A q \in Requests : work'[q] = IF q = r THEN w ELSE work[q]
  BY <1>6, <1>7 DEF TypeInv, TypeOK
<1>12. WorkInProgress'
  BY <1>1, <1>8, <1>10, <1>11 DEF TypeInv, WorkInProgress
<1>13. charged' \subseteq Requests \X ProviderNames
  BY <1>1 DEF TypeInv, TypeOK, ProviderSucceeds
<1> QED BY <1>4, <1>10, <1>11, <1>12, <1>13 DEF TypeInv, TypeOK, ProviderSucceeds

\* An unexpected exception leaves breakers and history well-typed.
LEMMA ProviderRaisesTypeInv ==
  ASSUME TypeInv, NEW r \in Requests, ProviderRaisesUnexpected(r)
  PROVE  TypeInv'
<1> DEFINE p == Head(work[r].cands)
<1>1. p \in ProviderNames
  BY CandidateTyped DEF ProviderRaisesUnexpected
<1>2. "error" \in Ended /\ AbortClaim(r, "error")
  BY DEF Ended, ProviderRaisesUnexpected
<1>3. /\ records' \in [Keys -> Record(Fingerprints, Requests)]
      /\ pc' \in [Requests -> PC] /\ work' \in [Requests -> Work] /\ WorkInProgress'
  BY <1>2, AbortTyped
<1>4. circuits' \in [ProviderNames -> Breaker]
  <2>1. RecordFailure(circuits[p]) \in Breaker /\ RecordSuccess(circuits[p]) \in Breaker
    BY <1>1, BreakerTyped DEF TypeInv, TypeOK
  <2>2. \/ circuits' = circuits
        \/ circuits' = [circuits EXCEPT ![p] = RecordFailure(circuits[p])]
        \/ circuits' = [circuits EXCEPT ![p] = RecordSuccess(circuits[p])]
    BY DEF ProviderRaisesUnexpected
  <2>3. CASE circuits' = circuits
    BY <2>3 DEF TypeInv, TypeOK
  <2> QED BY <1>1, <2>1, <2>2, <2>3, CircuitsTyped
<1>5. charged' \subseteq Requests \X ProviderNames
  BY <1>1 DEF TypeInv, TypeOK, ProviderRaisesUnexpected
<1> QED BY <1>3, <1>4, <1>5 DEF TypeInv, TypeOK, ProviderRaisesUnexpected

\* The save stores a terminal payment and three events.
LEMMA SaveTypeInv ==
  ASSUME TypeInv, NEW r \in Requests, Save(r)
  PROVE  TypeInv'
<1> DEFINE w == work[r]
           EventType == [payment : Requests, type : {"created", "processing", "SUCCEEDED", "FAILED"}]
           event(type) == [payment |-> r, type |-> type]
           saved == [status |-> w.status,
                     provider |-> IF w.status = "SUCCEEDED" THEN Head(w.cands) ELSE None,
                     attempts |-> w.attempts]
<1>1. w \in Work /\ w.status \in {"SUCCEEDED", "FAILED"}
  BY DEF TypeInv, TypeOK, WorkInProgress, Save
<1>2. w.status = "SUCCEEDED" => Head(w.cands) \in ProviderNames
  <2>1. w.cands \in Seq(ProviderNames)
    BY <1>1 DEF Work
  <2>2. w.status = "SUCCEEDED" => w.cands # <<>>
    BY DEF TypeInv, WorkInProgress, Save
  <2> QED BY <2>1, <2>2, HeadTailProperties
<1>3. saved \in Payment
  BY <1>1, <1>2 DEF Work, Payment
<1>4. payments' \in [Requests -> Payment]
  <2>1. payments' = [payments EXCEPT ![r] = saved]
    BY DEF Save
  <2> HIDE DEF saved
  <2> QED BY <1>3, <2>1 DEF TypeInv, TypeOK
<1>5. outbox' \in Seq(EventType)
  <2>1. event("created") \in EventType /\ event("processing") \in EventType
        /\ event(w.status) \in EventType
    BY <1>1
  <2>2. outbox' = outbox \o <<event("created"), event("processing"), event(w.status)>>
    BY DEF Save
  <2>3. outbox \in Seq(EventType)
    BY DEF TypeInv, TypeOK
  <2> HIDE DEF EventType, event
  <2>4. <<event("created"), event("processing"), event(w.status)>> \in Seq(EventType)
    BY <2>1
  <2> QED BY <2>2, <2>3, <2>4, ConcatProperties
<1>6. "complete" \in PC
  BY DEF PC, Owning
<1>7. /\ pc' \in [Requests -> PC]
      /\ \A q \in Requests : pc'[q] = IF q = r THEN "complete" ELSE pc[q]
  BY <1>6, GoEffect DEF TypeInv, TypeOK, Save
<1>8. WorkInProgress'
  BY <1>1, <1>7 DEF TypeInv, WorkInProgress, Save
<1>9. keyIndex' \in [Keys -> Requests \cup {None}]
  BY DEF TypeInv, TypeOK, Save
<1> QED BY <1>4, <1>5, <1>7, <1>8, <1>9 DEF TypeInv, TypeOK, Save

\* The completion ends the request.
LEMMA CompleteTypeInv ==
  ASSUME TypeInv, NEW r \in Requests, Complete(r)
  PROVE  TypeInv'
<1> DEFINE outcome == IF work[r].status = "SUCCEEDED" THEN "returned" ELSE "failed"
<1>1. CompleteClaim(r, r, outcome) /\ outcome \in {"returned", "failed"}
  BY DEF Complete
<1> HIDE DEF outcome
<1> QED BY <1>1, CompleteTyped DEF TypeInv, TypeOK, Complete

\* A request without a claim raises.
LEMMA RaiseTyped ==
  ASSUME TypeInv, NEW r \in Requests, Go(r, "error"), UNCHANGED work
  PROVE  pc' \in [Requests -> PC] /\ WorkInProgress'
<1>1. "error" \in PC
  BY DEF PC, Ended
<1>2. /\ pc' \in [Requests -> PC]
      /\ \A q \in Requests : pc'[q] = IF q = r THEN "error" ELSE pc[q]
  BY <1>1, GoEffect DEF TypeInv, TypeOK
<1> QED BY <1>2 DEF TypeInv, WorkInProgress

\* A store call that raises ends the request.
LEMMA StoreRaisesTypeInv ==
  ASSUME TypeInv, NEW r \in Requests, StoreRaises(r)
  PROVE  TypeInv'
<1>1. CASE AbortClaim(r, "error")
  <2>1. "error" \in Ended
    BY DEF Ended
  <2> QED BY <1>1, <2>1, AbortTyped DEF TypeInv, TypeOK, StoreRaises
<1>2. CASE Go(r, "error") /\ UNCHANGED <<records, work>>
  BY <1>2, RaiseTyped DEF TypeInv, TypeOK, StoreRaises
<1> QED BY <1>1, <1>2 DEF StoreRaises

\* A cancellation ends the request, its provider charged or not.
LEMMA CancelTypeInv ==
  ASSUME TypeInv, NEW r \in Requests, Cancel(r)
  PROVE  TypeInv'
<1>1. charged' \subseteq Requests \X ProviderNames
  <2>1. pc[r] = "calling" => Head(work[r].cands) \in ProviderNames
    BY CandidateTyped
  <2> QED BY <2>1 DEF TypeInv, TypeOK, Cancel
<1>2. CASE AbortClaim(r, "error")
  <2>1. "error" \in Ended
    BY DEF Ended
  <2> QED BY <1>1, <1>2, <2>1, AbortTyped DEF TypeInv, TypeOK, Cancel
<1>3. CASE Go(r, "error") /\ UNCHANGED <<records, work>>
  BY <1>1, <1>3, RaiseTyped DEF TypeInv, TypeOK, Cancel
<1> QED BY <1>2, <1>3 DEF Cancel

\* A crash leaves fresh breakers, no records and no work.
LEMMA CrashTypeInv ==
  ASSUME TypeInv, Crash
  PROVE  TypeInv'
<1>1. circuits' \in [ProviderNames -> Breaker]
  BY NewBreakerTyped DEF Crash
<1>2. records' \in [Keys -> Record(Fingerprints, Requests)]
  BY DEF Crash, Absent, Record
<1>3. work' \in [Requests -> Work]
  BY NoWorkTyped DEF Crash
<1>4. pc' \in [Requests -> PC] /\ \A r \in Requests : pc'[r] \in {"new"} \cup Ended
  BY DEF TypeInv, TypeOK, Crash, PC, Ended
<1>5. WorkInProgress'
  BY <1>4 DEF WorkInProgress, Ended
<1> QED BY <1>1, <1>2, <1>3, <1>4, <1>5 DEF TypeInv, TypeOK, Crash

\* The end of a cooldown changes one breaker.
LEMMA ClockTypeInv ==
  ASSUME TypeInv, NEW p \in ProviderNames, Clock(p)
  PROVE  TypeInv'
<1>1. CooldownElapses(circuits[p]) \in Breaker
  BY BreakerTyped DEF TypeInv, TypeOK
<1>2. circuits' = [circuits EXCEPT ![p] = CooldownElapses(circuits[p])]
  BY DEF Clock
<1>3. circuits' \in [ProviderNames -> Breaker]
  BY <1>1, <1>2, CircuitsTyped
<1>4. WorkInProgress'
  BY DEF TypeInv, WorkInProgress, Clock
<1> QED BY <1>3, <1>4 DEF TypeInv, TypeOK, Clock

\* Every step keeps the types.
LEMMA NextTypeInv == TypeInv /\ [Next]_vars => TypeInv'
<1> SUFFICES ASSUME TypeInv, [Next]_vars PROVE TypeInv'
  OBVIOUS
<1>1. ASSUME NEW r \in Requests, Step(r) PROVE TypeInv'
  BY <1>1, AcquireTypeInv, ReplayTypeInv, LookupTypeInv, RouteTypeInv, CallProviderTypeInv,
     MeetOpenCircuitTypeInv, ProviderFailsTypeInv, ProviderSucceedsTypeInv, SaveTypeInv,
     CompleteTypeInv DEF Step
<1>2. ASSUME NEW r \in Requests,
             ProviderRaisesUnexpected(r) \/ StoreRaises(r) \/ Cancel(r)
      PROVE  TypeInv'
  BY <1>2, ProviderRaisesTypeInv, StoreRaisesTypeInv, CancelTypeInv
<1>3. CASE Crash
  BY <1>3, CrashTypeInv
<1>4. ASSUME NEW p \in ProviderNames, Clock(p) PROVE TypeInv'
  BY <1>4, ClockTypeInv
<1>5. CASE UNCHANGED vars
  BY <1>5 DEF vars, TypeInv, TypeOK, WorkInProgress
<1> QED BY <1>1, <1>2, <1>3, <1>4, <1>5 DEF Next

\* The state of the service is well-typed: a saved payment is SUCCEEDED or
\* FAILED with a provider of the list, attempts are numbered from 1, and a
\* request that calls a provider has one to call (create, _attempt_provider).
THEOREM ServiceTypeCorrect == Spec => []TypeOK
<1>1. TypeInv => TypeOK
  BY DEF TypeInv
<1> QED BY InitTypeInv, NextTypeInv, <1>1, PTL DEF Spec

-----------------------------------------------------------------------------
(* Claims, the store and the answers. *)

\* What ties a claim to the store and to the answers.  Three places need more
\* than the properties say: a request at `complete' has saved its payment, one
\* about to replay has a completed record of its own data, and one that has an
\* answer has ended with it.
ClaimInv ==
    /\ ClaimsOwned
    /\ WaitersAwaitOwner
    /\ CompletedIsStored
    /\ OnePaymentPerKey
    /\ StoredIsNotExecuted
    /\ AnswersAreStored
    /\ \A r \in Requests : pc[r] = "complete" => keyIndex[Key(r)] = r
    /\ \A r \in Requests :
         pc[r] = "replay" => /\ records[Key(r)].status = "COMPLETED"
                             /\ records[Key(r)].fp = Fp(r)
    /\ \A r \in Requests : returned[r] # None => pc[r] = "returned"

\* A step of create, as a step of OncePerKey or none.
AbstractStep == [Promise!Next]_(Promise!vars)

\* The worker of a key, when the claims are owned.
LEMMA OwnerOfKey ==
  ASSUME ClaimsOwned, NEW k \in Keys
  PROVE  /\ \A r \in Requests : pc[r] \in Owning /\ Key(r) = k => Owner(k) = r
         /\ (\A r \in Requests : ~(pc[r] \in Owning /\ Key(r) = k)) => Owner(k) = None
<1> DEFINE owners == {r \in Requests : pc[r] \in Owning /\ Key(r) = k}
<1>1. ASSUME NEW r \in Requests, pc[r] \in Owning, Key(r) = k
      PROVE  Owner(k) = r
  <2>1. owners = {r}
    BY <1>1 DEF ClaimsOwned
  <2> QED BY <2>1 DEF Owner
<1>2. ASSUME \A r \in Requests : ~(pc[r] \in Owning /\ Key(r) = k)
      PROVE  Owner(k) = None
  <2>1. owners = {}
    BY <1>2
  <2> QED BY <2>1 DEF Owner
<1> QED BY <1>1, <1>2

\* The worker of a key stays when the owners of the key do.
LEMMA OwnerStays ==
  ASSUME NEW k \in Keys, UNCHANGED data,
         \A q \in Requests : Key(q) = k => (pc'[q] \in Owning <=> pc[q] \in Owning)
  PROVE  Owner(k)' = Owner(k)
<1> DEFINE S == {q \in Requests : pc[q] \in Owning /\ Key(q) = k}
           T == {q \in Requests : pc'[q] \in Owning /\ Key(q)' = k}
<1>1. T = S
  <2>1. \A q \in Requests : Key(q)' = Key(q)
    BY DEF Key
  <2> QED BY <2>1
<1>2. Owner(k) = IF S = {} THEN None ELSE CHOOSE q \in S : TRUE
  BY DEF Owner
<1>3. Owner(k)' = IF T = {} THEN None ELSE CHOOSE q \in T : TRUE
  BY DEF Owner
<1> HIDE DEF S, T
<1> QED BY <1>1, <1>2, <1>3

\* The worker of a key after a step: none, when nobody has the claim any more,
\* or the one request that has it.
LEMMA OwnerAfter ==
  ASSUME NEW k \in Keys, UNCHANGED data
  PROVE  /\ (\A q \in Requests : ~(pc'[q] \in Owning /\ Key(q) = k)) => Owner(k)' = None
         /\ \A r \in Requests :
              (\A q \in Requests : pc'[q] \in Owning /\ Key(q) = k <=> q = r) => Owner(k)' = r
<1> DEFINE T == {q \in Requests : pc'[q] \in Owning /\ Key(q)' = k}
<1>1. Owner(k)' = IF T = {} THEN None ELSE CHOOSE q \in T : TRUE
  BY DEF Owner
<1>2. \A q \in Requests : Key(q)' = Key(q)
  BY DEF Key
<1>3. ASSUME \A q \in Requests : ~(pc'[q] \in Owning /\ Key(q) = k)
      PROVE  Owner(k)' = None
  <2>1. T = {}
    BY <1>2, <1>3
  <2> HIDE DEF T
  <2> QED BY <1>1, <2>1
<1>4. ASSUME NEW r \in Requests, \A q \in Requests : pc'[q] \in Owning /\ Key(q) = k <=> q = r
      PROVE  Owner(k)' = r
  <2>1. T = {r}
    BY <1>2, <1>4
  <2> HIDE DEF T
  <2> QED BY <1>1, <2>1
<1> QED BY <1>3, <1>4

\* A step that changes no owner, no stored payment and no answer is none of
\* OncePerKey's.
LEMMA StutterStep ==
  ASSUME \A q \in Requests : pc'[q] \in Owning <=> pc[q] \in Owning,
         UNCHANGED <<data, keyIndex, returned>>
  PROVE  AbstractStep
<1>1. \A k \in Keys : Owner(k)' = Owner(k)
  BY OwnerStays
<1> QED BY <1>1 DEF AbstractStep, Promise!vars

\* A request that takes the claim of a free key begins to work on it.
LEMMA BeginStep ==
  ASSUME TypeInv, ClaimsOwned, NEW r \in Requests,
         \A q \in Requests : pc[q] \in Owning => Key(q) # Key(r),
         \A q \in Requests : pc'[q] \in Owning <=> q = r \/ pc[q] \in Owning,
         UNCHANGED <<data, keyIndex, returned>>
  PROVE  AbstractStep
<1>1. PICK k0 \in Keys : k0 = Key(r)
  BY DataTyped
<1>2. Owner(k0) = None
  BY <1>1, OwnerOfKey
<1>3. Owner(k0)' = r
  <2>1. \A q \in Requests : pc'[q] \in Owning /\ Key(q) = k0 <=> q = r
    BY <1>1
  <2> QED BY <1>1, <2>1, OwnerAfter
<1>4. \A k \in Keys : k # k0 => Owner(k)' = Owner(k)
  BY <1>1, OwnerStays
<1>5. [k \in Keys |-> Owner(k)'] = [[k \in Keys |-> Owner(k)] EXCEPT ![k0] = r]
  BY <1>1, <1>3, <1>4
<1>6. Promise!Begin(r)
  BY <1>1, <1>2, <1>5 DEF Promise!Begin, Key
<1> QED BY <1>6 DEF AbstractStep, Promise!Next

\* A request that saves under its claim settles its key.
LEMMA SettleStep ==
  ASSUME TypeInv, ClaimsOwned, NEW r \in Requests, pc[r] \in Owning,
         keyIndex[Key(r)] = None,
         \A q \in Requests : pc'[q] \in Owning <=> pc[q] \in Owning,
         keyIndex' = [keyIndex EXCEPT ![Key(r)] = r],
         UNCHANGED <<data, returned>>
  PROVE  AbstractStep
<1>1. Key(r) \in Keys
  BY DataTyped
<1>2. Owner(Key(r)) = r
  BY <1>1, OwnerOfKey
<1>3. \A k \in Keys : Owner(k)' = Owner(k)
  BY OwnerStays
<1>4. Promise!Settle(r)
  BY <1>1, <1>2, <1>3 DEF Promise!Settle, Key
<1> QED BY <1>4 DEF AbstractStep, Promise!Next

\* An owner that leaves without an answer stops working on its key.
LEMMA StopStep ==
  ASSUME TypeInv, ClaimsOwned, NEW r \in Requests, pc[r] \in Owning,
         \A q \in Requests : pc'[q] \in Owning <=> q # r /\ pc[q] \in Owning,
         UNCHANGED <<data, keyIndex, returned>>
  PROVE  AbstractStep
<1>0. PICK k0 \in Keys : k0 = Key(r)
  BY DataTyped
<1>1. \A q \in Requests : ~(pc'[q] \in Owning /\ Key(q) = k0)
  BY <1>0 DEF ClaimsOwned
<1>2. Owner(k0)' = None
  BY <1>1, OwnerAfter
<1>3. \A k \in Keys : k # k0 => Owner(k)' = Owner(k)
  BY <1>0, OwnerStays
<1>4. Promise!Stop({k0})
  BY <1>2, <1>3 DEF Promise!Stop
<1>5. {k0} \in SUBSET Keys
  BY <1>0
<1> QED BY <1>4, <1>5 DEF AbstractStep, Promise!Next

\* An owner, or a request without a claim, is answered.
LEMMA AnswerStep ==
  ASSUME TypeInv, ClaimsOwned, NEW r \in Requests,
         \A q \in Requests : pc'[q] \in Owning <=> q # r /\ pc[q] \in Owning,
         keyIndex[Key(r)] # None, Fp(keyIndex[Key(r)]) = Fp(r),
         returned' = [returned EXCEPT ![r] = keyIndex[Key(r)]],
         UNCHANGED <<data, keyIndex>>
  PROVE  AbstractStep
<1>1. PICK k0 \in Keys : k0 = Key(r)
  BY DataTyped
<1>2. CASE pc[r] \in Owning
  <2>1. Owner(k0) = r
    BY <1>1, <1>2, OwnerOfKey
  <2>2. \A q \in Requests : ~(pc'[q] \in Owning /\ Key(q) = k0)
    BY <1>1, <1>2 DEF ClaimsOwned
  <2>3. Owner(k0)' = None
    BY <1>1, <2>2, OwnerAfter
  <2>4. \A k \in Keys : k # k0 => Owner(k)' = Owner(k)
    BY <1>1, OwnerStays
  <2>5. [k \in Keys |-> Owner(k)'] = [[k \in Keys |-> Owner(k)] EXCEPT ![k0] = None]
    BY <1>1, <2>3, <2>4
  <2>6. Promise!Answer(r)
    BY <1>1, <2>1, <2>5 DEF Promise!Answer, Key, Fp
  <2> QED BY <2>6 DEF AbstractStep, Promise!Next
<1>3. CASE pc[r] \notin Owning
  <2>1. \A k \in Keys : Owner(k)' = Owner(k)
    BY <1>3, OwnerStays
  <2>2. Owner(k0) # r
    <3>1. CASE \E q \in Requests : pc[q] \in Owning /\ Key(q) = Key(r)
      BY <1>1, <1>3, <3>1, OwnerOfKey
    <3>2. CASE ~\E q \in Requests : pc[q] \in Owning /\ Key(q) = Key(r)
      <4>1. Owner(k0) = None
        BY <1>1, <3>2, OwnerOfKey
      <4> QED BY <4>1, ServiceAssumption
    <3> QED BY <3>1, <3>2
  <2>3. Promise!Answer(r)
    BY <1>1, <2>1, <2>2 DEF Promise!Answer, Key, Fp
  <2> QED BY <2>3 DEF AbstractStep, Promise!Next
<1> QED BY <1>2, <1>3

\* No claim, no payment and no answer before the first request.
LEMMA InitClaimInv == Init => ClaimInv
<1> SUFFICES ASSUME Init PROVE ClaimInv
  OBVIOUS
<1>1. \A r \in Requests : pc[r] = "new" /\ returned[r] = None /\ payments[r] = NoPayment
  BY DEF Init
<1>2. \A k \in Keys : records[k] = Absent /\ keyIndex[k] = None
  BY DEF Init
<1>3. \A r \in Requests : Key(r) \in Keys
  BY DEF Init, Key
<1>4. ClaimsOwned
  BY <1>1, <1>2 DEF ClaimsOwned, Owning, Absent
<1>5. WaitersAwaitOwner /\ StoredIsNotExecuted /\ AnswersAreStored
  BY <1>1 DEF WaitersAwaitOwner, StoredIsNotExecuted, Executing, AnswersAreStored
<1>6. CompletedIsStored
  BY <1>2 DEF CompletedIsStored, Absent
<1>7. OnePaymentPerKey
  BY <1>1, <1>2, <1>3, ServiceAssumption DEF OnePaymentPerKey, Stored, NoPayment
<1> QED BY <1>1, <1>4, <1>5, <1>6, <1>7 DEF ClaimInv

\* Nobody works on a key, and no key is settled, before the first request.
LEMMA InitPromise == Init => Promise!Init
<1> SUFFICES ASSUME Init PROVE Promise!Init
  OBVIOUS
<1>1. ClaimsOwned
  BY InitClaimInv DEF ClaimInv
<1>2. \A r \in Requests : pc[r] \notin Owning
  BY DEF Init, Owning
<1>3. \A k \in Keys : Owner(k) = None
  BY <1>1, <1>2, OwnerOfKey
<1> QED BY <1>3 DEF Init, Promise!Init

\* The owner of a key finds its own claim in the coordinator.
LEMMA OwnerHasClaim ==
  ASSUME ClaimInv, NEW r \in Requests, pc[r] \in Owning
  PROVE  records[Key(r)].status = "PROCESSING" /\ records[Key(r)].fp = Fp(r)
<1>1. records[Key(r)] = Claimed(Fp(r))
  BY DEF ClaimInv, ClaimsOwned
<1> QED BY <1>1 DEF Claimed

\* The owner of a claim goes on, without touching claims, store or answers.
LEMMA OwnerGoesOn ==
  ASSUME TypeInv, ClaimInv, NEW r \in Requests, NEW where \in Owning \ {"complete"},
         pc[r] \in Owning, Go(r, where),
         where # "lookup" => keyIndex[Key(r)] = None,
         UNCHANGED <<data, records, keyIndex, payments, returned>>
  PROVE  ClaimInv' /\ AbstractStep
<1>1. \A q \in Requests : pc'[q] = IF q = r THEN where ELSE pc[q]
  BY GoEffect DEF TypeInv, TypeOK, PC
<1>2. \A q \in Requests : pc'[q] \in Owning <=> pc[q] \in Owning
  BY <1>1
<1>3. \A q \in Requests : q # r => pc'[q] = pc[q]
  BY <1>1
<1>4. ClaimsOwned'
  BY <1>2 DEF ClaimInv, ClaimsOwned, Key, Fp
<1>5. WaitersAwaitOwner'
  BY <1>1, <1>2 DEF ClaimInv, WaitersAwaitOwner, Key, Owning
<1>6. CompletedIsStored' /\ OnePaymentPerKey' /\ AnswersAreStored'
  BY DEF ClaimInv, CompletedIsStored, OnePaymentPerKey, AnswersAreStored, Key, Fp, Stored
<1>7. StoredIsNotExecuted'
  BY <1>1 DEF ClaimInv, StoredIsNotExecuted, Key, Executing
<1>8. \A q \in Requests : pc'[q] = "complete" \/ pc'[q] = "replay" => pc'[q] = pc[q]
  BY <1>1 DEF Owning
<1>9. \A q \in Requests : returned'[q] # None => pc'[q] = "returned"
  BY <1>1 DEF ClaimInv, Owning
<1>10. AbstractStep
  BY <1>2, StutterStep
<1> QED BY <1>4, <1>5, <1>6, <1>7, <1>8, <1>9, <1>10 DEF ClaimInv, Key, Fp

\* A request without a claim ends, or starts to wait for one that exists.
LEMMA OutsiderGoesOn ==
  ASSUME TypeInv, ClaimInv, NEW r \in Requests, NEW where \in Ended \cup {"waiting", "replay"},
         pc[r] \notin Owning \cup Ended, Go(r, where),
         where = "waiting" => records[Key(r)].status = "PROCESSING",
         where = "replay" => records[Key(r)].status = "COMPLETED" /\ records[Key(r)].fp = Fp(r),
         UNCHANGED <<data, records, keyIndex, payments>>,
         \/ returned' = returned
         \/ /\ returned' = [returned EXCEPT ![r] = keyIndex[Key(r)]] /\ where = "returned"
            /\ keyIndex[Key(r)] # None /\ Fp(keyIndex[Key(r)]) = Fp(r)
  PROVE  ClaimInv' /\ AbstractStep
<1>1. \A q \in Requests : pc'[q] = IF q = r THEN where ELSE pc[q]
  BY GoEffect DEF TypeInv, TypeOK, PC
<1>2. \A q \in Requests : pc'[q] \in Owning <=> pc[q] \in Owning
  BY <1>1 DEF Owning, Ended
<1>3. ClaimsOwned'
  BY <1>2 DEF ClaimInv, ClaimsOwned, Key, Fp
<1>4. WaitersAwaitOwner'
  <2>1. where = "waiting" => \E q \in Requests : pc[q] \in Owning /\ Key(q) = Key(r)
    BY DataTyped DEF ClaimInv, ClaimsOwned
  <2> QED BY <1>1, <1>2, <2>1 DEF ClaimInv, WaitersAwaitOwner, Key
<1>5. CompletedIsStored' /\ OnePaymentPerKey'
  BY DEF ClaimInv, CompletedIsStored, OnePaymentPerKey, Key, Fp, Stored
<1>6. StoredIsNotExecuted'
  BY <1>1 DEF ClaimInv, StoredIsNotExecuted, Key, Executing, Ended
<1>7. AnswersAreStored'
  BY DEF TypeInv, TypeOK, ClaimInv, AnswersAreStored, Key, Fp
<1>8. \A q \in Requests : pc'[q] = "complete" => pc[q] = "complete"
  BY <1>1 DEF Ended
<1>9. \A q \in Requests : pc'[q] = "replay" =>
        records[Key(q)].status = "COMPLETED" /\ records[Key(q)].fp = Fp(q)
  BY <1>1 DEF ClaimInv
<1>10. \A q \in Requests : returned'[q] # None => pc'[q] = "returned"
  BY <1>1 DEF TypeInv, TypeOK, ClaimInv, Ended
<1>11. AbstractStep
  <2>1. ClaimsOwned
    BY DEF ClaimInv
  <2> QED BY <1>2, <2>1, StutterStep, AnswerStep
<1> QED BY <1>3, <1>4, <1>5, <1>6, <1>7, <1>8, <1>9, <1>10, <1>11 DEF ClaimInv, Key, Fp

\* The owner r gives up its claim and its waiters wake up: the record of the
\* key is whatever rec is, but not a claim.
LEMMA OwnerLeaves ==
  ASSUME TypeInv, ClaimInv, NEW r \in Requests, NEW outcome \in Ended, NEW rec,
         pc[r] \in Owning, GoAndWake(r, outcome),
         records' = [records EXCEPT ![Key(r)] = rec],
         \/ rec = Absent
         \/ /\ keyIndex[Key(r)] # None
            /\ rec = Completed(Fp(keyIndex[Key(r)]), keyIndex[Key(r)]),
         UNCHANGED <<data, keyIndex, payments>>,
         \/ returned' = returned
         \/ returned' = [returned EXCEPT ![r] = None]
         \/ /\ returned' = [returned EXCEPT ![r] = keyIndex[Key(r)]] /\ outcome = "returned"
            /\ keyIndex[Key(r)] # None /\ Fp(keyIndex[Key(r)]) = Fp(r)
  PROVE  ClaimInv' /\ AbstractStep
<1>1. \A q \in Requests :
        pc'[q] = IF q = r THEN outcome
                 ELSE IF pc[q] = "waiting" /\ Key(q) = Key(r) THEN "woken" ELSE pc[q]
  BY WakeEffect DEF TypeInv, TypeOK, PC
<1>2. \A q \in Requests : pc'[q] \in Owning <=> q # r /\ pc[q] \in Owning
  BY <1>1 DEF Owning, Ended
<1>3. \A k \in Keys : records'[k] = IF k = Key(r) THEN rec ELSE records[k]
  BY DEF TypeInv, TypeOK
<1>4. \A q \in Requests : Key(q) \in Keys
  BY DataTyped
<1>5. \A q \in Requests : pc[q] \in Owning /\ Key(q) = Key(r) => q = r
  BY DEF ClaimInv, ClaimsOwned
<1>6. rec.status # "PROCESSING"
  BY DEF Absent, Completed
<1>7. ClaimsOwned'
  <2>1. \A p, q \in Requests :
          pc'[p] \in Owning /\ pc'[q] \in Owning /\ Key(p) = Key(q) => p = q
    BY <1>2 DEF ClaimInv, ClaimsOwned
  <2>2. \A q \in Requests : pc'[q] \in Owning => records'[Key(q)] = Claimed(Fp(q))
    BY <1>2, <1>3, <1>4, <1>5 DEF ClaimInv, ClaimsOwned
  <2>3. \A k \in Keys : records'[k].status = "PROCESSING"
                          => \E q \in Requests : pc'[q] \in Owning /\ Key(q) = k
    BY <1>2, <1>3, <1>6 DEF ClaimInv, ClaimsOwned
  <2> QED BY <2>1, <2>2, <2>3 DEF ClaimsOwned, Key, Fp
<1>8. WaitersAwaitOwner'
  <2>1. \A q \in Requests : pc'[q] = "waiting" => pc[q] = "waiting" /\ Key(q) # Key(r)
    BY <1>1 DEF Ended
  <2>2. \A q \in Requests : pc'[q] = "waiting" =>
          \E p \in Requests : pc'[p] \in Owning /\ Key(p) = Key(q)
    BY <1>2, <2>1 DEF ClaimInv, WaitersAwaitOwner
  <2> QED BY <2>2 DEF WaitersAwaitOwner, Key
<1>9. CompletedIsStored'
  <2>1. \A k \in Keys : records'[k].status = "COMPLETED" =>
          records'[k].payment # None /\ records'[k].payment = keyIndex[k]
          /\ records'[k].fp = Fp(keyIndex[k])
    BY <1>3 DEF ClaimInv, CompletedIsStored, Absent, Completed
  <2> QED BY <2>1 DEF CompletedIsStored, Fp
<1>10. OnePaymentPerKey'
  BY DEF ClaimInv, OnePaymentPerKey, Stored, Key
<1>11. \A q \in Requests : pc'[q] \in Executing \cup {"save", "complete", "replay"} => pc'[q] = pc[q]
  BY <1>1 DEF Executing, Ended
<1>12. StoredIsNotExecuted'
  BY <1>11 DEF ClaimInv, StoredIsNotExecuted, Key
<1>13. AnswersAreStored'
  BY DEF TypeInv, TypeOK, ClaimInv, AnswersAreStored, Key, Fp
<1>14. \A q \in Requests : pc'[q] = "complete" => keyIndex[Key(q)] = q
  BY <1>11 DEF ClaimInv
<1>15. \A q \in Requests : pc'[q] = "replay" =>
         records'[Key(q)].status = "COMPLETED" /\ records'[Key(q)].fp = Fp(q)
  <2>1. records[Key(r)].status = "PROCESSING"
    BY OwnerHasClaim
  <2> QED BY <1>3, <1>4, <1>11, <2>1 DEF ClaimInv
<1>16. returned[r] = None /\ \A q \in Requests : returned[q] # None => pc[q] = "returned"
  BY DEF ClaimInv, Owning
<1>17. \A q \in Requests : returned'[q] # None => pc'[q] = "returned"
  BY <1>1, <1>16 DEF TypeInv, TypeOK
<1>18. AbstractStep
  <2>1. ClaimsOwned
    BY DEF ClaimInv
  <2>2. returned' = [returned EXCEPT ![r] = None] => returned' = returned
    BY <1>16 DEF TypeInv, TypeOK
  <2> QED BY <1>2, <2>1, <2>2, StopStep, AnswerStep
<1> QED BY <1>7, <1>8, <1>9, <1>10, <1>12, <1>13, <1>14, <1>15, <1>17, <1>18 DEF ClaimInv, Key, Fp

\* abort always finds the claim of the request that calls it.
LEMMA AbortClaimInv ==
  ASSUME TypeInv, ClaimInv, NEW r \in Requests, NEW outcome \in Ended,
         pc[r] \in Owning, AbortClaim(r, outcome),
         UNCHANGED <<data, keyIndex, payments, returned>>
  PROVE  ClaimInv' /\ AbstractStep
<1>1. Abortable(records[Key(r)], Fp(r))
  BY OwnerHasClaim DEF Abortable
<1>2. records' = [records EXCEPT ![Key(r)] = Absent] /\ GoAndWake(r, outcome)
  BY <1>1 DEF AbortClaim
<1> QED BY <1>2, OwnerLeaves

\* complete always finds the claim of the request that calls it, and the
\* payment it completes with is the stored one.
LEMMA CompleteClaimInv ==
  ASSUME TypeInv, ClaimInv, NEW r \in Requests, NEW outcome \in {"returned", "failed"},
         pc[r] \in Owning, keyIndex[Key(r)] # None, Fp(keyIndex[Key(r)]) = Fp(r),
         CompleteClaim(r, keyIndex[Key(r)], outcome),
         UNCHANGED <<data, keyIndex, payments>>
  PROVE  ClaimInv' /\ AbstractStep
<1> DEFINE p == keyIndex[Key(r)]
<1>1. Completable(records[Key(r)], Fp(r))
  BY OwnerHasClaim DEF Completable
<1>2. /\ records' = [records EXCEPT ![Key(r)] = Completed(Fp(p), p)]
      /\ GoAndWake(r, outcome)
      /\ \/ returned' = [returned EXCEPT ![r] = p] /\ outcome = "returned"
         \/ returned' = [returned EXCEPT ![r] = None]
  BY <1>1 DEF CompleteClaim
<1>3. outcome \in Ended
  BY DEF Ended
<1> QED BY <1>2, <1>3, OwnerLeaves

\* A claim is taken only when the key has none.
LEMMA AcquireClaimInv ==
  ASSUME TypeInv, ClaimInv, NEW r \in Requests, Acquire(r)
  PROVE  ClaimInv' /\ AbstractStep
<1> DEFINE rec == records[Key(r)]
           decision == Decision(rec, Fp(r))
<1>1. pc[r] \notin Owning \cup Ended /\ Key(r) \in Keys /\ rec \in Record(Fingerprints, Requests)
  BY DataTyped DEF Acquire, Owning, Ended, TypeInv, TypeOK
<1>2. rec.status \in {"ABSENT", "PROCESSING", "COMPLETED"}
  BY <1>1 DEF Record
<1>3. CASE rec.status # "ABSENT"
  <2>1. \/ decision = "CONFLICT"
        \/ decision = "COMPLETED" /\ rec.status = "COMPLETED" /\ rec.fp = Fp(r)
        \/ decision = "WAIT" /\ rec.status = "PROCESSING"
    BY <1>2, <1>3 DEF Decision
  <2>2. UNCHANGED <<data, records, keyIndex, payments, returned>>
    BY <2>1 DEF Acquire
  <2>3. \/ Go(r, "conflict")
        \/ Go(r, "replay") /\ rec.status = "COMPLETED" /\ rec.fp = Fp(r)
        \/ Go(r, "waiting") /\ rec.status = "PROCESSING"
    BY <2>1 DEF Acquire
  <2>4. "conflict" \in Ended
    BY DEF Ended
  <2> QED BY <1>1, <2>2, <2>3, <2>4, OutsiderGoesOn
<1>4. CASE rec.status = "ABSENT"
  <2>1. decision = "CLAIMED"
    BY <1>4 DEF Decision
  <2>2. /\ records' = [records EXCEPT ![Key(r)] = Claimed(Fp(r))]
        /\ Go(r, "lookup")
        /\ UNCHANGED <<data, keyIndex, payments, returned>>
    BY <2>1 DEF Acquire
  <2>3. "lookup" \in PC /\ "lookup" \in Owning
    BY DEF PC, Owning
  <2>4. \A q \in Requests : pc'[q] = IF q = r THEN "lookup" ELSE pc[q]
    BY <2>2, <2>3, GoEffect DEF TypeInv, TypeOK
  <2>5. \A k \in Keys : records'[k] = IF k = Key(r) THEN Claimed(Fp(r)) ELSE records[k]
    BY <2>2 DEF TypeInv, TypeOK
  <2>6. \A q \in Requests : Key(q) \in Keys
    BY DataTyped
  <2>7. \A q \in Requests : pc[q] \in Owning => Key(q) # Key(r)
    BY <1>4, OwnerHasClaim
  <2>8. ClaimsOwned'
    <3>1. \A p, q \in Requests :
            pc'[p] \in Owning /\ pc'[q] \in Owning /\ Key(p) = Key(q) => p = q
      BY <2>4, <2>7 DEF ClaimInv, ClaimsOwned
    <3>2. \A q \in Requests : pc'[q] \in Owning => records'[Key(q)] = Claimed(Fp(q))
      BY <2>4, <2>5, <2>6, <2>7 DEF ClaimInv, ClaimsOwned
    <3>3. \A k \in Keys : records'[k].status = "PROCESSING"
                            => \E q \in Requests : pc'[q] \in Owning /\ Key(q) = k
      BY <2>3, <2>4, <2>5 DEF ClaimInv, ClaimsOwned
    <3> QED BY <2>2, <3>1, <3>2, <3>3 DEF ClaimsOwned, Key, Fp
  <2>9. WaitersAwaitOwner'
    <3>1. \A q \in Requests : pc'[q] = "waiting" =>
            \E p \in Requests : pc'[p] \in Owning /\ Key(p) = Key(q)
      BY <1>1, <2>4 DEF ClaimInv, WaitersAwaitOwner
    <3> QED BY <2>2, <3>1 DEF WaitersAwaitOwner, Key
  <2>10. CompletedIsStored'
    <3>1. \A k \in Keys : records'[k].status = "COMPLETED" => records'[k] = records[k]
      BY <2>5 DEF Claimed
    <3> QED BY <2>2, <3>1 DEF ClaimInv, CompletedIsStored, Fp
  <2>11. OnePaymentPerKey' /\ AnswersAreStored'
    BY <2>2 DEF ClaimInv, OnePaymentPerKey, AnswersAreStored, Stored, Key, Fp
  <2>12. StoredIsNotExecuted'
    BY <2>2, <2>4 DEF ClaimInv, StoredIsNotExecuted, Executing, Key
  <2>13. \A q \in Requests : pc'[q] = "complete" => keyIndex'[Key(q)] = q
    BY <2>2, <2>4 DEF ClaimInv
  <2>14. \A q \in Requests : pc'[q] = "replay" =>
           records'[Key(q)].status = "COMPLETED" /\ records'[Key(q)].fp = Fp(q)
    BY <1>4, <2>4, <2>5, <2>6 DEF ClaimInv
  <2>15. \A q \in Requests : returned'[q] # None => pc'[q] = "returned"
    BY <1>1, <2>2, <2>4 DEF ClaimInv, Ended
  <2>16. AbstractStep
    <3>1. \A q \in Requests : pc'[q] \in Owning <=> q = r \/ pc[q] \in Owning
      BY <2>3, <2>4
    <3>2. ClaimsOwned
      BY DEF ClaimInv
    <3> QED BY <2>2, <2>7, <3>1, <3>2, BeginStep
  <2> QED BY <2>2, <2>8, <2>9, <2>10, <2>11, <2>12, <2>13, <2>14, <2>15, <2>16
        DEF ClaimInv, Key, Fp
<1> QED BY <1>3, <1>4

\* A replay answers with the stored payment of the key.
LEMMA ReplayClaimInv ==
  ASSUME TypeInv, ClaimInv, NEW r \in Requests, Replay(r)
  PROVE  ClaimInv' /\ AbstractStep
<1>1. pc[r] \notin Owning \cup Ended
  BY DEF Replay, Owning, Ended
<1>2. /\ records[Key(r)].payment = keyIndex[Key(r)] /\ keyIndex[Key(r)] # None
      /\ Fp(keyIndex[Key(r)]) = Fp(r)
  BY DataTyped DEF Replay, ClaimInv, CompletedIsStored
<1>3. \/ Go(r, "returned") /\ returned' = [returned EXCEPT ![r] = keyIndex[Key(r)]]
      \/ Go(r, "error") /\ returned' = returned
  BY <1>2 DEF Replay
<1>4. UNCHANGED <<data, records, keyIndex, payments>>
  BY DEF Replay
<1>5. "returned" \in Ended /\ "error" \in Ended
  BY DEF Ended
<1> QED BY <1>1, <1>2, <1>3, <1>4, <1>5, OutsiderGoesOn

\* The store is asked while the claim is held.
LEMMA LookupClaimInv ==
  ASSUME TypeInv, ClaimInv, NEW r \in Requests, Lookup(r)
  PROVE  ClaimInv' /\ AbstractStep
<1> DEFINE p == keyIndex[Key(r)]
<1>1. pc[r] \in Owning /\ UNCHANGED <<data, keyIndex, payments>>
  BY DEF Lookup, Owning
<1>2. CASE p = None
  <2>1. Go(r, "route") /\ UNCHANGED <<records, returned>> /\ "route" \in Owning \ {"complete"}
    BY <1>2 DEF Lookup, Owning
  <2> QED BY <1>1, <1>2, <2>1, OwnerGoesOn
<1>3. CASE p # None /\ Fp(p) # Fp(r)
  <2>1. AbortClaim(r, "conflict") /\ returned' = returned /\ "conflict" \in Ended
    BY <1>3 DEF Lookup, Ended
  <2> QED BY <1>1, <2>1, AbortClaimInv
<1>4. CASE p # None /\ Fp(p) = Fp(r)
  <2>1. CompleteClaim(r, p, "returned")
    BY <1>4 DEF Lookup
  <2> QED BY <1>1, <1>4, <2>1, CompleteClaimInv
<1> QED BY <1>2, <1>3, <1>4

\* The provider loop keeps the claim until it aborts or saves.
LEMMA ExecutionClaimInv ==
  ASSUME TypeInv, ClaimInv, NEW r \in Requests,
         \/ Route(r) \/ CallProvider(r) \/ MeetOpenCircuit(r) \/ ProviderSucceeds(r)
         \/ \E code \in ErrorCodes : ProviderFails(r, code)
  PROVE  ClaimInv' /\ AbstractStep
<1>1. pc[r] \in Executing
  BY DEF Route, CallProvider, MeetOpenCircuit, ProviderSucceeds, ProviderFails, Executing
<1>2. pc[r] \in Owning /\ keyIndex[Key(r)] = None
  BY <1>1 DEF Executing, Owning, ClaimInv, StoredIsNotExecuted
<1>3. UNCHANGED <<data, keyIndex, payments, returned>>
  BY DEF Route, CallProvider, MeetOpenCircuit, ProviderSucceeds, ProviderFails
<1>4. \/ AbortClaim(r, "error")
      \/ UNCHANGED records /\ \E where \in {"attempt", "calling", "save"} : Go(r, where)
  BY DEF Route, CallProvider, MeetOpenCircuit, ProviderSucceeds, ProviderFails, AfterGiveUp
<1>5. CASE AbortClaim(r, "error")
  <2>1. "error" \in Ended
    BY DEF Ended
  <2> QED BY <1>2, <1>3, <1>5, <2>1, AbortClaimInv
<1>6. ASSUME NEW where \in {"attempt", "calling", "save"}, Go(r, where), UNCHANGED records
      PROVE  ClaimInv' /\ AbstractStep
  <2>1. where \in Owning \ {"complete"}
    BY DEF Owning
  <2> QED BY <1>2, <1>3, <1>6, <2>1, OwnerGoesOn
<1> QED BY <1>4, <1>5, <1>6

\* The save is the first of its key, by the owner of the claim.
LEMMA SaveClaimInv ==
  ASSUME TypeInv, ClaimInv, NEW r \in Requests, Save(r)
  PROVE  ClaimInv' /\ AbstractStep
<1>1. /\ pc[r] = "save" /\ pc[r] \in Owning /\ "complete" \in Owning /\ "complete" \in PC
      /\ keyIndex' = [keyIndex EXCEPT ![Key(r)] = r]
      /\ UNCHANGED <<data, records, returned>>
  BY DEF Save, Owning, PC
<1>2. keyIndex[Key(r)] = None
  BY <1>1 DEF ClaimInv, StoredIsNotExecuted
<1>3. \A q \in Requests : pc'[q] = IF q = r THEN "complete" ELSE pc[q]
  BY <1>1, GoEffect DEF TypeInv, TypeOK, Save
<1>4. \A q \in Requests : pc'[q] \in Owning <=> pc[q] \in Owning
  BY <1>1, <1>3
<1>5. \A k \in Keys : keyIndex'[k] = IF k = Key(r) THEN r ELSE keyIndex[k]
  BY <1>1 DEF TypeInv, TypeOK
<1>6. \A q \in Requests : Key(q) \in Keys
  BY DataTyped
<1>7. \A q \in Requests : q # None
  BY ServiceAssumption
<1>8. records[Key(r)].status = "PROCESSING"
  BY <1>1, OwnerHasClaim
<1>9. /\ payments'[r].status # "ABSENT"
      /\ \A q \in Requests : q # r => payments'[q] = payments[q]
  <2>1. work[r].status \in {"SUCCEEDED", "FAILED"}
    BY <1>1 DEF TypeInv, WorkInProgress
  <2>2. payments'[r].status = work[r].status
    BY DEF TypeInv, TypeOK, Save
  <2>3. \A q \in Requests : q # r => payments'[q] = payments[q]
    BY DEF TypeInv, TypeOK, Save
  <2> QED BY <2>1, <2>2, <2>3
<1>10. ClaimsOwned'
  BY <1>1, <1>4 DEF ClaimInv, ClaimsOwned, Key, Fp
<1>11. WaitersAwaitOwner'
  BY <1>1, <1>3, <1>4 DEF ClaimInv, WaitersAwaitOwner, Key
<1>12. CompletedIsStored'
  <2>1. \A k \in Keys : records[k].status = "COMPLETED" => keyIndex'[k] = keyIndex[k]
    BY <1>5, <1>8
  <2> QED BY <1>1, <2>1 DEF ClaimInv, CompletedIsStored, Fp
<1>13. OnePaymentPerKey'
  <2>1. \A q \in Requests : payments'[q].status # "ABSENT" <=> keyIndex'[Key(q)] = q
    BY <1>2, <1>5, <1>6, <1>7, <1>9 DEF ClaimInv, OnePaymentPerKey, Stored
  <2> QED BY <1>1, <2>1 DEF OnePaymentPerKey, Stored, Key
<1>14. StoredIsNotExecuted'
  <2>1. \A q \in Requests : pc'[q] \in Executing \cup {"save"} =>
          pc[q] \in Executing \cup {"save"} /\ Key(q) # Key(r)
    BY <1>1, <1>3 DEF Executing, Owning, ClaimInv, ClaimsOwned
  <2>2. \A q \in Requests : pc'[q] \in Executing \cup {"save"} => keyIndex'[Key(q)] = None
    BY <1>5, <1>6, <2>1 DEF ClaimInv, StoredIsNotExecuted
  <2> QED BY <1>1, <2>2 DEF StoredIsNotExecuted, Key
<1>15. AnswersAreStored'
  <2>1. \A q \in Requests : returned[q] # None => keyIndex'[Key(q)] = keyIndex[Key(q)]
    BY <1>2, <1>5, <1>6 DEF ClaimInv, AnswersAreStored
  <2> QED BY <1>1, <2>1 DEF ClaimInv, AnswersAreStored, Key, Fp
<1>16. \A q \in Requests : pc'[q] = "complete" => keyIndex'[Key(q)] = q
  <2>1. \A q \in Requests : q # r /\ pc[q] = "complete" => Key(q) # Key(r)
    BY <1>1 DEF ClaimInv, ClaimsOwned
  <2> QED BY <1>3, <1>5, <1>6, <2>1 DEF ClaimInv
<1>17. \A q \in Requests : pc'[q] = "replay" => pc[q] = "replay"
  BY <1>3
<1>18. \A q \in Requests : returned'[q] # None => pc'[q] = "returned"
  BY <1>1, <1>3 DEF ClaimInv
<1>19. AbstractStep
  <2>1. ClaimsOwned
    BY DEF ClaimInv
  <2> QED BY <1>1, <1>2, <1>4, <2>1, SettleStep
<1> QED BY <1>1, <1>10, <1>11, <1>12, <1>13, <1>14, <1>15, <1>16, <1>17, <1>18, <1>19
      DEF ClaimInv, Key, Fp

\* The claim is completed with the payment that was saved.
LEMMA CompletionClaimInv ==
  ASSUME TypeInv, ClaimInv, NEW r \in Requests, Complete(r)
  PROVE  ClaimInv' /\ AbstractStep
<1> DEFINE outcome == IF work[r].status = "SUCCEEDED" THEN "returned" ELSE "failed"
<1>1. pc[r] \in Owning /\ keyIndex[Key(r)] = r /\ r # None
  BY ServiceAssumption DEF Complete, Owning, ClaimInv
<1>2. CompleteClaim(r, r, outcome) /\ outcome \in {"returned", "failed"}
  BY DEF Complete
<1>3. UNCHANGED <<data, keyIndex, payments>>
  BY DEF Complete
<1> HIDE DEF outcome
<1> QED BY <1>1, <1>2, <1>3, CompleteClaimInv

\* Whatever goes wrong, an owner aborts and another request just ends.
LEMMA FaultClaimInv ==
  ASSUME TypeInv, ClaimInv, NEW r \in Requests,
         ProviderRaisesUnexpected(r) \/ StoreRaises(r) \/ Cancel(r)
  PROVE  ClaimInv' /\ AbstractStep
<1>1. UNCHANGED <<data, keyIndex, payments, returned>> /\ "error" \in Ended
  BY DEF ProviderRaisesUnexpected, StoreRaises, Cancel, Ended
<1>2. \/ pc[r] \in Owning /\ AbortClaim(r, "error")
      \/ pc[r] \notin Owning \cup Ended /\ Go(r, "error") /\ UNCHANGED records
  BY DEF ProviderRaisesUnexpected, StoreRaises, Cancel, Owning, Ended
<1>3. CASE pc[r] \in Owning /\ AbortClaim(r, "error")
  BY <1>1, <1>3, AbortClaimInv
<1>4. CASE pc[r] \notin Owning \cup Ended /\ Go(r, "error") /\ UNCHANGED records
  BY <1>1, <1>4, OutsiderGoesOn
<1> QED BY <1>2, <1>3, <1>4

\* A crash ends every request that has a claim, with the claims.
LEMMA CrashClaimInv ==
  ASSUME TypeInv, ClaimInv, Crash
  PROVE  ClaimInv' /\ AbstractStep
<1>1. \A r \in Requests : pc'[r] \in {"new"} \cup Ended
  BY DEF Crash, Ended
<1>2. \A k \in Keys : records'[k] = Absent
  BY DEF Crash
<1>3. UNCHANGED <<data, keyIndex, payments, returned>>
  BY DEF Crash
<1>4. \A r \in Requests :
        pc'[r] \notin Owning /\ pc'[r] \notin {"waiting", "replay", "complete", "save"} \cup Executing
  BY <1>1 DEF Owning, Ended, Executing
<1>5. ClaimsOwned'
  BY <1>2, <1>4 DEF ClaimsOwned, Absent
<1>6. WaitersAwaitOwner' /\ StoredIsNotExecuted'
  BY <1>4 DEF WaitersAwaitOwner, StoredIsNotExecuted
<1>7. CompletedIsStored'
  BY <1>2 DEF CompletedIsStored, Absent
<1>8. OnePaymentPerKey' /\ AnswersAreStored'
  BY <1>3 DEF ClaimInv, OnePaymentPerKey, AnswersAreStored, Stored, Key, Fp
<1>9. \A q \in Requests : returned'[q] # None => pc'[q] = "returned"
  BY <1>3 DEF ClaimInv, Crash, Ended
<1>10. AbstractStep
  <2>1. \A k \in Keys : Owner(k)' = None
    BY <1>3, <1>4, OwnerAfter
  <2>2. Promise!Stop(Keys)
    BY <1>3, <2>1 DEF Promise!Stop
  <2> QED BY <2>2 DEF AbstractStep, Promise!Next
<1> QED BY <1>4, <1>5, <1>6, <1>7, <1>8, <1>9, <1>10 DEF ClaimInv

\* Every step keeps the claims, the store and the answers in agreement, and is
\* a step of OncePerKey or none.
LEMMA NextClaimInv == TypeInv /\ ClaimInv /\ [Next]_vars => ClaimInv' /\ AbstractStep
<1> SUFFICES ASSUME TypeInv, ClaimInv, [Next]_vars PROVE ClaimInv' /\ AbstractStep
  OBVIOUS
<1>1. ASSUME NEW r \in Requests, Step(r) PROVE ClaimInv' /\ AbstractStep
  BY <1>1, AcquireClaimInv, ReplayClaimInv, LookupClaimInv, ExecutionClaimInv,
     SaveClaimInv, CompletionClaimInv DEF Step
<1>2. ASSUME NEW r \in Requests,
             ProviderRaisesUnexpected(r) \/ StoreRaises(r) \/ Cancel(r)
      PROVE  ClaimInv' /\ AbstractStep
  BY <1>2, FaultClaimInv
<1>3. CASE Crash
  BY <1>3, CrashClaimInv
<1>4. CASE UNCHANGED <<data, pc, records, keyIndex, payments, returned>>
  <2>1. ClaimInv'
    BY <1>4 DEF ClaimInv, ClaimsOwned, WaitersAwaitOwner, CompletedIsStored, OnePaymentPerKey,
       StoredIsNotExecuted, AnswersAreStored, Stored, Key, Fp
  <2> QED BY <1>4, <2>1, StutterStep
<1>5. ASSUME NEW p \in ProviderNames, Clock(p) PROVE ClaimInv' /\ AbstractStep
  BY <1>4, <1>5 DEF Clock
<1>6. CASE UNCHANGED vars
  BY <1>4, <1>6 DEF vars
<1> QED BY <1>1, <1>2, <1>3, <1>5, <1>6 DEF Next

\* The inductive invariant of the service holds.
LEMMA ServiceInvariant == Spec => [](TypeInv /\ ClaimInv)
  BY InitTypeInv, NextTypeInv, InitClaimInv, NextClaimInv, PTL DEF Spec

\* Requests of one key hold its claim one at a time, and hold it exactly while
\* the coordinator has a PROCESSING record of their data, through every abort,
\* cancellation and crash (acquire, complete, abort).
THEOREM ServiceClaimsOwned == Spec => []ClaimsOwned
<1>1. ClaimInv => ClaimsOwned
  BY DEF ClaimInv
<1> QED BY <1>1, ServiceInvariant, PTL

\* A request waits only while the claim it waits for has a running owner: no
\* wake-up is missed, however the owner ends (acquire, complete, abort).
THEOREM ServiceWaitersAwaitOwner == Spec => []WaitersAwaitOwner
<1>1. ClaimInv => WaitersAwaitOwner
  BY DEF ClaimInv
<1> QED BY <1>1, ServiceInvariant, PTL

\* A completed record names the stored payment of its key, made from the same
\* data: create saves before it completes.
THEOREM ServiceCompletedIsStored == Spec => []CompletedIsStored
<1>1. ClaimInv => CompletedIsStored
  BY DEF ClaimInv
<1> QED BY <1>1, ServiceInvariant, PTL

\* The store never holds two payments of one key, even when the process dies
\* and the records of the coordinator are lost (create, save_with_events).
THEOREM ServiceOnePaymentPerKey == Spec => []OnePaymentPerKey
<1>1. ClaimInv => OnePaymentPerKey
  BY DEF ClaimInv
<1> QED BY <1>1, ServiceInvariant, PTL

\* A key that has a stored payment is never executed again, even after a crash
\* (the lookup of create under the claim).
THEOREM ServiceStoredIsNotExecuted == Spec => []StoredIsNotExecuted
<1>1. ClaimInv => StoredIsNotExecuted
  BY DEF ClaimInv
<1> QED BY <1>1, ServiceInvariant, PTL

\* Every answer, of the request that paid, of a replay or of a lookup, is the
\* stored payment of the key, made from the data the request carries.
THEOREM ServiceAnswersAreStored == Spec => []AnswersAreStored
<1>1. ClaimInv => AnswersAreStored
  BY DEF ClaimInv
<1> QED BY <1>1, ServiceInvariant, PTL

\* create, with its coordinator, store, retries, failover, cancellations and
\* crashes, does nothing that OncePerKey does not allow: at most one request at
\* a time works on a key, a key is settled once and for good, and a request is
\* answered only with what its key was settled with.
THEOREM ServiceImplementsOncePerKey == Spec => ImplementsOncePerKey
<1>1. Spec => Promise!Init
  BY InitPromise DEF Spec
<1>2. Spec => [][Promise!Next]_(Promise!vars)
  <2>1. TypeInv /\ ClaimInv /\ [Next]_vars => [Promise!Next]_(Promise!vars)
    BY NextClaimInv DEF AbstractStep
  <2> QED BY <2>1, ServiceInvariant, PTL DEF Spec
<1> QED BY <1>1, <1>2, PTL DEF ImplementsOncePerKey, Promise!Spec

-----------------------------------------------------------------------------
(* What is charged. *)

Lost == {"error", "crashed"}

\* A request charges one provider, and while it is not lost its charge is on
\* its way to the store or stored as the payment of its key.
ChargedInv ==
    /\ \A x \in charged : \/ pc[x[1]] \in {"save"} \cup Lost
                          \/ keyIndex[Key(x[1])] = x[1]
    /\ \A x, y \in charged : x[1] = y[1] => x = y

\* What a step may do to that: a lost request stays lost, one that saves goes
\* on to have saved or is lost, a settled key stays settled, and a charge is
\* made by one request, which then saves or is lost.
ChargeStep ==
    /\ data' = data
    /\ \A q \in Requests : pc[q] \in Lost => pc'[q] \in Lost
    /\ \A q \in Requests :
         pc[q] = "save" => pc'[q] \in {"save"} \cup Lost \/ keyIndex'[Key(q)] = q
    /\ \A k \in Keys : keyIndex[k] # None => keyIndex'[k] = keyIndex[k]
    /\ \/ charged' = charged
       \/ \E r \in Requests, p \in ProviderNames :
            /\ pc[r] = "calling"
            /\ pc'[r] \in {"save"} \cup Lost
            /\ charged' = charged \cup {<<r, p>>}

\* Such a step keeps the charges accounted for: the request that charges was
\* executing, so it had charged nothing before.
LEMMA ChargeStepKeeps ==
  ASSUME TypeInv, ClaimInv, ChargedInv, ChargeStep
  PROVE  ChargedInv'
<1>1. \A x \in charged : x[1] \in Requests /\ Key(x[1]) \in Keys
  BY DataTyped DEF TypeInv, TypeOK
<1>2. \A q \in Requests : Key(q)' = Key(q) /\ q # None
  BY ServiceAssumption DEF ChargeStep, Key
<1>3. \A x \in charged : \/ pc'[x[1]] \in {"save"} \cup Lost
                         \/ keyIndex'[Key(x[1])] = x[1]
  BY <1>1, <1>2 DEF ChargedInv, ChargeStep
<1>4. CASE charged' = charged
  BY <1>1, <1>2, <1>3, <1>4 DEF ChargedInv
<1>5. ASSUME NEW r \in Requests, NEW p \in ProviderNames, pc[r] = "calling",
             pc'[r] \in {"save"} \cup Lost, charged' = charged \cup {<<r, p>>}
      PROVE  ChargedInv'
  <2>1. keyIndex[Key(r)] = None
    BY <1>5 DEF ClaimInv, StoredIsNotExecuted, Executing
  <2>2. \A x \in charged : x[1] # r
    BY <1>2, <1>5, <2>1 DEF ChargedInv, Lost
  <2>3. <<r, p>>[1] = r
    OBVIOUS
  <2>4. \A x \in charged' : x \in charged \/ x = <<r, p>>
    BY <1>5
  <2>5. \A x, y \in charged' : x[1] = y[1] => x = y
    BY <2>2, <2>3, <2>4 DEF ChargedInv
  <2>6. \A x \in charged' : \/ pc'[x[1]] \in {"save"} \cup Lost
                            \/ keyIndex'[Key(x[1])'] = x[1]
    <3>1. ASSUME NEW x \in charged'
          PROVE  pc'[x[1]] \in {"save"} \cup Lost \/ keyIndex'[Key(x[1])'] = x[1]
      <4>1. CASE x \in charged
        BY <1>1, <1>2, <1>3, <4>1
      <4>2. CASE x = <<r, p>>
        BY <1>5, <2>3, <4>2
      <4> QED BY <2>4, <3>1, <4>1, <4>2
    <3> QED BY <3>1
  <2> QED BY <2>5, <2>6 DEF ChargedInv
<1> QED BY <1>4, <1>5 DEF ChargeStep

\* event.set() and a plain move leave the other requests that are lost or save
\* where they are.
LEMMA OthersStay ==
  ASSUME TypeInv, NEW r \in Requests, NEW where \in PC, Go(r, where) \/ GoAndWake(r, where)
  PROVE  /\ pc'[r] = where
         /\ \A q \in Requests \ {r} : pc[q] \in {"save"} \cup Lost => pc'[q] = pc[q]
<1>1. pc \in [Requests -> PC]
  BY DEF TypeInv, TypeOK
<1>2. CASE Go(r, where)
  BY <1>1, <1>2, GoEffect
<1>3. CASE GoAndWake(r, where)
  BY <1>1, <1>3, WakeEffect DEF Lost
<1> QED BY <1>2, <1>3

\* A request that neither is lost nor saves moves on, and charges nothing.
LEMMA UnchargedMove ==
  ASSUME TypeInv, NEW r \in Requests, NEW where \in PC, Go(r, where) \/ GoAndWake(r, where),
         pc[r] \notin {"save"} \cup Lost, UNCHANGED <<data, keyIndex, charged>>
  PROVE  ChargeStep
<1>1. \A q \in Requests : pc[q] \in {"save"} \cup Lost => pc'[q] = pc[q]
  BY OthersStay
<1> QED BY <1>1 DEF ChargeStep

\* A request that is not lost yet is lost, having charged one provider more or
\* not.
LEMMA LosingMove ==
  ASSUME TypeInv, NEW r \in Requests, Go(r, "error") \/ GoAndWake(r, "error"),
         UNCHANGED <<data, keyIndex>>,
         \/ charged' = charged
         \/ /\ pc[r] = "calling"
            /\ charged' = charged \cup {<<r, Head(work[r].cands)>>}
  PROVE  ChargeStep
<1>1. "error" \in PC /\ "error" \in Lost
  BY DEF PC, Ended, Lost
<1>2. /\ pc'[r] \in Lost
      /\ \A q \in Requests \ {r} : pc[q] \in {"save"} \cup Lost => pc'[q] = pc[q]
  BY <1>1, OthersStay
<1>3. pc[r] = "calling" => Head(work[r].cands) \in ProviderNames
  BY CandidateTyped
<1> QED BY <1>2, <1>3 DEF ChargeStep

\* The steps of create, whatever goes wrong, are such steps.
LEMMA NextChargeStep ==
  ASSUME TypeInv, ClaimInv, [Next]_vars
  PROVE  ChargeStep
<1>1. ASSUME NEW r \in Requests, Acquire(r) PROVE ChargeStep
  <2> DEFINE decision == Decision(records[Key(r)], Fp(r))
             where == CASE decision = "CLAIMED" -> "lookup"
                        [] decision = "CONFLICT" -> "conflict"
                        [] decision = "COMPLETED" -> "replay"
                        [] decision = "WAIT" -> "waiting"
  <2>1. records[Key(r)] \in Record(Fingerprints, Requests)
    BY DataTyped DEF TypeInv, TypeOK
  <2>2. decision \in {"CLAIMED", "CONFLICT", "COMPLETED", "WAIT"}
    BY <2>1 DEF Decision, Record
  <2>3. where \in {"lookup", "conflict", "replay", "waiting"}
    BY <2>2
  <2>4. where \in PC
    BY <2>3 DEF PC, Owning, Ended
  <2>5. /\ Go(r, where) /\ pc[r] \notin {"save"} \cup Lost
        /\ UNCHANGED <<data, keyIndex, charged>>
    BY <1>1 DEF Acquire, Lost
  <2> HIDE DEF where
  <2> QED BY <2>4, <2>5, UnchargedMove
<1>2. ASSUME NEW r \in Requests,
             Replay(r) \/ Lookup(r) \/ Route(r) \/ CallProvider(r) \/ Complete(r)
      PROVE  ChargeStep
  <2>1. pc[r] \notin {"save"} \cup Lost /\ UNCHANGED <<data, keyIndex, charged>>
    BY <1>2 DEF Replay, Lookup, Route, CallProvider, Complete, Lost
  <2>2. \E where \in {"returned", "failed", "error", "conflict", "route", "attempt", "calling"} :
          Go(r, where) \/ GoAndWake(r, where)
    BY <1>2 DEF Replay, Lookup, Route, CallProvider, Complete, AbortClaim, CompleteClaim
  <2>3. {"returned", "failed", "error", "conflict", "route", "attempt", "calling"} \subseteq PC
    BY DEF PC, Owning, Ended
  <2> QED BY <2>1, <2>2, <2>3, UnchargedMove
<1>3. ASSUME NEW r \in Requests,
             MeetOpenCircuit(r) \/ \E code \in ErrorCodes : ProviderFails(r, code)
      PROVE  ChargeStep
  <2>1. pc[r] \notin {"save"} \cup Lost /\ UNCHANGED <<data, keyIndex, charged>>
    BY <1>3 DEF MeetOpenCircuit, ProviderFails, Lost
  <2>2. \E where \in {"save", "attempt"} : Go(r, where)
    BY <1>3 DEF MeetOpenCircuit, ProviderFails, AfterGiveUp
  <2>3. {"save", "attempt"} \subseteq PC
    BY DEF PC, Owning
  <2> QED BY <2>1, <2>2, <2>3, UnchargedMove
<1>4. ASSUME NEW r \in Requests, ProviderSucceeds(r) PROVE ChargeStep
  <2>1. /\ pc[r] = "calling" /\ Go(r, "save") /\ UNCHANGED <<data, keyIndex>>
        /\ charged' = charged \cup {<<r, Head(work[r].cands)>>}
    BY <1>4 DEF ProviderSucceeds
  <2>2. Head(work[r].cands) \in ProviderNames /\ "save" \in PC /\ "calling" \notin Lost
    BY <2>1, CandidateTyped DEF PC, Owning, Lost
  <2>3. /\ pc'[r] = "save"
        /\ \A q \in Requests \ {r} : pc[q] \in {"save"} \cup Lost => pc'[q] = pc[q]
    BY <2>1, <2>2, OthersStay
  <2> QED BY <2>1, <2>2, <2>3 DEF ChargeStep
<1>5. ASSUME NEW r \in Requests, Save(r) PROVE ChargeStep
  <2>1. /\ pc[r] = "save" /\ Go(r, "complete") /\ UNCHANGED <<data, charged>>
        /\ keyIndex' = [keyIndex EXCEPT ![Key(r)] = r]
    BY <1>5 DEF Save
  <2>2. "complete" \in PC /\ "save" \notin Lost
    BY DEF PC, Owning, Lost
  <2>3. \A q \in Requests \ {r} : pc[q] \in {"save"} \cup Lost => pc'[q] = pc[q]
    BY <2>1, <2>2, OthersStay
  <2>4. keyIndex[Key(r)] = None
    BY <2>1 DEF ClaimInv, StoredIsNotExecuted
  <2>5. /\ keyIndex'[Key(r)] = r
        /\ \A k \in Keys : keyIndex[k] # None => keyIndex'[k] = keyIndex[k]
    BY <2>1, <2>4, DataTyped DEF TypeInv, TypeOK
  <2> QED BY <2>1, <2>2, <2>3, <2>5 DEF ChargeStep
<1>6. ASSUME NEW r \in Requests,
             ProviderRaisesUnexpected(r) \/ StoreRaises(r) \/ Cancel(r)
      PROVE  ChargeStep
  <2>1. (Go(r, "error") \/ GoAndWake(r, "error")) /\ UNCHANGED <<data, keyIndex>>
    BY <1>6 DEF ProviderRaisesUnexpected, StoreRaises, Cancel, AbortClaim
  <2>2. \/ charged' = charged
        \/ pc[r] = "calling" /\ charged' = charged \cup {<<r, Head(work[r].cands)>>}
    BY <1>6 DEF ProviderRaisesUnexpected, StoreRaises, Cancel
  <2> QED BY <2>1, <2>2, LosingMove
<1>7. CASE Crash
  BY <1>7 DEF Crash, ChargeStep, Lost, Ended
<1>8. ASSUME NEW p \in ProviderNames, Clock(p) PROVE ChargeStep
  BY <1>8 DEF Clock, ChargeStep
<1>9. CASE UNCHANGED vars
  BY <1>9 DEF vars, ChargeStep
<1> QED BY <1>1, <1>2, <1>3, <1>4, <1>5, <1>6, <1>7, <1>8, <1>9 DEF Next, Step

\* A key is charged twice only when one of the two requests that charged it
\* was cancelled, failed to save or died with the process: a request charges
\* one provider, and of two that reached the store, or are about to, the
\* second would have found the key settled or claimed (create).
THEOREM ServiceChargedOncePerKey == Spec => []ChargedOncePerKey
<1>1. Init => ChargedInv
  BY DEF Init, ChargedInv
<1>2. TypeInv /\ ClaimInv /\ ChargedInv /\ [Next]_vars => ChargedInv'
  BY NextChargeStep, ChargeStepKeeps
<1>3. TypeInv /\ ClaimInv /\ ChargedInv => ChargedOncePerKey
  <2> SUFFICES ASSUME TypeInv, ClaimInv, ChargedInv,
                      NEW x \in charged, NEW y \in charged,
                      Key(x[1]) = Key(y[1]), x # y,
                      pc[x[1]] \notin Lost, pc[y[1]] \notin Lost
               PROVE  FALSE
    BY DEF ChargedOncePerKey, Lost
  <2>1. x[1] \in Requests /\ y[1] \in Requests /\ x[1] # y[1]
    BY DEF ChargedInv, TypeInv, TypeOK
  <2>2. x[1] # None /\ y[1] # None
    BY <2>1, ServiceAssumption
  <2>3. ~(pc[x[1]] = "save" /\ pc[y[1]] = "save")
    BY <2>1 DEF ClaimInv, ClaimsOwned, Owning
  <2>4. \A q \in Requests : pc[q] = "save" => keyIndex[Key(q)] = None
    BY DEF ClaimInv, StoredIsNotExecuted
  <2> QED BY <2>1, <2>2, <2>3, <2>4 DEF ChargedInv
<1> QED BY <1>1, <1>2, <1>3, ServiceInvariant, PTL DEF Spec

-----------------------------------------------------------------------------
(* The outbox. *)

\* A step that neither stores a payment nor writes to the outbox.
LEMMA NoEvents ==
  ASSUME EventsMatchPayments, UNCHANGED <<payments, outbox>>
  PROVE  EventsMatchPayments'
  BY DEF EventsMatchPayments, Stored

\* The save appends the three events of a payment that was not stored, behind
\* the events of the payments that were.
LEMMA SaveEvents ==
  ASSUME TypeInv, ClaimInv, EventsMatchPayments, NEW r \in Requests, Save(r)
  PROVE  EventsMatchPayments'
<1> DEFINE Event == [payment : Requests, type : {"created", "processing", "SUCCEEDED", "FAILED"}]
           n == Len(outbox)
           e1 == [payment |-> r, type |-> "created"]
           e2 == [payment |-> r, type |-> "processing"]
           e3 == [payment |-> r, type |-> work[r].status]
<1>1. /\ pc[r] = "save" /\ outbox' = outbox \o <<e1, e2, e3>>
      /\ payments'[r].status = work[r].status
      /\ \A q \in Requests : q # r => payments'[q] = payments[q]
  BY DEF Save, TypeInv, TypeOK
<1>2. work[r].status \in {"SUCCEEDED", "FAILED"}
  BY <1>1 DEF TypeInv, WorkInProgress
<1>3. ~Stored(r)
  <2>1. keyIndex[Key(r)] = None
    BY <1>1 DEF ClaimInv, StoredIsNotExecuted
  <2> QED BY <2>1, ServiceAssumption DEF ClaimInv, OnePaymentPerKey
<1>4. outbox \in Seq(Event) /\ n \in Nat /\ DOMAIN outbox = 1 .. n
  BY LenProperties DEF TypeInv, TypeOK
<1>5. e1.payment = r /\ e2.payment = r /\ e3.payment = r /\ e1.type = "created"
      /\ e2.type = "processing" /\ e3.type = work[r].status
  OBVIOUS
<1>6. e1 \in Event /\ e2 \in Event /\ e3 \in Event
  BY <1>2
<1> HIDE DEF e1, e2, e3, Event
<1>7. /\ DOMAIN outbox' = 1 .. n + 3
      /\ \A i \in 1 .. n : outbox'[i] = outbox[i]
      /\ outbox'[n + 1] = e1 /\ outbox'[n + 2] = e2 /\ outbox'[n + 3] = e3
  BY <1>1, <1>4, <1>6
<1> HIDE DEF n
<1>8. ASSUME NEW q \in Requests, q # r
      PROVE  {i \in DOMAIN outbox' : outbox'[i].payment = q}
               = {i \in DOMAIN outbox : outbox[i].payment = q}
  <2>1. \A i \in 1 .. n + 3 : i \in 1 .. n \/ i = n + 1 \/ i = n + 2 \/ i = n + 3
    BY <1>4
  <2>2. \A i \in 1 .. n : i \in 1 .. n + 3
    BY <1>4
  <2> QED BY <1>4, <1>5, <1>7, <1>8, <2>1, <2>2
<1>9. {i \in DOMAIN outbox' : outbox'[i].payment = r} = {n + 1, n + 2, n + 3}
  <2>1. \A i \in 1 .. n : outbox[i].payment # r
    BY <1>3, <1>4 DEF EventsMatchPayments
  <2>2. \A i \in 1 .. n + 3 : i \in 1 .. n \/ i = n + 1 \/ i = n + 2 \/ i = n + 3
    BY <1>4
  <2>3. n + 1 \in 1 .. n + 3 /\ n + 2 \in 1 .. n + 3 /\ n + 3 \in 1 .. n + 3
    BY <1>4
  <2> QED BY <1>5, <1>7, <2>1, <2>2, <2>3
<1> DEFINE Told(q, box, status) ==
             \E i, j, k \in DOMAIN box :
               /\ i < j /\ j < k /\ {m \in DOMAIN box : box[m].payment = q} = {i, j, k}
               /\ box[i].type = "created" /\ box[j].type = "processing" /\ box[k].type = status
<1>10. ASSUME NEW q \in Requests, q # r
       PROVE  /\ payments'[q].status # "ABSENT" => Told(q, outbox', payments'[q].status)
              /\ payments'[q].status = "ABSENT" =>
                   {i \in DOMAIN outbox' : outbox'[i].payment = q} = {}
  <2>1. CASE Stored(q)
    <3>1. PICK i, j, k \in DOMAIN outbox :
            /\ i < j /\ j < k /\ {m \in DOMAIN outbox : outbox[m].payment = q} = {i, j, k}
            /\ outbox[i].type = "created" /\ outbox[j].type = "processing"
            /\ outbox[k].type = payments[q].status
      BY <2>1 DEF EventsMatchPayments
    <3>2. \A m \in DOMAIN outbox : m \in DOMAIN outbox' /\ outbox'[m] = outbox[m]
      BY <1>4, <1>7
    <3>3. {m \in DOMAIN outbox' : outbox'[m].payment = q} = {i, j, k}
      BY <1>8, <1>10, <3>1
    <3>4. payments'[q] = payments[q]
      BY <1>1, <1>10
    <3> QED BY <2>1, <3>1, <3>2, <3>3, <3>4 DEF Stored
  <2>2. CASE ~Stored(q)
    BY <1>1, <1>8, <1>10, <2>2 DEF EventsMatchPayments, Stored
  <2> QED BY <2>1, <2>2
<1>11. payments'[r].status # "ABSENT" /\ Told(r, outbox', payments'[r].status)
  <2>1. n + 1 \in 1 .. n + 3 /\ n + 2 \in 1 .. n + 3 /\ n + 3 \in 1 .. n + 3
        /\ n + 1 < n + 2 /\ n + 2 < n + 3
    BY <1>4
  <2>2. payments'[r].status = work[r].status /\ payments'[r].status # "ABSENT"
    BY <1>1, <1>2
  <2>3. /\ n + 1 \in DOMAIN outbox' /\ n + 2 \in DOMAIN outbox' /\ n + 3 \in DOMAIN outbox'
        /\ outbox'[n + 1].type = "created" /\ outbox'[n + 2].type = "processing"
        /\ outbox'[n + 3].type = payments'[r].status
    BY <1>5, <1>7, <2>1, <2>2
  <2>4. Told(r, outbox', payments'[r].status)
    <3> DEFINE a == n + 1
               b == n + 2
               c == n + 3
    <3>1. /\ a < b /\ b < c /\ {m \in DOMAIN outbox' : outbox'[m].payment = r} = {a, b, c}
          /\ a \in DOMAIN outbox' /\ b \in DOMAIN outbox' /\ c \in DOMAIN outbox'
          /\ outbox'[a].type = "created" /\ outbox'[b].type = "processing"
          /\ outbox'[c].type = payments'[r].status
      BY <1>9, <2>1, <2>3
    <3> HIDE DEF a, b, c
    <3> QED BY <3>1
  <2> QED BY <2>2, <2>4
<1>12. ASSUME NEW q \in Requests
       PROVE  /\ payments'[q].status # "ABSENT" => Told(q, outbox', payments'[q].status)
              /\ payments'[q].status = "ABSENT" =>
                   {i \in DOMAIN outbox' : outbox'[i].payment = q} = {}
  BY <1>10, <1>11
<1> QED BY <1>12 DEF EventsMatchPayments, Stored

\* The outbox tells of every stored payment that it was created, processed and
\* how it ended, once and in this order, and of no other payment, through every
\* fault and crash (save_with_events).
THEOREM ServiceEventsMatchPayments == Spec => []EventsMatchPayments
<1>1. Init => EventsMatchPayments
  BY DEF Init, EventsMatchPayments, Stored, NoPayment
<1>2. TypeInv /\ ClaimInv /\ EventsMatchPayments /\ [Next]_vars => EventsMatchPayments'
  <2> SUFFICES ASSUME TypeInv, ClaimInv, EventsMatchPayments, [Next]_vars
               PROVE  EventsMatchPayments'
    OBVIOUS
  <2>1. ASSUME NEW r \in Requests, Step(r), ~Save(r)
        PROVE  UNCHANGED <<payments, outbox>>
    <3>1. CASE Acquire(r) \/ Replay(r) \/ Lookup(r) \/ Route(r) \/ Complete(r)
      BY <3>1 DEF Acquire, Replay, Lookup, Route, Complete
    <3>2. CASE CallProvider(r) \/ MeetOpenCircuit(r) \/ ProviderSucceeds(r)
      BY <3>2 DEF CallProvider, MeetOpenCircuit, ProviderSucceeds
    <3>3. CASE \E code \in ErrorCodes : ProviderFails(r, code)
      BY <3>3 DEF ProviderFails
    <3> QED BY <2>1, <3>1, <3>2, <3>3 DEF Step
  <2>2. ASSUME NEW r \in Requests, ProviderRaisesUnexpected(r) \/ StoreRaises(r) \/ Cancel(r)
        PROVE  UNCHANGED <<payments, outbox>>
    BY <2>2 DEF ProviderRaisesUnexpected, StoreRaises, Cancel
  <2>3. CASE Crash
    BY <2>3, NoEvents DEF Crash
  <2>4. CASE \E p \in ProviderNames : Clock(p)
    BY <2>4, NoEvents DEF Clock
  <2>5. CASE UNCHANGED vars
    BY <2>5, NoEvents DEF vars
  <2> QED BY <2>1, <2>2, <2>3, <2>4, <2>5, SaveEvents, NoEvents DEF Next
<1> QED BY <1>1, <1>2, ServiceInvariant, PTL DEF Spec

-----------------------------------------------------------------------------
(* The history of a payment's attempts. *)

\* What HistoryExplainsStatus says of one attempt of a list.
Fits(a, i) ==
    LET n == Len(a)
        continued == i < n /\ a[i + 1].provider = a[i].provider IN
    /\ a[i].number <= MaxAttempts
    /\ a[i].number = IF i > 1 /\ a[i - 1].provider = a[i].provider
                     THEN a[i - 1].number + 1 ELSE 1
    /\ continued <=> a[i].result = "RETRY"
    /\ a[i].result = "SUCCEEDED" => i = n
    /\ \A j \in i + 1 .. n :
         a[j].provider = a[i].provider => a[j].number > a[i].number

Blocks(a) == \A i \in 1 .. Len(a) : Fits(a, i)

\* The attempts at one provider, when _attempt_provider is done with it.
Block(b, p) ==
    /\ Len(b) <= MaxAttempts
    /\ \A i \in 1 .. Len(b) : /\ b[i].provider = p
                              /\ b[i].number = i
                              /\ b[i].result = "RETRY" <=> i < Len(b)

\* The attempts at the present provider, which is tried again.
Retries(s, p) ==
    /\ Len(s) < MaxAttempts
    /\ \A i \in 1 .. Len(s) : s[i].provider = p /\ s[i].number = i /\ s[i].result = "RETRY"

\* The attempts so far are blocks, the present provider's follow each other,
\* no candidate that is left has been tried before, and only a payment that
\* has succeeded has an attempt that did: its last, at its provider.
SoundWork(w) ==
    LET a == w.attempts IN
    /\ Blocks(a)
    /\ Retries(w.pending, Head(w.cands))
    /\ \A i, j \in 1 .. Len(w.cands) : i # j => w.cands[i] # w.cands[j]
    /\ w.status = "PROCESSING" =>
         \A i \in 1 .. Len(a), j \in 1 .. Len(w.cands) : a[i].provider # w.cands[j]
    /\ w.status # "SUCCEEDED" => \A i \in 1 .. Len(a) : a[i].result # "SUCCEEDED"
    /\ w.status = "SUCCEEDED" =>
         Len(a) > 0 /\ a[Len(a)].result = "SUCCEEDED" /\ a[Len(a)].provider = Head(w.cands)

Working == {"attempt", "calling", "save", "complete"}

\* Outside the provider loop there is no work, in it the payment is PROCESSING.
HistoryInv ==
    /\ \A r \in Requests :
         /\ pc[r] \notin Working => work[r] = NoWork
         /\ pc[r] \in {"attempt", "calling"} => work[r].status = "PROCESSING"
         /\ SoundWork(work[r])
    /\ HistoryExplainsStatus

\* A request that works on nothing has nothing to explain.
LEMMA NoWorkSound == SoundWork(NoWork)
  BY ServiceAssumption DEF SoundWork, NoWork, Blocks, Retries

\* A block of attempts at a provider not tried before joins the attempts: the
\* numbers start again, and the last attempt before it is not continued.
LEMMA JoinBlocks ==
  ASSUME NEW a \in Seq(Attempt), NEW b \in Seq(Attempt), NEW p,
         Blocks(a), Block(b, p),
         \A i \in 1 .. Len(a) : a[i].provider # p /\ a[i].result # "SUCCEEDED"
  PROVE  Blocks(a \o b)
<1> DEFINE c == a \o b
           m == Len(a)
           k == Len(b)
<1>1. m \in Nat /\ k \in Nat
  BY LenProperties
<1>2. Len(c) = m + k
  OBVIOUS
<1>3. \A i \in 1 .. m : c[i] = a[i]
  OBVIOUS
<1>4. \A i \in m + 1 .. m + k : c[i] = b[i - m] /\ i - m \in 1 .. k
  OBVIOUS
<1> HIDE DEF c
<1>5. \A i \in m + 1 .. m + k : /\ c[i].provider = p
                                /\ c[i].number = i - m
                                /\ c[i].result = "RETRY" <=> i < m + k
  <2> SUFFICES ASSUME NEW i \in m + 1 .. m + k
               PROVE  /\ c[i].provider = p /\ c[i].number = i - m
                      /\ c[i].result = "RETRY" <=> i < m + k
    OBVIOUS
  <2>1. c[i] = b[i - m] /\ i - m \in 1 .. k
    BY <1>4
  <2>2. b[i - m].provider = p /\ b[i - m].number = i - m
        /\ (b[i - m].result = "RETRY" <=> i - m < k)
    BY <2>1 DEF Block
  <2> QED BY <1>1, <2>1, <2>2
<1>6. \A i \in 1 .. m : c[i].provider # p /\ c[i].result # "SUCCEEDED"
  BY <1>3
<1>7. ASSUME NEW i \in 1 .. m
      PROVE  Fits(c, i)
  <2>1. Fits(a, i)
    BY DEF Blocks
  <2>2. c[i] = a[i] /\ (i > 1 => c[i - 1] = a[i - 1]) /\ (i < m => c[i + 1] = a[i + 1])
    BY <1>1, <1>3
  <2>3. i < Len(c) /\ c[i + 1].provider = c[i].provider
          <=> i < m /\ a[i + 1].provider = a[i].provider
    <3>1. CASE i < m
      BY <1>1, <1>2, <2>2, <3>1
    <3>2. CASE i = m
      BY <1>1, <1>2, <1>5, <1>6, <3>2
    <3> QED BY <1>1, <3>1, <3>2
  <2>4. ASSUME NEW j \in i + 1 .. Len(c), c[j].provider = c[i].provider
        PROVE  c[j].number > c[i].number
    <3>1. j \in i + 1 .. m
      BY <1>1, <1>2, <1>5, <1>6, <2>4
    <3>2. c[j] = a[j]
      BY <1>1, <1>3, <3>1
    <3> QED BY <2>1, <2>2, <2>4, <3>1, <3>2 DEF Fits
  <2>5. c[i].number <= MaxAttempts
    BY <2>1, <2>2 DEF Fits
  <2>6. c[i].number = IF i > 1 /\ c[i - 1].provider = c[i].provider
                      THEN c[i - 1].number + 1 ELSE 1
    BY <2>1, <2>2 DEF Fits
  <2>7. i < Len(c) /\ c[i + 1].provider = c[i].provider <=> c[i].result = "RETRY"
    BY <2>1, <2>2, <2>3 DEF Fits
  <2>8. c[i].result # "SUCCEEDED"
    BY <1>6
  <2> QED BY <2>4, <2>5, <2>6, <2>7, <2>8 DEF Fits
<1>8. ASSUME NEW i \in m + 1 .. m + k
      PROVE  Fits(c, i)
  <2>1. /\ c[i].provider = p /\ c[i].number = i - m
        /\ c[i].result = "RETRY" <=> i < m + k
    BY <1>5
  <2>2. c[i].number <= MaxAttempts
    BY <1>1, <2>1, ServiceAssumption DEF Block
  <2>3. c[i].number = IF i > 1 /\ c[i - 1].provider = c[i].provider
                      THEN c[i - 1].number + 1 ELSE 1
    <3>1. CASE i = m + 1
      <4>1. ~(i > 1 /\ c[i - 1].provider = c[i].provider)
        BY <1>1, <1>6, <2>1, <3>1
      <4>2. c[i].number = 1
        BY <1>1, <2>1, <3>1
      <4> QED BY <4>1, <4>2
    <3>2. CASE i # m + 1
      <4>1. i - 1 \in m + 1 .. m + k /\ i > 1
        BY <1>1, <3>2
      <4>2. c[i - 1].provider = p /\ c[i - 1].number = i - 1 - m
        BY <1>5, <4>1
      <4> QED BY <1>1, <2>1, <4>1, <4>2
    <3> QED BY <3>1, <3>2
  <2>4. i < Len(c) /\ c[i + 1].provider = c[i].provider <=> c[i].result = "RETRY"
    <3>1. i < m + k => i + 1 \in m + 1 .. m + k
      BY <1>1
    <3>2. i < m + k => c[i + 1].provider = c[i].provider
      BY <1>5, <2>1, <3>1
    <3> QED BY <1>2, <2>1, <3>2
  <2>5. c[i].result = "SUCCEEDED" => i = Len(c)
    <3>1. i < m + k \/ i = m + k
      BY <1>1
    <3> QED BY <1>2, <2>1, <3>1
  <2>6. ASSUME NEW j \in i + 1 .. Len(c)
        PROVE  c[j].number > c[i].number
    <3>1. j \in m + 1 .. m + k /\ j > i
      BY <1>1, <1>2
    <3>2. c[j].number = j - m
      BY <1>5, <3>1
    <3> QED BY <1>1, <2>1, <3>1, <3>2
  <2> QED BY <2>2, <2>3, <2>4, <2>5, <2>6 DEF Fits
<1>9. \A i \in 1 .. Len(c) : i \in 1 .. m \/ i \in m + 1 .. m + k
  BY <1>1, <1>2
<1>10. Blocks(c)
  BY <1>7, <1>8, <1>9 DEF Blocks
<1> QED BY <1>10 DEF c

\* The attempts after the last one has been appended or marked.
LEMMA MarkedBlock ==
  ASSUME NEW s \in Seq(Attempt), NEW p,
         Len(s) <= MaxAttempts,
         \A i \in 1 .. Len(s) : s[i].provider = p /\ s[i].number = i,
         \A i \in 1 .. Len(s) : i < Len(s) => s[i].result = "RETRY"
  PROVE  /\ Block(MarkFailed(s), p)
         /\ \A i \in 1 .. Len(MarkFailed(s)) : MarkFailed(s)[i].result # "SUCCEEDED"
                                               /\ MarkFailed(s)[i].provider = p
<1>1. CASE s = <<>>
  BY <1>1, ServiceAssumption DEF MarkFailed, Block
<1>2. CASE s # <<>>
  <2> DEFINE t == MarkFailed(s)
             n == Len(s)
  <2>1. n \in Nat /\ n > 0 /\ DOMAIN s = 1 .. n
    BY <1>2, LenProperties
  <2>2. t = [s EXCEPT ![n].result = "FAILED"]
    BY <1>2 DEF MarkFailed
  <2>3. t \in Seq(Attempt)
    BY MarkFailedTyped
  <2>4. DOMAIN t = 1 .. n
    BY <2>1, <2>2
  <2>5. Len(t) = n
    BY <2>1, <2>3, <2>4, LenProperties
  <2>6. \A i \in 1 .. n : i # n => t[i] = s[i]
    BY <2>1, <2>2
  <2>7. t[n] = [s[n] EXCEPT !.result = "FAILED"] /\ s[n] \in Attempt
    BY <2>1, <2>2
  <2>8. t[n].provider = s[n].provider /\ t[n].number = s[n].number /\ t[n].result = "FAILED"
    BY <2>7 DEF Attempt
  <2> HIDE DEF t
  <2>9. \A i \in 1 .. n : /\ t[i].provider = p /\ t[i].number = i
                          /\ t[i].result = IF i < n THEN "RETRY" ELSE "FAILED"
    <3> SUFFICES ASSUME NEW i \in 1 .. n
                 PROVE  /\ t[i].provider = p /\ t[i].number = i
                        /\ t[i].result = IF i < n THEN "RETRY" ELSE "FAILED"
      OBVIOUS
    <3>1. CASE i = n
      BY <2>1, <2>8, <3>1
    <3>2. CASE i # n
      <4>1. t[i] = s[i]
        BY <2>6, <3>2
      <4>2. i < n
        BY <2>1, <3>2
      <4>3. s[i].provider = p /\ s[i].number = i /\ s[i].result = "RETRY"
        BY <4>2
      <4> QED BY <4>1, <4>2, <4>3
    <3> QED BY <3>1, <3>2
  <2>10. Block(t, p)
    BY <2>5, <2>9 DEF Block
  <2>11. \A i \in 1 .. Len(t) : t[i].result # "SUCCEEDED" /\ t[i].provider = p
    BY <2>5, <2>9
  <2> QED BY <2>10, <2>11 DEF t
<1> QED BY <1>1, <1>2

\* The first candidate is the present one.
LEMMA PresentCandidate ==
  ASSUME NEW w \in Work, w.cands # <<>>
  PROVE  /\ w.cands \in Seq(ProviderNames) /\ w.attempts \in Seq(Attempt)
         /\ w.pending \in Seq(Attempt)
         /\ Len(w.cands) \in Nat /\ Len(w.cands) > 0
         /\ Head(w.cands) = w.cands[1] /\ Head(w.cands) \in ProviderNames
<1>1. w.cands \in Seq(ProviderNames) /\ w.attempts \in Seq(Attempt) /\ w.pending \in Seq(Attempt)
  BY DEF Work
<1> QED BY <1>1, HeadTailProperties, LenProperties

\* The attempts after those at the present candidate have joined them.
LEMMA JoinedAttempts ==
  ASSUME NEW w \in Work, w.cands # <<>>, w.status = "PROCESSING", SoundWork(w),
         NEW t \in Seq(Attempt), Block(t, Head(w.cands))
  PROVE  /\ Blocks(w.attempts \o t)
         /\ Len(w.attempts \o t) = Len(w.attempts) + Len(t)
         /\ \A i \in 1 .. Len(w.attempts \o t) :
              \/ i \in 1 .. Len(w.attempts) /\ (w.attempts \o t)[i] = w.attempts[i]
              \/ /\ i - Len(w.attempts) \in 1 .. Len(t)
                 /\ (w.attempts \o t)[i] = t[i - Len(w.attempts)]
<1>1. /\ w.cands \in Seq(ProviderNames) /\ w.attempts \in Seq(Attempt)
      /\ Len(w.cands) \in Nat /\ Len(w.cands) > 0 /\ Head(w.cands) = w.cands[1]
  BY PresentCandidate
<1>2. 1 \in 1 .. Len(w.cands)
  BY <1>1
<1>3. \A i \in 1 .. Len(w.attempts) :
        w.attempts[i].provider # Head(w.cands) /\ w.attempts[i].result # "SUCCEEDED"
  BY <1>1, <1>2 DEF SoundWork
<1>4. Blocks(w.attempts)
  BY DEF SoundWork
<1>5. Blocks(w.attempts \o t)
  BY <1>1, <1>3, <1>4, JoinBlocks
<1> DEFINE a == w.attempts
<1>6. a \in Seq(Attempt)
  BY <1>1
<1> HIDE DEF a
<1>7. /\ Len(a \o t) = Len(a) + Len(t)
      /\ \A i \in 1 .. Len(a \o t) :
           \/ i \in 1 .. Len(a) /\ (a \o t)[i] = a[i]
           \/ i - Len(a) \in 1 .. Len(t) /\ (a \o t)[i] = t[i - Len(a)]
  BY <1>6
<1> QED BY <1>5, <1>7 DEF a

\* run_with_retry gives up: the block of attempts, the last one marked, joins
\* the others, and the candidates that are left are new ones.
LEMMA GiveUpSound ==
  ASSUME NEW w \in Work, w.cands # <<>>, w.status = "PROCESSING", SoundWork(w),
         NEW s \in Seq(Attempt), NEW code,
         Len(s) <= MaxAttempts,
         \A i \in 1 .. Len(s) : s[i].provider = Head(w.cands) /\ s[i].number = i,
         \A i \in 1 .. Len(s) : i < Len(s) => s[i].result = "RETRY"
  PROVE  SoundWork(GiveUp(w, s, code))
<1> DEFINE g == GiveUp(w, s, code)
           t == MarkFailed(s)
           p == Head(w.cands)
<1>1. /\ w.cands \in Seq(ProviderNames) /\ w.attempts \in Seq(Attempt)
      /\ Len(w.cands) \in Nat /\ Len(w.cands) > 0 /\ p = w.cands[1]
  BY PresentCandidate
<1>2. g.pending = <<>> /\ g.attempts = w.attempts \o t /\ g.status \in {"PROCESSING", "FAILED"}
      /\ (g.cands = <<>> \/ g.cands = Tail(w.cands))
  BY DEF GiveUp
<1>3. t \in Seq(Attempt) /\ Block(t, p)
      /\ \A i \in 1 .. Len(t) : t[i].result # "SUCCEEDED" /\ t[i].provider = p
  BY MarkFailedTyped, MarkedBlock
<1> HIDE DEF g, t
<1>4. Blocks(g.attempts)
  BY <1>2, <1>3, JoinedAttempts
<1>5. \A i \in 1 .. Len(g.cands) : i + 1 \in 1 .. Len(w.cands) /\ g.cands[i] = w.cands[i + 1]
  <2>1. CASE g.cands = <<>>
    BY <2>1
  <2>2. CASE g.cands = Tail(w.cands)
    <3>1. /\ Len(Tail(w.cands)) = Len(w.cands) - 1
          /\ \A i \in 1 .. Len(Tail(w.cands)) : Tail(w.cands)[i] = w.cands[i + 1]
      BY <1>1, HeadTailProperties
    <3> QED BY <1>1, <2>2, <3>1
  <2> QED BY <1>2, <2>1, <2>2
<1>6. \A i, j \in 1 .. Len(w.cands) : i # j => w.cands[i] # w.cands[j]
  BY DEF SoundWork
<1>7. Len(g.cands) \in Nat
  BY <1>1, <1>2, LenProperties, HeadTailProperties
<1>8. \A i, j \in 1 .. Len(g.cands) : i # j => g.cands[i] # g.cands[j]
  <2> SUFFICES ASSUME NEW i \in 1 .. Len(g.cands), NEW j \in 1 .. Len(g.cands), i # j
               PROVE  g.cands[i] # g.cands[j]
    OBVIOUS
  <2>1. i + 1 # j + 1
    BY <1>7
  <2>2. i + 1 \in 1 .. Len(w.cands) /\ j + 1 \in 1 .. Len(w.cands)
        /\ g.cands[i] = w.cands[i + 1] /\ g.cands[j] = w.cands[j + 1]
    BY <1>5
  <2>3. w.cands[i + 1] # w.cands[j + 1]
    BY <1>6, <2>1, <2>2
  <2> QED BY <2>2, <2>3
<1>9. \A j \in 1 .. Len(g.cands) : g.cands[j] # p
  <2> SUFFICES ASSUME NEW j \in 1 .. Len(g.cands) PROVE g.cands[j] # p
    OBVIOUS
  <2>1. j + 1 # 1 /\ 1 \in 1 .. Len(w.cands)
    BY <1>1, <1>7
  <2>2. j + 1 \in 1 .. Len(w.cands) /\ g.cands[j] = w.cands[j + 1]
    BY <1>5
  <2>3. w.cands[j + 1] # w.cands[1]
    BY <1>6, <2>1, <2>2
  <2> QED BY <1>1, <2>2, <2>3
<1>10. ASSUME NEW i \in 1 .. Len(g.attempts)
       PROVE  /\ g.attempts[i].result # "SUCCEEDED"
              /\ \A j \in 1 .. Len(g.cands) : g.attempts[i].provider # g.cands[j]
  <2>1. \/ i \in 1 .. Len(w.attempts) /\ g.attempts[i] = w.attempts[i]
        \/ i - Len(w.attempts) \in 1 .. Len(t) /\ g.attempts[i] = t[i - Len(w.attempts)]
    BY <1>2, <1>3, JoinedAttempts
  <2>2. CASE i \in 1 .. Len(w.attempts) /\ g.attempts[i] = w.attempts[i]
    <3>1. w.attempts[i].result # "SUCCEEDED"
          /\ \A j \in 1 .. Len(w.cands) : w.attempts[i].provider # w.cands[j]
      BY <2>2 DEF SoundWork
    <3> QED BY <1>5, <2>2, <3>1
  <2>3. CASE i - Len(w.attempts) \in 1 .. Len(t) /\ g.attempts[i] = t[i - Len(w.attempts)]
    BY <1>3, <1>9, <2>3
  <2> QED BY <2>1, <2>2, <2>3
<1>11. Retries(g.pending, Head(g.cands))
  BY <1>2, ServiceAssumption DEF Retries
<1>12. SoundWork(g)
  BY <1>2, <1>4, <1>8, <1>10, <1>11 DEF SoundWork
<1> QED BY <1>12 DEF g

\* Another attempt at the present candidate: its number and its provider.
LEMMA OneMoreAttempt ==
  ASSUME NEW w \in Work, w.cands # <<>>, SoundWork(w), NEW attempt \in Attempt,
         attempt.provider = Head(w.cands), attempt.number = Len(w.pending) + 1
  PROVE  LET tried == Append(w.pending, attempt) IN
         /\ tried \in Seq(Attempt) /\ Len(tried) = Len(w.pending) + 1
         /\ Len(w.pending) \in Nat /\ Len(tried) <= MaxAttempts
         /\ tried[Len(tried)] = attempt
         /\ \A i \in 1 .. Len(tried) : tried[i].provider = Head(w.cands) /\ tried[i].number = i
         /\ \A i \in 1 .. Len(tried) : i < Len(tried) => tried[i].result = "RETRY"
<1> DEFINE s == w.pending
           tried == Append(s, attempt)
           p == Head(w.cands)
<1>1. s \in Seq(Attempt)
  BY PresentCandidate
<1>2. Len(s) < MaxAttempts
      /\ \A i \in 1 .. Len(s) : s[i].provider = p /\ s[i].number = i /\ s[i].result = "RETRY"
  BY DEF SoundWork, Retries
<1> HIDE DEF s, p
<1>3. /\ tried \in Seq(Attempt) /\ Len(tried) = Len(s) + 1 /\ Len(s) \in Nat
      /\ tried[Len(s) + 1] = attempt
      /\ \A i \in 1 .. Len(s) : tried[i] = s[i]
  BY <1>1
<1>4. Len(tried) <= MaxAttempts
  BY <1>2, <1>3, ServiceAssumption
<1> HIDE DEF tried
<1>5. attempt.provider = p /\ attempt.number = Len(s) + 1
  BY DEF p, s
<1>6. ASSUME NEW i \in 1 .. Len(tried)
      PROVE  /\ tried[i].provider = p /\ tried[i].number = i
             /\ i < Len(tried) => tried[i].result = "RETRY"
  <2>1. CASE i = Len(s) + 1
    BY <1>3, <1>5, <2>1
  <2>2. CASE i # Len(s) + 1
    <3>1. i \in 1 .. Len(s)
      BY <1>3, <2>2
    <3> QED BY <1>2, <1>3, <3>1
  <2> QED BY <2>1, <2>2
<1> QED BY <1>3, <1>4, <1>6 DEF tried, s, p

\* A provider's success ends the history.
LEMMA SuccessSound ==
  ASSUME NEW w \in Work, w.cands # <<>>, w.status = "PROCESSING", SoundWork(w),
         NEW attempt \in Attempt, attempt.provider = Head(w.cands),
         attempt.number = Len(w.pending) + 1, attempt.result = "SUCCEEDED"
  PROVE  SoundWork([cands |-> w.cands, pending |-> <<>>,
                    attempts |-> w.attempts \o Append(w.pending, attempt),
                    status |-> "SUCCEEDED"])
<1> DEFINE t == Append(w.pending, attempt)
           v == [cands |-> w.cands, pending |-> <<>>, attempts |-> w.attempts \o t,
                 status |-> "SUCCEEDED"]
           p == Head(w.cands)
<1>1. /\ t \in Seq(Attempt) /\ Len(t) = Len(w.pending) + 1 /\ Len(w.pending) \in Nat
      /\ Len(t) <= MaxAttempts /\ t[Len(t)] = attempt
      /\ \A i \in 1 .. Len(t) : t[i].provider = p /\ t[i].number = i
      /\ \A i \in 1 .. Len(t) : i < Len(t) => t[i].result = "RETRY"
  BY OneMoreAttempt
<1>2. v.cands = w.cands /\ v.pending = <<>> /\ v.attempts = w.attempts \o t
      /\ v.status = "SUCCEEDED"
  OBVIOUS
<1> HIDE DEF t, v
<1>3. Block(t, p)
  <2> SUFFICES ASSUME NEW i \in 1 .. Len(t) PROVE t[i].result = "RETRY" <=> i < Len(t)
    BY <1>1 DEF Block
  <2>1. i < Len(t) \/ (i = Len(t) /\ ~(i < Len(t)))
    BY <1>1
  <2> QED BY <1>1, <2>1
<1>4. Blocks(v.attempts) /\ Len(v.attempts) = Len(w.attempts) + Len(t)
  BY <1>2, <1>3, <1>1, JoinedAttempts
<1>5. Len(w.attempts) \in Nat /\ w.attempts \in Seq(Attempt)
  BY PresentCandidate, LenProperties
<1>6. Len(v.attempts) > 0 /\ v.attempts[Len(v.attempts)] = attempt
  <2> DEFINE z == Len(v.attempts)
             m == Len(w.attempts)
             k == Len(t)
  <2>1. z = m + k /\ m \in Nat /\ k \in Nat /\ k > 0
    BY <1>1, <1>4, <1>5
  <2>2. \A i \in 1 .. z : \/ i \in 1 .. m /\ v.attempts[i] = w.attempts[i]
                          \/ i - m \in 1 .. k /\ v.attempts[i] = t[i - m]
    BY <1>1, <1>2, <1>3, JoinedAttempts, SMTT(30)
  <2>3. t[k] = attempt
    BY <1>1
  <2> HIDE DEF z, m, k
  <2>4. z > 0 /\ z \in 1 .. z /\ z \notin 1 .. m /\ z - m = k
    BY <2>1
  <2>5. v.attempts[z] = attempt
    BY <2>2, <2>3, <2>4
  <2> QED BY <2>4, <2>5 DEF z
<1>7. Retries(v.pending, Head(v.cands))
  BY <1>2, ServiceAssumption DEF Retries
<1>8. \A i, j \in 1 .. Len(v.cands) : i # j => v.cands[i] # v.cands[j]
  BY <1>2 DEF SoundWork
<1>9. SoundWork(v)
  BY <1>2, <1>4, <1>6, <1>7, <1>8 DEF SoundWork
<1> QED BY <1>9 DEF v, t

\* One request moves, and at most wakes others; payments are not touched.
LEMMA HistoryMove ==
  ASSUME HistoryInv, NEW r \in Requests, payments' = payments,
         \A q \in Requests \ {r} :
           /\ work'[q] = work[q]
           /\ pc'[q] = pc[q] \/ (pc[q] = "waiting" /\ pc'[q] = "woken"),
         SoundWork(work'[r]),
         pc'[r] \notin Working => work'[r] = NoWork,
         pc'[r] \in {"attempt", "calling"} => work'[r].status = "PROCESSING"
  PROVE  HistoryInv'
<1>1. HistoryExplainsStatus'
  BY DEF HistoryInv, HistoryExplainsStatus
<1>2. ASSUME NEW q \in Requests
      PROVE  /\ pc'[q] \notin Working => work'[q] = NoWork
             /\ pc'[q] \in {"attempt", "calling"} => work'[q].status = "PROCESSING"
             /\ SoundWork(work'[q])
  <2>1. CASE q = r
    BY <2>1
  <2>2. CASE q # r
    <3>1. work'[q] = work[q] /\ (pc'[q] = pc[q] \/ (pc[q] = "waiting" /\ pc'[q] = "woken"))
      BY <2>2
    <3> QED BY <3>1 DEF HistoryInv, Working
  <2> QED BY <2>1, <2>2
<1>3. \A q \in Requests : SoundWork(work[q])' <=> SoundWork(work'[q])
  BY DEF SoundWork, Blocks, Fits, Retries
<1> QED BY <1>1, <1>2, <1>3 DEF HistoryInv, NoWork

\* What Go and event.set() leave of the others.
LEMMA OthersWait ==
  ASSUME TypeInv, NEW r \in Requests, NEW where \in PC, Go(r, where) \/ GoAndWake(r, where)
  PROVE  /\ pc'[r] = where
         /\ \A q \in Requests \ {r} :
              pc'[q] = pc[q] \/ (pc[q] = "waiting" /\ pc'[q] = "woken")
<1>1. pc \in [Requests -> PC]
  BY DEF TypeInv, TypeOK
<1>2. CASE Go(r, where)
  BY <1>1, <1>2, GoEffect
<1>3. CASE GoAndWake(r, where)
  BY <1>1, <1>3, WakeEffect
<1> QED BY <1>2, <1>3

\* A request without work goes elsewhere without work.
LEMMA IdleMove ==
  ASSUME TypeInv, HistoryInv, NEW r \in Requests, NEW where \in PC \ Working,
         pc[r] \notin Working, Go(r, where) \/ GoAndWake(r, where),
         UNCHANGED <<work, payments>>
  PROVE  HistoryInv'
<1>1. /\ pc'[r] = where
      /\ \A q \in Requests \ {r} : pc'[q] = pc[q] \/ (pc[q] = "waiting" /\ pc'[q] = "woken")
  BY OthersWait
<1>2. work[r] = NoWork
  BY DEF HistoryInv
<1>3. where \notin {"attempt", "calling"}
  BY DEF Working
<1> QED BY <1>1, <1>2, <1>3, NoWorkSound, HistoryMove

\* A request drops its work and ends.
LEMMA DroppingMove ==
  ASSUME TypeInv, HistoryInv, NEW r \in Requests, NEW where \in Ended,
         Go(r, where) \/ GoAndWake(r, where),
         work' = [work EXCEPT ![r] = NoWork], payments' = payments
  PROVE  HistoryInv'
<1>1. where \in PC /\ where \notin Working
  BY DEF PC, Ended, Working
<1>2. /\ pc'[r] = where
      /\ \A q \in Requests \ {r} : pc'[q] = pc[q] \/ (pc[q] = "waiting" /\ pc'[q] = "woken")
  BY <1>1, OthersWait
<1>3. work'[r] = NoWork /\ \A q \in Requests \ {r} : work'[q] = work[q]
  BY DEF TypeInv, TypeOK
<1>4. where \notin {"attempt", "calling"}
  BY <1>1 DEF Working
<1> QED BY <1>1, <1>2, <1>3, <1>4, NoWorkSound, HistoryMove

\* abort and complete drop the work of the request that ends.
LEMMA ClaimDropsWork ==
  ASSUME NEW r \in Requests,
         \/ \E outcome \in Ended : AbortClaim(r, outcome)
         \/ \E p \in Requests, outcome \in {"returned", "failed"} : CompleteClaim(r, p, outcome)
  PROVE  \E where \in Ended : /\ Go(r, where) \/ GoAndWake(r, where)
                              /\ work' = [work EXCEPT ![r] = NoWork]
<1>1. ASSUME NEW outcome \in Ended, AbortClaim(r, outcome)
      PROVE  \E where \in Ended : /\ Go(r, where) \/ GoAndWake(r, where)
                                  /\ work' = [work EXCEPT ![r] = NoWork]
  BY <1>1 DEF AbortClaim
<1>2. ASSUME NEW p \in Requests, NEW outcome \in {"returned", "failed"},
             CompleteClaim(r, p, outcome)
      PROVE  \E where \in Ended : /\ Go(r, where) \/ GoAndWake(r, where)
                                  /\ work' = [work EXCEPT ![r] = NoWork]
  <2>1. outcome \in Ended /\ "error" \in Ended
    BY DEF Ended
  <2>2. CASE Completable(records[Key(r)], Fp(r))
    BY <1>2, <2>1, <2>2 DEF CompleteClaim
  <2>3. CASE ~Completable(records[Key(r)], Fp(r))
    BY <1>1, <1>2, <2>1, <2>3 DEF CompleteClaim
  <2> QED BY <2>2, <2>3
<1> QED BY <1>1, <1>2

\* A request in the provider loop goes on with sound work.
LEMMA WorkingMove ==
  ASSUME TypeInv, HistoryInv, NEW r \in Requests, NEW where \in Working, Go(r, where),
         NEW w, work' = [work EXCEPT ![r] = w], payments' = payments, SoundWork(w),
         where \in {"attempt", "calling"} => w.status = "PROCESSING"
  PROVE  HistoryInv'
<1>1. where \in PC
  BY DEF PC, Owning, Working
<1>2. /\ pc'[r] = where
      /\ \A q \in Requests \ {r} : pc'[q] = pc[q] \/ (pc[q] = "waiting" /\ pc'[q] = "woken")
  BY <1>1, OthersWait
<1>3. work'[r] = w /\ \A q \in Requests \ {r} : work'[q] = work[q]
  BY DEF TypeInv, TypeOK
<1> QED BY <1>2, <1>3, HistoryMove

\* The router's order names each provider once.
LEMMA RouteHistory ==
  ASSUME TypeInv, HistoryInv, NEW r \in Requests, NEW order \in CandidateOrders,
         pc[r] = "route", work' = [work EXCEPT ![r].cands = order], Go(r, "attempt"),
         payments' = payments
  PROVE  HistoryInv'
<1> DEFINE w == [NoWork EXCEPT !.cands = order]
<1>1. work[r] = NoWork
  BY DEF HistoryInv, Working
<1>2. work' = [work EXCEPT ![r] = w]
  BY <1>1
<1>3. w.cands = order /\ w.pending = <<>> /\ w.attempts = <<>> /\ w.status = "PROCESSING"
  BY DEF NoWork
<1>4. order \in Seq(ProviderNames) /\ DOMAIN order = 1 .. Len(order) /\ Len(order) \in Nat
  BY OrdersTyped, LenProperties
<1>5. \A i, j \in DOMAIN order : i < j => order[i] # order[j]
  BY DEF CandidateOrders
<1> HIDE DEF w
<1>6. \A i, j \in 1 .. Len(order) : i # j => order[i] # order[j]
  <2> SUFFICES ASSUME NEW i \in 1 .. Len(order), NEW j \in 1 .. Len(order), i # j
               PROVE  order[i] # order[j]
    OBVIOUS
  <2>1. i < j \/ j < i
    BY <1>4
  <2> QED BY <1>4, <1>5, <2>1
<1>7. Blocks(<<>>) /\ Len(<<>>) = 0 /\ 1 .. 0 = {}
  BY DEF Blocks
<1>8. Retries(<<>>, Head(order))
  BY ServiceAssumption DEF Retries
<1>9. SoundWork(w)
  BY <1>3, <1>6, <1>7, <1>8 DEF SoundWork
<1>10. "attempt" \in Working
  BY DEF Working
<1> QED BY <1>2, <1>3, <1>9, <1>10, WorkingMove

\* create gives up on a candidate.
LEMMA GiveUpHistory ==
  ASSUME TypeInv, HistoryInv, NEW r \in Requests, pc[r] \in {"attempt", "calling"},
         NEW s \in Seq(Attempt), NEW code,
         Len(s) <= MaxAttempts,
         \A i \in 1 .. Len(s) : s[i].provider = Head(work[r].cands) /\ s[i].number = i,
         \A i \in 1 .. Len(s) : i < Len(s) => s[i].result = "RETRY",
         NEW w, w = GiveUp(work[r], s, code),
         work' = [work EXCEPT ![r] = w], Go(r, AfterGiveUp(w)), payments' = payments
  PROVE  HistoryInv'
<1>1. /\ work[r] \in Work /\ work[r].cands # <<>> /\ work[r].status = "PROCESSING"
      /\ SoundWork(work[r])
  BY CandidateTyped DEF HistoryInv
<1>2. SoundWork(w)
  BY <1>1, GiveUpSound
<1>3. w.status \in {"PROCESSING", "FAILED"}
  BY <1>1, GiveUpTyped
<1>4. AfterGiveUp(w) \in Working
      /\ (AfterGiveUp(w) \in {"attempt", "calling"} => w.status = "PROCESSING")
  BY <1>3 DEF AfterGiveUp, Working
<1> QED BY <1>2, <1>4, WorkingMove

\* A failed attempt is followed by another one, or is the last at its provider.
LEMMA ProviderFailsHistory ==
  ASSUME TypeInv, HistoryInv, NEW r \in Requests, NEW code \in ErrorCodes, ProviderFails(r, code)
  PROVE  HistoryInv'
<1> DEFINE n == Len(work[r].pending) + 1
           attempt == [provider |-> Head(work[r].cands), number |-> n, code |-> code,
                       result |-> IF Retryable(code) THEN "RETRY" ELSE "FAILED"]
           tried == Append(work[r].pending, attempt)
           w == IF Retryable(code) /\ n < MaxAttempts
                THEN [work[r] EXCEPT !.pending = tried]
                ELSE GiveUp(work[r], tried, code)
<1>1. /\ pc[r] = "calling" /\ work' = [work EXCEPT ![r] = w] /\ Go(r, AfterGiveUp(w))
      /\ payments' = payments
  BY DEF ProviderFails
<1>2. /\ work[r] \in Work /\ work[r].cands # <<>> /\ Head(work[r].cands) \in ProviderNames
      /\ work[r].pending \in Seq(Attempt)
  BY <1>1, CandidateTyped
<1>3. work[r].status = "PROCESSING" /\ SoundWork(work[r])
  BY <1>1 DEF HistoryInv
<1>4. attempt \in Attempt
  BY <1>2, LenProperties DEF Attempt
<1>5. attempt.provider = Head(work[r].cands) /\ attempt.number = n
      /\ (Retryable(code) => attempt.result = "RETRY")
  OBVIOUS
<1> HIDE DEF attempt
<1>6. /\ tried \in Seq(Attempt) /\ Len(tried) = n /\ n \in Nat /\ Len(tried) <= MaxAttempts
      /\ tried[Len(tried)] = attempt
      /\ \A i \in 1 .. Len(tried) :
           tried[i].provider = Head(work[r].cands) /\ tried[i].number = i
      /\ \A i \in 1 .. Len(tried) : i < Len(tried) => tried[i].result = "RETRY"
  <2>1. /\ tried \in Seq(Attempt) /\ Len(tried) = Len(work[r].pending) + 1
        /\ Len(work[r].pending) \in Nat /\ Len(tried) <= MaxAttempts
        /\ tried[Len(tried)] = attempt
        /\ \A i \in 1 .. Len(tried) :
             tried[i].provider = Head(work[r].cands) /\ tried[i].number = i
        /\ \A i \in 1 .. Len(tried) : i < Len(tried) => tried[i].result = "RETRY"
    BY <1>2, <1>3, <1>4, <1>5, OneMoreAttempt
  <2> HIDE DEF tried
  <2> QED BY <2>1
<1> HIDE DEF tried, n
<1>7. CASE Retryable(code) /\ n < MaxAttempts
  <2>1. w = [work[r] EXCEPT !.pending = tried]
    BY <1>7
  <2>2. /\ w.pending = tried /\ w.cands = work[r].cands /\ w.attempts = work[r].attempts
        /\ w.status = "PROCESSING"
    BY <1>2, <1>3, <2>1 DEF Work
  <2> HIDE DEF w
  <2>3. \A i \in 1 .. Len(tried) : tried[i].result = "RETRY"
    <3> SUFFICES ASSUME NEW i \in 1 .. Len(tried) PROVE tried[i].result = "RETRY"
      OBVIOUS
    <3>1. i < Len(tried) \/ i = Len(tried)
      BY <1>6
    <3> QED BY <1>5, <1>6, <1>7, <3>1
  <2>4. Retries(w.pending, Head(w.cands))
    BY <1>6, <1>7, <2>2, <2>3 DEF Retries
  <2>5. SoundWork(w)
    BY <1>3, <2>2, <2>4 DEF SoundWork
  <2>6. AfterGiveUp(w) = "attempt" /\ "attempt" \in Working
    BY <2>2 DEF AfterGiveUp, Working
  <2> QED BY <1>1, <2>2, <2>5, <2>6, WorkingMove
<1>8. CASE ~(Retryable(code) /\ n < MaxAttempts)
  <2>1. w = GiveUp(work[r], tried, code)
    BY <1>8
  <2> HIDE DEF w
  <2> QED BY <1>1, <1>6, <2>1, GiveUpHistory
<1> QED BY <1>7, <1>8

\* An open circuit ends the attempts at a candidate without adding one.
LEMMA MeetOpenCircuitHistory ==
  ASSUME TypeInv, HistoryInv, NEW r \in Requests, MeetOpenCircuit(r)
  PROVE  HistoryInv'
<1> DEFINE s == work[r].pending
           w == GiveUp(work[r], s, "CIRCUIT_OPEN")
<1>1. /\ pc[r] = "attempt" /\ work' = [work EXCEPT ![r] = w] /\ Go(r, AfterGiveUp(w))
      /\ payments' = payments
  BY DEF MeetOpenCircuit
<1>2. s \in Seq(Attempt) /\ Len(s) \in Nat
  BY <1>1, CandidateTyped, LenProperties
<1>3. Retries(s, Head(work[r].cands))
  BY DEF HistoryInv, SoundWork
<1>4. /\ Len(s) <= MaxAttempts
      /\ \A i \in 1 .. Len(s) : s[i].provider = Head(work[r].cands) /\ s[i].number = i
      /\ \A i \in 1 .. Len(s) : i < Len(s) => s[i].result = "RETRY"
  <2>1. Len(s) < MaxAttempts => Len(s) <= MaxAttempts
    BY <1>2, ServiceAssumption
  <2> QED BY <1>3, <2>1 DEF Retries
<1> HIDE DEF s
<1>5. w = GiveUp(work[r], s, "CIRCUIT_OPEN")
  OBVIOUS
<1> HIDE DEF w
<1> QED BY <1>1, <1>2, <1>4, <1>5, GiveUpHistory

\* A success is the last attempt.
LEMMA ProviderSucceedsHistory ==
  ASSUME TypeInv, HistoryInv, NEW r \in Requests, ProviderSucceeds(r)
  PROVE  HistoryInv'
<1> DEFINE attempt == [provider |-> Head(work[r].cands), number |-> Len(work[r].pending) + 1,
                       result |-> "SUCCEEDED", code |-> "OK"]
           w == [cands |-> work[r].cands, pending |-> <<>>,
                 attempts |-> work[r].attempts \o Append(work[r].pending, attempt),
                 status |-> "SUCCEEDED"]
<1>1. /\ pc[r] = "calling" /\ work' = [work EXCEPT ![r] = w] /\ Go(r, "save")
      /\ payments' = payments
  BY DEF ProviderSucceeds
<1>2. /\ work[r] \in Work /\ work[r].cands # <<>> /\ Head(work[r].cands) \in ProviderNames
      /\ work[r].pending \in Seq(Attempt)
  BY <1>1, CandidateTyped
<1>3. work[r].status = "PROCESSING" /\ SoundWork(work[r])
  BY <1>1 DEF HistoryInv
<1>4. attempt \in Attempt
  BY <1>2, LenProperties DEF Attempt
<1>5. attempt.provider = Head(work[r].cands) /\ attempt.number = Len(work[r].pending) + 1
      /\ attempt.result = "SUCCEEDED"
  OBVIOUS
<1> HIDE DEF attempt
<1>6. SoundWork(w)
  BY <1>2, <1>3, <1>4, <1>5, SuccessSound
<1> HIDE DEF w
<1>7. "save" \in Working /\ "save" \notin {"attempt", "calling"}
  BY DEF Working
<1> QED BY <1>1, <1>6, <1>7, WorkingMove

\* The save stores what the work explains.
LEMMA SaveHistory ==
  ASSUME TypeInv, HistoryInv, NEW r \in Requests, Save(r)
  PROVE  HistoryInv'
<1> DEFINE w == work[r]
<1>1. /\ pc[r] = "save" /\ work' = work /\ Go(r, "complete")
      /\ payments'[r] = [status |-> w.status,
                         provider |-> IF w.status = "SUCCEEDED" THEN Head(w.cands) ELSE None,
                         attempts |-> w.attempts]
      /\ \A q \in Requests : q # r => payments'[q] = payments[q]
  BY DEF Save, TypeInv, TypeOK
<1>2. SoundWork(w)
  BY DEF HistoryInv
<1>3. w \in Work
  BY DEF TypeInv, TypeOK
<1>4. w.attempts \in Seq(Attempt) /\ Len(w.attempts) \in Nat
      /\ w.status \in {"PROCESSING", "SUCCEEDED", "FAILED"}
  BY <1>3, LenProperties DEF Work
<1>5. "complete" \in PC /\ "complete" \in Working /\ "complete" \notin {"attempt", "calling"}
  BY DEF PC, Owning, Working
<1>6. pc'[r] = "complete" /\ \A q \in Requests \ {r} : pc'[q] = pc[q]
  BY <1>1, <1>5, GoEffect DEF TypeInv, TypeOK
<1> HIDE DEF w
<1>7. HistoryExplainsStatus'
  <2> DEFINE Explained(x) ==
               LET a == x.attempts
                   n == Len(a) IN
               /\ x.status = "SUCCEEDED" <=> n > 0 /\ a[n].result = "SUCCEEDED"
               /\ x.status = "SUCCEEDED" => x.provider = a[n].provider
               /\ Blocks(a)
  <2>1. HistoryExplainsStatus <=> \A q \in Requests : Explained(payments[q])
    BY DEF HistoryExplainsStatus, Blocks, Fits
  <2>2. HistoryExplainsStatus' <=> \A q \in Requests : Explained(payments'[q])
    BY DEF HistoryExplainsStatus, Blocks, Fits
  <2>3. Explained(payments'[r])
    <3> DEFINE x == payments'[r]
    <3>1. x.status = w.status /\ x.attempts = w.attempts
          /\ (w.status = "SUCCEEDED" => x.provider = Head(w.cands))
      BY <1>1
    <3>2. w.status = "SUCCEEDED" <=> Len(w.attempts) > 0
                                     /\ w.attempts[Len(w.attempts)].result = "SUCCEEDED"
      <4>1. Len(w.attempts) > 0 => Len(w.attempts) \in 1 .. Len(w.attempts)
        BY <1>4
      <4> QED BY <1>2, <4>1 DEF SoundWork
    <3>3. w.status = "SUCCEEDED" => w.attempts[Len(w.attempts)].provider = Head(w.cands)
      BY <1>2 DEF SoundWork
    <3>4. Blocks(w.attempts)
      BY <1>2 DEF SoundWork
    <3> QED BY <3>1, <3>2, <3>3, <3>4
  <2> HIDE DEF Explained
  <2>4. \A q \in Requests : Explained(payments[q])
    BY <2>1 DEF HistoryInv
  <2> QED BY <1>1, <2>2, <2>3, <2>4
<1>8. ASSUME NEW q \in Requests
      PROVE  /\ pc'[q] \notin Working => work'[q] = NoWork
             /\ pc'[q] \in {"attempt", "calling"} => work'[q].status = "PROCESSING"
             /\ SoundWork(work'[q])
  <2>1. CASE q = r
    BY <1>1, <1>5, <1>6, <2>1 DEF HistoryInv
  <2>2. CASE q # r
    BY <1>1, <1>6, <2>2 DEF HistoryInv
  <2> QED BY <2>1, <2>2
<1>9. \A q \in Requests : SoundWork(work[q])' <=> SoundWork(work'[q])
  BY DEF SoundWork, Blocks, Fits, Retries
<1> QED BY <1>7, <1>8, <1>9 DEF HistoryInv, NoWork

\* Every step of create keeps the histories sound, whatever goes wrong.
LEMMA NextHistory == TypeInv /\ ClaimInv /\ HistoryInv /\ [Next]_vars => HistoryInv'
<1> SUFFICES ASSUME TypeInv, ClaimInv, HistoryInv, [Next]_vars PROVE HistoryInv'
  OBVIOUS
<1>1. ASSUME NEW r \in Requests, Acquire(r) PROVE HistoryInv'
  <2> DEFINE decision == Decision(records[Key(r)], Fp(r))
             where == CASE decision = "CLAIMED" -> "lookup"
                        [] decision = "CONFLICT" -> "conflict"
                        [] decision = "COMPLETED" -> "replay"
                        [] decision = "WAIT" -> "waiting"
  <2>1. records[Key(r)] \in Record(Fingerprints, Requests)
    BY DataTyped DEF TypeInv, TypeOK
  <2>2. decision \in {"CLAIMED", "CONFLICT", "COMPLETED", "WAIT"}
    BY <2>1 DEF Decision, Record
  <2>3. where \in {"lookup", "conflict", "replay", "waiting"}
    BY <2>2
  <2>4. where \in PC \ Working
    BY <2>3 DEF PC, Owning, Ended, Working
  <2>5. Go(r, where) /\ pc[r] \notin Working /\ UNCHANGED <<work, payments>>
    BY <1>1 DEF Acquire, Working
  <2> HIDE DEF where
  <2> QED BY <2>4, <2>5, IdleMove
<1>2. ASSUME NEW r \in Requests, Replay(r) PROVE HistoryInv'
  <2>1. pc[r] \notin Working /\ {"returned", "error"} \subseteq PC \ Working
    BY <1>2 DEF Replay, PC, Ended, Working
  <2>2. (Go(r, "returned") \/ Go(r, "error")) /\ UNCHANGED <<work, payments>>
    BY <1>2 DEF Replay
  <2> QED BY <2>1, <2>2, IdleMove
<1>3. ASSUME NEW r \in Requests,
             \/ \E outcome \in Ended : AbortClaim(r, outcome)
             \/ \E p \in Requests, outcome \in {"returned", "failed"} : CompleteClaim(r, p, outcome),
             payments' = payments
      PROVE  HistoryInv'
  BY <1>3, ClaimDropsWork, DroppingMove
<1>4. {"error", "conflict", "returned", "failed"} \subseteq Ended
  BY DEF Ended
<1>5. ASSUME NEW r \in Requests, Lookup(r) PROVE HistoryInv'
  <2>1. pc[r] \notin Working /\ "route" \in PC \ Working
    BY <1>5 DEF Lookup, PC, Owning, Working
  <2>2. payments' = payments
    BY <1>5 DEF Lookup
  <2>3. CASE Go(r, "route") /\ work' = work
    BY <2>1, <2>2, <2>3, IdleMove
  <2>4. CASE AbortClaim(r, "conflict")
    BY <1>3, <1>4, <2>2, <2>4
  <2>5. CASE keyIndex[Key(r)] # None /\ CompleteClaim(r, keyIndex[Key(r)], "returned")
    <3>1. keyIndex[Key(r)] \in Requests
      BY <2>5, DataTyped DEF TypeInv, TypeOK
    <3> QED BY <1>3, <2>2, <2>5, <3>1
  <2> QED BY <1>5, <2>3, <2>4, <2>5 DEF Lookup
<1>6. ASSUME NEW r \in Requests, Route(r) PROVE HistoryInv'
  <2>1. pc[r] = "route" /\ payments' = payments
    BY <1>6 DEF Route
  <2>2. CASE AbortClaim(r, "error")
    BY <1>3, <1>4, <2>1, <2>2
  <2>3. ASSUME NEW order \in CandidateOrders, work' = [work EXCEPT ![r].cands = order],
               Go(r, "attempt")
        PROVE  HistoryInv'
    BY <2>1, <2>3, RouteHistory
  <2> QED BY <1>6, <2>2, <2>3 DEF Route
<1>7. ASSUME NEW r \in Requests, CallProvider(r) PROVE HistoryInv'
  <2>1. pc[r] = "attempt" /\ work' = work /\ payments' = payments /\ Go(r, "calling")
    BY <1>7 DEF CallProvider
  <2>2. work[r].status = "PROCESSING" /\ SoundWork(work[r])
    BY <2>1 DEF HistoryInv
  <2>3. work' = [work EXCEPT ![r] = work[r]]
    BY <2>1 DEF TypeInv, TypeOK
  <2>4. "calling" \in Working
    BY DEF Working
  <2> QED BY <2>1, <2>2, <2>3, <2>4, WorkingMove
<1>8. ASSUME NEW r \in Requests, Complete(r) PROVE HistoryInv'
  <2>1. payments' = payments
        /\ \E outcome \in {"returned", "failed"} : CompleteClaim(r, r, outcome)
    BY <1>8 DEF Complete
  <2> QED BY <1>3, <2>1
<1>9. ASSUME NEW r \in Requests, Step(r) PROVE HistoryInv'
  BY <1>1, <1>2, <1>5, <1>6, <1>7, <1>8, <1>9, MeetOpenCircuitHistory, ProviderFailsHistory,
     ProviderSucceedsHistory, SaveHistory DEF Step
<1>10. ASSUME NEW r \in Requests, ProviderRaisesUnexpected(r) \/ StoreRaises(r) \/ Cancel(r)
       PROVE  HistoryInv'
  <2>1. /\ payments' = payments
        /\ \/ AbortClaim(r, "error")
           \/ pc[r] \in {"waiting", "woken", "replay"} /\ Go(r, "error") /\ work' = work
    BY <1>10 DEF ProviderRaisesUnexpected, StoreRaises, Cancel
  <2>2. CASE AbortClaim(r, "error")
    BY <1>3, <1>4, <2>1, <2>2
  <2>3. CASE pc[r] \in {"waiting", "woken", "replay"} /\ Go(r, "error") /\ work' = work
    <3>1. pc[r] \notin Working /\ "error" \in PC \ Working
      BY <2>3 DEF PC, Ended, Working
    <3> QED BY <2>1, <2>3, <3>1, IdleMove
  <2> QED BY <2>1, <2>2, <2>3
<1>11. CASE Crash
  <2>1. /\ payments' = payments
        /\ \A r \in Requests : pc'[r] \notin Working /\ work'[r] = NoWork
    BY <1>11 DEF Crash, Ended, Working
  <2>2. \A r \in Requests : SoundWork(work[r])' <=> SoundWork(work'[r])
    BY DEF SoundWork, Blocks, Fits, Retries
  <2>3. HistoryExplainsStatus'
    BY <2>1 DEF HistoryInv, HistoryExplainsStatus
  <2>4. \A r \in Requests : pc'[r] \notin {"attempt", "calling"}
    BY <2>1 DEF Working
  <2> QED BY <2>1, <2>2, <2>3, <2>4, NoWorkSound DEF HistoryInv, NoWork
<1>12. CASE UNCHANGED <<pc, work, payments>>
  BY <1>12 DEF HistoryInv, HistoryExplainsStatus, SoundWork, Blocks, Fits, Retries, NoWork
<1>13. (\E p \in ProviderNames : Clock(p)) \/ UNCHANGED vars => UNCHANGED <<pc, work, payments>>
  BY DEF Clock, vars
<1> QED BY <1>9, <1>10, <1>11, <1>12, <1>13 DEF Next

\* The attempts a payment is stored with explain its status, for every number
\* of attempts, providers and concurrent requests and through every fault
\* (_attempt_provider, the failover loop of create).
THEOREM ServiceHistoryExplainsStatus == Spec => []HistoryExplainsStatus
<1>1. Init => HistoryInv
  <2> SUFFICES ASSUME Init PROVE HistoryInv
    OBVIOUS
  <2>1. \A r \in Requests : work[r] = NoWork /\ pc[r] = "new" /\ payments[r] = NoPayment
    BY DEF Init
  <2>2. HistoryExplainsStatus
    BY <2>1 DEF HistoryExplainsStatus, NoPayment
  <2> QED BY <2>1, <2>2, NoWorkSound DEF HistoryInv
<1>2. HistoryInv => HistoryExplainsStatus
  BY DEF HistoryInv
<1> QED BY <1>1, <1>2, NextHistory, ServiceInvariant, PTL DEF Spec
=============================================================================
