--------------------------- MODULE PaymentService ---------------------------
(***************************************************************************)
(* PaymentService.create (service.py) as concurrent requests run it in one *)
(* process: the idempotency claim, the lookup of an earlier payment, the   *)
(* choice of providers, attempts with retry and failover under one circuit *)
(* breaker per provider, the save of payment and events, the completion or *)
(* the abort of the claim; and a crash of the process, which loses the     *)
(* coordinator and the breakers and keeps the payment store.               *)
(*                                                                         *)
(* A request creates at most one Payment, so a payment is named after the  *)
(* request that made it.  A step runs from one suspension point to the     *)
(* next; acquire, complete and abort of the in-memory coordinator never    *)
(* suspend while they hold the key lock and are part of the step that      *)
(* calls them.  The store may be the database, so each of its calls is a   *)
(* step, and what was committed stays committed when the caller is         *)
(* cancelled before it hears of it.                                        *)
(*                                                                         *)
(* ServiceFaults turns on what may go wrong besides a ProviderError:       *)
(*   "unexpected"  an attempt raises some other Exception                  *)
(*   "store"       a call of the store raises                              *)
(*   "cancel"      the task is cancelled at a suspension point             *)
(*   "crash"       the process dies and starts again                       *)
(***************************************************************************)
EXTENDS CircuitBreaker, Idempotency, FiniteSets, Sequences

CONSTANTS
    Requests, Keys, Fingerprints,
    Providers,        \* the provider list, a sequence of distinct names
    MaxAttempts,      \* RetryPolicy.max_attempts
    ServiceFaults

ProviderNames == {Providers[i] : i \in DOMAIN Providers}

ASSUME ServiceAssumption ==
    /\ None \notin Requests \cup Fingerprints \cup ProviderNames
    /\ Providers \in Seq(ProviderNames)
    /\ MaxAttempts \in Nat \ {0}
    /\ ServiceFaults \subseteq {"unexpected", "store", "cancel", "crash"}

VARIABLES
    data,       \* the key and fingerprint each request carries
    pc,         \* where each request is
    records,    \* the coordinator's _records
    keyIndex,   \* the payment the store holds for each key
    payments,   \* the payments the store holds
    outbox,     \* the payment events saved with them
    circuits,   \* the breaker of each provider
    work,       \* the payment a request is working on
    returned,   \* the payment each request was answered with
    charged     \* history: <<request, provider>> calls that returned a result

vars == <<data, pc, records, keyIndex, payments, outbox, circuits, work,
          returned, charged>>

\* PROVIDER_UNAVAILABLE stands for HTTP_502 and HTTP_503 too: the code treats
\* the three alike.
ErrorCodes == {"PROVIDER_TIMEOUT", "PROVIDER_UNAVAILABLE", "PAYMENT_DECLINED"}

\* RETRYABLE_ERRORS
Retryable(code) == code \in {"PROVIDER_TIMEOUT", "PROVIDER_UNAVAILABLE"}

\* The codes after which create goes on to the next provider.
FailsOver(code) == code \in {"PROVIDER_UNAVAILABLE", "CIRCUIT_OPEN"}

Attempt == [provider : ProviderNames, number : Nat \ {0},
            result : {"SUCCEEDED", "RETRY", "FAILED"},
            code : ErrorCodes \cup {"OK"}]

\* cands: the candidates not given up yet, the present one first;
\* pending: the attempts at the present one, which _attempt_provider adds to
\* payment.attempts when it ends.
Work == [cands : Seq(ProviderNames), pending : Seq(Attempt),
         attempts : Seq(Attempt), status : {"PROCESSING", "SUCCEEDED", "FAILED"}]

NoWork == [cands |-> <<>>, pending |-> <<>>, attempts |-> <<>>,
           status |-> "PROCESSING"]

Payment == [status : {"ABSENT", "SUCCEEDED", "FAILED"},
            provider : ProviderNames \cup {None}, attempts : Seq(Attempt)]

NoPayment == [status |-> "ABSENT", provider |-> None, attempts |-> <<>>]

\* A request holds its claim from `lookup' to `complete'.
Owning == {"lookup", "route", "attempt", "calling", "save", "complete"}

\* Executing: the provider loop of create.
Executing == {"route", "attempt", "calling"}

Ended == {"returned", "failed", "conflict", "error", "crashed"}

PC == {"new", "woken", "waiting", "replay"} \cup Owning \cup Ended

TypeOK ==
    /\ data \in [Requests -> [key : Keys, fp : Fingerprints]]
    /\ pc \in [Requests -> PC]
    /\ records \in [Keys -> Record(Fingerprints, Requests)]
    /\ keyIndex \in [Keys -> Requests \cup {None}]
    /\ payments \in [Requests -> Payment]
    /\ outbox \in Seq([payment : Requests, type : {"created", "processing", "SUCCEEDED", "FAILED"}])
    /\ circuits \in [ProviderNames -> Breaker]
    /\ work \in [Requests -> Work]
    /\ returned \in [Requests -> Requests \cup {None}]
    /\ charged \subseteq Requests \X ProviderNames

Init ==
    /\ data \in [Requests -> [key : Keys, fp : Fingerprints]]
    /\ pc = [r \in Requests |-> "new"]
    /\ records = [k \in Keys |-> Absent]
    /\ keyIndex = [k \in Keys |-> None]
    /\ payments = [r \in Requests |-> NoPayment]
    /\ outbox = <<>>
    /\ circuits = [p \in ProviderNames |-> NewBreaker]
    /\ work = [r \in Requests |-> NoWork]
    /\ returned = [r \in Requests |-> None]
    /\ charged = {}

-----------------------------------------------------------------------------
Key(r) == data[r].key

Fp(r) == data[r].fp

Go(r, where) == pc' = [pc EXCEPT ![r] = where]

\* event.set(): r goes to `where', the requests waiting for its claim wake up.
GoAndWake(r, where) ==
    pc' = [q \in Requests |->
             CASE q = r -> where
               [] q # r /\ pc[q] = "waiting" /\ Key(q) = Key(r) -> "woken"
               [] OTHER -> pc[q]]

\* Slip: abort deletes the record and wakes nobody.
AbortClaimSilently(r, outcome) ==
    /\ IF Abortable(records[Key(r)], Fp(r))
       THEN records' = [records EXCEPT ![Key(r)] = Absent]
       ELSE UNCHANGED records
    /\ Go(r, outcome)
    /\ work' = [work EXCEPT ![r] = NoWork]

\* Slip: the error is raised without an abort.
AbortClaimForgotten(r, outcome) ==
    /\ UNCHANGED records
    /\ Go(r, outcome)
    /\ work' = [work EXCEPT ![r] = NoWork]

\* The `except BaseException' of create for a request that still has its
\* claim: abort, whatever was being worked on is dropped, the error is raised.
AbortClaim(r, outcome) ==
    /\ IF Abortable(records[Key(r)], Fp(r))
       THEN /\ records' = [records EXCEPT ![Key(r)] = Absent]
            /\ GoAndWake(r, outcome)
       ELSE /\ UNCHANGED records
            /\ Go(r, outcome)
    /\ work' = [work EXCEPT ![r] = NoWork]

\* complete for payment p, after which r ends: answered with p, or with the
\* stored failure's error (which returns no payment).
CompleteClaim(r, p, outcome) ==
    IF Completable(records[Key(r)], Fp(r))
    THEN /\ records' = [records EXCEPT ![Key(r)] = Completed(Fp(r), p)]
         /\ GoAndWake(r, outcome)
         /\ returned' = [returned EXCEPT ![r] = IF outcome = "returned" THEN p ELSE None]
         /\ work' = [work EXCEPT ![r] = NoWork]
    ELSE /\ AbortClaim(r, "error")
         /\ UNCHANGED returned

-----------------------------------------------------------------------------
\* One round of acquire.
Acquire(r) ==
    /\ pc[r] \in {"new", "woken"}
    /\ LET decision == Decision(records[Key(r)], Fp(r)) IN
       /\ records' = IF decision = "CLAIMED"
                     THEN [records EXCEPT ![Key(r)] = Claimed(Fp(r))]
                     ELSE records
       /\ Go(r, CASE decision = "CLAIMED" -> "lookup"
                  [] decision = "CONFLICT" -> "conflict"
                  [] decision = "COMPLETED" -> "replay"
                  [] decision = "WAIT" -> "waiting")
    /\ UNCHANGED <<data, keyIndex, payments, outbox, circuits, work, returned, charged>>

\* A completed record: store.get of the payment it names.
Replay(r) ==
    /\ pc[r] = "replay"
    /\ LET p == records[Key(r)].payment IN
       IF p # None /\ payments[p].status # "ABSENT"
       THEN /\ returned' = [returned EXCEPT ![r] = p]
            /\ Go(r, "returned")
       ELSE /\ UNCHANGED returned
            /\ Go(r, "error")
    /\ UNCHANGED <<data, records, keyIndex, payments, outbox, circuits, work, charged>>

\* Slip: the claim is taken for proof that the key is new.
LookupSkipped(r) ==
    /\ pc[r] = "lookup"
    /\ Go(r, "route")
    /\ UNCHANGED <<data, records, keyIndex, payments, outbox, circuits, work, returned, charged>>

\* store.get_by_idempotency under the claim: an earlier payment of the key is
\* returned, or refused when its data differ.
Lookup(r) ==
    /\ pc[r] = "lookup"
    /\ LET p == keyIndex[Key(r)] IN
       \/ /\ p = None
          /\ Go(r, "route")
          /\ UNCHANGED <<records, work, returned>>
       \/ /\ p # None
          /\ Fp(p) # Fp(r)
          /\ AbortClaim(r, "conflict")
          /\ UNCHANGED returned
       \/ /\ p # None
          /\ Fp(p) = Fp(r)
          /\ CompleteClaim(r, p, "returned")
    /\ UNCHANGED <<data, keyIndex, payments, outbox, circuits, charged>>

Before(p, q) ==
    \E i, j \in DOMAIN Providers : i < j /\ Providers[i] = p /\ Providers[j] = q

\* The healthy providers, each once: the router's choice first, the others in
\* the order of the list.
CandidateOrders ==
    {order \in UNION {[1 .. n -> ProviderNames] : n \in 1 .. Len(Providers)} :
       \A i, j \in DOMAIN order :
         i < j => /\ order[i] # order[j]
                  /\ i > 1 => Before(order[i], order[j])}

Route(r) ==
    /\ pc[r] = "route"
    /\ \/ \E order \in CandidateOrders :
            /\ work' = [work EXCEPT ![r].cands = order]
            /\ Go(r, "attempt")
            /\ UNCHANGED records
       \/ AbortClaim(r, "error")     \* no healthy provider: LookupError
    /\ UNCHANGED <<data, keyIndex, payments, outbox, circuits, returned, charged>>

-----------------------------------------------------------------------------
\* Slip: the last attempt at a provider keeps its RETRY.
MarkNothing(s) == s

MarkFailed(s) == IF s = <<>> THEN s ELSE [s EXCEPT ![Len(s)].result = "FAILED"]

\* run_with_retry gives up on the present provider with `code': its attempts,
\* the last one marked, join the payment's; create takes the next candidate
\* or settles for FAILED.
GiveUp(w, pending, code) ==
    LET more == FailsOver(code) /\ Len(w.cands) > 1 IN
    [cands |-> IF more THEN Tail(w.cands) ELSE <<>>,
     pending |-> <<>>,
     attempts |-> w.attempts \o MarkFailed(pending),
     status |-> IF more THEN "PROCESSING" ELSE "FAILED"]

AfterGiveUp(w) == IF w.status = "FAILED" THEN "save" ELSE "attempt"

\* operation() asks the breaker and calls the provider.
CallProvider(r) ==
    LET p == Head(work[r].cands) IN
    /\ pc[r] = "attempt"
    /\ Admits(circuits[p])
    /\ circuits' = [circuits EXCEPT ![p] = AfterRequest(@)]
    /\ Go(r, "calling")
    /\ UNCHANGED <<data, records, keyIndex, payments, outbox, work, returned, charged>>

\* The breaker refuses: CIRCUIT_OPEN, which is not retried.
MeetOpenCircuit(r) ==
    LET p == Head(work[r].cands)
        w == GiveUp(work[r], work[r].pending, "CIRCUIT_OPEN") IN
    /\ pc[r] = "attempt"
    /\ ~Admits(circuits[p])
    /\ circuits' = [circuits EXCEPT ![p] = AfterRequest(@)]
    /\ work' = [work EXCEPT ![r] = w]
    /\ Go(r, AfterGiveUp(w))
    /\ UNCHANGED <<data, records, keyIndex, payments, outbox, returned, charged>>

\* create_payment raises ProviderError(code).
ProviderFails(r, code) ==
    LET p == Head(work[r].cands)
        n == Len(work[r].pending) + 1
        attempt == [provider |-> p, number |-> n, code |-> code,
                    result |-> IF Retryable(code) THEN "RETRY" ELSE "FAILED"]
        tried == Append(work[r].pending, attempt)
        w == IF Retryable(code) /\ n < MaxAttempts
             THEN [work[r] EXCEPT !.pending = tried]
             ELSE GiveUp(work[r], tried, code) IN
    /\ pc[r] = "calling"
    /\ circuits' = [circuits EXCEPT ![p] = RecordFailure(@)]
    /\ work' = [work EXCEPT ![r] = w]
    /\ Go(r, AfterGiveUp(w))
    /\ UNCHANGED <<data, records, keyIndex, payments, outbox, returned, charged>>

\* Slip: the status is not set before the save.
ProviderSucceedsStillProcessing(r) ==
    LET p == Head(work[r].cands)
        attempt == [provider |-> p, number |-> Len(work[r].pending) + 1,
                    result |-> "SUCCEEDED", code |-> "OK"] IN
    /\ pc[r] = "calling"
    /\ circuits' = [circuits EXCEPT ![p] = RecordSuccess(@)]
    /\ charged' = charged \cup {<<r, p>>}
    /\ work' = [work EXCEPT ![r] =
                  [cands |-> work[r].cands, pending |-> <<>>,
                   attempts |-> work[r].attempts \o Append(work[r].pending, attempt),
                   status |-> work[r].status]]
    /\ Go(r, "save")
    /\ UNCHANGED <<data, records, keyIndex, payments, outbox, returned>>

\* Slip: the claim is completed before the payment is saved.
ProviderSucceedsUnsaved(r) ==
    LET p == Head(work[r].cands) IN
    /\ pc[r] = "calling"
    /\ circuits' = [circuits EXCEPT ![p] = RecordSuccess(@)]
    /\ charged' = charged \cup {<<r, p>>}
    /\ work' = [work EXCEPT ![r].status = "SUCCEEDED"]
    /\ Go(r, "complete")
    /\ UNCHANGED <<data, records, keyIndex, payments, outbox, returned>>

\* create_payment returns a result: the payment has SUCCEEDED.
ProviderSucceeds(r) ==
    LET p == Head(work[r].cands)
        attempt == [provider |-> p, number |-> Len(work[r].pending) + 1,
                    result |-> "SUCCEEDED", code |-> "OK"] IN
    /\ pc[r] = "calling"
    /\ circuits' = [circuits EXCEPT ![p] = RecordSuccess(@)]
    /\ charged' = charged \cup {<<r, p>>}
    /\ work' = [work EXCEPT ![r] =
                  [cands |-> work[r].cands, pending |-> <<>>,
                   attempts |-> work[r].attempts \o Append(work[r].pending, attempt),
                   status |-> "SUCCEEDED"]]
    /\ Go(r, "save")
    /\ UNCHANGED <<data, records, keyIndex, payments, outbox, returned>>

\* The attempt raises what is no ProviderError: create_payment itself, or the
\* append of the circuit event after the breaker recorded the answer.
ProviderRaisesUnexpected(r) ==
    LET p == Head(work[r].cands) IN
    /\ "unexpected" \in ServiceFaults
    /\ pc[r] = "calling"
    /\ \/ UNCHANGED <<circuits, charged>>
       \/ /\ RecordFailure(circuits[p]).state # circuits[p].state
          /\ circuits' = [circuits EXCEPT ![p] = RecordFailure(@)]
          /\ UNCHANGED charged
       \/ /\ RecordSuccess(circuits[p]).state # circuits[p].state
          /\ circuits' = [circuits EXCEPT ![p] = RecordSuccess(@)]
          /\ charged' = charged \cup {<<r, p>>}
    /\ AbortClaim(r, "error")
    /\ UNCHANGED <<data, keyIndex, payments, outbox, returned>>

-----------------------------------------------------------------------------
\* Slip: the payment is saved without its events.
SaveWithoutEvents(r) ==
    /\ pc[r] = "save"
    /\ payments' = [payments EXCEPT ![r] =
                      [status |-> work[r].status, provider |-> None,
                       attempts |-> work[r].attempts]]
    /\ keyIndex' = [keyIndex EXCEPT ![Key(r)] = r]
    /\ Go(r, "complete")
    /\ UNCHANGED <<data, records, outbox, circuits, work, returned, charged>>

\* _save: the terminal payment and its three events in one transaction.
Save(r) ==
    LET w == work[r]
        event(type) == [payment |-> r, type |-> type] IN
    /\ pc[r] = "save"
    /\ payments' = [payments EXCEPT ![r] =
                      [status |-> w.status,
                       provider |-> IF w.status = "SUCCEEDED" THEN Head(w.cands) ELSE None,
                       attempts |-> w.attempts]]
    /\ keyIndex' = [keyIndex EXCEPT ![Key(r)] = r]
    /\ outbox' = outbox \o <<event("created"), event("processing"), event(w.status)>>
    /\ Go(r, "complete")
    /\ UNCHANGED <<data, records, circuits, work, returned, charged>>

\* complete, then return the payment or raise the last provider error.
Complete(r) ==
    /\ pc[r] = "complete"
    /\ CompleteClaim(r, r, IF work[r].status = "SUCCEEDED" THEN "returned" ELSE "failed")
    /\ UNCHANGED <<data, keyIndex, payments, outbox, circuits, charged>>

\* A store call raises (at `complete': the save committed, its answer was
\* lost); on the replay path there is no claim to abort.
StoreRaises(r) ==
    /\ "store" \in ServiceFaults
    /\ \/ pc[r] \in {"lookup", "save", "complete"} /\ AbortClaim(r, "error")
       \/ pc[r] = "replay" /\ Go(r, "error") /\ UNCHANGED <<records, work>>
    /\ UNCHANGED <<data, keyIndex, payments, outbox, circuits, returned, charged>>

\* CancelledError at a suspension point.  At `complete' the save is committed
\* but its caller has not resumed; a cancelled provider call may have charged.
Cancel(r) ==
    /\ "cancel" \in ServiceFaults
    /\ \/ pc[r] \in Owning /\ AbortClaim(r, "error")
       \/ pc[r] \in {"waiting", "woken", "replay"} /\ Go(r, "error") /\ UNCHANGED <<records, work>>
    /\ charged' \in {charged} \cup
         (IF pc[r] = "calling" THEN {charged \cup {<<r, Head(work[r].cands)>>}} ELSE {})
    /\ UNCHANGED <<data, keyIndex, payments, outbox, circuits, returned>>

\* The process dies: coordinator, breakers and the requests in it are gone.
Crash ==
    /\ "crash" \in ServiceFaults
    /\ pc' = [r \in Requests |->
                IF pc[r] \in {"new"} \cup Ended THEN pc[r] ELSE "crashed"]
    /\ records' = [k \in Keys |-> Absent]
    /\ circuits' = [p \in ProviderNames |-> NewBreaker]
    /\ work' = [r \in Requests |-> NoWork]
    /\ UNCHANGED <<data, keyIndex, payments, outbox, returned, charged>>

Clock(p) ==
    /\ circuits[p].state = "OPEN"
    /\ ~circuits[p].cooled
    /\ circuits' = [circuits EXCEPT ![p] = CooldownElapses(@)]
    /\ UNCHANGED <<data, pc, records, keyIndex, payments, outbox, work, returned, charged>>

\* The steps a request takes when nothing goes wrong around it.
Step(r) ==
    \/ Acquire(r) \/ Replay(r) \/ Lookup(r) \/ Route(r)
    \/ CallProvider(r) \/ MeetOpenCircuit(r)
    \/ \E code \in ErrorCodes : ProviderFails(r, code)
    \/ ProviderSucceeds(r) \/ Save(r) \/ Complete(r)

AllEnded == \A r \in Requests : pc[r] \in Ended

Next ==
    \/ \E r \in Requests : \/ Step(r) \/ ProviderRaisesUnexpected(r)
                           \/ StoreRaises(r) \/ Cancel(r)
    \/ Crash
    \/ \E p \in ProviderNames : Clock(p)
    \/ AllEnded /\ UNCHANGED vars    \* every request has been answered

\* The event loop runs every task that is ready, and provider and store calls
\* return (with a result or an error).
Fairness == \A r \in Requests : WF_vars(Step(r))

Spec == Init /\ [][Next]_vars /\ Fairness

-----------------------------------------------------------------------------
(* Properties. *)

Stored(r) == payments[r].status # "ABSENT"

\* A claim and its owner come and go together (acquire, complete, abort):
\* requests of one key own it one at a time, and the coordinator has a
\* PROCESSING record with the owner's fingerprint exactly while one does, so
\* provider execution for a key is never concurrent and complete never misses
\* its claim.
ClaimsOwned ==
    /\ \A q, r \in Requests :
         pc[q] \in Owning /\ pc[r] \in Owning /\ Key(q) = Key(r) => q = r
    /\ \A r \in Requests :
         pc[r] \in Owning => records[Key(r)] = Claimed(Fp(r))
    /\ \A k \in Keys :
         records[k].status = "PROCESSING"
           => \E r \in Requests : pc[r] \in Owning /\ Key(r) = k

\* A request that waits on a claim's event (acquire) waits for a claim that
\* some running request still has: nobody missed the wake-up.
WaitersAwaitOwner ==
    \A r \in Requests :
      pc[r] = "waiting" => \E q \in Requests : pc[q] \in Owning /\ Key(q) = Key(r)

\* A completed record answers with a stored payment of the same key and the
\* same data (create saves before it completes), so a replay never fails with
\* IdempotencyUnavailable.
CompletedIsStored ==
    \A k \in Keys :
      records[k].status = "COMPLETED" =>
        /\ records[k].payment # None
        /\ records[k].payment = keyIndex[k]
        /\ records[k].fp = Fp(keyIndex[k])

\* The store never holds two payments of one key, and finds the one it holds
\* (get_by_idempotency; the unique constraint of the database never fires).
OnePaymentPerKey ==
    \A r \in Requests : Stored(r) <=> keyIndex[Key(r)] = r

\* While a request executes a payment no payment of its key is stored: a
\* stored payment, failed ones too, is never executed again, even after the
\* coordinator lost its records.
StoredIsNotExecuted ==
    \A r \in Requests :
      pc[r] \in Executing \cup {"save"} => keyIndex[Key(r)] = None

\* Every answer is the stored payment of the request's key, made from the
\* same data (the fingerprint check of acquire and of create).
AnswersAreStored ==
    \A r \in Requests :
      returned[r] # None =>
        /\ returned[r] = keyIndex[Key(r)]
        /\ Fp(returned[r]) = Fp(r)

\* A key is charged again only when a request that charged it was lost on the
\* way to the store (create): it was cancelled, its save failed or the process
\* died.  Without faults a key is charged at most once.
ChargedOncePerKey ==
    \A x, y \in charged :
      Key(x[1]) = Key(y[1]) /\ x # y => \E z \in {x, y} : pc[z[1]] \in {"error", "crashed"}

\* The saved attempts explain the saved status (_attempt_provider, create):
\* a success is the last attempt, at the payment's provider, and the only
\* one; each provider appears in one block of at most max_attempts attempts,
\* numbered from 1, whose last attempt alone is not marked RETRY.
HistoryExplainsStatus ==
    \A r \in Requests :
      LET a == payments[r].attempts
          n == Len(a) IN
      /\ payments[r].status = "SUCCEEDED" <=> n > 0 /\ a[n].result = "SUCCEEDED"
      /\ payments[r].status = "SUCCEEDED" => payments[r].provider = a[n].provider
      /\ \A i \in 1 .. n :
           LET continued == i < n /\ a[i + 1].provider = a[i].provider IN
           /\ a[i].number <= MaxAttempts
           /\ a[i].number = IF i > 1 /\ a[i - 1].provider = a[i].provider
                            THEN a[i - 1].number + 1 ELSE 1
           /\ continued <=> a[i].result = "RETRY"
           /\ a[i].result = "SUCCEEDED" => i = n
           /\ \A j \in i + 1 .. n :
                a[j].provider = a[i].provider => a[j].number > a[i].number

\* The outbox holds the three events of a stored payment, once and in order,
\* and none of a payment that is not stored (save_with_events).
EventsMatchPayments ==
    \A r \in Requests :
      LET mine == {i \in DOMAIN outbox : outbox[i].payment = r} IN
      IF Stored(r)
      THEN \E i, j, k \in DOMAIN outbox :
             /\ i < j /\ j < k /\ mine = {i, j, k}
             /\ outbox[i].type = "created"
             /\ outbox[j].type = "processing"
             /\ outbox[k].type = payments[r].status
      ELSE mine = {}

\* A provider that timed out may have taken the money, so no other provider
\* is charged afterwards (the failover loop of create).
NoFailoverAfterTimeout ==
    \A r \in Requests :
      LET a == payments[r].attempts IN
      \A i, j \in DOMAIN a :
        i < j /\ a[i].code = "PROVIDER_TIMEOUT" => a[j].provider = a[i].provider

\* The request that works on a key is the one that owns its claim.
Owner(k) ==
    LET owners == {r \in Requests : pc[r] \in Owning /\ Key(r) = k} IN
    IF owners = {} THEN None ELSE CHOOSE r \in owners : TRUE

Promise == INSTANCE OncePerKey
             WITH worker <- [k \in Keys |-> Owner(k)],
                  settled <- keyIndex, answer <- returned

\* create, with its coordinator, store, retries and faults, does nothing that
\* OncePerKey does not allow.
ImplementsOncePerKey == Promise!Spec

\* Every request is answered, the ones that wait for another request's claim
\* included, whatever happens to the owner.
RequestsEnd == \A r \in Requests : <>(pc[r] \in Ended)
=============================================================================
