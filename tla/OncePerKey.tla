----------------------------- MODULE OncePerKey -----------------------------
(***************************************************************************)
(* What PaymentService.create promises about one idempotency key, without  *)
(* coordinator, providers or retries: at most one request at a time works  *)
(* on a key, a key is settled once and for good, only by the request that  *)
(* works on it, and a request is answered only with what its key was       *)
(* settled with, if its data are the data of the settling request.         *)
(***************************************************************************)
CONSTANTS Requests, Keys, Fingerprints, None

VARIABLES data, worker, settled, answer

vars == <<data, worker, settled, answer>>

Init ==
    /\ data \in [Requests -> [key : Keys, fp : Fingerprints]]
    /\ worker = [k \in Keys |-> None]
    /\ settled = [k \in Keys |-> None]
    /\ answer = [r \in Requests |-> None]

\* A request begins to work on a key that nobody works on.
Begin(r) ==
    /\ worker[data[r].key] = None
    /\ worker' = [worker EXCEPT ![data[r].key] = r]
    /\ UNCHANGED <<data, settled, answer>>

\* The worker settles its key with its own payment.
Settle(r) ==
    /\ worker[data[r].key] = r
    /\ settled[data[r].key] = None
    /\ settled' = [settled EXCEPT ![data[r].key] = r]
    /\ UNCHANGED <<data, worker, answer>>

\* A request is answered; a worker that is answered has stopped working.
Answer(r) ==
    LET k == data[r].key IN
    /\ settled[k] # None
    /\ data[settled[k]].fp = data[r].fp
    /\ answer' = [answer EXCEPT ![r] = settled[k]]
    /\ worker' = IF worker[k] = r THEN [worker EXCEPT ![k] = None] ELSE worker
    /\ UNCHANGED <<data, settled>>

\* Workers stop without an answer: one that failed, or all in a crash.
Stop(K) ==
    /\ worker' = [k \in Keys |-> IF k \in K THEN None ELSE worker[k]]
    /\ UNCHANGED <<data, settled, answer>>

Next ==
    \/ \E r \in Requests : Begin(r) \/ Settle(r) \/ Answer(r)
    \/ \E K \in SUBSET Keys : Stop(K)

Spec == Init /\ [][Next]_vars
=============================================================================
