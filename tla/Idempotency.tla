---------------------------- MODULE Idempotency -----------------------------
(***************************************************************************)
(* The records of MemoryIdempotencyCoordinator (idempotency.py), as        *)
(* operators on one record of the `_records' table.  A record is absent,   *)
(* claimed by a request that is still working (PROCESSING), or COMPLETED   *)
(* with the payment later requests are answered with.  The key lock is     *)
(* never held across a suspension, so each method is one step of its       *)
(* caller.                                                                 *)
(***************************************************************************)
CONSTANT None   \* no fingerprint, no payment, no owner

Absent == [status |-> "ABSENT", fp |-> None, payment |-> None]

Record(Fingerprints, PaymentIds) ==
    [status : {"ABSENT", "PROCESSING", "COMPLETED"},
     fp : Fingerprints \cup {None}, payment : PaymentIds \cup {None}]

\* Slip: a request does not wait for the one that has the claim.
DecisionWithoutWait(rec, f) ==
    CASE rec.status = "ABSENT" -> "CLAIMED"
      [] rec.status # "ABSENT" /\ rec.fp # f -> "CONFLICT"
      [] rec.status = "COMPLETED" /\ rec.fp = f -> "COMPLETED"
      [] rec.status = "PROCESSING" /\ rec.fp = f -> "CLAIMED"

\* Slip: a completed record answers requests with other data too.
DecisionWithoutFingerprint(rec, f) ==
    CASE rec.status = "ABSENT" -> "CLAIMED"
      [] rec.status = "COMPLETED" -> "COMPLETED"
      [] rec.status = "PROCESSING" -> IF rec.fp = f THEN "WAIT" ELSE "CONFLICT"

\* What one round of acquire decides about a request with fingerprint f.
Decision(rec, f) ==
    CASE rec.status = "ABSENT" -> "CLAIMED"
      [] rec.status # "ABSENT" /\ rec.fp # f -> "CONFLICT"
      [] rec.status = "COMPLETED" /\ rec.fp = f -> "COMPLETED"
      [] rec.status = "PROCESSING" /\ rec.fp = f -> "WAIT"

Claimed(f) == [status |-> "PROCESSING", fp |-> f, payment |-> None]

\* complete finds the claim; otherwise it raises IdempotencyUnavailable.
Completable(rec, f) == rec.status # "ABSENT" /\ rec.fp = f

Completed(f, p) == [status |-> "COMPLETED", fp |-> f, payment |-> p]

\* abort deletes the record of a claim that was not completed, and only then
\* wakes the requests that wait for it.
Abortable(rec, f) == rec.status = "PROCESSING" /\ rec.fp = f
=============================================================================
