------------------------------- MODULE Refunds ------------------------------
(***************************************************************************)
(* PaymentService.refund (service.py): concurrent refund requests for one  *)
(* payment id, in one process or in two that share the database.  The      *)
(* payment's lock serializes those of one process.                         *)
(* A step runs from one suspension point to the next: waiting for the      *)
(* lock, store.get, provider.refund_payment, and of _save the read of the  *)
(* payment's row and the commit.  The store hands out copies, as the       *)
(* database does; with the in-memory store the copy is the stored object,  *)
(* a save cannot fail, and no other request looks at it before the save.   *)
(*                                                                         *)
(* RefundFaults: "provider" the provider refuses, "store" a call of the    *)
(* store raises, "cancel" the task is cancelled at a suspension point.     *)
(***************************************************************************)
EXTENDS Naturals, FiniteSets, FiniteSetsExt

CONSTANTS
    Requests,
    Elsewhere,      \* the requests that the second process serves
    Amount,         \* payment.amount
    Asked,          \* the amounts requests may ask for
    Whole,          \* the request without an amount: all that remains
    RefundFaults

ASSUME RefundAssumption ==
    /\ Elsewhere \subseteq Requests
    /\ Amount \in Nat \ {0}
    /\ Asked \subseteq Nat \ {0}
    /\ Whole \notin Nat
    /\ RefundFaults \subseteq {"provider", "store", "cancel"}

VARIABLES
    asked,       \* the amount each request carries
    pc,          \* where each request is
    payment,     \* the stored payment
    copy,        \* what each request read of it
    loaded,      \* what each request's save read of it
    paidBack,    \* history: what the provider paid back
    lost,        \* history: the part of it whose save did not happen
    events,      \* payment.refunded events in the outbox
    overlapped   \* history: both processes were refunding at once

history == <<lost, overlapped>>
vars == <<asked, pc, payment, copy, loaded, paidBack, events, history>>

RefundedPayment == [refunded_amount : Nat, refunds : SUBSET [by : Requests, amount : Nat],
                    status : {"SUCCEEDED", "REFUNDED", "FAILED", "ABSENT"}]

Locked == {"get", "refunding", "saving", "writing"}

TypeOK ==
    /\ asked \in [Requests -> Asked \cup {Whole}]
    /\ pc \in [Requests -> {"lock", "refunded", "refused", "error"} \cup Locked]
    /\ payment \in RefundedPayment
    /\ copy \in [Requests -> RefundedPayment]
    /\ loaded \in [Requests -> RefundedPayment]
    /\ paidBack \in Nat
    /\ lost \in Nat
    /\ events \in Nat
    /\ overlapped \in BOOLEAN

Fresh(status) == [refunded_amount |-> 0, refunds |-> {}, status |-> status]

Init ==
    /\ asked \in [Requests -> Asked \cup {Whole}]
    /\ pc = [r \in Requests |-> "lock"]
    /\ payment \in {Fresh("SUCCEEDED"), Fresh("FAILED"), Fresh("ABSENT")}
    /\ copy = [r \in Requests |-> payment]
    /\ loaded = [r \in Requests |-> payment]
    /\ paidBack = 0
    /\ lost = 0
    /\ events = 0
    /\ overlapped = FALSE

Go(r, where) == pc' = [pc EXCEPT ![r] = where]

Remaining(p) == Amount - p.refunded_amount

\* refund_amount
RefundAmount(r, p) == IF asked[r] = Whole THEN Remaining(p) ELSE asked[r]

\* Slip: the rest of the payment cannot be asked for.
AcceptableBelowRest(r, p) ==
    /\ p.status \in {"SUCCEEDED", "REFUNDED"}
    /\ RefundAmount(r, p) \in 1 .. Remaining(p) - 1

\* The checks before the provider is called.
Acceptable(r, p) ==
    /\ p.status \in {"SUCCEEDED", "REFUNDED"}
    /\ RefundAmount(r, p) \in 1 .. Remaining(p)

-----------------------------------------------------------------------------
Refunding == {r \in Requests : pc[r] \in Locked}

SameProcess(q, r) == (q \in Elsewhere) <=> (r \in Elsewhere)

\* Slip: refunds of one payment are not serialized.
LockFreeAlways(r) == TRUE

\* Slip: a refused request returns with the lock.
LockFreeButRefused(r) ==
    \A q \in Refunding \cup {t \in Requests : pc[t] = "refused"} : ~SameProcess(q, r)

LockFree(r) == \A q \in Refunding : ~SameProcess(q, r)

\* async with lock: one request at a time in each process.
Lock(r) ==
    /\ pc[r] = "lock"
    /\ LockFree(r)
    /\ Go(r, "get")
    /\ overlapped' = (overlapped \/ \E q \in Refunding : ~SameProcess(q, r))
    /\ UNCHANGED <<asked, payment, copy, loaded, paidBack, events, lost>>

\* store.get, the checks on what remains, and the call of the provider.
Get(r) ==
    /\ pc[r] = "get"
    /\ copy' = [copy EXCEPT ![r] = payment]
    /\ Go(r, IF Acceptable(r, payment) THEN "refunding" ELSE "refused")
    /\ UNCHANGED <<asked, payment, loaded, paidBack, events, history>>

\* Slip: only a refund of the whole amount makes the payment REFUNDED.
UpdatedIfWhole(p, r, n) ==
    [refunded_amount |-> p.refunded_amount + n,
     refunds |-> p.refunds \cup {[by |-> r, amount |-> n]},
     status |-> IF n = Amount THEN "REFUNDED" ELSE p.status]

\* The copy after a refund of n.
Updated(p, r, n) ==
    [refunded_amount |-> p.refunded_amount + n,
     refunds |-> p.refunds \cup {[by |-> r, amount |-> n]},
     status |-> IF p.refunded_amount + n = Amount THEN "REFUNDED" ELSE p.status]

\* refund_payment returns; the copy is brought up to date.
Refund(r) ==
    LET n == RefundAmount(r, copy[r]) IN
    /\ pc[r] = "refunding"
    /\ paidBack' = paidBack + n
    /\ copy' = [copy EXCEPT ![r] = Updated(@, r, n)]
    /\ Go(r, "saving")
    /\ UNCHANGED <<asked, payment, loaded, events, history>>

\* refund_payment raises, or the payment's provider is configured no more.
ProviderRefuses(r) ==
    /\ "provider" \in RefundFaults
    /\ pc[r] = "refunding"
    /\ Go(r, "error")
    /\ UNCHANGED <<asked, payment, copy, loaded, paidBack, events, history>>

\* save_with_events reads the row.
Find(r) ==
    /\ pc[r] = "saving"
    /\ loaded' = [loaded EXCEPT ![r] = payment]
    /\ Go(r, "writing")
    /\ UNCHANGED <<asked, payment, copy, paidBack, events, history>>

\* Slip: the refunds of the copy replace those of the row.
StoredRefundsReplaced(r) == copy[r].refunds

\* Refunds whose ids the row does not have are added.
StoredRefunds(r) == payment.refunds \cup copy[r].refunds

\* The row after r's save: the session writes the attributes that differ from
\* what it read.
Stored(r) ==
    [refunded_amount |-> IF copy[r].refunded_amount = loaded[r].refunded_amount
                         THEN payment.refunded_amount ELSE copy[r].refunded_amount,
     status |-> IF copy[r].status = loaded[r].status THEN payment.status ELSE copy[r].status,
     refunds |-> StoredRefunds(r)]

\* _save commits the payment with its refund and the refunded event.
Committed(r) == payment' = Stored(r) /\ events' = events + 1

NotCommitted == UNCHANGED <<payment, events>>

Save(r) ==
    /\ pc[r] = "writing"
    /\ Committed(r)
    /\ Go(r, "refunded")
    /\ UNCHANGED <<asked, copy, loaded, paidBack, history>>

Paid(refunds) == MapThenSumSet(LAMBDA refund : refund.amount, refunds)

\* What r paid back: its own refund in its copy.
Own(r) == {refund \in copy[r].refunds : refund.by = r}

PaidBy(r) == Paid(Own(r))

LoseRefund(r) == NotCommitted /\ lost' = lost + PaidBy(r)

\* A store call raises; of a save nothing was committed, or only the answer
\* was lost.
StoreRaises(r) ==
    /\ "store" \in RefundFaults
    /\ \/ pc[r] = "get" /\ NotCommitted /\ UNCHANGED lost
       \/ pc[r] \in {"saving", "writing"} /\ LoseRefund(r)
       \/ pc[r] = "writing" /\ Committed(r) /\ UNCHANGED lost
    /\ Go(r, "error")
    /\ UNCHANGED <<asked, copy, loaded, paidBack, overlapped>>

\* CancelledError at a suspension point; a refund or a save under way may
\* have taken effect.
Cancel(r) ==
    /\ "cancel" \in RefundFaults
    /\ \/ /\ pc[r] \in {"lock", "get", "refunding"}
          /\ NotCommitted
          /\ UNCHANGED <<paidBack, lost>>
       \/ /\ pc[r] = "refunding"
          /\ LET n == RefundAmount(r, copy[r]) IN
             paidBack' = paidBack + n /\ lost' = lost + n
          /\ NotCommitted
       \/ /\ pc[r] \in {"saving", "writing"}
          /\ LoseRefund(r) \/ (pc[r] = "writing" /\ Committed(r) /\ UNCHANGED lost)
          /\ UNCHANGED paidBack
    /\ Go(r, "error")
    /\ UNCHANGED <<asked, copy, loaded, overlapped>>

Step(r) == Lock(r) \/ Get(r) \/ Refund(r) \/ Find(r) \/ Save(r)

AllEnded == \A r \in Requests : pc[r] \in {"refunded", "refused", "error"}

Next ==
    \/ \E r \in Requests : Step(r) \/ ProviderRefuses(r) \/ StoreRaises(r) \/ Cancel(r)
    \/ AllEnded /\ UNCHANGED vars

\* asyncio.Lock serves its queue in order, store and provider calls return.
Fairness == \A r \in Requests : SF_vars(Step(r))

Spec == Init /\ [][Next]_vars /\ Fairness

-----------------------------------------------------------------------------
(* Properties. *)

\* Refunds of one process, and of two that do not overlap, never pay back
\* more than the payment's amount, except what was lost by failing saves and
\* cancellations and is asked for again (refund).
NeverOverRefunded == ~overlapped => paidBack <= Amount + lost

\* The refunds that requests are on their way to save.
Unsaved == UNION {Own(r) : r \in {q \in Requests : pc[q] \in {"saving", "writing"}}}

\* The refunds saved tell what was paid back, under every fault and also when
\* two processes overlap and overwrite each other's refunded_amount: what is
\* not among them is with a request on its way to the save or was lost by a
\* fault; and one event was saved with each (refund, save_with_events).
RefundsAreRecorded ==
    /\ paidBack = Paid(payment.refunds) + Paid(Unsaved) + lost
    /\ events = Cardinality(payment.refunds)

\* Without overlap the saved payment is consistent under every fault: its
\* refunds add up to refunded_amount, and it is REFUNDED exactly when all was
\* refunded.  refunded_amount never exceeds the amount, and a payment that
\* did not succeed has no refunds (refund, save_with_events).
RecordAddsUp ==
    /\ ~overlapped => /\ payment.refunded_amount = Paid(payment.refunds)
                      /\ payment.status = "REFUNDED" <=> payment.refunded_amount = Amount
    /\ payment.refunded_amount <= Amount
    /\ payment.status \in {"FAILED", "ABSENT"} => payment.refunds = {}

\* No request is refused by refund while what it asks for is left: a refusal is
\* final because refunds are never taken back, without overlap.
RefusedForGood ==
    ~overlapped =>
      \A r \in Requests :
        pc[r] = "refused" /\ payment.status = "SUCCEEDED" =>
          asked[r] # Whole /\ asked[r] > Remaining(payment)

\* Every refund request ends: refund releases the lock on every path.
RefundsEnd == \A r \in Requests : <>(pc[r] \in {"refunded", "refused", "error"})
=============================================================================
