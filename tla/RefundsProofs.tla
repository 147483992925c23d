---------------------------- MODULE RefundsProofs ---------------------------
(***************************************************************************)
(* PaymentService.refund, proved for any requests of one or two processes, *)
(* any amounts and every combination of faults.                            *)
(***************************************************************************)
EXTENDS Refunds, FiniteSetTheorems, WellFoundedInduction, TLAPS

-----------------------------------------------------------------------------
(* Sums of refunds. *)

\* MapThenSumSet takes the elements of a set in the order CHOOSE gives.
Any(s) == CHOOSE x \in s : TRUE
\* One round of the sum, g being the sums of the smaller sets, and a function
\* that is such a round at every subset of S.
Unfolded(g, s) == IF s = {} THEN 0 ELSE Any(s).amount + g[s \ {Any(s)}]

IsSum(g, S) == g = [s \in SUBSET S |-> Unfolded(g, s)]

\* Paid, as the library defines it.
LEMMA PaidChosen == ASSUME NEW S PROVE Paid(S) = (CHOOSE g : IsSum(g, S))[S]
  BY DEF Paid, MapThenSumSet, MapThenFoldSet, IsSum, Unfolded, Any

\* A set of numbers has a least one.
LEMMA Least ==
  ASSUME NEW T, T \subseteq Nat, T # {}
  PROVE  \E n \in T : \A m \in T : ~(m < n)
<1>1. PICK n \in T : \A m \in T : ~(<<m, n>> \in OpToRel(<, Nat))
  BY WFMin, NatLessThanWellFounded, Zenon
<1>2. \A m \in T : ~(m < n)
  BY <1>1 DEF OpToRel
<1> QED BY <1>2

\* Among subsets of a finite set there is one that has no smaller one among
\* them: what the inductions below use, on the sets for which a law fails.
LEMMA Smallest ==
  ASSUME NEW S, IsFiniteSet(S), NEW F \in SUBSET SUBSET S, F # {}
  PROVE  \E s \in F : \A t \in SUBSET s : t # s => t \notin F
<1> DEFINE Sizes == {Cardinality(s) : s \in F}
<1>1. \A s \in F : IsFiniteSet(s) /\ Cardinality(s) \in Nat
  BY FS_Subset, FS_CardinalityType
<1>2. Sizes \subseteq Nat /\ Sizes # {}
  BY <1>1
<1>3. PICK n \in Sizes : \A m \in Sizes : ~(m < n)
  BY <1>2, Least
<1>4. PICK s \in F : Cardinality(s) = n
  BY <1>3
<1>5. ASSUME NEW t \in SUBSET s, t # s PROVE t \notin F
  <2>1. Cardinality(t) \in Nat /\ Cardinality(t) <= n /\ Cardinality(t) # n
    BY <1>1, <1>4, <1>5, FS_Subset, FS_CardinalityType
  <2>2. Cardinality(t) < n /\ n \in Nat
    BY <1>1, <1>4, <2>1
  <2> QED BY <1>3, <2>2
<1> QED BY <1>4, <1>5

\* The chosen element is one of the set.
LEMMA AnyIn == ASSUME NEW s, s # {} PROVE Any(s) \in s
  BY DEF Any

\* There is one function of sums only.
LEMMA SumUnique ==
  ASSUME NEW S, IsFiniteSet(S), NEW g, NEW h, IsSum(g, S), IsSum(h, S)
  PROVE  \A s \in SUBSET S : g[s] = h[s]
<1> DEFINE F == {s \in SUBSET S : g[s] # h[s]}
<1>1. SUFFICES ASSUME F # {} PROVE FALSE
  OBVIOUS
<1>2. PICK s \in F : \A t \in SUBSET s : t # s => t \notin F
  <2>1. F \in SUBSET SUBSET S
    OBVIOUS
  <2> HIDE DEF F
  <2> QED BY <1>1, <2>1, Smallest
<1>3. g[s] = Unfolded(g, s) /\ h[s] = Unfolded(h, s)
  BY <1>2 DEF IsSum
<1>4. CASE s = {}
  BY <1>2, <1>3, <1>4 DEF Unfolded
<1>5. CASE s # {}
  <2> DEFINE t == s \ {Any(s)}
  <2>1. t \in SUBSET s /\ t # s /\ t \in SUBSET S
    BY <1>2, <1>5, AnyIn
  <2>2. g[t] = h[t]
    BY <1>2, <2>1
  <2> QED BY <1>2, <1>3, <1>5, <2>2 DEF Unfolded
<1> QED BY <1>4, <1>5

\* The recursion equation of Paid.
LEMMA PaidUnfolds ==
  ASSUME NEW S, IsFiniteSet(S)
  PROVE  Paid(S) = IF S = {} THEN 0 ELSE Any(S).amount + Paid(S \ {Any(S)})
<1> DEFINE U(s) == IF s = {} THEN 0 ELSE Any(s).amount + Paid(s \ {Any(s)})
           F == {s \in SUBSET S : Paid(s) # U(s)}
<1>1. SUFFICES ASSUME F # {} PROVE FALSE
  OBVIOUS
<1> HIDE DEF U
<1>2. PICK s \in F : \A t \in SUBSET s : t # s => t \notin F
  <2>1. F \in SUBSET SUBSET S
    OBVIOUS
  <2> HIDE DEF F
  <2> QED BY <1>1, <2>1, Smallest
<1> DEFINE h == [t \in SUBSET s |-> U(t)]
<1>3. ASSUME NEW t \in SUBSET s PROVE h[t] = Unfolded(h, t)
  <2>1. CASE t = {}
    BY <2>1 DEF U, Unfolded
  <2>2. CASE t # {}
    <3> DEFINE u == t \ {Any(t)}
    <3>1. u \in SUBSET s /\ u # s /\ u \in SUBSET S
      BY <1>2, <1>3, <2>2, AnyIn
    <3>2. Paid(u) = U(u)
      BY <1>2, <3>1
    <3>3. h[u] = U(u)
      BY <3>1
    <3>4. U(t) = Any(t).amount + Paid(u)
      BY <2>2 DEF U
    <3> QED BY <1>3, <2>2, <3>2, <3>3, <3>4 DEF Unfolded
  <2> QED BY <2>1, <2>2
<1>4. IsSum(h, s)
  <2>1. h = [t \in SUBSET s |-> h[t]]
    OBVIOUS
  <2> HIDE DEF h
  <2> QED BY <1>3, <2>1 DEF IsSum
<1>5. s \in SUBSET S /\ IsFiniteSet(s)
  BY <1>2, FS_Subset
<1> DEFINE G == CHOOSE g : IsSum(g, s)
<1>6. IsSum(G, s)
  BY <1>4
<1>7. Paid(s) = G[s] /\ h[s] = U(s)
  BY PaidChosen
<1> HIDE DEF G, h
<1>8. G[s] = h[s]
  BY <1>4, <1>5, <1>6, SumUnique
<1> QED BY <1>2, <1>7, <1>8

\* A sum of amounts is an amount.
LEMMA PaidNat ==
  ASSUME NEW S, IsFiniteSet(S), \A x \in S : x.amount \in Nat
  PROVE  Paid(S) \in Nat
<1> DEFINE F == {s \in SUBSET S : Paid(s) \notin Nat}
<1>1. SUFFICES ASSUME F # {} PROVE FALSE
  OBVIOUS
<1>2. PICK s \in F : \A t \in SUBSET s : t # s => t \notin F
  <2>1. F \in SUBSET SUBSET S
    OBVIOUS
  <2> HIDE DEF F
  <2> QED BY <1>1, <2>1, Smallest
<1>3. s \in SUBSET S /\ IsFiniteSet(s)
  BY <1>2, FS_Subset
<1>4. CASE s = {}
  <2>1. Paid(s) = 0
    BY <1>3, <1>4, PaidUnfolds
  <2> QED BY <1>2, <2>1
<1>5. CASE s # {}
  <2>1. Any(s) \in s /\ Any(s).amount \in Nat
    BY <1>3, <1>5, AnyIn
  <2>2. Paid(s \ {Any(s)}) \in Nat
    <3>1. s \ {Any(s)} \in SUBSET s /\ s \ {Any(s)} # s /\ s \ {Any(s)} \in SUBSET S
      BY <1>3, <2>1
    <3> QED BY <1>2, <3>1
  <2>3. Paid(s) = Any(s).amount + Paid(s \ {Any(s)})
    BY <1>3, <1>5, PaidUnfolds
  <2> QED BY <1>2, <2>1, <2>2, <2>3
<1> QED BY <1>4, <1>5

\* The order does not matter: any refund may be taken out of the sum.
LEMMA PaidRemove ==
  ASSUME NEW S, IsFiniteSet(S), \A x \in S : x.amount \in Nat, NEW x \in S
  PROVE  Paid(S) = Paid(S \ {x}) + x.amount
<1> DEFINE F == {s \in SUBSET S : \E y \in s : Paid(s) # Paid(s \ {y}) + y.amount}
<1>1. SUFFICES ASSUME F # {} PROVE FALSE
  OBVIOUS
<1>2. PICK s \in F : \A t \in SUBSET s : t # s => t \notin F
  <2>1. F \in SUBSET SUBSET S
    OBVIOUS
  <2> HIDE DEF F
  <2> QED BY <1>1, <2>1, Smallest
<1>3. PICK y \in s : Paid(s) # Paid(s \ {y}) + y.amount
  BY <1>2
<1>4. s \in SUBSET S /\ IsFiniteSet(s)
  BY <1>2, FS_Subset
<1> DEFINE a == Any(s)
<1>5. a \in s /\ Paid(s) = a.amount + Paid(s \ {a})
  BY <1>3, <1>4, AnyIn, PaidUnfolds
<1> HIDE DEF a
<1>6. \A t \in SUBSET s : Paid(t) \in Nat
  BY <1>4, FS_Subset, PaidNat
<1>7. a.amount \in Nat /\ y.amount \in Nat
  BY <1>3, <1>4, <1>5
<1>8. a # y
  <2>1. Paid(s \ {a}) \in Nat
    BY <1>6
  <2>2. Paid(s) = Paid(s \ {a}) + a.amount
    BY <1>5, <1>7, <2>1
  <2> QED BY <1>3, <2>2
<1> DEFINE u == (s \ {a}) \ {y}
<1>9. Paid(s \ {a}) = Paid(u) + y.amount
  <2>1. s \ {a} \in SUBSET s /\ s \ {a} # s /\ s \ {a} \in SUBSET S /\ y \in s \ {a}
    BY <1>3, <1>4, <1>5, <1>8
  <2> QED BY <1>2, <2>1
<1>10. Paid(s \ {y}) = Paid(u) + a.amount
  <2>1. s \ {y} \in SUBSET s /\ s \ {y} # s /\ s \ {y} \in SUBSET S /\ a \in s \ {y}
    BY <1>3, <1>4, <1>5, <1>8
  <2>2. (s \ {y}) \ {a} = u
    OBVIOUS
  <2>3. Paid(s \ {y}) = Paid((s \ {y}) \ {a}) + a.amount
    BY <1>2, <2>1
  <2> QED BY <2>2, <2>3
<1>11. Paid(u) \in Nat
  BY <1>6
<1> QED BY <1>3, <1>5, <1>7, <1>9, <1>10, <1>11

\* No refunds are nothing.
LEMMA PaidEmpty == Paid({}) = 0
  BY FS_EmptySet, PaidUnfolds

\* A refund that is added counts once.
LEMMA PaidAdd ==
  ASSUME NEW S, IsFiniteSet(S), \A x \in S : x.amount \in Nat,
         NEW x, x \notin S, x.amount \in Nat
  PROVE  Paid(S \cup {x}) = Paid(S) + x.amount
<1>1. IsFiniteSet(S \cup {x}) /\ \A y \in S \cup {x} : y.amount \in Nat
  BY FS_AddElement
<1>2. (S \cup {x}) \ {x} = S
  OBVIOUS
<1>3. Paid(S \cup {x}) = Paid((S \cup {x}) \ {x}) + x.amount
  BY <1>1, PaidRemove
<1> QED BY <1>2, <1>3

\* One refund is its amount.
LEMMA PaidSingle ==
  ASSUME NEW x, x.amount \in Nat
  PROVE  Paid({x}) = x.amount
<1>1. Paid({} \cup {x}) = Paid({}) + x.amount
  BY FS_EmptySet, PaidAdd
<1>2. {} \cup {x} = {x}
  OBVIOUS
<1> QED BY <1>1, <1>2, PaidEmpty

-----------------------------------------------------------------------------
(* The inductive invariant. *)

\* What is written, and what a request holds to write, never exceeds the
\* amount: the provider is called only for what is left of the copy.
Bounded ==
    /\ payment.refunded_amount <= Amount
    /\ \A r \in Requests : copy[r].refunded_amount <= Amount
    /\ \A r \in Requests : pc[r] = "refunding" => Acceptable(r, copy[r])

\* A saved refund is of a request that has ended; a request's copy holds what
\* was saved before and, once the provider paid back, one refund of its own.
Owned ==
    /\ IsFiniteSet(payment.refunds)
    /\ IsFiniteSet(Unsaved)
    /\ \A x \in payment.refunds : pc[x.by] \in {"refunded", "error"}
    /\ \A r \in Requests :
         /\ \A x \in copy[r].refunds : x.by = r \/ x \in payment.refunds
         /\ pc[r] \in {"lock", "get", "refunding"} => Own(r) = {}
         /\ pc[r] \in {"saving", "writing"} => \E x \in copy[r].refunds : Own(r) = {x}

\* A payment that did not succeed is never on its way through the provider.
Unpayable ==
    /\ payment.status \in {"FAILED", "ABSENT"} =>
         /\ payment.refunds = {}
         /\ \A r \in Requests : pc[r] \notin {"refunding", "saving", "writing"}
    /\ \A r \in Requests :
         pc[r] \in {"refunding", "saving", "writing"} => copy[r].status \in {"SUCCEEDED", "REFUNDED"}

\* While the two processes have not overlapped one request at a time refunds,
\* on a copy of the payment as it is stored; refunded_amount is the sum of the
\* refunds, and a refusal stands.
Alone ==
    /\ \A q, r \in Refunding : q = r
    /\ \A r \in Requests : pc[r] = "refunding" => copy[r] = payment
    /\ \A r \in Requests :
         pc[r] \in {"saving", "writing"} =>
           \E n \in 1 .. Remaining(payment) : copy[r] = Updated(payment, r, n)
    /\ \A r \in Requests : pc[r] = "writing" => loaded[r] = payment
    /\ payment.refunded_amount = Paid(payment.refunds)
    /\ payment.status = "REFUNDED" <=> payment.refunded_amount = Amount
    /\ \A r \in Requests :
         pc[r] = "refused" /\ payment.status = "SUCCEEDED" =>
           asked[r] # Whole /\ asked[r] > Remaining(payment)

RefundInv ==
    /\ TypeOK
    /\ Bounded
    /\ Owned
    /\ Unpayable
    /\ RefundsAreRecorded
    /\ ~overlapped => Alone

-----------------------------------------------------------------------------
(* The steps, by what they change. *)

\* A request leaves before the provider paid anything back.
Leaves(r) ==
    /\ pc[r] \in {"lock", "get", "refunding"}
    /\ Go(r, "error")
    /\ UNCHANGED <<asked, payment, copy, loaded, paidBack, events, history>>

\* A save is committed, whether or not its caller hears of it.
Commits(r) ==
    /\ pc[r] = "writing"
    /\ \E end \in {"refunded", "error"} : Go(r, end)
    /\ payment' = Stored(r)
    /\ events' = events + 1
    /\ UNCHANGED <<asked, copy, loaded, paidBack, history>>

\* A refund is paid back and its save does not happen.
Loses(r) ==
    /\ pc[r] \in {"saving", "writing"}
    /\ Go(r, "error")
    /\ lost' = lost + PaidBy(r)
    /\ UNCHANGED <<asked, payment, copy, loaded, paidBack, events, overlapped>>

\* The provider pays back what a cancelled request asked for.
PaysUnheard(r) ==
    LET n == RefundAmount(r, copy[r]) IN
    /\ pc[r] = "refunding"
    /\ Go(r, "error")
    /\ paidBack' = paidBack + n
    /\ lost' = lost + n
    /\ UNCHANGED <<asked, payment, copy, loaded, events, overlapped>>

Kind(r) == \/ Lock(r) \/ Get(r) \/ Refund(r) \/ Find(r)
           \/ Leaves(r) \/ Commits(r) \/ Loses(r) \/ PaysUnheard(r)

\* Every step of refund, with and without faults, is one of these.
LEMMA Kinds ==
  ASSUME [Next]_vars
  PROVE  UNCHANGED vars \/ \E r \in Requests : Kind(r)
<1>1. ASSUME NEW r \in Requests, Save(r) PROVE Commits(r)
  BY <1>1 DEF Save, Commits, Committed
<1>2. ASSUME NEW r \in Requests, ProviderRefuses(r) PROVE Leaves(r)
  BY <1>2 DEF ProviderRefuses, Leaves
<1>3. ASSUME NEW r \in Requests, StoreRaises(r) PROVE Leaves(r) \/ Loses(r) \/ Commits(r)
  BY <1>3 DEF StoreRaises, Leaves, Loses, Commits, NotCommitted, LoseRefund, Committed, history
<1>4. ASSUME NEW r \in Requests, Cancel(r)
      PROVE  Leaves(r) \/ Loses(r) \/ Commits(r) \/ PaysUnheard(r)
  BY <1>4 DEF Cancel, Leaves, Loses, Commits, PaysUnheard, NotCommitted, LoseRefund, Committed, history
<1> QED BY <1>1, <1>2, <1>3, <1>4 DEF Next, Step, Kind

\* One request moves.
LEMMA GoEffect ==
  ASSUME TypeOK, NEW r \in Requests, NEW where, Go(r, where)
  PROVE  \A q \in Requests : pc'[q] = IF q = r THEN where ELSE pc[q]
  BY DEF TypeOK, Go

\* What a payment and its refunds consist of.
LEMMA PaymentTyped ==
  ASSUME NEW p \in RefundedPayment
  PROVE  /\ p.refunded_amount \in Nat
         /\ p.status \in {"SUCCEEDED", "REFUNDED", "FAILED", "ABSENT"}
         /\ \A x \in p.refunds : x.by \in Requests /\ x.amount \in Nat
         /\ p.refunds \subseteq [by : Requests, amount : Nat]
  BY DEF RefundedPayment

\* The amount a request calls the provider with is positive and left.
LEMMA AmountTyped ==
  ASSUME TypeOK, Bounded, NEW r \in Requests, pc[r] = "refunding"
  PROVE  /\ RefundAmount(r, copy[r]) \in Nat \ {0}
         /\ copy[r].refunded_amount + RefundAmount(r, copy[r]) <= Amount
         /\ RefundAmount(r, copy[r]) \in 1 .. Remaining(copy[r])
         /\ copy[r].status \in {"SUCCEEDED", "REFUNDED"}
<1>1. Acceptable(r, copy[r])
  BY DEF Bounded
<1>2. copy[r] \in RefundedPayment
  BY DEF TypeOK
<1>3. copy[r].refunded_amount \in Nat
  BY <1>2, PaymentTyped
<1> DEFINE n == RefundAmount(r, copy[r])
<1>4. n \in 1 .. Amount - copy[r].refunded_amount
  BY <1>1 DEF Acceptable, Remaining
<1>5. Amount \in Nat
  BY RefundAssumption
<1> HIDE DEF n
<1>6. n \in Nat \ {0} /\ copy[r].refunded_amount + n <= Amount
  BY <1>3, <1>4, <1>5
<1> QED BY <1>1, <1>6 DEF n, Acceptable

\* The refunds on their way to the store.
LEMMA InUnsaved ==
  \A x : x \in Unsaved <=> /\ x.by \in Requests /\ pc[x.by] \in {"saving", "writing"}
                           /\ x \in copy[x.by].refunds
  BY DEF Unsaved, Own

\* The same after a step.
LEMMA InUnsavedAfter ==
  \A x : x \in Unsaved' <=> /\ x.by \in Requests /\ pc'[x.by] \in {"saving", "writing"}
                            /\ x \in copy'[x.by].refunds
  BY DEF Unsaved, Own

\* A request on its way to the save has paid back one refund, which is not
\* saved yet.
LEMMA OwnRefund ==
  ASSUME TypeOK, Owned, NEW r \in Requests, pc[r] \in {"saving", "writing"}
  PROVE  \E x : /\ Own(r) = {x} /\ x.by = r /\ x.amount \in Nat
                /\ x \in copy[r].refunds /\ x \in Unsaved /\ x \notin payment.refunds
                /\ PaidBy(r) = x.amount
<1>1. PICK x \in copy[r].refunds : Own(r) = {x}
  BY DEF Owned
<1>2. x.by = r
  BY <1>1 DEF Own
<1>3. x.amount \in Nat
  BY PaymentTyped DEF TypeOK
<1>4. x \in Unsaved
  BY <1>1, <1>2, InUnsaved
<1>5. x \notin payment.refunds
  BY <1>2 DEF Owned
<1>6. PaidBy(r) = x.amount
  BY <1>1, <1>3, PaidSingle DEF PaidBy
<1> QED BY <1>1, <1>2, <1>3, <1>4, <1>5, <1>6

\* The sums are over finite sets of amounts.
LEMMA SumsTyped ==
  ASSUME TypeOK, Owned
  PROVE  /\ \A x \in payment.refunds \cup Unsaved : x.amount \in Nat
         /\ Paid(payment.refunds) \in Nat /\ Paid(Unsaved) \in Nat
<1>1. \A x \in payment.refunds : x.amount \in Nat
  BY PaymentTyped DEF TypeOK
<1>2. \A x \in Unsaved : x.amount \in Nat
  BY InUnsaved, PaymentTyped DEF TypeOK
<1>3. Paid(payment.refunds) \in Nat /\ Paid(Unsaved) \in Nat
  BY <1>1, <1>2, PaidNat DEF Owned
<1> QED BY <1>1, <1>2, <1>3

-----------------------------------------------------------------------------
(* What the steps do to payment, copies and sums. *)

\* A refund: the provider pays n back and the copy gets it.
LEMMA RefundEffect ==
  ASSUME TypeOK, Bounded, Owned, NEW r \in Requests, Refund(r)
  PROVE  \E n \in Nat \ {0}, x \in [by : Requests, amount : Nat] :
           /\ n \in 1 .. Remaining(copy[r])
           /\ copy[r].refunded_amount + n <= Amount
           /\ x.by = r /\ x.amount = n
           /\ paidBack' = paidBack + n
           /\ copy' \in [Requests -> RefundedPayment]
           /\ copy'[r] = Updated(copy[r], r, n)
           /\ copy'[r].refunded_amount = copy[r].refunded_amount + n
           /\ copy'[r].refunds = copy[r].refunds \cup {x}
           /\ copy'[r].status \in {"SUCCEEDED", "REFUNDED"}
           /\ \A q \in Requests : q # r => copy'[q] = copy[q]
<1> DEFINE n == RefundAmount(r, copy[r])
           x == [by |-> r, amount |-> n]
<1>1. pc[r] = "refunding" /\ paidBack' = paidBack + n
      /\ copy' = [copy EXCEPT ![r] = Updated(copy[r], r, n)]
  BY DEF Refund
<1>2. /\ n \in Nat \ {0} /\ n \in 1 .. Remaining(copy[r])
      /\ copy[r].refunded_amount + n <= Amount
      /\ copy[r].status \in {"SUCCEEDED", "REFUNDED"}
  BY <1>1, AmountTyped
<1> HIDE DEF n
<1>3. x \in [by : Requests, amount : Nat] /\ x.by = r /\ x.amount = n
  BY <1>2
<1>4. copy[r] \in RefundedPayment /\ copy \in [Requests -> RefundedPayment]
  BY DEF TypeOK
<1>5. copy[r].refunded_amount \in Nat /\ copy[r].refunds \subseteq [by : Requests, amount : Nat]
  BY <1>4, PaymentTyped
<1>6. /\ Updated(copy[r], r, n).refunded_amount = copy[r].refunded_amount + n
      /\ Updated(copy[r], r, n).refunds = copy[r].refunds \cup {x}
      /\ Updated(copy[r], r, n).status \in {"SUCCEEDED", "REFUNDED"}
  BY <1>2 DEF Updated
<1>7. Updated(copy[r], r, n) \in RefundedPayment
  <2>1. copy[r].refunded_amount + n \in Nat
    BY <1>2, <1>5
  <2>2. copy[r].refunds \cup {x} \in SUBSET [by : Requests, amount : Nat]
    BY <1>3, <1>5
  <2> QED BY <1>2, <2>1, <2>2 DEF Updated, RefundedPayment
<1>8. /\ copy'[r] = Updated(copy[r], r, n) /\ copy' \in [Requests -> RefundedPayment]
      /\ \A q \in Requests : q # r => copy'[q] = copy[q]
  BY <1>1, <1>4, <1>7
<1> HIDE DEF x
<1> QED BY <1>1, <1>2, <1>3, <1>6, <1>8

\* A commit adds the request's one refund to those of the row.
LEMMA CommitEffect ==
  ASSUME TypeOK, Owned, NEW r \in Requests, Commits(r)
  PROVE  /\ payment' \in RefundedPayment
         /\ payment'.refunded_amount \in {payment.refunded_amount, copy[r].refunded_amount}
         /\ payment'.status \in {payment.status, copy[r].status}
         /\ \E x : /\ Own(r) = {x} /\ x.by = r /\ x.amount \in Nat
                   /\ x \in copy[r].refunds /\ x \in Unsaved /\ x \notin payment.refunds
                   /\ payment'.refunds = payment.refunds \cup {x}
<1>1. pc[r] \in {"saving", "writing"} /\ payment' = Stored(r)
  BY DEF Commits
<1>2. PICK x : /\ Own(r) = {x} /\ x.by = r /\ x.amount \in Nat
               /\ x \in copy[r].refunds /\ x \in Unsaved /\ x \notin payment.refunds
  BY <1>1, OwnRefund
<1>3. /\ payment'.refunded_amount \in {payment.refunded_amount, copy[r].refunded_amount}
      /\ payment'.status \in {payment.status, copy[r].status}
      /\ payment'.refunds = payment.refunds \cup copy[r].refunds
  BY <1>1 DEF Stored, StoredRefunds
<1>4. copy[r].refunds \subseteq payment.refunds \cup {x}
  BY <1>2 DEF Owned, Own
<1>5. payment'.refunds = payment.refunds \cup {x}
  BY <1>2, <1>3, <1>4
<1>6. payment' \in RefundedPayment
  <2>1. payment \in RefundedPayment /\ copy[r] \in RefundedPayment
    BY DEF TypeOK
  <2> QED BY <1>1, <2>1 DEF Stored, StoredRefunds, RefundedPayment
<1> QED BY <1>2, <1>3, <1>5, <1>6

\* Most steps leave the refunds that are on their way to the store alone.
LEMMA UnsavedSame ==
  ASSUME TypeOK, NEW r \in Requests,
         Lock(r) \/ Get(r) \/ Find(r) \/ Leaves(r) \/ PaysUnheard(r)
  PROVE  Unsaved' = Unsaved
<1>1. \A q \in Requests : q # r => pc'[q] = pc[q] /\ copy'[q] = copy[q]
  BY GoEffect DEF TypeOK, Lock, Get, Find, Leaves, PaysUnheard
<1>2. \/ pc[r] = "saving" /\ pc'[r] = "writing" /\ copy' = copy
      \/ pc[r] \notin {"saving", "writing"} /\ pc'[r] \notin {"saving", "writing"}
  <2>1. CASE Lock(r)
    BY <2>1, GoEffect DEF Lock
  <2>2. CASE Get(r)
    BY <2>2, GoEffect DEF Get
  <2>3. CASE Find(r)
    BY <2>3, GoEffect DEF Find
  <2>4. CASE Leaves(r) \/ PaysUnheard(r)
    BY <2>4, GoEffect DEF Leaves, PaysUnheard
  <2> QED BY <2>1, <2>2, <2>3, <2>4
<1>3. \A x : x \in Unsaved' <=> x \in Unsaved
  BY <1>1, <1>2, InUnsaved, InUnsavedAfter
<1> QED BY <1>3

\* A refund puts one more on its way.
LEMMA UnsavedMore ==
  ASSUME TypeOK, Owned, NEW r \in Requests, Refund(r),
         NEW x, x.by = r, copy'[r].refunds = copy[r].refunds \cup {x},
         \A q \in Requests : q # r => copy'[q] = copy[q]
  PROVE  x \notin Unsaved /\ Unsaved' = Unsaved \cup {x}
<1>1. /\ pc[r] = "refunding" /\ pc'[r] = "saving"
      /\ \A q \in Requests : q # r => pc'[q] = pc[q]
  BY GoEffect DEF Refund
<1>2. \A y \in copy[r].refunds : y.by # r
  BY <1>1 DEF Owned, Own
<1>3. \A y \in Unsaved : y.by # r
  BY <1>1, InUnsaved
<1>4. ASSUME NEW y PROVE y \in Unsaved' <=> y \in Unsaved \/ y = x
  <2>1. CASE y.by = r
    BY <1>1, <1>2, <1>3, <2>1, InUnsavedAfter
  <2>2. CASE y.by # r
    BY <1>1, <2>2, InUnsaved, InUnsavedAfter
  <2> QED BY <2>1, <2>2
<1> QED BY <1>3, <1>4

\* A commit, or the loss of a save, ends the way of one.
LEMMA UnsavedLess ==
  ASSUME TypeOK, NEW r \in Requests, Commits(r) \/ Loses(r),
         NEW x, Own(r) = {x}
  PROVE  Unsaved' = Unsaved \ {x}
<1>1. /\ pc[r] \in {"saving", "writing"} /\ pc'[r] \notin {"saving", "writing"}
      /\ \A q \in Requests : q # r => pc'[q] = pc[q]
      /\ copy' = copy
  <2>1. CASE Commits(r)
    BY <2>1, GoEffect DEF Commits
  <2>2. CASE Loses(r)
    BY <2>2, GoEffect DEF Loses
  <2> QED BY <2>1, <2>2
<1>2. \A y : y \in copy[r].refunds /\ y.by = r <=> y = x
  BY DEF Own
<1>3. ASSUME NEW y PROVE y \in Unsaved' <=> y \in Unsaved /\ y # x
  <2>1. CASE y.by = r
    BY <1>1, <1>2, <2>1, InUnsaved, InUnsavedAfter
  <2>2. CASE y.by # r
    BY <1>1, <1>2, <2>2, InUnsaved, InUnsavedAfter
  <2> QED BY <2>1, <2>2
<1> QED BY <1>3

-----------------------------------------------------------------------------
(* Every step keeps the invariant. *)

\* Types.
LEMMA KindType ==
  ASSUME TypeOK, Bounded, Owned, NEW r \in Requests, Kind(r)
  PROVE  TypeOK'
<1> DEFINE PCs == {"lock", "refunded", "refused", "error"} \cup Locked
<1>1. pc' \in [Requests -> PCs]
  <2>1. \E where \in PCs : Go(r, where)
    BY DEF Kind, Lock, Get, Refund, Find, Leaves, Commits, Loses, PaysUnheard, Locked
  <2> QED BY <2>1 DEF TypeOK, Go
<1>2. asked' = asked
  BY DEF Kind, Lock, Get, Refund, Find, Leaves, Commits, Loses, PaysUnheard
<1>3. CASE Lock(r)
  BY <1>1, <1>3 DEF Lock, TypeOK
<1>4. CASE Get(r)
  BY <1>1, <1>4 DEF Get, TypeOK, history
<1>5. CASE Refund(r)
  <2>1. copy' \in [Requests -> RefundedPayment] /\ paidBack' \in Nat
    BY <1>5, RefundEffect DEF TypeOK
  <2> QED BY <1>1, <1>5, <2>1 DEF Refund, TypeOK, history
<1>6. CASE Find(r)
  BY <1>1, <1>6 DEF Find, TypeOK, history
<1>7. CASE Leaves(r)
  BY <1>1, <1>7 DEF Leaves, TypeOK, history
<1>8. CASE Commits(r)
  BY <1>1, <1>8, CommitEffect DEF Commits, TypeOK, history
<1>9. CASE Loses(r)
  <2>1. PaidBy(r) \in Nat
    BY <1>9, OwnRefund DEF Loses
  <2> QED BY <1>1, <1>9, <2>1 DEF Loses, TypeOK
<1>10. CASE PaysUnheard(r)
  <2>1. RefundAmount(r, copy[r]) \in Nat
    BY <1>10, AmountTyped DEF PaysUnheard
  <2> QED BY <1>1, <1>10, <2>1 DEF PaysUnheard, TypeOK
<1> QED BY <1>3, <1>4, <1>5, <1>6, <1>7, <1>8, <1>9, <1>10 DEF Kind

\* What a request may be refunded is what its copy leaves.
LEMMA KindBounded ==
  ASSUME TypeOK, Bounded, Owned, NEW r \in Requests, Kind(r)
  PROVE  Bounded'
<1>1. asked' = asked
  BY DEF Kind, Lock, Get, Refund, Find, Leaves, Commits, Loses, PaysUnheard
<1>2. CASE Get(r)
  <2>1. /\ payment' = payment /\ copy'[r] = payment
        /\ \A q \in Requests : q # r => copy'[q] = copy[q]
    BY <1>2 DEF Get, TypeOK
  <2>2. /\ pc'[r] = "refunding" => Acceptable(r, payment)
        /\ \A q \in Requests : q # r => pc'[q] = pc[q]
    BY <1>2, GoEffect DEF Get
  <2> QED BY <1>1, <2>1, <2>2 DEF Bounded, Acceptable, RefundAmount, Remaining
<1>3. CASE Refund(r)
  <2>1. PICK n \in Nat \ {0} :
          /\ copy[r].refunded_amount + n <= Amount
          /\ copy'[r].refunded_amount = copy[r].refunded_amount + n
          /\ \A q \in Requests : q # r => copy'[q] = copy[q]
    BY <1>3, RefundEffect
  <2>2. payment' = payment /\ pc'[r] = "saving" /\ \A q \in Requests : q # r => pc'[q] = pc[q]
    BY <1>3, GoEffect DEF Refund
  <2> QED BY <1>1, <2>1, <2>2 DEF Bounded, Acceptable, RefundAmount, Remaining
<1>4. CASE Commits(r)
  <2>1. payment'.refunded_amount <= Amount
    BY <1>4, CommitEffect DEF Bounded
  <2>2. copy' = copy /\ \A q \in Requests : pc'[q] = "refunding" => pc[q] = "refunding"
    BY <1>4, GoEffect DEF Commits
  <2> QED BY <1>1, <2>1, <2>2 DEF Bounded, Acceptable, RefundAmount, Remaining
<1>5. CASE Lock(r) \/ Find(r) \/ Leaves(r) \/ Loses(r) \/ PaysUnheard(r)
  <2>1. /\ payment' = payment /\ copy' = copy
        /\ \A q \in Requests : pc'[q] = "refunding" => pc[q] = "refunding"
    BY <1>5, GoEffect DEF Lock, Find, Leaves, Loses, PaysUnheard
  <2> QED BY <1>1, <2>1 DEF Bounded, Acceptable, RefundAmount, Remaining
<1> QED BY <1>2, <1>3, <1>4, <1>5 DEF Kind

\* Whose the refunds are.
LEMMA KindOwned ==
  ASSUME TypeOK, Bounded, Owned, NEW r \in Requests, Kind(r)
  PROVE  Owned'
<1>1. \A q \in Requests : Own(q)' = {x \in copy'[q].refunds : x.by = q}
  BY DEF Own
<1>2. CASE Lock(r) \/ Find(r) \/ Leaves(r) \/ PaysUnheard(r)
  <2>1. payment' = payment /\ copy' = copy /\ Unsaved' = Unsaved
    BY <1>2, UnsavedSame DEF Lock, Find, Leaves, PaysUnheard
  <2>2. /\ \A q \in Requests : q # r => pc'[q] = pc[q]
        /\ pc[r] \notin {"refunded", "error"}
        /\ pc'[r] \in {"lock", "get", "refunding"} => pc[r] \in {"lock", "get", "refunding"}
        /\ pc'[r] \in {"saving", "writing"} => pc[r] \in {"saving", "writing"}
    BY <1>2, GoEffect DEF Lock, Find, Leaves, PaysUnheard
  <2>3. \A x \in payment.refunds : x.by \in Requests
    BY PaymentTyped DEF TypeOK
  <2> QED BY <1>1, <2>1, <2>2, <2>3 DEF Owned, Own
<1>3. CASE Get(r)
  <2>1. /\ payment' = payment /\ copy'[r] = payment /\ Unsaved' = Unsaved
        /\ \A q \in Requests : q # r => copy'[q] = copy[q]
    BY <1>3, UnsavedSame DEF Get, TypeOK
  <2>2. /\ \A q \in Requests : q # r => pc'[q] = pc[q]
        /\ pc[r] = "get" /\ pc'[r] \in {"refunding", "refused"}
    BY <1>3, GoEffect DEF Get
  <2>3. \A x \in payment.refunds : x.by \in Requests /\ x.by # r
    BY <2>2, PaymentTyped DEF TypeOK, Owned
  <2> QED BY <1>1, <2>1, <2>2, <2>3 DEF Owned, Own
<1>4. CASE Refund(r)
  <2>1. PICK x \in [by : Requests, amount : Nat] :
          /\ x.by = r /\ copy'[r].refunds = copy[r].refunds \cup {x}
          /\ \A q \in Requests : q # r => copy'[q] = copy[q]
    BY <1>4, RefundEffect
  <2>2. Unsaved' = Unsaved \cup {x}
    BY <1>4, <2>1, UnsavedMore
  <2>3. IsFiniteSet(Unsaved')
    BY <2>2, FS_AddElement DEF Owned
  <2>4. /\ payment' = payment /\ pc[r] = "refunding" /\ pc'[r] = "saving"
        /\ \A q \in Requests : q # r => pc'[q] = pc[q]
    BY <1>4, GoEffect DEF Refund
  <2>5. \A y \in payment.refunds : y.by \in Requests /\ y.by # r
    BY <2>4, PaymentTyped DEF TypeOK, Owned
  <2>6. Own(r)' = {x}
    BY <1>1, <2>1, <2>4 DEF Owned, Own
  <2>7. \A q \in Requests : q # r => Own(q)' = Own(q)
    BY <2>1 DEF Own
  <2> QED BY <2>1, <2>3, <2>4, <2>5, <2>6, <2>7 DEF Owned
<1>5. CASE Commits(r)
  <2>1. PICK x : /\ Own(r) = {x} /\ x.by = r
                 /\ payment'.refunds = payment.refunds \cup {x}
    BY <1>5, CommitEffect
  <2>2. IsFiniteSet(Unsaved') /\ IsFiniteSet(payment'.refunds)
    <3>1. Unsaved' = Unsaved \ {x}
      BY <1>5, <2>1, UnsavedLess
    <3>2. IsFiniteSet(Unsaved) /\ IsFiniteSet(payment.refunds)
      BY DEF Owned
    <3>3. IsFiniteSet(Unsaved \ {x})
      BY <3>2, FS_RemoveElement
    <3>4. IsFiniteSet(payment.refunds \cup {x})
      BY <3>2, FS_AddElement
    <3> QED BY <2>1, <3>1, <3>3, <3>4
  <2>3. /\ copy' = copy /\ pc[r] = "writing" /\ pc'[r] \in {"refunded", "error"}
        /\ \A q \in Requests : q # r => pc'[q] = pc[q]
    BY <1>5, GoEffect DEF Commits
  <2>4. \A y \in payment.refunds : y.by \in Requests /\ y.by # r
    BY <2>3, PaymentTyped DEF TypeOK, Owned
  <2>5. \A y \in payment'.refunds : pc'[y.by] \in {"refunded", "error"}
    BY <2>1, <2>3, <2>4 DEF Owned
  <2>6. \A q \in Requests : Own(q)' = Own(q)
    BY <2>3 DEF Own
  <2>7. ASSUME NEW q \in Requests
        PROVE  /\ \A y \in copy'[q].refunds : y.by = q \/ y \in payment'.refunds
               /\ pc'[q] \in {"lock", "get", "refunding"} => Own(q)' = {}
               /\ pc'[q] \in {"saving", "writing"} => \E y \in copy'[q].refunds : Own(q)' = {y}
    BY <2>1, <2>3, <2>6 DEF Owned
  <2> QED BY <2>2, <2>5, <2>7 DEF Owned
<1>6. CASE Loses(r)
  <2>1. pc[r] \in {"saving", "writing"}
    BY <1>6 DEF Loses
  <2>2. PICK x : Own(r) = {x}
    BY <2>1, OwnRefund
  <2>3. IsFiniteSet(Unsaved')
    <3>1. Unsaved' = Unsaved \ {x}
      BY <1>6, <2>2, UnsavedLess
    <3>2. IsFiniteSet(Unsaved)
      BY DEF Owned
    <3> QED BY <3>1, <3>2, FS_RemoveElement
  <2>4. /\ payment' = payment /\ copy' = copy /\ pc'[r] = "error"
        /\ \A q \in Requests : q # r => pc'[q] = pc[q]
    BY <1>6, GoEffect DEF Loses
  <2>5. \A y \in payment.refunds : y.by \in Requests
    BY PaymentTyped DEF TypeOK
  <2>6. \A y \in payment'.refunds : pc'[y.by] \in {"refunded", "error"}
    BY <2>4, <2>5 DEF Owned
  <2>7. \A q \in Requests : Own(q)' = Own(q)
    BY <2>4 DEF Own
  <2>8. ASSUME NEW q \in Requests
        PROVE  /\ \A y \in copy'[q].refunds : y.by = q \/ y \in payment'.refunds
               /\ pc'[q] \in {"lock", "get", "refunding"} => Own(q)' = {}
               /\ pc'[q] \in {"saving", "writing"} => \E y \in copy'[q].refunds : Own(q)' = {y}
    BY <2>4, <2>7 DEF Owned
  <2> QED BY <2>3, <2>4, <2>6, <2>8 DEF Owned
<1> QED BY <1>2, <1>3, <1>4, <1>5, <1>6 DEF Kind

\* A payment that did not succeed stays so, and out of the provider's hands.
LEMMA KindUnpayable ==
  ASSUME TypeOK, Bounded, Owned, Unpayable, NEW r \in Requests, Kind(r)
  PROVE  Unpayable'
<1>1. CASE Get(r)
  <2>1. /\ payment' = payment /\ copy'[r] = payment
        /\ \A q \in Requests : q # r => copy'[q] = copy[q]
    BY <1>1 DEF Get, TypeOK
  <2>2. /\ \A q \in Requests : q # r => pc'[q] = pc[q]
        /\ pc'[r] \in {"refunding", "refused"}
        /\ pc'[r] = "refunding" => payment.status \in {"SUCCEEDED", "REFUNDED"}
    BY <1>1, GoEffect DEF Get, Acceptable
  <2> QED BY <2>1, <2>2 DEF Unpayable
<1>2. CASE Refund(r)
  <2>1. /\ copy'[r].status \in {"SUCCEEDED", "REFUNDED"}
        /\ \A q \in Requests : q # r => copy'[q] = copy[q]
    BY <1>2, RefundEffect
  <2>2. /\ payment' = payment /\ pc[r] = "refunding"
        /\ \A q \in Requests : q # r => pc'[q] = pc[q]
    BY <1>2, GoEffect DEF Refund
  <2> QED BY <2>1, <2>2 DEF Unpayable
<1>3. CASE Commits(r)
  <2>1. pc[r] = "writing" /\ copy' = copy
    BY <1>3 DEF Commits
  <2>2. payment.status \notin {"FAILED", "ABSENT"} /\ copy[r].status \in {"SUCCEEDED", "REFUNDED"}
    BY <2>1 DEF Unpayable
  <2>3. payment'.status \notin {"FAILED", "ABSENT"}
    BY <1>3, <2>2, CommitEffect
  <2>4. \A q \in Requests : pc'[q] \in {"refunding", "saving", "writing"} => pc'[q] = pc[q]
    BY <1>3, GoEffect DEF Commits
  <2> QED BY <2>1, <2>3, <2>4 DEF Unpayable
<1>4. CASE Lock(r) \/ Find(r) \/ Leaves(r) \/ Loses(r) \/ PaysUnheard(r)
  <2>1. /\ payment' = payment /\ copy' = copy
        /\ \A q \in Requests : pc'[q] \in {"refunding", "saving", "writing"} =>
             pc[q] \in {"refunding", "saving", "writing"}
    BY <1>4, GoEffect DEF Lock, Find, Leaves, Loses, PaysUnheard
  <2> QED BY <2>1 DEF Unpayable
<1> QED BY <1>1, <1>2, <1>3, <1>4 DEF Kind

\* The books balance.
LEMMA KindRecorded ==
  ASSUME TypeOK, Bounded, Owned, RefundsAreRecorded, NEW r \in Requests, Kind(r)
  PROVE  RefundsAreRecorded'
<1> DEFINE saved == Paid(payment.refunds)
           onTheWay == Paid(Unsaved)
<1>1. /\ saved \in Nat /\ onTheWay \in Nat /\ paidBack \in Nat /\ lost \in Nat /\ events \in Nat
      /\ \A x \in payment.refunds \cup Unsaved : x.amount \in Nat
  BY SumsTyped DEF TypeOK
<1>2. paidBack = saved + onTheWay + lost /\ events = Cardinality(payment.refunds)
  BY DEF RefundsAreRecorded
<1>3. IsFiniteSet(payment.refunds) /\ IsFiniteSet(Unsaved)
  BY DEF Owned
<1>4. CASE Lock(r) \/ Get(r) \/ Find(r) \/ Leaves(r)
  <2>1. UNCHANGED <<payment, paidBack, events, lost>> /\ Unsaved' = Unsaved
    BY <1>4, UnsavedSame DEF Lock, Get, Find, Leaves, history
  <2> QED BY <2>1 DEF RefundsAreRecorded
<1>5. CASE PaysUnheard(r)
  <2> DEFINE n == RefundAmount(r, copy[r])
  <2>1. n \in Nat
    BY <1>5, AmountTyped DEF PaysUnheard
  <2>2. /\ UNCHANGED <<payment, events>> /\ Unsaved' = Unsaved
        /\ paidBack' = paidBack + n /\ lost' = lost + n
    BY <1>5, UnsavedSame DEF PaysUnheard
  <2> HIDE DEF n, saved, onTheWay
  <2>3. paidBack' = saved + onTheWay + lost'
    BY <1>1, <1>2, <2>1, <2>2
  <2> QED BY <1>2, <2>2, <2>3 DEF RefundsAreRecorded, saved, onTheWay
<1>6. CASE Refund(r)
  <2>1. PICK n \in Nat \ {0}, x \in [by : Requests, amount : Nat] :
          /\ x.by = r /\ x.amount = n /\ paidBack' = paidBack + n
          /\ copy'[r].refunds = copy[r].refunds \cup {x}
          /\ \A q \in Requests : q # r => copy'[q] = copy[q]
    BY <1>6, RefundEffect
  <2>2. x \notin Unsaved /\ Unsaved' = Unsaved \cup {x}
    BY <1>6, <2>1, UnsavedMore
  <2>3. Paid(Unsaved') = onTheWay + n
    BY <1>1, <1>3, <2>1, <2>2, PaidAdd
  <2>4. UNCHANGED <<payment, events, lost>>
    BY <1>6 DEF Refund, history
  <2> HIDE DEF saved, onTheWay
  <2>5. paidBack' = saved + Paid(Unsaved') + lost
    BY <1>1, <1>2, <2>1, <2>3
  <2> QED BY <1>2, <2>4, <2>5 DEF RefundsAreRecorded, saved
<1>7. CASE Commits(r)
  <2>1. PICK x : /\ Own(r) = {x} /\ x.amount \in Nat /\ x \in Unsaved /\ x \notin payment.refunds
                 /\ payment'.refunds = payment.refunds \cup {x}
    BY <1>7, CommitEffect
  <2>2. Unsaved' = Unsaved \ {x}
    BY <1>7, <2>1, UnsavedLess
  <2>3. Paid(payment'.refunds) = saved + x.amount
    BY <1>1, <1>3, <2>1, PaidAdd
  <2>4. onTheWay = Paid(Unsaved') + x.amount /\ Paid(Unsaved') \in Nat
    <3>1. IsFiniteSet(Unsaved') /\ \A y \in Unsaved' : y.amount \in Nat
      BY <1>1, <1>3, <2>2, FS_RemoveElement
    <3>2. Paid(Unsaved') \in Nat
      BY <3>1, PaidNat
    <3>3. Paid(Unsaved) = Paid(Unsaved \ {x}) + x.amount
      BY <1>1, <1>3, <2>1, PaidRemove
    <3> QED BY <2>2, <3>2, <3>3
  <2>5. Cardinality(payment'.refunds) = Cardinality(payment.refunds) + 1
    BY <1>3, <2>1, FS_AddElement
  <2>6. events' = events + 1 /\ UNCHANGED <<paidBack, lost>>
    BY <1>7 DEF Commits, history
  <2> HIDE DEF saved, onTheWay
  <2>7. paidBack' = Paid(payment'.refunds) + Paid(Unsaved') + lost'
    BY <1>1, <1>2, <2>1, <2>3, <2>4, <2>6
  <2> QED BY <1>2, <2>5, <2>6, <2>7 DEF RefundsAreRecorded
<1>8. CASE Loses(r)
  <2>1. pc[r] \in {"saving", "writing"} /\ lost' = lost + PaidBy(r)
        /\ UNCHANGED <<payment, paidBack, events>>
    BY <1>8 DEF Loses
  <2>2. PICK x : /\ Own(r) = {x} /\ x.amount \in Nat /\ x \in Unsaved /\ PaidBy(r) = x.amount
    BY <2>1, OwnRefund
  <2>3. Unsaved' = Unsaved \ {x}
    BY <1>8, <2>2, UnsavedLess
  <2>4. onTheWay = Paid(Unsaved') + x.amount /\ Paid(Unsaved') \in Nat
    <3>1. IsFiniteSet(Unsaved') /\ \A y \in Unsaved' : y.amount \in Nat
      BY <1>1, <1>3, <2>3, FS_RemoveElement
    <3>2. Paid(Unsaved') \in Nat
      BY <3>1, PaidNat
    <3>3. Paid(Unsaved) = Paid(Unsaved \ {x}) + x.amount
      BY <1>1, <1>3, <2>2, PaidRemove
    <3> QED BY <2>3, <3>2, <3>3
  <2> HIDE DEF saved, onTheWay
  <2>5. paidBack' = saved + Paid(Unsaved') + lost'
    BY <1>1, <1>2, <2>1, <2>2, <2>4
  <2> QED BY <1>2, <2>1, <2>5 DEF RefundsAreRecorded, saved
<1> QED BY <1>4, <1>5, <1>6, <1>7, <1>8 DEF Kind

\* Without overlap, one request at a time refunds.
LEMMA KindAlone ==
  ASSUME RefundInv, NEW r \in Requests, Kind(r), ~overlapped'
  PROVE  Alone'
<1>1. TypeOK /\ Bounded /\ Owned /\ Unpayable
  BY DEF RefundInv
<1>2. ~overlapped
  BY DEF Kind, Lock, Get, Refund, Find, Leaves, Commits, Loses, PaysUnheard, history
<1>3. Alone /\ asked' = asked
  BY <1>2 DEF RefundInv, Kind, Lock, Get, Refund, Find, Leaves, Commits, Loses, PaysUnheard
<1>4. /\ payment \in RefundedPayment /\ payment.refunded_amount \in Nat
      /\ Amount \in Nat \ {0} /\ payment.refunded_amount <= Amount
  BY <1>1, PaymentTyped, RefundAssumption DEF TypeOK, Bounded
<1>5. \A q \in Requests : q \in Refunding <=> pc[q] \in Locked
  BY DEF Refunding
<1>6. \A q : q \in Refunding' <=> q \in Requests /\ pc'[q] \in Locked
  BY DEF Refunding
<1>7. CASE Commits(r)
  <2>1. /\ pc[r] = "writing" /\ pc'[r] \in {"refunded", "error"} /\ payment' = Stored(r)
        /\ \A q \in Requests : q # r => pc'[q] = pc[q]
    BY <1>1, <1>7, GoEffect DEF Commits
  <2>2. \A q \in Requests : q # r => pc[q] \notin Locked
    BY <1>3, <1>5, <2>1 DEF Alone, Locked
  <2>3. \A q \in Requests : pc'[q] \notin Locked
    BY <2>1, <2>2 DEF Locked
  <2>4. PICK n \in 1 .. Remaining(payment) : copy[r] = Updated(payment, r, n)
    BY <1>3, <2>1 DEF Alone
  <2>5. n \in Nat \ {0} /\ payment.refunded_amount + n <= Amount
    BY <1>4, <2>4 DEF Remaining
  <2> DEFINE x == [by |-> r, amount |-> n]
  <2>6. /\ copy[r].refunded_amount = payment.refunded_amount + n
        /\ copy[r].refunds = payment.refunds \cup {x}
        /\ copy[r].status = IF payment.refunded_amount + n = Amount THEN "REFUNDED"
                            ELSE payment.status
    BY <2>4 DEF Updated
  <2>7. loaded[r] = payment
    BY <1>3, <2>1 DEF Alone
  <2>8. /\ payment'.refunded_amount = payment.refunded_amount + n
        /\ payment'.refunds = payment.refunds \cup {x}
        /\ payment'.status = IF payment.refunded_amount + n = Amount THEN "REFUNDED"
                             ELSE payment.status
    <3>1. copy[r].refunded_amount # loaded[r].refunded_amount
      BY <1>4, <2>5, <2>6, <2>7
    <3>2. payment'.refunds = payment.refunds \cup copy[r].refunds
      BY <2>1 DEF Stored, StoredRefunds
    <3>3. payment'.refunded_amount = copy[r].refunded_amount
      BY <2>1, <3>1 DEF Stored
    <3>4. payment'.status = copy[r].status
      BY <2>1, <2>7 DEF Stored
    <3> HIDE DEF x
    <3> QED BY <2>6, <3>2, <3>3, <3>4
  <2>9. payment'.refunded_amount = Paid(payment'.refunds)
    <3>1. x \notin payment.refunds /\ x.amount = n
      BY <1>1, <2>1 DEF Owned
    <3>2. IsFiniteSet(payment.refunds) /\ \A y \in payment.refunds : y.amount \in Nat
      BY <1>1, PaymentTyped DEF Owned, TypeOK
    <3> HIDE DEF x
    <3>3. Paid(payment.refunds \cup {x}) = Paid(payment.refunds) + n
      BY <2>5, <3>1, <3>2, PaidAdd
    <3> QED BY <1>3, <2>8, <3>3 DEF Alone
  <2>10. payment'.status = "REFUNDED" <=> payment'.refunded_amount = Amount
    <3>1. payment.status # "REFUNDED"
      BY <1>3, <1>4, <2>5 DEF Alone
    <3> QED BY <2>8, <3>1
  <2>11. ASSUME NEW q \in Requests, pc'[q] = "refused", payment'.status = "SUCCEEDED"
         PROVE  asked'[q] # Whole /\ asked'[q] > Amount - payment'.refunded_amount
    <3>1. pc[q] = "refused" /\ payment.status = "SUCCEEDED"
      BY <2>1, <2>8, <2>11
    <3>2. asked[q] # Whole /\ asked[q] > Amount - payment.refunded_amount
      BY <1>3, <3>1 DEF Alone, Remaining
    <3>3. asked[q] \in Nat
      BY <1>1, <3>2, RefundAssumption DEF TypeOK
    <3> QED BY <1>3, <1>4, <2>5, <2>8, <3>2, <3>3
  <2> QED BY <1>6, <2>3, <2>9, <2>10, <2>11 DEF Alone, Remaining, Locked
<1>8. CASE ~Commits(r)
  <2>1. payment' = payment
    BY <1>8 DEF Kind, Lock, Get, Refund, Find, Leaves, Loses, PaysUnheard
  <2>2. \A q \in Requests : q # r => pc'[q] = pc[q]
    BY <1>1, <1>8, GoEffect DEF Kind, Lock, Get, Refund, Find, Leaves, Loses, PaysUnheard
  <2>3. \A q \in Requests : q # r => copy'[q] = copy[q] /\ loaded'[q] = loaded[q]
    BY <1>1, <1>8 DEF TypeOK, Kind, Lock, Get, Refund, Find, Leaves, Loses, PaysUnheard
  <2>4. /\ pc'[r] \in Locked =>
             \A q \in Requests : q # r => pc[q] \notin Locked
        /\ pc'[r] = "refunding" => copy'[r] = payment
        /\ pc'[r] \in {"saving", "writing"} =>
             \E n \in 1 .. Remaining(payment) : copy'[r] = Updated(payment, r, n)
        /\ pc'[r] = "writing" => loaded'[r] = payment
        /\ pc'[r] = "refused" /\ payment.status = "SUCCEEDED" =>
             asked[r] # Whole /\ asked[r] > Remaining(payment)
    <3>1. CASE Lock(r)
      <4>1. pc'[r] = "get" /\ \A q \in Refunding : SameProcess(q, r)
        BY <1>1, <3>1, GoEffect DEF Lock
      <4>2. \A q \in Refunding : ~SameProcess(q, r)
        BY <3>1 DEF Lock, LockFree
      <4> QED BY <1>5, <4>1, <4>2
    <3>2. CASE Get(r)
      <4>1. /\ pc[r] = "get" /\ copy'[r] = payment
            /\ pc'[r] = IF Acceptable(r, payment) THEN "refunding" ELSE "refused"
        BY <1>1, <3>2, GoEffect DEF Get, TypeOK
      <4>2. \A q \in Requests : q # r => pc[q] \notin Locked
        BY <1>3, <1>5, <4>1 DEF Alone, Locked
      <4>3. ASSUME ~Acceptable(r, payment), payment.status = "SUCCEEDED"
            PROVE  asked[r] # Whole /\ asked[r] > Remaining(payment)
        <5>1. Remaining(payment) \in Nat \ {0}
          <6>1. payment.refunded_amount # Amount
            BY <1>3, <4>3 DEF Alone
          <6> QED BY <1>4, <6>1 DEF Remaining
        <5>2. RefundAmount(r, payment) \notin 1 .. Remaining(payment)
          BY <4>3 DEF Acceptable
        <5>3. asked[r] # Whole
          BY <5>1, <5>2 DEF RefundAmount
        <5>4. asked[r] \in Nat \ {0}
          BY <1>1, <5>3, RefundAssumption DEF TypeOK
        <5>5. asked[r] \notin 1 .. Remaining(payment)
          BY <5>2, <5>3 DEF RefundAmount
        <5> QED BY <5>1, <5>3, <5>4, <5>5
      <4> QED BY <4>1, <4>2, <4>3
    <3>3. CASE Refund(r)
      <4>1. pc[r] = "refunding" /\ pc'[r] = "saving"
        BY <1>1, <3>3, GoEffect DEF Refund
      <4>2. copy[r] = payment /\ \A q \in Requests : q # r => pc[q] \notin Locked
        BY <1>3, <1>5, <4>1 DEF Alone, Locked
      <4>3. \E n \in 1 .. Remaining(copy[r]) : copy'[r] = Updated(copy[r], r, n)
        BY <1>1, <3>3, RefundEffect
      <4> QED BY <4>1, <4>2, <4>3
    <3>4. CASE Find(r)
      <4>1. pc[r] = "saving" /\ pc'[r] = "writing" /\ copy' = copy /\ loaded'[r] = payment
        BY <1>1, <3>4, GoEffect DEF Find, TypeOK
      <4>2. /\ \A q \in Requests : q # r => pc[q] \notin Locked
            /\ \E n \in 1 .. Remaining(payment) : copy[r] = Updated(payment, r, n)
        BY <1>3, <1>5, <4>1 DEF Alone, Locked
      <4> QED BY <4>1, <4>2
    <3>5. CASE Leaves(r) \/ Loses(r) \/ PaysUnheard(r)
      <4>1. pc'[r] = "error"
        BY <1>1, <3>5, GoEffect DEF Leaves, Loses, PaysUnheard
      <4> QED BY <4>1 DEF Locked
    <3> QED BY <1>8, <3>1, <3>2, <3>3, <3>4, <3>5 DEF Kind
  <2>5. \A p, q \in Refunding' : p = q
    BY <1>3, <1>5, <1>6, <2>2, <2>4 DEF Alone
  <2>6. ASSUME NEW q \in Requests
        PROVE  /\ pc'[q] = "refunding" => copy'[q] = payment'
               /\ pc'[q] \in {"saving", "writing"} =>
                    \E n \in 1 .. Remaining(payment) : copy'[q] = Updated(payment, q, n)
               /\ pc'[q] = "writing" => loaded'[q] = payment'
               /\ pc'[q] = "refused" /\ payment.status = "SUCCEEDED" =>
                    asked[q] # Whole /\ asked[q] > Remaining(payment)
    <3>1. CASE q = r
      BY <2>1, <2>4, <3>1
    <3>2. CASE q # r
      BY <1>3, <2>1, <2>2, <2>3, <3>2 DEF Alone
    <3> QED BY <3>1, <3>2
  <2> QED BY <1>3, <2>1, <2>5, <2>6 DEF Alone, Remaining, Updated
<1> QED BY <1>7, <1>8

-----------------------------------------------------------------------------
(* Results. *)

\* Before any refund the books are empty.
LEMMA InitRefundInv == Init => RefundInv
<1> SUFFICES ASSUME Init PROVE RefundInv
  OBVIOUS
<1>1. /\ payment.refunded_amount = 0 /\ payment.refunds = {}
      /\ payment.status \in {"SUCCEEDED", "FAILED", "ABSENT"}
      /\ payment \in RefundedPayment
  BY DEF Init, Fresh, RefundedPayment
<1>2. \A r \in Requests : pc[r] = "lock" /\ copy[r] = payment
  BY DEF Init
<1>3. TypeOK
  BY <1>1 DEF Init, TypeOK
<1>4. Bounded
  BY <1>1, <1>2, RefundAssumption DEF Bounded
<1>5. Unsaved = {}
  BY <1>2, InUnsaved
<1>6. Owned
  BY <1>1, <1>2, <1>5, FS_EmptySet DEF Owned, Own
<1>7. Unpayable
  BY <1>1, <1>2 DEF Unpayable
<1>8. RefundsAreRecorded
  BY <1>1, <1>5, PaidEmpty, FS_EmptySet DEF RefundsAreRecorded, Init
<1>9. Alone
  BY <1>1, <1>2, PaidEmpty, RefundAssumption DEF Alone, Refunding, Locked
<1> QED BY <1>3, <1>4, <1>6, <1>7, <1>8, <1>9 DEF RefundInv

\* Every step keeps the books.
LEMMA NextRefundInv == RefundInv /\ [Next]_vars => RefundInv'
<1> SUFFICES ASSUME RefundInv, [Next]_vars PROVE RefundInv'
  OBVIOUS
<1>1. ASSUME NEW r \in Requests, Kind(r) PROVE RefundInv'
  <2>1. TypeOK /\ Bounded /\ Owned /\ Unpayable /\ RefundsAreRecorded
    BY DEF RefundInv
  <2>2. TypeOK' /\ Bounded' /\ Owned' /\ Unpayable' /\ RefundsAreRecorded'
    BY <1>1, <2>1, KindType, KindBounded, KindOwned, KindUnpayable, KindRecorded
  <2>3. ~overlapped' => Alone'
    BY <1>1, KindAlone
  <2> QED BY <2>2, <2>3 DEF RefundInv
<1>2. CASE UNCHANGED vars
  BY <1>2 DEF vars, history, RefundInv, TypeOK, Bounded, Owned, Unpayable, RefundsAreRecorded,
     Alone, Own, Unsaved, Refunding, Acceptable, RefundAmount
<1> QED BY <1>1, <1>2, Kinds

\* The invariant holds throughout.
LEMMA RefundInvariant == Spec => []RefundInv
  BY InitRefundInv, NextRefundInv, PTL DEF Spec

\* The state of refund is well-typed, the amounts never negative (refund).
THEOREM RefundsTypeCorrect == Spec => []TypeOK
<1>1. RefundInv => TypeOK
  BY DEF RefundInv
<1> QED BY <1>1, RefundInvariant, PTL

\* Whatever fails and however two processes overlap, the saved refunds, those on
\* their way to the save and those lost by a fault are what was paid back, and
\* every saved refund has its event (refund, save_with_events).
THEOREM RefundsRecorded == Spec => []RefundsAreRecorded
<1>1. RefundInv => RefundsAreRecorded
  BY DEF RefundInv
<1> QED BY <1>1, RefundInvariant, PTL

\* Without overlap the saved refunds add up to refunded_amount and the payment
\* is REFUNDED exactly when all was refunded; refunded_amount never exceeds the
\* amount, and a payment that did not succeed has no refunds (refund).
THEOREM RefundsRecordAddsUp == Spec => []RecordAddsUp
<1>1. RefundInv => RecordAddsUp
  BY DEF RefundInv, Bounded, Unpayable, Alone, RecordAddsUp
<1> QED BY <1>1, RefundInvariant, PTL

\* A refusal of refund is final while the processes do not overlap: what a
\* refused request asked for is not left later either.
THEOREM RefundsRefusedForGood == Spec => []RefusedForGood
<1>1. RefundInv => RefusedForGood
  BY DEF RefundInv, Alone, RefusedForGood
<1> QED BY <1>1, RefundInvariant, PTL

\* While the two processes do not overlap no more than the payment's amount is
\* paid back, but for what faults lost: a request that refunds does so on the
\* stored payment, alone, so what it is about to save still fits (refund).
THEOREM RefundsNeverExceedAmount == Spec => []NeverOverRefunded
<1>1. RefundInv => NeverOverRefunded
  <2> SUFFICES ASSUME RefundInv, ~overlapped PROVE paidBack <= Amount + lost
    BY DEF NeverOverRefunded
  <2>1. TypeOK /\ Bounded /\ Owned /\ RefundsAreRecorded /\ Alone
    BY DEF RefundInv
  <2>2. /\ paidBack = Paid(payment.refunds) + Paid(Unsaved) + lost
        /\ Paid(payment.refunds) = payment.refunded_amount
    BY <2>1 DEF RefundsAreRecorded, Alone
  <2>3. /\ payment.refunded_amount \in Nat /\ lost \in Nat /\ Amount \in Nat
        /\ payment.refunded_amount <= Amount /\ Paid(Unsaved) \in Nat
    BY <2>1, PaymentTyped, SumsTyped, RefundAssumption DEF TypeOK, Bounded
  <2>4. CASE Unsaved = {}
    <3>1. Paid(Unsaved) = 0
      BY <2>4, PaidEmpty
    <3> QED BY <2>2, <2>3, <3>1
  <2>5. CASE Unsaved # {}
    <3>1. PICK x \in Unsaved : TRUE
      BY <2>5
    <3> DEFINE r == x.by
    <3>2. r \in Requests /\ pc[r] \in {"saving", "writing"} /\ x \in copy[r].refunds
      BY <3>1, InUnsaved
    <3>3. PICK n \in 1 .. Remaining(payment) : copy[r] = Updated(payment, r, n)
      BY <2>1, <3>2 DEF Alone
    <3>4. PICK own : Own(r) = {own}
      BY <2>1, <3>2, OwnRefund
    <3>5. x = own /\ x.amount = n
      <4>1. x \in Own(r) /\ [by |-> r, amount |-> n] \in Own(r)
        BY <3>2, <3>3 DEF Own, Updated
      <4>2. x = [by |-> r, amount |-> n]
        BY <3>4, <4>1
      <4> QED BY <3>4, <4>1, <4>2
    <3>6. \A y \in Unsaved : y.by = r
      BY <2>1, <3>2, InUnsaved DEF Alone, Refunding, Locked
    <3>7. Unsaved = {x}
      <4>1. \A y \in Unsaved : y \in Own(r)
        BY <3>6, InUnsaved DEF Own
      <4> QED BY <3>1, <3>4, <3>5, <4>1
    <3>8. n \in Nat /\ payment.refunded_amount + n <= Amount
      BY <2>3, <3>3 DEF Remaining
    <3>9. Paid(Unsaved) = n
      BY <3>5, <3>7, <3>8, PaidSingle
    <3> HIDE DEF r
    <3> QED BY <2>2, <2>3, <3>8, <3>9
  <2> QED BY <2>4, <2>5
<1> QED BY <1>1, RefundInvariant, PTL
=============================================================================
