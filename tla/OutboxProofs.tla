---------------------------- MODULE OutboxProofs -----------------------------
(***************************************************************************)
(* The delivery of events, proved for any transactions, dispatchers and    *)
(* consumers, any list limit and number of attempts and every fault.       *)
(***************************************************************************)
EXTENDS Outbox, TLAPS

\* In a list, or in the log, come before an event all those that precede it.
Gapless(s) ==
    \A i \in DOMAIN s, d \in Rows : Before(d, s[i]) => \E j \in 1 .. i - 1 : s[j] = d

\* What precedes an event of a list is in the log or earlier in the list.
Listed(list) ==
    \A i \in DOMAIN list :
      /\ list[i] \in Rows
      /\ \A d \in Rows :
           Before(d, list[i]) => d \in Delivered \/ \E j \in 1 .. i - 1 : list[j] = d

\* The same three after a step.
BeforeAfter(d, e) ==
    /\ d < e
    /\ \E j \in DOMAIN committed' : \E i \in 1 .. j :
         d \in Batches[committed'[i]] /\ e \in Batches[committed'[j]]

GaplessAfter(s) ==
    \A i \in DOMAIN s, d \in Rows' : BeforeAfter(d, s[i]) => \E j \in 1 .. i - 1 : s[j] = d

ListedAfter(list) ==
    \A i \in DOMAIN list :
      /\ list[i] \in Rows'
      /\ \A d \in Rows' :
           BeforeAfter(d, list[i]) => d \in Delivered' \/ \E j \in 1 .. i - 1 : list[j] = d

Queued(w) ==
    /\ worker[w] \in {"publishing", "marking"} => queue[w] # <<>>
    /\ worker[w] = "marking" => Head(queue[w]) \in Delivered
    /\ Listed(queue[w])

\* What a consumer has read it has seen, what it has seen was in the log and is
\* recorded once.
CaughtUp(c) ==
    /\ position[c] <= Len(broker)
    /\ \A i \in 1 .. position[c] : broker[i] \in seen[c]
    /\ seen[c] \subseteq Delivered
    /\ seen[c] = {effects[c][i] : i \in DOMAIN effects[c]}
    /\ \A i, j \in DOMAIN effects[c] : i # j => effects[c][i] # effects[c][j]
    /\ Gapless(effects[c])

LogInv == MarkedMeansDelivered /\ Gapless(broker)

OutboxInv ==
    /\ TypeOK
    /\ LogInv
    /\ \A w \in Workers : Queued(w)
    /\ \A c \in Consumers : CaughtUp(c)

\* An event all of whose predecessors are in the log.
Due(e) ==
    /\ e \in Rows
    /\ \A d \in Rows : Before(d, e) => d \in Delivered

LogGrows == broker' = broker \/ \E e \in Events : Due(e) /\ broker' = Append(broker, e)

\* What any step does to the rows.
RowsGrow ==
    \/ committed' = committed
    \/ \E b \in BatchIds : b \notin Range(committed) /\ committed' = Append(committed, b)

\* What a step of the dispatcher w does to the others.
DispatcherStep(w) ==
    /\ LogGrows
    /\ published' \subseteq published \cup Delivered
    /\ \A u \in Workers \ {w} : queue'[u] = queue[u] /\ worker'[u] = worker[u]
    /\ UNCHANGED <<committed, consumers>>

-----------------------------------------------------------------------------
(* Transactions and events. *)

\* Events are numbered in the order of created_at.
LEMMA EventsAreNat == Events \subseteq Nat
BY OutboxAssumption DEF Events

\* The rows of the outbox are events of committed batches.
LEMMA RowsAreEvents ==
  ASSUME TypeOK
  PROVE  Rows \subseteq Events
<1>1. \A i \in DOMAIN committed : committed[i] \in BatchIds
  BY DEF TypeOK
<1> QED
  BY <1>1 DEF Rows, Saved, Events

\* A transaction that commits comes after the rows there are: whatever it is
\* stamped, what precedes a row is settled when the row is saved.
LEMMA OrderSettled ==
  ASSUME TypeOK, RowsGrow
  PROVE  /\ Rows \subseteq Rows'
         /\ \A e \in Rows, d \in Rows' : BeforeAfter(d, e) => d \in Rows /\ Before(d, e)
<1>1. CASE committed' = committed
  BY <1>1 DEF Rows, Saved, Before, BeforeAfter
<1>2. ASSUME NEW b \in BatchIds, b \notin Range(committed), committed' = Append(committed, b)
      PROVE  /\ Rows \subseteq Rows'
             /\ \A e \in Rows, d \in Rows' : BeforeAfter(d, e) => d \in Rows /\ Before(d, e)
  <2>1. /\ committed \in Seq(BatchIds)
        /\ Len(committed) \in Nat
        /\ DOMAIN committed = 1 .. Len(committed)
        /\ DOMAIN committed' = 1 .. Len(committed) + 1
        /\ committed'[Len(committed) + 1] = b
        /\ \A i \in DOMAIN committed : committed'[i] = committed[i] /\ committed[i] \in BatchIds
    BY <1>2 DEF TypeOK
  <2>2. Rows \subseteq Rows'
    BY <2>1 DEF Rows, Saved
  <2>3. ASSUME NEW e \in Rows, NEW d \in Rows', BeforeAfter(d, e)
        PROVE  d \in Rows /\ Before(d, e)
    <3>1. PICK k \in DOMAIN committed : e \in Batches[committed[k]]
      BY DEF Rows, Saved
    <3>2. PICK j \in DOMAIN committed' : \E i \in 1 .. j :
            d \in Batches[committed'[i]] /\ e \in Batches[committed'[j]]
      BY <2>3 DEF BeforeAfter
    <3>3. PICK i \in 1 .. j : d \in Batches[committed'[i]] /\ e \in Batches[committed'[j]]
      BY <3>2
    <3>4. b # committed[k]
      BY <1>2, <3>1 DEF Range
    <3>5. e \notin Batches[b]
      BY <2>1, <3>1, <3>4, OutboxAssumption
    <3>6. j # Len(committed) + 1
      BY <2>1, <3>3, <3>5
    <3>7. j \in DOMAIN committed /\ i \in DOMAIN committed
      BY <2>1, <3>6
    <3>8. d \in Saved(i) /\ e \in Saved(j)
      BY <2>1, <3>3, <3>7 DEF Saved
    <3>9. d < e
      BY <2>3 DEF BeforeAfter
    <3> QED
      BY <3>7, <3>8, <3>9 DEF Before, Rows
  <2> QED
    BY <2>2, <2>3
<1> QED
  BY <1>1, <1>2 DEF RowsGrow

\* Rows in order stay in order.
LEMMA StillGapless ==
  ASSUME TypeOK, RowsGrow, NEW s, \A i \in DOMAIN s : s[i] \in Rows, Gapless(s)
  PROVE  GaplessAfter(s)
BY OrderSettled DEF Gapless, GaplessAfter

-----------------------------------------------------------------------------
(* The log. *)

\* The broker's log only grows at its end.
LEMMA LogAfter ==
  ASSUME TypeOK, LogGrows
  PROVE  /\ broker' \in Seq(Events)
         /\ Len(broker) <= Len(broker')
         /\ \A i \in DOMAIN broker : i \in DOMAIN broker' /\ broker'[i] = broker[i]
         /\ Delivered \subseteq Delivered'
<1>1. broker \in Seq(Events)
  BY DEF TypeOK
<1>2. CASE broker' = broker
  BY <1>1, <1>2 DEF Delivered
<1>3. ASSUME NEW e \in Events, broker' = Append(broker, e)
      PROVE  /\ broker' \in Seq(Events)
             /\ Len(broker) <= Len(broker')
             /\ \A i \in DOMAIN broker : i \in DOMAIN broker' /\ broker'[i] = broker[i]
  BY <1>1, <1>3
<1>4. ASSUME NEW e \in Events, broker' = Append(broker, e)
      PROVE  Delivered \subseteq Delivered'
  BY <1>3, <1>4 DEF Delivered
<1> QED
  BY <1>2, <1>3, <1>4 DEF LogGrows

\* An event that is due, appended, leaves no gap.
LEMMA LogStaysGapless ==
  ASSUME TypeOK, LogInv, LogGrows, RowsGrow
  PROVE  Gapless(broker)'
<1>1. broker \in Seq(Events) /\ \A i \in DOMAIN broker : broker[i] \in Rows
  BY DEF TypeOK, LogInv, MarkedMeansDelivered, Delivered
<1>2. GaplessAfter(broker)
  BY <1>1, StillGapless DEF LogInv
<1>3. CASE broker' = broker
  BY <1>2, <1>3 DEF Gapless, GaplessAfter, Before, BeforeAfter, Saved
<1>4. ASSUME NEW e \in Events, Due(e), broker' = Append(broker, e)
      PROVE  GaplessAfter(broker')
  <2> SUFFICES ASSUME NEW i \in DOMAIN broker', NEW d \in Rows', BeforeAfter(d, broker'[i])
               PROVE  \E j \in 1 .. i - 1 : broker'[j] = d
    BY DEF GaplessAfter
  <2>1. /\ DOMAIN broker = 1 .. Len(broker)
        /\ DOMAIN broker' = 1 .. Len(broker) + 1
        /\ Len(broker) \in Nat
        /\ broker'[Len(broker) + 1] = e
        /\ \A k \in DOMAIN broker : broker'[k] = broker[k]
    BY <1>1, <1>4
  <2>2. CASE i \in DOMAIN broker
    <3>1. \E j \in 1 .. i - 1 : broker[j] = d
      BY <1>2, <2>1, <2>2 DEF GaplessAfter
    <3> QED
      BY <2>1, <2>2, <3>1
  <2>3. CASE i = Len(broker) + 1
    <3>1. d \in Rows /\ Before(d, e)
      BY <1>4, <2>1, <2>3, OrderSettled DEF Due
    <3>2. d \in Delivered
      BY <1>4, <3>1 DEF Due
    <3>3. PICK k \in DOMAIN broker : broker[k] = d
      BY <3>2 DEF Delivered
    <3> QED
      BY <2>1, <2>3, <3>3
  <2> QED
    BY <2>1, <2>2, <2>3
<1>5. ASSUME GaplessAfter(broker') PROVE Gapless(broker)'
  BY <1>5 DEF Gapless, GaplessAfter, Before, BeforeAfter, Saved
<1> QED
  BY <1>3, <1>4, <1>5 DEF LogGrows

\* A list stays listed while the log and the rows grow.
LEMMA StillListed ==
  ASSUME TypeOK, LogGrows, RowsGrow,
         NEW w \in Workers, queue'[w] = queue[w], Listed(queue[w])
  PROVE  Listed(queue[w])'
<1>1. Delivered \subseteq Delivered'
  BY LogAfter
<1>2. ListedAfter(queue[w])
  <2> SUFFICES ASSUME NEW i \in DOMAIN queue[w]
               PROVE  /\ queue[w][i] \in Rows'
                      /\ \A d \in Rows' : BeforeAfter(d, queue[w][i]) =>
                           d \in Delivered' \/ \E j \in 1 .. i - 1 : queue[w][j] = d
    BY DEF ListedAfter
  <2>1. queue[w][i] \in Rows
    BY DEF Listed
  <2> QED
    BY <1>1, <2>1, OrderSettled DEF Listed
<1> QED
  BY <1>2 DEF Listed, ListedAfter, Before, BeforeAfter, Saved

\* The event a worker has at hand is not preceded by an undelivered one.
LEMMA HeadIsDue ==
  ASSUME TypeOK, NEW w \in Workers, Queued(w), queue[w] # <<>>
  PROVE  Head(queue[w]) \in Events /\ Due(Head(queue[w]))
<1>1. queue[w] \in Seq(Events)
  BY DEF TypeOK
<1>2. 1 \in DOMAIN queue[w] /\ Head(queue[w]) = queue[w][1]
  BY <1>1
<1>3. Listed(queue[w])
  BY DEF Queued
<1>4. queue[w][1] \in Rows
  BY <1>2, <1>3 DEF Listed
<1>5. \A d \in Rows : Before(d, queue[w][1]) => d \in Delivered
  BY <1>2, <1>3 DEF Listed
<1> QED
  BY <1>2, <1>4, <1>5, RowsAreEvents DEF Due

\* The list of unsent is listed: what is older is marked, so delivered, or first.
LEMMA UnsentIsListed ==
  ASSUME TypeOK, LogInv, NEW list \in Unsent
  PROVE  list \in Seq(Events) /\ Listed(list)
<1> DEFINE pending == Rows \ published
<1>1. PICK m \in 0 .. BatchLimit : list \in [1 .. m -> pending]
  BY DEF Unsent, Oldest, SeqOf
<1>2. m \in Nat
  BY <1>1, OutboxAssumption
<1>3. DOMAIN list = 1 .. m
  BY <1>1
<1>4. \A i \in 1 .. m : list[i] \in pending
  BY <1>1
<1>5. list \in Seq(Events)
  BY <1>1, <1>2, RowsAreEvents
<1>6. ASSUME NEW i \in DOMAIN list, NEW d \in Rows, Before(d, list[i]), d \notin Delivered
      PROVE  \E j \in 1 .. i - 1 : list[j] = d
  <2>1. list[i] \in Rows
    BY <1>3, <1>4
  <2>2. d \in pending
    BY <1>6 DEF LogInv, MarkedMeansDelivered
  <2>3. d \in Nat /\ list[i] \in Nat
    BY <2>1, RowsAreEvents, EventsAreNat
  <2>4. ~(list[i] < d) /\ d < list[i]
    BY <1>6, <2>3 DEF Before
  <2>5. PICK j \in DOMAIN list : list[j] = d
    BY <2>2, <2>4 DEF Unsent, Oldest
  <2>6. ~(i < j) /\ i # j
    <3>1. i < j => list[i] < list[j]
      BY DEF Unsent, Oldest
    <3> QED
      BY <1>6, <2>3, <2>4, <2>5, <3>1
  <2> QED
    BY <1>2, <1>3, <2>5, <2>6
<1> QED
  BY <1>3, <1>4, <1>5, <1>6 DEF Listed

\* A consumer that does nothing keeps its effects in order.
LEMMA EffectsStayGapless ==
  ASSUME OutboxInv, RowsGrow, NEW c \in Consumers, effects'[c] = effects[c]
  PROVE  Gapless(effects[c])'
<1>1. \A i \in DOMAIN effects[c] : effects[c][i] \in Rows
  BY DEF OutboxInv, LogInv, CaughtUp, MarkedMeansDelivered
<1>2. GaplessAfter(effects[c])
  BY <1>1, StillGapless DEF OutboxInv, CaughtUp
<1> QED
  BY <1>2 DEF Gapless, GaplessAfter, Before, BeforeAfter, Saved

-----------------------------------------------------------------------------
(* The steps of a dispatcher. *)

\* An empty list owes nothing.
LEMMA EmptyListed == <<>> \in Seq(Events) /\ Listed(<<>>) /\ ListedAfter(<<>>)
BY DEF Listed, ListedAfter

\* Going on to the next event of the list keeps the types.
LEMMA NextEventTyped ==
  ASSUME TypeOK, NEW w \in Workers, NEW rest \in Seq(Events), NextEvent(w, rest)
  PROVE  /\ worker' \in [Workers -> {"polling", "publishing", "marking", "waiting", "stopped"}]
         /\ queue' \in [Workers -> Seq(Events)]
         /\ attempt' \in [Workers -> 0 .. MaxAttempts - 1]
         /\ \A u \in Workers \ {w} : queue'[u] = queue[u] /\ worker'[u] = worker[u]
<1>1. worker' \in [Workers -> {"polling", "publishing", "marking", "waiting", "stopped"}]
  BY DEF NextEvent, Go, TypeOK
<1>2. queue' \in [Workers -> Seq(Events)]
  BY DEF NextEvent, TypeOK
<1>3. attempt' \in [Workers -> 0 .. MaxAttempts - 1]
  BY OutboxAssumption DEF NextEvent, TypeOK
<1>4. \A u \in Workers \ {w} : queue'[u] = queue[u] /\ worker'[u] = worker[u]
  BY DEF NextEvent, Go, TypeOK
<1> QED
  BY <1>1, <1>2, <1>3, <1>4

\* The worker's list stays in order when its head is done with.
LEMMA NextEventQueued ==
  ASSUME TypeOK, NEW w \in Workers, NEW rest \in Seq(Events), NextEvent(w, rest),
         ListedAfter(rest)
  PROVE  Queued(w)'
<1>1. queue'[w] = rest /\ worker'[w] = IF rest = <<>> THEN "waiting" ELSE "publishing"
  BY DEF NextEvent, Go, TypeOK
<1>2. Listed(queue[w])'
  BY <1>1 DEF Listed, ListedAfter, Before, BeforeAfter, Saved
<1> QED
  BY <1>1, <1>2 DEF Queued

\* A retry counts one attempt more, within max_attempts.
LEMMA TryAgainTyped ==
  ASSUME TypeOK, NEW w \in Workers, TryAgain(w), attempt[w] < MaxAttempts - 1
  PROVE  /\ worker' \in [Workers -> {"polling", "publishing", "marking", "waiting", "stopped"}]
         /\ queue' \in [Workers -> Seq(Events)]
         /\ attempt' \in [Workers -> 0 .. MaxAttempts - 1]
         /\ \A u \in Workers \ {w} : queue'[u] = queue[u] /\ worker'[u] = worker[u]
<1>1. worker' \in [Workers -> {"polling", "publishing", "marking", "waiting", "stopped"}]
  BY DEF TryAgain, Go, TypeOK
<1>2. attempt[w] + 1 \in 0 .. MaxAttempts - 1
  BY OutboxAssumption DEF TypeOK
<1>3. attempt' \in [Workers -> 0 .. MaxAttempts - 1]
  BY <1>2 DEF TryAgain, TypeOK
<1>4. \A u \in Workers \ {w} : queue'[u] = queue[u] /\ worker'[u] = worker[u]
  BY DEF TryAgain, Go, TypeOK
<1> QED
  BY <1>1, <1>3, <1>4 DEF TryAgain, TypeOK

\* A failed attempt goes back to publishing the same event or gives up the list.
LEMMA AttemptFailedKeeps ==
  ASSUME TypeOK, NEW w \in Workers, Queued(w), queue[w] # <<>>,
         LogGrows, RowsGrow, AttemptFailed(w)
  PROVE  /\ worker' \in [Workers -> {"polling", "publishing", "marking", "waiting", "stopped"}]
         /\ queue' \in [Workers -> Seq(Events)]
         /\ attempt' \in [Workers -> 0 .. MaxAttempts - 1]
         /\ \A u \in Workers \ {w} : queue'[u] = queue[u] /\ worker'[u] = worker[u]
         /\ Queued(w)'
<1>1. CASE attempt[w] < MaxAttempts - 1
  <2>1. TryAgain(w)
    BY <1>1 DEF AttemptFailed
  <2>2. queue'[w] = queue[w] /\ worker'[w] = "publishing"
    BY <2>1 DEF TryAgain, Go, TypeOK
  <2>3. Listed(queue[w])
    BY DEF Queued
  <2>4. Listed(queue[w])'
    BY <2>2, <2>3, StillListed
  <2>5. Queued(w)'
    BY <2>2, <2>4 DEF Queued
  <2> QED
    BY <1>1, <2>1, <2>5, TryAgainTyped
<1>2. CASE ~(attempt[w] < MaxAttempts - 1)
  <2>1. NextEvent(w, <<>>)
    BY <1>2 DEF AttemptFailed
  <2> QED
    BY <2>1, NextEventTyped, NextEventQueued, EmptyListed
<1> QED
  BY <1>1, <1>2

\* What the steps of a dispatcher leave to show: the others' lists stay
\* listed, the log stays gapless and the consumers keep what they have.
LEMMA DispatcherStepKeeps ==
  ASSUME OutboxInv, NEW w \in Workers, DispatcherStep(w), Queued(w)',
         worker' \in [Workers -> {"polling", "publishing", "marking", "waiting", "stopped"}],
         queue' \in [Workers -> Seq(Events)],
         attempt' \in [Workers -> 0 .. MaxAttempts - 1],
         faults' \in Nat
  PROVE  OutboxInv'
<1>1. TypeOK /\ LogInv
  BY DEF OutboxInv
<1>2. Rows' = Rows /\ RowsGrow
  BY DEF DispatcherStep, Rows, Saved, RowsGrow
<1>3. /\ broker' \in Seq(Events)
      /\ Len(broker) <= Len(broker')
      /\ \A i \in DOMAIN broker : i \in DOMAIN broker' /\ broker'[i] = broker[i]
      /\ Delivered \subseteq Delivered'
  BY <1>1, LogAfter DEF DispatcherStep
<1>4. Delivered' \subseteq Events
  BY <1>3 DEF Delivered
<1>5. published' \subseteq Delivered'
  BY <1>1, <1>3 DEF DispatcherStep, LogInv, MarkedMeansDelivered
<1>6. TypeOK'
  BY <1>1, <1>3, <1>4, <1>5 DEF TypeOK, DispatcherStep, consumers, Events, BatchIds
<1>7. Delivered' \subseteq Rows'
  <2>1. CASE broker' = broker
    BY <1>1, <1>2, <2>1 DEF LogInv, MarkedMeansDelivered, Delivered
  <2>2. ASSUME NEW e \in Events, Due(e), broker' = Append(broker, e)
        PROVE  Delivered' \subseteq Rows'
    <3>1. broker \in Seq(Events)
      BY <1>1 DEF TypeOK
    <3>2. \A i \in DOMAIN broker' : i \in DOMAIN broker \/ broker'[i] = e
      BY <2>2, <3>1
    <3>3. \A i \in DOMAIN broker' : broker'[i] \in Delivered \cup {e}
      BY <1>3, <3>2 DEF Delivered
    <3> QED
      BY <1>1, <1>2, <2>2, <3>3 DEF Delivered, Due, LogInv, MarkedMeansDelivered
  <2> QED
    BY <2>1, <2>2 DEF DispatcherStep, LogGrows
<1>8. Gapless(broker)'
  BY <1>1, <1>2, LogStaysGapless DEF DispatcherStep
<1>9. LogInv'
  BY <1>5, <1>7, <1>8
     DEF LogInv, MarkedMeansDelivered
<1>10. ASSUME NEW u \in Workers \ {w} PROVE Queued(u)'
  <2>1. Queued(u) /\ queue'[u] = queue[u] /\ worker'[u] = worker[u]
    BY DEF OutboxInv, DispatcherStep
  <2>2. Listed(queue[u])
    BY <2>1 DEF Queued
  <2>3. LogGrows
    BY DEF DispatcherStep
  <2>4. Listed(queue[u])'
    BY <1>1, <1>2, <2>1, <2>2, <2>3, StillListed
  <2> QED
    BY <1>3, <2>1, <2>4 DEF Queued
<1>11. ASSUME NEW c \in Consumers PROVE CaughtUp(c)'
  <2>1. CaughtUp(c)
    BY DEF OutboxInv
  <2>2. position'[c] = position[c] /\ seen'[c] = seen[c] /\ effects'[c] = effects[c]
    BY DEF DispatcherStep, consumers
  <2>3. broker \in Seq(Events) /\ position[c] \in Nat
    BY <1>1 DEF TypeOK
  <2>4. position'[c] <= Len(broker')
    BY <1>3, <2>1, <2>2, <2>3 DEF CaughtUp
  <2>5. \A i \in 1 .. position'[c] : broker'[i] \in seen'[c]
    BY <1>3, <2>1, <2>2, <2>3 DEF CaughtUp
  <2>6. Gapless(effects[c])'
    BY <1>2, <2>2, EffectsStayGapless
  <2>7. /\ seen'[c] \subseteq Delivered'
        /\ seen'[c] = {effects'[c][i] : i \in DOMAIN effects'[c]}
        /\ \A i, j \in DOMAIN effects'[c] : i # j => effects'[c][i] # effects'[c][j]
    BY <1>3, <2>1, <2>2 DEF CaughtUp
  <2> QED
    BY <2>4, <2>5, <2>6, <2>7 DEF CaughtUp
<1> QED
  BY <1>6, <1>9, <1>10, <1>11 DEF OutboxInv

\* The poll lists the oldest unsent events, so none is listed before an older one.
LEMMA PollKeeps ==
  ASSUME OutboxInv, NEW w \in Workers, Poll(w) \/ PollFails(w)
  PROVE  OutboxInv'
<1>1. TypeOK /\ LogInv
  BY DEF OutboxInv
<1>2. PICK list \in Seq(Events) : Listed(list) /\ NextEvent(w, list)
  <2>1. CASE Poll(w)
    BY <1>1, <2>1, UnsentIsListed DEF Poll
  <2>2. CASE PollFails(w)
    BY <2>2, EmptyListed DEF PollFails
  <2> QED
    BY <2>1, <2>2
<1>3. UNCHANGED <<committed, published, broker, consumers>> /\ faults' \in Nat
  BY <1>1 DEF Poll, PollFails, Fault, TypeOK
<1>4. ListedAfter(list)
  BY <1>2, <1>3 DEF Listed, ListedAfter, Rows, Saved, Before, BeforeAfter, Delivered
<1>5. Queued(w)'
  BY <1>1, <1>2, <1>4, NextEventQueued
<1>6. DispatcherStep(w)
  BY <1>1, <1>2, <1>3, NextEventTyped DEF DispatcherStep, LogGrows
<1> QED
  BY <1>1, <1>2, <1>3, <1>5, <1>6, NextEventTyped, DispatcherStepKeeps

\* The published event is the worker's head, which is due.
LEMMA PublishKeeps ==
  ASSUME OutboxInv, NEW w \in Workers, Publish(w)
  PROVE  OutboxInv'
<1>1. TypeOK /\ Queued(w) /\ queue[w] # <<>>
  BY DEF OutboxInv, Queued, Publish
<1>2. Head(queue[w]) \in Events /\ Due(Head(queue[w]))
  BY <1>1, HeadIsDue
<1>3. LogGrows /\ RowsGrow
  BY <1>2 DEF Publish, LogGrows, RowsGrow
<1>4. queue' = queue /\ attempt' = attempt /\ faults' = faults /\ worker'[w] = "marking"
  BY <1>1 DEF Publish, Go, TypeOK
<1>5. worker' \in [Workers -> {"polling", "publishing", "marking", "waiting", "stopped"}]
  BY <1>1 DEF Publish, Go, TypeOK
<1>6. \A u \in Workers \ {w} : queue'[u] = queue[u] /\ worker'[u] = worker[u]
  BY <1>1, <1>4 DEF Publish, Go, TypeOK
<1>7. Head(queue[w]) \in Delivered'
  <2>1. /\ Len(broker) + 1 \in DOMAIN broker'
        /\ broker'[Len(broker) + 1] = Head(queue[w])
    BY <1>1, <1>2 DEF Publish, TypeOK
  <2> QED
    BY <2>1 DEF Delivered
<1>8. Listed(queue[w])'
  BY <1>1, <1>3, <1>4, StillListed DEF Queued
<1>9. Queued(w)'
  BY <1>1, <1>4, <1>7, <1>8 DEF Queued
<1>10. DispatcherStep(w)
  BY <1>3, <1>6 DEF DispatcherStep, Publish
<1>11. queue' \in [Workers -> Seq(Events)] /\ attempt' \in [Workers -> 0 .. MaxAttempts - 1]
  BY <1>1, <1>4 DEF TypeOK
<1>12. faults' \in Nat
  BY <1>1, <1>4 DEF TypeOK
<1> QED
  BY <1>5, <1>9, <1>10, <1>11, <1>12, DispatcherStepKeeps

\* A publish that raises may have delivered the event all the same.
LEMMA PublishFailsKeeps ==
  ASSUME OutboxInv, NEW w \in Workers, PublishFails(w)
  PROVE  OutboxInv'
<1>1. TypeOK /\ Queued(w) /\ queue[w] # <<>>
  BY DEF OutboxInv, Queued, PublishFails
<1>2. Head(queue[w]) \in Events /\ Due(Head(queue[w]))
  BY <1>1, HeadIsDue
<1>3. LogGrows /\ RowsGrow
  BY <1>2 DEF PublishFails, LogGrows, RowsGrow
<1>4. faults' \in Nat
  BY <1>1 DEF PublishFails, Fault, TypeOK
<1>5. AttemptFailed(w)
  BY DEF PublishFails
<1>6. DispatcherStep(w)
  BY <1>1, <1>3, <1>5, AttemptFailedKeeps DEF DispatcherStep, PublishFails
<1> QED
  BY <1>1, <1>3, <1>4, <1>5, <1>6, AttemptFailedKeeps, DispatcherStepKeeps

\* A mark that raises leaves the event to be delivered again.
LEMMA MarkFailsKeeps ==
  ASSUME OutboxInv, NEW w \in Workers, MarkFails(w)
  PROVE  OutboxInv'
<1>1. /\ TypeOK
      /\ Queued(w)
      /\ queue[w] # <<>>
      /\ Head(queue[w]) \in Delivered
  BY DEF OutboxInv, Queued, MarkFails
<1>2. LogGrows /\ RowsGrow
  BY DEF MarkFails, LogGrows, RowsGrow
<1>3. faults' \in Nat
  BY <1>1 DEF MarkFails, Fault, TypeOK
<1>4. AttemptFailed(w)
  BY DEF MarkFails
<1>5. published' \subseteq published \cup Delivered
  BY <1>1 DEF MarkFails
<1>6. DispatcherStep(w)
  BY <1>1, <1>2, <1>4, <1>5, AttemptFailedKeeps DEF DispatcherStep, MarkFails
<1> QED
  BY <1>1, <1>2, <1>3, <1>4, <1>6, AttemptFailedKeeps, DispatcherStepKeeps

\* The rest of a list whose head is delivered is listed.
LEMMA TailIsListed ==
  ASSUME TypeOK, NEW w \in Workers, Listed(queue[w]), queue[w] # <<>>,
         Head(queue[w]) \in Delivered, UNCHANGED <<committed, broker>>
  PROVE  Tail(queue[w]) \in Seq(Events) /\ ListedAfter(Tail(queue[w]))
<1> DEFINE q == queue[w]
           t == Tail(queue[w])
<1>1. q \in Seq(Events)
  BY DEF TypeOK
<1>2. /\ t \in Seq(Events)
      /\ \A i \in DOMAIN t : i \in Nat /\ i > 0 /\ i + 1 \in DOMAIN q /\ t[i] = q[i + 1]
      /\ Head(q) = q[1]
  BY <1>1
<1>3. Rows' = Rows /\ Delivered' = Delivered
  BY DEF Rows, Saved, Delivered
<1>4. ASSUME NEW i \in DOMAIN t, NEW d \in Rows, Before(d, t[i]), d \notin Delivered
      PROVE  \E j \in 1 .. i - 1 : t[j] = d
  <2>1. PICK j \in 1 .. i : q[j] = d
    BY <1>2, <1>4 DEF Listed
  <2>2. j # 1
    BY <1>2, <1>4, <2>1
  <2>3. j - 1 \in 1 .. i - 1 /\ j - 1 \in DOMAIN t
    BY <1>1, <1>2, <2>1, <2>2
  <2>4. t[j - 1] = d
    BY <1>2, <2>1, <2>3
  <2> QED
    BY <2>3, <2>4
<1>5. \A i \in DOMAIN t : t[i] \in Rows
  BY <1>2 DEF Listed
<1>6. Listed(t)
  BY <1>4, <1>5 DEF Listed
<1> QED
  BY <1>2, <1>3, <1>6 DEF Listed, ListedAfter, Before, BeforeAfter, Saved

\* What is marked was delivered.
LEMMA MarkKeeps ==
  ASSUME OutboxInv, NEW w \in Workers, Mark(w)
  PROVE  OutboxInv'
<1>1. /\ TypeOK
      /\ Listed(queue[w])
      /\ queue[w] # <<>>
      /\ Head(queue[w]) \in Delivered
  BY DEF OutboxInv, Queued, Mark
<1>2. UNCHANGED <<committed, broker, consumers, faults>> /\ NextEvent(w, Tail(queue[w]))
  BY DEF Mark
<1>3. Tail(queue[w]) \in Seq(Events) /\ ListedAfter(Tail(queue[w]))
  BY <1>1, <1>2, TailIsListed
<1>4. Queued(w)'
  BY <1>1, <1>2, <1>3, NextEventQueued
<1>5. DispatcherStep(w)
  BY <1>1, <1>2, <1>3, NextEventTyped DEF DispatcherStep, LogGrows, Mark
<1>6. faults' \in Nat
  BY <1>1, <1>2 DEF TypeOK
<1> QED
  BY <1>1, <1>2, <1>3, <1>4, <1>5, <1>6, NextEventTyped, DispatcherStepKeeps

\* A worker begins with an empty list.
LEMMA WakeStartKeeps ==
  ASSUME OutboxInv, NEW w \in Workers, Wake(w) \/ Start(w)
  PROVE  OutboxInv'
<1>1. TypeOK /\ Queued(w)
  BY DEF OutboxInv
<1>2. /\ UNCHANGED <<committed, published, broker, queue, attempt, consumers, faults>>
      /\ Go(w, "polling")
  BY DEF Wake, Start
<1>3. /\ worker' \in [Workers -> {"polling", "publishing", "marking", "waiting", "stopped"}]
      /\ worker'[w] = "polling"
      /\ \A u \in Workers \ {w} : queue'[u] = queue[u] /\ worker'[u] = worker[u]
  BY <1>1, <1>2 DEF Go, TypeOK
<1>4. LogGrows /\ RowsGrow
  BY <1>2 DEF LogGrows, RowsGrow
<1>5. Listed(queue[w])'
  BY <1>1, <1>2, <1>4, StillListed DEF Queued
<1>6. Queued(w)'
  BY <1>3, <1>5 DEF Queued
<1>7. DispatcherStep(w)
  BY <1>2, <1>3, <1>4 DEF DispatcherStep
<1>8. /\ queue' \in [Workers -> Seq(Events)]
      /\ attempt' \in [Workers -> 0 .. MaxAttempts - 1]
      /\ faults' \in Nat
  BY <1>1, <1>2 DEF TypeOK
<1> QED
  BY <1>3, <1>6, <1>7, <1>8, DispatcherStepKeeps

\* A task cancelled in a publish may leave the event in the log, in an update
\* the mark: the first was due, the second is delivered.
LEMMA StopKeeps ==
  ASSUME OutboxInv, NEW w \in Workers, Stop(w)
  PROVE  OutboxInv'
<1>1. TypeOK /\ Queued(w)
  BY DEF OutboxInv
<1>2. LogGrows
  <2>1. CASE worker[w] = "publishing"
    <3>1. Head(queue[w]) \in Events /\ Due(Head(queue[w]))
      BY <1>1, <2>1, HeadIsDue DEF Queued
    <3> QED
      BY <2>1, <3>1 DEF Stop, LogGrows
  <2>2. CASE worker[w] # "publishing"
    BY <2>2 DEF Stop, LogGrows
  <2> QED
    BY <2>1, <2>2
<1>3. published' \subseteq published \cup Delivered
  <2>1. CASE worker[w] = "marking"
    BY <1>1, <2>1 DEF Stop, Queued
  <2>2. CASE worker[w] # "marking"
    BY <2>2 DEF Stop
  <2> QED
    BY <2>1, <2>2
<1>4. /\ worker' \in [Workers -> {"polling", "publishing", "marking", "waiting", "stopped"}]
      /\ worker'[w] = "stopped"
      /\ \A u \in Workers \ {w} : worker'[u] = worker[u]
  BY <1>1 DEF Stop, Go, TypeOK
<1>5. /\ queue' \in [Workers -> Seq(Events)]
      /\ queue'[w] = <<>>
      /\ \A u \in Workers \ {w} : queue'[u] = queue[u]
  BY <1>1 DEF Stop, TypeOK
<1>6. attempt' \in [Workers -> 0 .. MaxAttempts - 1]
  BY <1>1, OutboxAssumption DEF Stop, TypeOK
<1>7. faults' \in Nat
  BY <1>1 DEF Stop, Fault, TypeOK
<1>8. Queued(w)'
  BY <1>4, <1>5 DEF Queued, Listed
<1>9. DispatcherStep(w)
  BY <1>2, <1>3, <1>4, <1>5 DEF DispatcherStep, Stop
<1> QED
  BY <1>4, <1>5, <1>6, <1>7, <1>8, <1>9, DispatcherStepKeeps

-----------------------------------------------------------------------------
(* Transactions and consumers. *)

\* A transaction adds rows, and puts none before an event listed or delivered.
LEMMA CommitKeeps ==
  ASSUME OutboxInv, NEW b \in BatchIds, Commit(b)
  PROVE  OutboxInv'
<1>1. TypeOK /\ LogInv
  BY DEF OutboxInv
<1>2. UNCHANGED <<published, broker, worker, queue, attempt, position, seen, effects, faults>>
  BY DEF Commit, dispatcher, consumers
<1>3. RowsGrow /\ Rows \subseteq Rows'
  BY <1>1, OrderSettled DEF Commit, RowsGrow
<1>4. TypeOK'
  <2>1. committed' \in Seq(BatchIds)
    BY <1>1 DEF TypeOK, Commit
  <2> QED
    BY <1>1, <1>2, <2>1 DEF TypeOK, Events, BatchIds
<1>5. Delivered' = Delivered /\ LogGrows
  BY <1>2 DEF Delivered, LogGrows
<1>6. MarkedMeansDelivered'
  BY <1>1, <1>2, <1>3, <1>5 DEF LogInv, MarkedMeansDelivered
<1>7. LogInv'
  BY <1>1, <1>3, <1>5, <1>6, LogStaysGapless DEF LogInv
<1>8. ASSUME NEW w \in Workers PROVE Queued(w)'
  <2>1. Queued(w) /\ queue'[w] = queue[w] /\ worker'[w] = worker[w]
    BY <1>2 DEF OutboxInv
  <2>2. Listed(queue[w])
    BY <2>1 DEF Queued
  <2>3. Listed(queue[w])'
    BY <1>1, <1>3, <1>5, <2>1, <2>2, StillListed
  <2> QED
    BY <1>5, <2>1, <2>3 DEF Queued
<1>9. ASSUME NEW c \in Consumers PROVE CaughtUp(c)'
  <2>1. CaughtUp(c)
    BY DEF OutboxInv
  <2>2. Gapless(effects[c])'
    BY <1>2, <1>3, EffectsStayGapless
  <2> QED
    BY <1>2, <1>5, <2>1, <2>2 DEF CaughtUp
<1> QED
  BY <1>4, <1>7, <1>8, <1>9 DEF OutboxInv

\* What the steps of consumers leave to show.
LEMMA ConsumerStepKeeps ==
  ASSUME OutboxInv, UNCHANGED <<committed, published, broker, dispatcher>>,
         position' \in [Consumers -> Nat],
         seen' \in [Consumers -> SUBSET Events],
         effects' \in [Consumers -> Seq(Events)],
         faults' \in Nat,
         \A c \in Consumers : CaughtUp(c)'
  PROVE  OutboxInv'
<1>1. TypeOK /\ LogInv
  BY DEF OutboxInv
<1>2. UNCHANGED <<worker, queue, attempt>>
  BY DEF dispatcher
<1>3. TypeOK'
  BY <1>1, <1>2 DEF TypeOK, Events, BatchIds
<1>4. Delivered' = Delivered /\ Rows' = Rows /\ LogGrows /\ RowsGrow
  BY DEF Delivered, Rows, Saved, LogGrows, RowsGrow
<1>5. LogInv'
  <2>1. MarkedMeansDelivered'
    BY <1>1, <1>4 DEF LogInv, MarkedMeansDelivered
  <2> QED
    BY <1>1, <1>4, <2>1, LogStaysGapless DEF LogInv
<1>6. ASSUME NEW w \in Workers PROVE Queued(w)'
  <2>1. Queued(w)
    BY DEF OutboxInv
  <2> QED
    BY <1>2, <1>4, <2>1 DEF Queued, Listed, Before, Saved
<1> QED
  BY <1>3, <1>5, <1>6 DEF OutboxInv

\* Recording the event that comes after what the consumer has read.
LEMMA RecordCatchesUp ==
  ASSUME OutboxInv, NEW c \in Consumers, position[c] < Len(broker),
         Record(c, broker[position[c] + 1]),
         UNCHANGED <<committed, broker>>,
         position'[c] \in {position[c], position[c] + 1}
  PROVE  /\ seen' \in [Consumers -> SUBSET Events]
         /\ effects' \in [Consumers -> Seq(Events)]
         /\ CaughtUp(c)'
         /\ \A u \in Consumers \ {c} : seen'[u] = seen[u] /\ effects'[u] = effects[u]
<1> DEFINE e == broker[position[c] + 1]
<1>1. TypeOK /\ Gapless(broker) /\ CaughtUp(c)
  BY DEF OutboxInv, LogInv
<1>2. /\ position[c] \in Nat
      /\ Len(broker) \in Nat
      /\ position[c] + 1 \in DOMAIN broker
      /\ e \in Events
      /\ effects[c] \in Seq(Events)
      /\ seen[c] \subseteq Events
  BY <1>1 DEF TypeOK
<1>3. /\ position'[c] <= Len(broker')
      /\ Delivered' = Delivered
      /\ seen[c] \cup {e} \subseteq Delivered
      /\ RowsGrow
  <2>1. seen[c] \subseteq Delivered
    BY <1>1 DEF CaughtUp
  <2> QED
    BY <1>2, <2>1 DEF Delivered, RowsGrow
<1>4. e \in seen'[c] /\ seen[c] \subseteq seen'[c]
  BY <1>1 DEF Record, TypeOK
<1>5. \A i \in 1 .. position'[c] : broker'[i] \in seen'[c]
  <2>1. \A i \in 1 .. position'[c] : i \in 1 .. position[c] \/ i = position[c] + 1
    BY <1>2
  <2> QED
    BY <1>1, <1>4, <2>1 DEF CaughtUp
<1>6. CASE e \in seen[c]
  <2>1. seen' = seen /\ effects' = effects
    BY <1>6 DEF Record
  <2>2. Gapless(effects[c])'
    BY <1>3, <2>1, EffectsStayGapless
  <2>3. CaughtUp(c)'
    BY <1>1, <1>3, <1>5, <2>1, <2>2 DEF CaughtUp
  <2> QED
    BY <1>1, <2>1, <2>3 DEF TypeOK
<1>7. CASE e \notin seen[c]
  <2> DEFINE old == effects[c]
             new == Append(effects[c], e)
  <2>1. /\ seen' = [seen EXCEPT ![c] = @ \cup {e}]
        /\ effects' = [effects EXCEPT ![c] = Append(@, e)]
    BY <1>7 DEF Record
  <2>2. seen'[c] = seen[c] \cup {e} /\ effects'[c] = new
    BY <1>1, <2>1 DEF TypeOK
  <2>3. /\ new \in Seq(Events)
        /\ Len(old) \in Nat
        /\ DOMAIN old = 1 .. Len(old)
        /\ DOMAIN new = 1 .. Len(old) + 1
        /\ new[Len(old) + 1] = e
        /\ \A i \in DOMAIN old : new[i] = old[i]
    BY <1>2
  <2>4. seen' \in [Consumers -> SUBSET Events]
    BY <1>1, <1>2, <2>1 DEF TypeOK
  <2>5. effects' \in [Consumers -> Seq(Events)]
    BY <1>1, <2>1, <2>3 DEF TypeOK
  <2>6. \A u \in Consumers \ {c} : seen'[u] = seen[u] /\ effects'[u] = effects[u]
    BY <1>1, <2>1 DEF TypeOK
  <2>7. seen[c] = {old[i] : i \in DOMAIN old}
    BY <1>1 DEF CaughtUp
  <2>8. seen'[c] = {new[i] : i \in DOMAIN new}
    <3>1. \A x \in seen'[c] : \E i \in DOMAIN new : x = new[i]
      BY <2>2, <2>3, <2>7
    <3>2. \A i \in DOMAIN new : new[i] \in seen'[c]
      BY <2>2, <2>3, <2>7
    <3> QED
      BY <3>1, <3>2
  <2>9. \A i, j \in DOMAIN new : i # j => new[i] # new[j]
    <3>1. \A i \in DOMAIN old : old[i] # e
      BY <1>7, <2>7
    <3>2. \A i, j \in DOMAIN old : i # j => old[i] # old[j]
      BY <1>1 DEF CaughtUp
    <3>3. \A i \in DOMAIN new : i \in DOMAIN old \/ i = Len(old) + 1
      BY <2>3
    <3> QED
      BY <2>3, <3>1, <3>2, <3>3
  <2>10. ASSUME NEW i \in DOMAIN new, NEW d \in Rows, Before(d, new[i])
         PROVE  \E j \in 1 .. i - 1 : new[j] = d
    <3>1. CASE i \in DOMAIN old
      <4>1. PICK j \in 1 .. i - 1 : old[j] = d
        BY <1>1, <2>3, <2>10, <3>1 DEF CaughtUp, Gapless
      <4> QED
        BY <2>3, <3>1, <4>1
    <3>2. CASE i = Len(old) + 1
      <4>1. PICK k \in 1 .. position[c] : broker[k] = d
        BY <1>1, <1>2, <2>3, <2>10, <3>2 DEF Gapless
      <4>2. d \in seen[c]
        BY <1>1, <4>1 DEF CaughtUp
      <4>3. PICK j \in DOMAIN old : old[j] = d
        BY <2>7, <4>2
      <4> QED
        BY <2>3, <3>2, <4>3
    <3> QED
      BY <2>3, <3>1, <3>2
  <2>11. Gapless(effects[c])'
    <3>1. GaplessAfter(new)
      BY <2>10 DEF GaplessAfter, BeforeAfter, Before, Rows, Saved
    <3> QED
      BY <2>2, <3>1 DEF Gapless, GaplessAfter, Before, BeforeAfter, Saved
  <2>12. seen'[c] = {effects'[c][i] : i \in DOMAIN effects'[c]}
    BY <2>2, <2>8
  <2>13. \A i, j \in DOMAIN effects'[c] : i # j => effects'[c][i] # effects'[c][j]
    BY <2>2, <2>9
  <2>14. CaughtUp(c)'
    BY <1>3, <1>5, <2>2, <2>11, <2>12, <2>13 DEF CaughtUp
  <2> QED
    BY <2>4, <2>5, <2>6, <2>14
<1> QED
  BY <1>6, <1>7

\* A consumer reads the next record, and applies it unless it has.
LEMMA ConsumeKeeps ==
  ASSUME OutboxInv, NEW c \in Consumers, Consume(c) \/ EffectRaises(c)
  PROVE  OutboxInv'
<1>1. TypeOK
  BY DEF OutboxInv
<1>2. /\ position[c] < Len(broker)
      /\ Record(c, broker[position[c] + 1])
      /\ UNCHANGED <<committed, published, broker, dispatcher>>
  BY DEF Consume, EffectRaises
<1>3. /\ position' \in [Consumers -> Nat]
      /\ position'[c] \in {position[c], position[c] + 1}
      /\ \A u \in Consumers \ {c} : position'[u] = position[u]
  <2>1. position \in [Consumers -> Nat] /\ position[c] \in Nat
    BY <1>1 DEF TypeOK
  <2>2. CASE position' = [position EXCEPT ![c] = @ + 1]
    BY <2>1, <2>2
  <2>3. CASE position' = position
    BY <2>1, <2>3
  <2> QED
    BY <2>2, <2>3 DEF Consume, EffectRaises
<1>4. faults' \in Nat
  BY <1>1 DEF Consume, EffectRaises, Fault, TypeOK
<1>5. /\ seen' \in [Consumers -> SUBSET Events]
      /\ effects' \in [Consumers -> Seq(Events)]
      /\ CaughtUp(c)'
      /\ \A u \in Consumers \ {c} : seen'[u] = seen[u] /\ effects'[u] = effects[u]
  BY <1>2, <1>3, RecordCatchesUp
<1>6. ASSUME NEW u \in Consumers \ {c} PROVE CaughtUp(u)'
  <2>1. CaughtUp(u) /\ RowsGrow /\ Delivered' = Delivered
    BY <1>2 DEF OutboxInv, RowsGrow, Delivered
  <2>2. Gapless(effects[u])'
    BY <1>5, <2>1, EffectsStayGapless
  <2>3. /\ position'[u] <= Len(broker')
        /\ seen'[u] \subseteq Delivered'
        /\ \A i \in 1 .. position'[u] : broker'[i] \in seen'[u]
        /\ seen'[u] = {effects'[u][i] : i \in DOMAIN effects'[u]}
        /\ \A i, j \in DOMAIN effects'[u] : i # j => effects'[u][i] # effects'[u][j]
    BY <1>2, <1>3, <1>5, <2>1 DEF CaughtUp
  <2> QED
    BY <2>2, <2>3 DEF CaughtUp
<1> QED
  BY <1>2, <1>3, <1>4, <1>5, <1>6, ConsumerStepKeeps

\* A consumer that reads again from before has seen it all.
LEMMA RedeliverKeeps ==
  ASSUME OutboxInv, NEW c \in Consumers, Redeliver(c)
  PROVE  OutboxInv'
<1>1. TypeOK
  BY DEF OutboxInv
<1>2. PICK n \in 0 .. position[c] - 1 : position' = [position EXCEPT ![c] = n]
  BY DEF Redeliver
<1>3. /\ UNCHANGED <<committed, published, broker, dispatcher, seen, effects>>
      /\ faults' \in Nat
  BY <1>1 DEF Redeliver, Fault, TypeOK
<1>4. position[c] \in Nat /\ n \in Nat /\ n < position[c]
  BY <1>1, <1>2 DEF TypeOK
<1>5. position' \in [Consumers -> Nat]
  BY <1>1, <1>2, <1>4 DEF TypeOK
<1>6. \A u \in Consumers : position'[u] <= position[u]
  BY <1>1, <1>2, <1>4 DEF TypeOK
<1>7. ASSUME NEW u \in Consumers PROVE CaughtUp(u)'
  <2>1. CaughtUp(u)
    BY DEF OutboxInv
  <2>2. position[u] \in Nat /\ position'[u] \in Nat /\ Len(broker) \in Nat
    BY <1>1, <1>5 DEF TypeOK
  <2>3. position'[u] <= Len(broker)
    BY <1>6, <2>1, <2>2 DEF CaughtUp
  <2>4. \A i \in 1 .. position'[u] : broker[i] \in seen[u]
    BY <1>6, <2>1, <2>2 DEF CaughtUp
  <2>5. RowsGrow /\ Delivered' = Delivered
    BY <1>3 DEF RowsGrow, Delivered
  <2>6. Gapless(effects[u])'
    BY <1>3, <2>5, EffectsStayGapless
  <2> QED
    BY <1>3, <2>1, <2>3, <2>4, <2>5, <2>6 DEF CaughtUp
<1>8. seen' \in [Consumers -> SUBSET Events] /\ effects' \in [Consumers -> Seq(Events)]
  BY <1>1, <1>3 DEF TypeOK
<1> QED
  BY <1>3, <1>5, <1>7, <1>8, ConsumerStepKeeps

-----------------------------------------------------------------------------
(* The theorems. *)

\* Nothing is saved, listed, delivered or read at first.
LEMMA OutboxInit == Init => OutboxInv
<1> SUFFICES ASSUME Init PROVE OutboxInv
  OBVIOUS
<1>1. <<>> \in Seq(Events) /\ DOMAIN <<>> = {}
  BY EmptyListed
<1>2. 0 \in 0 .. MaxAttempts - 1
  BY OutboxAssumption
<1>3. TypeOK
  BY <1>1, <1>2 DEF Init, TypeOK
<1>4. LogInv
  BY <1>1 DEF Init, LogInv, MarkedMeansDelivered, Gapless, Delivered, Rows
<1>5. \A w \in Workers : Queued(w)
  BY EmptyListed DEF Init, Queued
<1>6. \A c \in Consumers : CaughtUp(c)
  BY <1>1 DEF Init, CaughtUp, Gapless, Delivered
<1> QED
  BY <1>3, <1>4, <1>5, <1>6 DEF OutboxInv

\* Every step keeps the invariant.
LEMMA OutboxStep == OutboxInv /\ [Next]_vars => OutboxInv'
<1> SUFFICES ASSUME OutboxInv, [Next]_vars PROVE OutboxInv'
  OBVIOUS
<1>1. ASSUME NEW b \in BatchIds, Commit(b) PROVE OutboxInv'
  BY <1>1, CommitKeeps
<1>2. ASSUME NEW w \in Workers, Dispatch(w) PROVE OutboxInv'
  BY <1>2, PollKeeps, PublishKeeps, MarkKeeps, WakeStartKeeps DEF Dispatch
<1>3. ASSUME NEW w \in Workers, PollFails(w) \/ PublishFails(w) \/ MarkFails(w) \/ Stop(w)
      PROVE  OutboxInv'
  BY <1>3, PollKeeps, PublishFailsKeeps, MarkFailsKeeps, StopKeeps
<1>4. ASSUME NEW c \in Consumers, Consume(c) \/ EffectRaises(c) \/ Redeliver(c)
      PROVE  OutboxInv'
  BY <1>4, ConsumeKeeps, RedeliverKeeps
<1>5. CASE UNCHANGED vars
  <2>1. UNCHANGED <<committed, published, broker, dispatcher, position, seen, effects, faults>>
    BY <1>5 DEF vars, consumers
  <2>2. ASSUME NEW c \in Consumers PROVE CaughtUp(c)'
    <3>1. CaughtUp(c) /\ RowsGrow /\ Delivered' = Delivered
      BY <2>1 DEF OutboxInv, RowsGrow, Delivered
    <3>2. Gapless(effects[c])'
      BY <2>1, <3>1, EffectsStayGapless
    <3> QED
      BY <2>1, <3>1, <3>2 DEF CaughtUp
  <2>3. /\ position' \in [Consumers -> Nat]
        /\ seen' \in [Consumers -> SUBSET Events]
        /\ effects' \in [Consumers -> Seq(Events)]
        /\ faults' \in Nat
    BY <2>1 DEF OutboxInv, TypeOK
  <2> QED
    BY <2>1, <2>2, <2>3, ConsumerStepKeeps
<1> QED
  BY <1>1, <1>2, <1>3, <1>4, <1>5 DEF Next

\* The invariant holds throughout.
LEMMA OutboxInvariant == Spec => []OutboxInv
BY OutboxInit, OutboxStep, PTL DEF Spec

\* The state of the delivery is well-typed: a dispatcher never counts more
\* attempts than max_attempts, no list holds anything but events.
THEOREM OutboxTypeCorrect == Spec => []TypeOK
<1>1. OutboxInv => TypeOK
  BY DEF OutboxInv
<1> QED
  BY <1>1, OutboxInvariant, PTL

\* What dispatch_once marks published is in the broker's log and what is in
\* the log was committed, whatever fails and however many dispatchers run.
THEOREM OutboxMarkedMeansDelivered == Spec => []MarkedMeansDelivered
<1>1. OutboxInv => MarkedMeansDelivered
  BY DEF OutboxInv, LogInv
<1> QED
  BY <1>1, OutboxInvariant, PTL

\* Whatever the dispatchers repeat and however late a transaction commits what
\* it stamped before, no event is in the log before one that precedes it.
THEOREM OutboxLogInOrder == Spec => []LogInOrder
<1>1. OutboxInv => LogInOrder
  BY DEF OutboxInv, LogInv, Gapless, LogInOrder
<1> QED
  BY <1>1, OutboxInvariant, PTL

\* consume records and runs the effect of each event once, after all those that
\* precede it, whatever is repeated or redelivered.
THEOREM OutboxEffectsOnceInOrder == Spec => []EffectsOnceInOrder
<1>1. ASSUME OutboxInv, NEW c \in Consumers
      PROVE  /\ \A i, j \in DOMAIN effects[c] : i # j => effects[c][i] # effects[c][j]
             /\ Gapless(effects[c])
  BY <1>1 DEF OutboxInv, CaughtUp
<1>2. OutboxInv => EffectsOnceInOrder
  BY <1>1 DEF EffectsOnceInOrder, Gapless
<1> QED
  BY <1>2, OutboxInvariant, PTL

=============================================================================
