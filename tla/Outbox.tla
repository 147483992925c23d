------------------------------- MODULE Outbox -------------------------------
(***************************************************************************)
(* The way of an event from the transaction that saves it to its           *)
(* consumers: the outbox rows of the payment store, the OutboxDispatcher   *)
(* worker of every application process (outbox.py), the broker's log, and  *)
(* consumers that deduplicate by event id (consumers.py).                  *)
(*                                                                         *)
(* Events are numbered by their created_at, the order in which the         *)
(* database's `unsent' lists them.  A transaction stamps its events before *)
(* it commits them, so transactions may commit in another order than their *)
(* stamps: those of different payments, and refunds of one payment by two  *)
(* processes, whose locks do not exclude each other.  Nothing here assumes *)
(* a commit order, and the order the dispatchers keep is stated for what   *)
(* was committed in the order of its stamps.  (The in-memory store lists   *)
(* rows in commit order: the case in which every transaction commits in    *)
(* its stamp's order.)                                                     *)
(***************************************************************************)
EXTENDS Naturals, FiniteSets, Sequences, SequencesExt, Functions

CONSTANTS
    Batches,       \* the transactions: the set of events each one saves
    Workers,       \* the dispatchers: one in every application process
    Consumers,
    BatchLimit,    \* limit of unsent (100)
    MaxAttempts,   \* max_attempts of the dispatcher
    MaxFaults      \* bound: failed calls and effects, worker stops, redeliveries

BatchIds == DOMAIN Batches

Events == UNION {Batches[b] : b \in BatchIds}

ASSUME OutboxAssumption ==
    /\ \A b \in BatchIds : Batches[b] \subseteq Nat
    /\ \A a, b \in BatchIds : a # b => Batches[a] \cap Batches[b] = {}
    /\ BatchLimit \in Nat \ {0}
    /\ MaxAttempts \in Nat \ {0}
    /\ MaxFaults \in Nat

VARIABLES
    committed,   \* the transactions that have committed, in the order they did
    published,   \* rows with published_at, set by mark_published
    broker,      \* the broker's log of deliveries
    worker,      \* where each dispatcher's task is
    queue,       \* the rest of the list dispatch_once iterates over
    attempt,     \* `attempt' of the inner loop
    position,    \* how far each consumer has read the broker's log
    seen,        \* the ids each consumer has seen
    effects,     \* the events each consumer recorded, in order
    faults       \* history: faults so far

dispatcher == <<worker, queue, attempt>>
consumers == <<position, seen, effects>>
vars == <<committed, published, broker, dispatcher, consumers, faults>>

\* The rows the i-th transaction to commit saved, and all rows.
Saved(i) == Batches[committed[i]]

Rows == UNION {Saved(i) : i \in DOMAIN committed}

TypeOK ==
    /\ committed \in Seq(BatchIds)
    /\ published \subseteq Events
    /\ broker \in Seq(Events)
    /\ worker \in [Workers -> {"polling", "publishing", "marking", "waiting", "stopped"}]
    /\ queue \in [Workers -> Seq(Events)]
    /\ attempt \in [Workers -> 0 .. MaxAttempts - 1]
    /\ position \in [Consumers -> Nat]
    /\ seen \in [Consumers -> SUBSET Events]
    /\ effects \in [Consumers -> Seq(Events)]
    /\ faults \in Nat

Init ==
    /\ committed = <<>>
    /\ published = {}
    /\ broker = <<>>
    /\ worker = [w \in Workers |-> "polling"]
    /\ queue = [w \in Workers |-> <<>>]
    /\ attempt = [w \in Workers |-> 0]
    /\ position = [c \in Consumers |-> 0]
    /\ seen = [c \in Consumers |-> {}]
    /\ effects = [c \in Consumers |-> <<>>]
    /\ faults = 0

Fault == faults < MaxFaults /\ faults' = faults + 1

-----------------------------------------------------------------------------
\* save_with_events or append commits: its rows appear together.  What it
\* stamped may be older than what has committed already.
Commit(b) ==
    /\ b \notin Range(committed)
    /\ committed' = Append(committed, b)
    /\ UNCHANGED <<published, broker, dispatcher, consumers, faults>>

\* The n oldest of the rows, by created_at: exactly one list.
Oldest(rows, n) ==
    {list \in SeqOf(rows, n) :
       /\ \A i, j \in DOMAIN list : i < j => list[i] < list[j]
       /\ \A e \in rows : \/ \E i \in DOMAIN list : list[i] = e
                          \/ Len(list) = n /\ \A i \in DOMAIN list : list[i] < e}

\* Slip: the list starts with the second row.
UnsentFromSecond ==
    {SubSeq(list, 2, Len(list)) : list \in Oldest(Rows \ published, BatchLimit)}

\* What unsent returns: the first BatchLimit rows that are not marked.
Unsent == Oldest(Rows \ published, BatchLimit)

Go(w, where) == worker' = [worker EXCEPT ![w] = where]

\* dispatch_once moves on to the next event of its list, or returns.
NextEvent(w, rest) ==
    /\ queue' = [queue EXCEPT ![w] = rest]
    /\ attempt' = [attempt EXCEPT ![w] = 0]
    /\ Go(w, IF rest = <<>> THEN "waiting" ELSE "publishing")

TryAgain(w) ==
    /\ attempt' = [attempt EXCEPT ![w] = @ + 1]
    /\ Go(w, "publishing")
    /\ UNCHANGED queue

\* Slip: an event that cannot be published is skipped.
AttemptFailedSkips(w) ==
    IF attempt[w] < MaxAttempts - 1 THEN TryAgain(w) ELSE NextEvent(w, Tail(queue[w]))

\* The `except' of the inner loop: try the event again after the backoff, or
\* raise, which gives up the rest of the list (run swallows the error).
AttemptFailed(w) ==
    IF attempt[w] < MaxAttempts - 1 THEN TryAgain(w) ELSE NextEvent(w, <<>>)

Poll(w) ==
    /\ worker[w] = "polling"
    /\ \E list \in Unsent : NextEvent(w, list)
    /\ UNCHANGED <<committed, published, broker, consumers, faults>>

\* unsent raises: dispatch_once raises before it has a list.
PollFails(w) ==
    /\ worker[w] = "polling"
    /\ Fault
    /\ NextEvent(w, <<>>)
    /\ UNCHANGED <<committed, published, broker, consumers>>

Publish(w) ==
    /\ worker[w] = "publishing"
    /\ broker' = Append(broker, Head(queue[w]))
    /\ Go(w, "marking")
    /\ UNCHANGED <<committed, published, queue, attempt, consumers, faults>>

\* Slip: the event is marked although publish raised.
PublishFailsUnnoticed(w) ==
    /\ worker[w] = "publishing"
    /\ Fault
    /\ broker' \in {broker, Append(broker, Head(queue[w]))}
    /\ Go(w, "marking")
    /\ UNCHANGED <<committed, published, queue, attempt, consumers>>

\* publish raises; the broker may have the event all the same.
PublishFails(w) ==
    /\ worker[w] = "publishing"
    /\ Fault
    /\ broker' \in {broker, Append(broker, Head(queue[w]))}
    /\ AttemptFailed(w)
    /\ UNCHANGED <<committed, published, consumers>>

Mark(w) ==
    /\ worker[w] = "marking"
    /\ published' = published \cup {Head(queue[w])}
    /\ NextEvent(w, Tail(queue[w]))
    /\ UNCHANGED <<committed, broker, consumers, faults>>

\* mark_published raises; the update may have committed all the same.  The
\* retry starts with publish.
MarkFails(w) ==
    /\ worker[w] = "marking"
    /\ Fault
    /\ published' \in {published, published \cup {Head(queue[w])}}
    /\ AttemptFailed(w)
    /\ UNCHANGED <<committed, broker, consumers>>

\* The poll interval is over.
Wake(w) ==
    /\ worker[w] = "waiting"
    /\ Go(w, "polling")
    /\ UNCHANGED <<committed, published, broker, queue, attempt, consumers, faults>>

\* stop() or the death of the process: the task is cancelled wherever it is,
\* a publish or an update under way may have taken effect.
Stop(w) ==
    /\ worker[w] # "stopped"
    /\ Fault
    /\ broker' \in {broker} \cup
         (IF worker[w] = "publishing" THEN {Append(broker, Head(queue[w]))} ELSE {})
    /\ published' \in {published} \cup
         (IF worker[w] = "marking" THEN {published \cup {Head(queue[w])}} ELSE {})
    /\ Go(w, "stopped")
    /\ queue' = [queue EXCEPT ![w] = <<>>]
    /\ attempt' = [attempt EXCEPT ![w] = 0]
    /\ UNCHANGED <<committed, consumers>>

\* start() of the next run of the application.
Start(w) ==
    /\ worker[w] = "stopped"
    /\ Go(w, "polling")
    /\ UNCHANGED <<committed, published, broker, queue, attempt, consumers, faults>>

-----------------------------------------------------------------------------
\* Slip: the consumer does not look at the ids it has seen.
RecordAlways(c, e) ==
    /\ seen' = [seen EXCEPT ![c] = @ \cup {e}]
    /\ effects' = [effects EXCEPT ![c] = Append(@, e)]

\* consume records an event, and runs the effect, unless its id was seen.
Record(c, e) ==
    IF e \in seen[c]
    THEN UNCHANGED <<seen, effects>>
    ELSE /\ seen' = [seen EXCEPT ![c] = @ \cup {e}]
         /\ effects' = [effects EXCEPT ![c] = Append(@, e)]

\* The broker delivers the next event.
Consume(c) ==
    /\ position[c] < Len(broker)
    /\ position' = [position EXCEPT ![c] = @ + 1]
    /\ Record(c, broker[position[c] + 1])
    /\ UNCHANGED <<committed, published, broker, dispatcher, faults>>

\* The effect raises out of consume: the delivery will come again.
EffectRaises(c) ==
    /\ position[c] < Len(broker)
    /\ broker[position[c] + 1] \notin seen[c]
    /\ Fault
    /\ Record(c, broker[position[c] + 1])
    /\ UNCHANGED <<committed, published, broker, dispatcher, position>>

\* The consumer's offset was not committed: deliveries come again.
Redeliver(c) ==
    /\ Fault
    /\ \E n \in 0 .. position[c] - 1 : position' = [position EXCEPT ![c] = n]
    /\ UNCHANGED <<committed, published, broker, dispatcher, seen, effects>>

Dispatch(w) == Poll(w) \/ Publish(w) \/ Mark(w) \/ Wake(w) \/ Start(w)

Next ==
    \/ \E b \in BatchIds : Commit(b)
    \/ \E w \in Workers : \/ Dispatch(w)
                          \/ PollFails(w) \/ PublishFails(w) \/ MarkFails(w) \/ Stop(w)
    \/ \E c \in Consumers : Consume(c) \/ EffectRaises(c) \/ Redeliver(c)

\* The workers' calls return, their sleeps end and a stopped application is
\* started again; consumers read on.  Faults are finitely many (MaxFaults).
Fairness ==
    /\ \A w \in Workers : WF_vars(Dispatch(w))
    /\ \A c \in Consumers : WF_vars(Consume(c))

Spec == Init /\ [][Next]_vars /\ Fairness

-----------------------------------------------------------------------------
(* Properties. *)

Delivered == {broker[i] : i \in DOMAIN broker}

\* A row is marked published only when the broker has the event
\* (dispatch_once publishes before mark_published), and only committed rows
\* are ever published: no transition event is lost or invented.
MarkedMeansDelivered == published \subseteq Delivered /\ Delivered \subseteq Rows

\* d is stamped before e and committed no later: in the same transaction, or in
\* one that committed before, as do those of a payment within one process.
Before(d, e) ==
    /\ d < e
    /\ \E j \in DOMAIN committed : \E i \in 1 .. j : d \in Saved(i) /\ e \in Saved(j)

\* Events reach the broker's log in the order they were stamped and committed
\* in: whatever several dispatchers that read overlapping lists repeat, whatever
\* is retried, and whatever an older stamp that commits late brings into the
\* lists, no event is in the log before one that precedes it (dispatch_once
\* publishes the list of unsent in order and gives it up where it fails).
LogInOrder ==
    \A i \in DOMAIN broker, d \in Rows :
      Before(d, broker[i]) => \E j \in 1 .. i - 1 : broker[j] = d

\* A consumer records each event, and runs its effect, at most once, and none
\* before one that precedes it, without gaps, whatever the broker repeats or
\* redelivers, an effect that raised included (consume).
EffectsOnceInOrder ==
    \A c \in Consumers : \A i \in DOMAIN effects[c] :
      /\ \A j \in DOMAIN effects[c] : i # j => effects[c][i] # effects[c][j]
      /\ \A d \in Rows :
           Before(d, effects[c][i]) => \E j \in 1 .. i - 1 : effects[c][j] = d

\* Every committed event is eventually marked published and recorded by every
\* consumer once faults stop: a row is neither forgotten by the dispatchers nor
\* marked before the broker has it (dispatch_once, run, consume).
CommittedIsDelivered ==
    \A e \in Events :
      (e \in Rows) ~> (e \in published /\ \A c \in Consumers : e \in seen[c])
=============================================================================
