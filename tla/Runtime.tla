------------------------------ MODULE Runtime ------------------------------
(***************************************************************************)
(* Assembly, start, readiness and close of the application's resources     *)
(* (runtime.py, the lifespan and GET /ready of api.py, KafkaBroker.start   *)
(* and stop, OutboxDispatcher.start and stop).                             *)
(*                                                                         *)
(* A step runs from one suspension of the lifespan (or of the /ready       *)
(* request) to the next.  A cancellation of the lifespan while it waits    *)
(* for the worker in OutboxDispatcher.stop is swallowed there and changes  *)
(* nothing; at the other waits of close it acts like a call that raises.   *)
(***************************************************************************)
EXTENDS Naturals, Sequences, SequencesExt

CONSTANTS
    MaxRuns,      \* bound: lifespans of one application object
    MaxFaults     \* bound: calls that raise, and outages

VARIABLES
    selected,     \* the parts with an external backend: PostgreSQL for
                  \* "storage", Redis for "coordination", Kafka for "events"
    phase,        \* where the lifespan is
    open,         \* the resources of the runtime that were not closed
    producer,     \* KafkaBroker._producer
    worker,       \* the dispatcher's task
    started,      \* Runtime._started
    down,         \* what a readiness check would find unavailable
    probe,        \* a GET /ready request
    runs, faults  \* history

lifespan == <<selected, phase, open, producer, worker, started, runs>>
vars == <<lifespan, down, probe, faults>>

Parts == {"storage", "coordination", "events"}

\* unbuilt, built: before and after build_runtime; starting: in broker.start;
\* serving; stopping: waiting for the worker; flushing: in broker.stop;
\* closing: closing resources; ended: close has returned; aborted: it has
\* raised; failed: construction or startup has raised, close is not called.
Phases == {"unbuilt", "built", "starting", "serving", "stopping", "flushing",
           "closing", "ended", "aborted", "failed"}

\* The checks of GET /ready, in order.
Checks == <<"providers">>
          \o (IF "storage" \in selected THEN <<"storage">> ELSE <<>>)
          \o (IF "coordination" \in selected THEN <<"coordination">> ELSE <<>>)

Probes == [state : {"none", "checking", "ready", "unavailable"},
           next : 1 .. 4,                              \* the check to come
           bad : SUBSET (Parts \cup {"providers"}),    \* what was found down
           everDown : SUBSET (Parts \cup {"providers"}),
           alwaysDown : SUBSET (Parts \cup {"providers"})]

NewProbe(state, d) == [state |-> state, next |-> 1, bad |-> {},
                       everDown |-> d, alwaysDown |-> d]

TypeOK ==
    /\ selected \subseteq Parts
    /\ phase \in Phases
    /\ open \subseteq {"storage", "coordination"}
    /\ producer \in {"none", "created", "running"}
    /\ worker \in {"none", "alive", "cancelled"}
    /\ started \in BOOLEAN
    /\ down \subseteq {"providers", "storage", "coordination"}
    /\ probe \in Probes
    /\ runs \in 0 .. MaxRuns
    /\ faults \in 0 .. MaxFaults

Init ==
    /\ selected \in SUBSET Parts
    /\ phase = "unbuilt"
    /\ open = {}
    /\ producer = "none"
    /\ worker = "none"
    /\ started = FALSE
    /\ down = {}
    /\ probe = NewProbe("none", {})
    /\ runs = 1
    /\ faults = 0

Fault == faults < MaxFaults /\ faults' = faults + 1

-----------------------------------------------------------------------------
\* The resource each builder leaves to close: an engine, a Redis client.
BuildStore == selected \cap {"storage"}
BuildCoordination == selected \cap {"coordination"}

\* build_runtime; no network call occurs.
BuildRuntime ==
    /\ phase = "unbuilt"
    /\ phase' = "built"
    /\ open' = BuildStore \cup BuildCoordination
    /\ UNCHANGED <<selected, producer, worker, started, runs, down, probe, faults>>

\* A builder raises RuntimeConfigurationError: what the ones before it made
\* is dropped without being closed.
BuildFails ==
    /\ phase = "unbuilt"
    /\ selected # {}
    /\ Fault
    /\ phase' = "failed"
    /\ open' \in {{}} \cup (IF selected \subseteq {"storage"} THEN {} ELSE {BuildStore})
                 \cup (IF "events" \in selected THEN {BuildStore \cup BuildCoordination} ELSE {})
    /\ UNCHANGED <<selected, producer, worker, started, runs, down, probe>>

\* dispatcher.start and the last assignment of Runtime.start.
StartDispatcher ==
    /\ worker' = "alive"
    /\ started' = TRUE
    /\ phase' = "serving"

\* Runtime.start up to its first suspension, in KafkaBroker.start.
Start ==
    /\ phase = "built"
    /\ IF "events" \in selected
       THEN phase' = "starting" /\ producer' = "created" /\ UNCHANGED <<worker, started>>
       ELSE StartDispatcher /\ UNCHANGED producer
    /\ UNCHANGED <<selected, open, runs, down, probe, faults>>

BrokerStarted ==
    /\ phase = "starting"
    /\ producer' = "running"
    /\ StartDispatcher
    /\ UNCHANGED <<selected, open, runs, down, probe, faults>>

\* producer.start raises: the exception leaves the lifespan before its `try'.
BrokerStartFails ==
    /\ phase = "starting"
    /\ Fault
    /\ phase' = "failed"
    /\ UNCHANGED <<selected, open, producer, worker, started, runs, down, probe>>

-----------------------------------------------------------------------------
\* Where close goes once the worker has ended: broker.stop, the resources, or
\* its end.
AfterWorker ==
    phase' = IF "events" \in selected /\ started THEN "flushing" ELSE "closing"

\* Slip: close goes on without waiting for the worker.
StopWithoutWaiting == worker' = "cancelled" /\ AfterWorker /\ UNCHANGED started

\* Slip: the runtime counts as stopped from here on.
StopForgetsStarted == worker' = "cancelled" /\ phase' = "stopping" /\ started' = FALSE

\* dispatcher.stop cancels the worker and waits for it.
StopDispatcher == worker' = "cancelled" /\ phase' = "stopping" /\ UNCHANGED started

\* The server has no request left and leaves the lifespan, which calls close.
Close ==
    /\ phase = "serving"
    /\ probe.state # "checking"
    /\ StopDispatcher
    /\ UNCHANGED <<selected, open, producer, runs, down, probe, faults>>

\* Slip: the worker takes the cancellation for a failed dispatch.
WorkerGoesOn ==
    /\ phase = "stopping"
    /\ worker = "cancelled"
    /\ worker' = "alive"
    /\ UNCHANGED <<selected, phase, open, producer, started, runs, down, probe, faults>>

WorkerEnds ==
    /\ phase = "stopping"
    /\ worker' = "none"
    /\ AfterWorker
    /\ UNCHANGED <<selected, open, producer, started, runs, down, probe, faults>>

BrokerStopped ==
    /\ phase = "flushing"
    /\ producer' = "none"
    /\ phase' = "closing"
    /\ UNCHANGED <<selected, open, worker, started, runs, down, probe, faults>>

\* The loop over _resources: the storage's first.
CloseResource ==
    /\ phase = "closing"
    /\ IF open # {}
       THEN /\ open' = IF "storage" \in open THEN open \ {"storage"} ELSE {}
            /\ UNCHANGED <<phase, started>>
       ELSE phase' = "ended" /\ started' = FALSE /\ UNCHANGED open
    /\ UNCHANGED <<selected, producer, worker, runs, down, probe, faults>>

\* producer.stop, aclose or dispose raises: close ends there.
CloseFails ==
    /\ phase = "flushing" \/ (phase = "closing" /\ open # {})
    /\ Fault
    /\ phase' = "aborted"
    /\ UNCHANGED <<selected, open, producer, worker, started, runs, down, probe>>

\* The application object is used again.  Engine and client open connections
\* when they are used.
Restart ==
    /\ phase = "ended"
    /\ runs < MaxRuns
    /\ runs' = runs + 1
    /\ phase' = "built"
    /\ open' = BuildStore \cup BuildCoordination
    /\ UNCHANGED <<selected, producer, worker, started, down, probe, faults>>

-----------------------------------------------------------------------------
\* Something becomes unreachable, or a provider is made to fail, or it is
\* over; a probe under way is told for the record.
Outage(d) ==
    /\ phase = "serving"
    /\ d \in Range(Checks)
    /\ IF d \in down THEN down' = down \ {d} /\ UNCHANGED faults
                     ELSE down' = down \cup {d} /\ Fault
    /\ probe' = IF probe.state # "checking" THEN probe
                ELSE [probe EXCEPT !.everDown = @ \cup down', !.alwaysDown = @ \cap down']
    /\ UNCHANGED lifespan

Probe ==
    /\ phase = "serving"
    /\ probe.state = "none"
    /\ probe' = NewProbe("checking", down)
    /\ UNCHANGED <<lifespan, down, faults>>

\* Slip: each check replaces what the ones before it found.
FoundLast(p) == {Checks[p.next]} \cap down

\* What the checks have found down, with the next one.
Found(p) == p.bad \cup ({Checks[p.next]} \cap down)

\* health_check of the providers, then the checks of Runtime.readiness, each
\* at a moment of its own.
Check ==
    /\ probe.state = "checking"
    /\ probe.next <= Len(Checks)
    /\ probe' = [probe EXCEPT !.next = @ + 1, !.bad = Found(probe)]
    /\ UNCHANGED <<lifespan, down, faults>>

\* 200 when every check passed and, with Kafka, _started is set, else 503.
Answer(p) == IF p.bad = {} /\ ("events" \in selected => started) THEN "ready" ELSE "unavailable"

Ready ==
    /\ probe.state = "checking"
    /\ probe.next > Len(Checks)
    /\ probe' = [probe EXCEPT !.state = Answer(probe)]
    /\ UNCHANGED <<lifespan, down, faults>>

ProbeOver ==
    /\ probe.state \in {"ready", "unavailable"}
    /\ probe' = NewProbe("none", {})
    /\ UNCHANGED <<lifespan, down, faults>>

Teardown == WorkerEnds \/ BrokerStopped \/ CloseResource

Next ==
    \/ BuildRuntime \/ BuildFails \/ Start \/ BrokerStarted \/ BrokerStartFails
    \/ Close \/ Teardown \/ CloseFails \/ Restart
    \/ \E d \in {"providers", "storage", "coordination"} : Outage(d)
    \/ Probe \/ Check \/ Ready \/ ProbeOver

\* A cancelled task ends, broker.stop and the closing calls return.
Spec == Init /\ [][Next]_vars /\ WF_vars(Teardown)

-----------------------------------------------------------------------------
(* Properties. *)

\* Nobody outlives what it uses, at any point of start and close, whichever
\* call raises: a worker that is not gone has its producer running and its
\* store open, a running producer is stopped before the resources go, and
\* the store goes before the coordination (Runtime.start, close).
UsersBeforeResources ==
    /\ worker # "none" => /\ "events" \in selected => producer = "running"
                          /\ "storage" \in selected => "storage" \in open
                          /\ "coordination" \in selected => "coordination" \in open
    /\ phase \in {"closing", "ended"} => producer = "none"
    /\ "storage" \in open /\ "coordination" \in selected /\ phase # "failed"
         => "coordination" \in open

\* A close that returns leaves nothing behind: no task, no producer, no open
\* resource, and the runtime can be started again (close).
ClosedAfterShutdown ==
    phase = "ended" => worker = "none" /\ producer = "none" /\ open = {} /\ ~started

\* GET /ready takes several steps, and its answer is still about the time it
\* took: "ready" only if nothing it looks at was down all the while,
\* "unavailable" only if something was down at some time (readiness, ready).
ReadyIsTrue ==
    /\ probe.state = "ready" => probe.alwaysDown = {}
    /\ probe.state = "unavailable" => probe.everDown # {}

\* A shutdown comes to its end (close, OutboxDispatcher.stop).
ShutdownEnds == phase = "stopping" ~> phase \in {"ended", "aborted"}
=============================================================================
