--------------------------- MODULE RuntimeProofs ---------------------------
(***************************************************************************)
(* Theorems about Runtime, for any number of lifespans and faults.         *)
(***************************************************************************)
EXTENDS Runtime, TLAPS

Built == BuildStore \cup BuildCoordination

-----------------------------------------------------------------------------
(* The lifespan. *)

\* What is there in each phase of the lifespan.
InPhase ==
    /\ phase \in {"unbuilt", "built", "starting", "failed"} => worker = "none" /\ ~started
    /\ phase \in {"unbuilt", "built"} => producer = "none"
    /\ phase \in {"starting", "flushing"} => "events" \in selected
    /\ phase \in {"built", "starting", "serving", "stopping", "flushing"} => open = Built
    /\ phase \in {"serving", "stopping"} =>
         /\ worker # "none"
         /\ started
         /\ producer = IF "events" \in selected THEN "running" ELSE "none"
    /\ phase \in {"flushing", "closing", "ended", "aborted"} => worker = "none"
    /\ phase \in {"closing", "ended"} => producer = "none"
    /\ phase \in {"closing", "aborted"} /\ "storage" \in open => open = Built
    /\ phase = "unbuilt" => open = {}
    /\ phase = "ended" => open = {} /\ ~started

LifeInv ==
    /\ selected \subseteq Parts
    /\ phase \in Phases
    /\ open \subseteq Built
    /\ producer \in {"none", "created", "running"}
    /\ worker \in {"none", "alive", "cancelled"}
    /\ started \in BOOLEAN
    /\ InPhase

\* The runtime begins with nothing started.
LEMMA LifeInit == Init => LifeInv
  BY DEF Init, LifeInv, InPhase, Phases, Built, BuildStore, BuildCoordination

\* Every step of the lifecycle keeps what is started and stopped in agreement.
LEMMA LifeStep == LifeInv /\ [Next]_vars => LifeInv'
<1> USE DEF LifeInv, InPhase, Built, BuildStore, BuildCoordination
<1> SUFFICES ASSUME LifeInv, [Next]_vars PROVE LifeInv'
  OBVIOUS
<1>1. CASE BuildRuntime
  BY <1>1 DEF BuildRuntime, Phases
<1>2. CASE BuildFails
  BY <1>2 DEF BuildFails, Phases
<1>3. CASE Start
  BY <1>3 DEF Start, StartDispatcher, Phases
<1>4. CASE BrokerStarted
  BY <1>4 DEF BrokerStarted, StartDispatcher, Phases
<1>5. CASE BrokerStartFails
  BY <1>5 DEF BrokerStartFails, Phases
<1>6. CASE Close
  BY <1>6 DEF Close, StopDispatcher, Phases
<1>7. CASE WorkerEnds
  BY <1>7 DEF WorkerEnds, AfterWorker, Phases
<1>8. CASE BrokerStopped
  BY <1>8 DEF BrokerStopped, Phases
<1>9. CASE CloseResource
  BY <1>9 DEF CloseResource, Phases
<1>10. CASE CloseFails
  BY <1>10 DEF CloseFails, Phases
<1>11. CASE Restart
  BY <1>11 DEF Restart, Phases
<1>12. CASE UNCHANGED lifespan
  BY <1>12 DEF lifespan
<1> QED
  BY <1>1, <1>2, <1>3, <1>4, <1>5, <1>6, <1>7, <1>8, <1>9, <1>10, <1>11, <1>12
  DEF Next, Teardown, Outage, Probe, Check, Ready, ProbeOver, vars, lifespan

\* This holds throughout.
LEMMA LifeInvariant == Spec => []LifeInv
  BY LifeInit, LifeStep, PTL DEF Spec

\* Nobody outlives what it uses, for every selection of backends, number of
\* lifespans and set of calls that raise (Runtime.start, close).
THEOREM RuntimeUsersBeforeResources == Spec => []UsersBeforeResources
<1>1. LifeInv => UsersBeforeResources
  BY DEF LifeInv, InPhase, UsersBeforeResources, Phases, Built, BuildStore, BuildCoordination
<1> QED
  BY <1>1, LifeInvariant, PTL

\* A close that returns leaves nothing behind (close).
THEOREM RuntimeClosedAfterShutdown == Spec => []ClosedAfterShutdown
<1>1. LifeInv => ClosedAfterShutdown
  BY DEF LifeInv, InPhase, ClosedAfterShutdown
<1> QED
  BY <1>1, LifeInvariant, PTL

-----------------------------------------------------------------------------
(* Readiness. *)

Deps == {"providers", "storage", "coordination"}

\* A probe that is checking does so while the application serves, has kept
\* count of what was down, and has found whatever was down all the time among
\* what it has looked at.
Kept ==
    probe.state = "checking" =>
        /\ phase = "serving"
        /\ probe.alwaysDown \subseteq down
        /\ down \subseteq probe.everDown
        /\ probe.bad \subseteq probe.everDown
        /\ \A i \in 1 .. Len(Checks) :
              i < probe.next /\ Checks[i] \in probe.alwaysDown => Checks[i] \in probe.bad

ProbeInv ==
    /\ down \subseteq Range(Checks)
    /\ probe \in [state : {"none", "checking", "ready", "unavailable"}, next : Nat \ {0},
                  bad : SUBSET Deps, everDown : SUBSET Deps, alwaysDown : SUBSET Deps]
    /\ Kept
    /\ ReadyIsTrue

\* The checks of a selection are a list of dependencies.
LEMMA ChecksList == Checks \in Seq(Deps) /\ Range(Checks) = {Checks[i] : i \in 1 .. Len(Checks)}
<1>1. Checks \in Seq(Deps)
  <2> DEFINE P == <<"providers">>
             S == IF "storage" \in selected THEN <<"storage">> ELSE <<>>
             C == IF "coordination" \in selected THEN <<"coordination">> ELSE <<>>
  <2>0. <<>> \in Seq(Deps) /\ \A d \in Deps : <<d>> \in Seq(Deps)
    OBVIOUS
  <2>1. P \in Seq(Deps) /\ S \in Seq(Deps) /\ C \in Seq(Deps)
    <3>1. "providers" \in Deps /\ "storage" \in Deps /\ "coordination" \in Deps
      BY DEF Deps
    <3> QED
      BY <2>0, <3>1
  <2>2. P \o S \in Seq(Deps)
    BY <2>1
  <2> QED
    BY <2>1, <2>2 DEF Checks
<1> QED
  BY <1>1 DEF Range

\* The checks of readiness depend on the dependencies that were selected.
LEMMA ChecksSame == UNCHANGED selected => UNCHANGED Checks
  BY DEF Checks

\* No probe has begun at first.
LEMMA ProbeInit == Init => ProbeInv
  BY DEF Init, ProbeInv, NewProbe, Kept, ReadyIsTrue, Deps

\* The lifespan leaves the serving phase only when no probe is checking.
LEMMA ProbeStutter ==
    ASSUME ProbeInv, UNCHANGED <<selected, down, probe>>,
           probe.state = "checking" => UNCHANGED phase
    PROVE  ProbeInv'
<1>1. UNCHANGED Checks
  BY ChecksSame
<1>2. (Range(Checks))' = Range(Checks)
  BY <1>1
<1>3. Kept'
  BY <1>1 DEF ProbeInv, Kept
<1> QED
  BY <1>2, <1>3 DEF ProbeInv, ReadyIsTrue

\* An outage does not change what a probe has found.
LEMMA OutageKeeps ==
    ASSUME LifeInv, ProbeInv, NEW d \in Deps, Outage(d)
    PROVE  ProbeInv'
<1> USE DEF ProbeInv
<1>1. UNCHANGED <<selected, phase, started>>
  BY DEF Outage, lifespan
<1>2. UNCHANGED Checks
  BY <1>1, ChecksSame
<1>3. (Range(Checks))' = Range(Checks)
  BY <1>2
<1>4. down' \subseteq Range(Checks)
  BY DEF Outage
<1>5. down' \subseteq Deps
  BY <1>4, ChecksList
<1>6. CASE probe.state # "checking"
  BY <1>1, <1>3, <1>4, <1>6 DEF Outage, Kept, ReadyIsTrue
<1>7. CASE probe.state = "checking"
  <2>1. probe' = [probe EXCEPT !.everDown = @ \cup down', !.alwaysDown = @ \cap down']
    BY <1>7 DEF Outage
  <2>2. Kept'
    BY <1>1, <1>2, <1>7, <2>1 DEF Kept
  <2> QED
    BY <1>3, <1>4, <1>5, <1>7, <2>1, <2>2 DEF ReadyIsTrue
<1> QED
  BY <1>6, <1>7

\* One more check of a probe.
LEMMA CheckKeeps == LifeInv /\ ProbeInv /\ Check => ProbeInv'
<1> SUFFICES ASSUME LifeInv, ProbeInv, Check PROVE ProbeInv'
  OBVIOUS
<1> USE DEF ProbeInv
<1>1. UNCHANGED <<selected, phase, down>>
  BY DEF Check, lifespan
<1>2. UNCHANGED Checks
  BY <1>1, ChecksSame
<1>3. (Range(Checks))' = Range(Checks)
  BY <1>2
<1>4. probe' = [probe EXCEPT !.next = @ + 1, !.bad = probe.bad \cup ({Checks[probe.next]} \cap down)]
  BY DEF Check, Found
<1>5. down \subseteq Deps
  BY ChecksList
<1>6. Kept'
  <2>1. probe.next \in 1 .. Len(Checks) /\ probe.state = "checking"
    BY ChecksList DEF Check
  <2>2. ASSUME NEW i \in 1 .. Len(Checks), i < probe.next + 1, Checks[i] \in probe.alwaysDown
        PROVE  Checks[i] \in probe'.bad
    <3>1. CASE i < probe.next
      BY <1>4, <2>1, <2>2, <3>1 DEF Kept
    <3>2. CASE i = probe.next
      BY <1>4, <2>1, <2>2, <3>2 DEF Kept
    <3> QED
      BY <2>1, <2>2, <3>1, <3>2, ChecksList
  <2> QED
    BY <1>1, <1>2, <1>4, <2>1, <2>2 DEF Kept
<1>7. probe' \in [state : {"none", "checking", "ready", "unavailable"}, next : Nat \ {0},
                  bad : SUBSET Deps, everDown : SUBSET Deps, alwaysDown : SUBSET Deps]
  <2>1. probe.next + 1 \in Nat \ {0}
    OBVIOUS
  <2>2. probe.bad \cup ({Checks[probe.next]} \cap down) \in SUBSET Deps
    BY <1>5
  <2> QED
    BY <1>4, <2>1, <2>2
<1>8. ReadyIsTrue'
  BY <1>4 DEF ReadyIsTrue, Check
<1> QED
  BY <1>1, <1>3, <1>6, <1>7, <1>8

\* The answer of a probe, after its checks.
LEMMA ReadyKeeps == LifeInv /\ ProbeInv /\ Ready => ProbeInv'
<1> SUFFICES ASSUME LifeInv, ProbeInv, Ready PROVE ProbeInv'
  OBVIOUS
<1> USE DEF ProbeInv
<1>1. UNCHANGED <<selected, phase, started, down>>
  BY DEF Ready, lifespan
<1>2. UNCHANGED Checks
  BY <1>1, ChecksSame
<1>3. (Range(Checks))' = Range(Checks)
  BY <1>2
<1>4. probe.state = "checking" /\ started
  BY DEF Ready, Kept, LifeInv, InPhase
<1>5. probe.alwaysDown \subseteq probe.bad
  <2>1. ASSUME NEW x \in probe.alwaysDown PROVE x \in probe.bad
    <3>1. x \in Range(Checks)
      BY <1>4 DEF Kept
    <3>2. PICK i \in 1 .. Len(Checks) : x = Checks[i]
      BY <3>1, ChecksList
    <3>3. i < probe.next
      BY ChecksList DEF Ready
    <3> QED
      BY <1>4, <3>2, <3>3 DEF Kept
  <2> QED
    BY <2>1
<1>6. probe.bad \subseteq probe.everDown
  BY <1>4 DEF Kept
<1>7. /\ probe' = [probe EXCEPT !.state = Answer(probe)]
      /\ Answer(probe) = IF probe.bad = {} THEN "ready" ELSE "unavailable"
  BY <1>4 DEF Ready, Answer
<1> QED
  BY <1>1, <1>3, <1>5, <1>6, <1>7 DEF Kept, ReadyIsTrue

\* Every step keeps what probes have found.
LEMMA ProbeStep == LifeInv /\ ProbeInv /\ [Next]_vars => ProbeInv'
<1> SUFFICES ASSUME LifeInv, ProbeInv, [Next]_vars PROVE ProbeInv'
  OBVIOUS
<1>1. CASE \E d \in Deps : Outage(d)
  BY <1>1, OutageKeeps
<1>2. CASE Probe
  <2>1. UNCHANGED <<selected, phase, down>> /\ phase = "serving"
    BY <1>2 DEF Probe, lifespan
  <2>2. UNCHANGED Checks
    BY <2>1, ChecksSame
  <2>3. (Range(Checks))' = Range(Checks)
    BY <2>2
  <2>4. down \subseteq Deps
    BY ChecksList DEF ProbeInv
  <2>5. probe' = [state |-> "checking", next |-> 1, bad |-> {}, everDown |-> down, alwaysDown |-> down]
    BY <1>2 DEF Probe, NewProbe
  <2> QED
    BY <2>1, <2>3, <2>4, <2>5 DEF ProbeInv, Kept, ReadyIsTrue
<1>3. CASE Check
  BY <1>3, CheckKeeps
<1>4. CASE Ready
  BY <1>4, ReadyKeeps
<1>5. CASE ProbeOver
  <2>1. UNCHANGED <<selected, down>>
    BY <1>5 DEF ProbeOver, lifespan
  <2>2. UNCHANGED Checks
    BY <2>1, ChecksSame
  <2>3. (Range(Checks))' = Range(Checks)
    BY <2>2
  <2> QED
    BY <1>5, <2>1, <2>3 DEF ProbeOver, NewProbe, ProbeInv, Kept, ReadyIsTrue, Deps
<1>6. CASE BuildRuntime \/ BuildFails \/ Start \/ BrokerStarted \/ BrokerStartFails
           \/ Close \/ Teardown \/ CloseFails \/ Restart \/ UNCHANGED vars
  <2>1. UNCHANGED <<selected, down, probe>>
    BY <1>6 DEF BuildRuntime, BuildFails, Start, BrokerStarted, BrokerStartFails, Close, Teardown,
                WorkerEnds, BrokerStopped, CloseResource, CloseFails, Restart, vars, lifespan
  <2>2. probe.state = "checking" => UNCHANGED phase
    BY <1>6 DEF ProbeInv, Kept, BuildRuntime, BuildFails, Start, BrokerStarted, BrokerStartFails, Close,
                Teardown, WorkerEnds, BrokerStopped, CloseResource, CloseFails, Restart, vars, lifespan
  <2> QED
    BY <2>1, <2>2, ProbeStutter
<1> QED
  BY <1>1, <1>2, <1>3, <1>4, <1>5, <1>6 DEF Next, Deps

\* An answer of GET /ready is about the time it took, however many parts fail
\* and recover between its checks (readiness, ready).
THEOREM RuntimeReadyIsTrue == Spec => []ReadyIsTrue
<1>1. ProbeInv => ReadyIsTrue
  BY DEF ProbeInv
<1> QED
  BY <1>1, LifeInvariant, ProbeInit, ProbeStep, PTL DEF Spec
=============================================================================
