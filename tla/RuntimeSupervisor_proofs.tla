---------------------- MODULE RuntimeSupervisor_proofs ----------------------
(***************************************************************************)
(* Proofs about RuntimeSupervisor for any number of runners, threads that   *)
(* apply a configuration, strangers and failures: no runner is lost by the  *)
(* supervisor, and the one it holds runs the configuration in force.        *)
(***************************************************************************)
EXTENDS RuntimeSupervisor, TLAPS

Inside == {"probe", "ensure", "survey", "check", "reap"}

\* The thread inside an operation is the holder of the lock.
Locked == \A t \in Threads : pc[t] \in Inside <=> opLock = t

\* Where each kind of thread may be.
Places ==
  /\ pc[Monitor] \in {"gone", "wait", "lock", "probe", "ensure"}
  /\ pc[Main] \notin {"survey", "check", "wait"}
  /\ \A e \in Editors : pc[e] \in {"idle", "lock", "gone"} \cup Inside

\* Until start() returned no configuration is applied, and until it launched
\* the monitor there is none.
Starting ==
  /\ pc[Main] \in {"idle", "lock", "probe", "ensure", "launch", "poll"} => \A e \in Editors : pc[e] = "idle"
  /\ pc[Main] \in {"idle", "lock", "probe", "ensure", "launch"} => pc[Monitor] = "gone"

\* The process that is waited for belongs to a thread that waits; an editor
\* waits for the one the supervisor still holds.
Reaping ==
  /\ victim # None => \E t \in Threads : pc[t] = "reap"
  /\ \A e \in Editors : pc[e] = "reap" => victim = process /\ wanted \in Configs

\* At every moment, inside configure_engine too.
OwnedRunsConfig == Owned => runs[process] = engineConfig

IInv == TypeOK /\ Locked /\ Places /\ Starting /\ Reaping /\ OwnsEveryRunner /\ OwnedRunsConfig

USE ThreadsAssumption, StrangersAssumption, ConstantsAssumption

----------------------------------------------------------------------------
(* The world: a step of the port or of a process starts nothing.            *)

\* Processes that live afterwards lived before, and no thread moved.
LEMMA WorldKeeps ==
  ASSUME IInv, TypeOK', UNCHANGED <<process, engineConfig, holderVars, pc, runs>>,
         \A p \in Runners : Alive(p)' => Alive(p)
  PROVE  IInv'
<1>1. Locked' /\ Places' /\ Starting' /\ Reaping'
  BY DEF IInv, Locked, Places, Starting, Reaping, holderVars
<1>2. OwnsEveryRunner' BY DEF IInv, OwnsEveryRunner, holderVars
<1>3. OwnedRunsConfig' BY DEF IInv, TypeOK, OwnedRunsConfig, Owned, Alive
<1> QED BY <1>1, <1>2, <1>3 DEF IInv

\* A runner that binds, dies, or ends.
LEMMA RunnerSteps ==
  ASSUME IInv, NEW p \in Runners, RunnerBinds(p) \/ RunnerCrashes(p) \/ RunnerEnds(p) PROVE IInv'
<1>1. TypeOK' BY DEF IInv, TypeOK, RunnerBinds, RunnerCrashes, RunnerEnds, processRest, superVars, holderVars, portVars
<1>2. UNCHANGED <<process, engineConfig, holderVars, pc, runs>>
  BY DEF RunnerBinds, RunnerCrashes, RunnerEnds, processRest, superVars
<1>3. \A q \in Runners : Alive(q)' => Alive(q)
  BY DEF IInv, TypeOK, RunnerBinds, RunnerCrashes, RunnerEnds, Alive
<1> QED BY <1>1, <1>2, <1>3, WorldKeeps

\* A stranger on the port, or the window of starts.
LEMMA PortSteps == ASSUME IInv, StrangerComes \/ StrangerGoes \/ StartExpires PROVE IInv'
<1>1. TypeOK'
  BY DEF IInv, TypeOK, StrangerComes, StrangerGoes, StartExpires, processRest, superVars, holderVars, worldVars, portVars
<1>2. UNCHANGED <<process, engineConfig, holderVars, pc, runs, life>>
  BY DEF StrangerComes, StrangerGoes, StartExpires, processRest, superVars, worldVars
<1>3. \A q \in Runners : Alive(q)' => Alive(q) BY <1>2 DEF Alive
<1> QED BY <1>1, <1>2, <1>3, WorldKeeps

----------------------------------------------------------------------------
(* Threads that move without a process.                                     *)

\* A thread that takes the lock, probes, or goes on outside of it.
LEMMA TakeLockKeeps == ASSUME IInv, NEW t \in Threads, TakeLock(t) PROVE IInv'
<1>1. TypeOK' BY DEF IInv, TypeOK, TakeLock, Goto, Phases, superVars, worldVars, portVars
<1>2. Locked' BY DEF IInv, TypeOK, Locked, Inside, Threads, TakeLock, Goto
<1>3. Places' BY DEF IInv, TypeOK, Places, Threads, Inside, TakeLock, Goto
<1>4. Starting' BY DEF IInv, TypeOK, Starting, Threads, TakeLock, Goto
<1>5. Reaping' BY DEF IInv, TypeOK, Reaping, Threads, TakeLock, Goto, superVars
<1>6. OwnsEveryRunner' /\ OwnedRunsConfig'
  BY DEF IInv, TypeOK, Locked, Inside, Reaping, OwnsEveryRunner, OwnedRunsConfig, Owned, Alive, TakeLock, superVars, worldVars
<1> QED BY <1>1, <1>2, <1>3, <1>4, <1>5, <1>6 DEF IInv

\* The probe.
LEMMA ProbeKeeps == ASSUME IInv, NEW t \in Threads, Probe(t) PROVE IInv'
<1>1. TypeOK' BY DEF IInv, TypeOK, Probe, ProbeOf, Goto, Phases, superVars, worldVars, portVars
<1>2. Locked' BY DEF IInv, TypeOK, Locked, Inside, Probe, Goto
<1>3. Places' BY DEF IInv, TypeOK, Places, Threads, Inside, Probe, Goto
<1>4. Starting' BY DEF IInv, TypeOK, Places, Starting, Threads, Probe, Goto
<1>5. Reaping' BY DEF IInv, TypeOK, Reaping, Threads, Probe, Goto, superVars
<1>6. OwnsEveryRunner' /\ OwnedRunsConfig'
  BY DEF IInv, OwnsEveryRunner, OwnedRunsConfig, Owned, Alive, Probe, superVars, worldVars
<1> QED BY <1>1, <1>2, <1>3, <1>4, <1>5, <1>6 DEF IInv

\* Nobody waits for a process while the lock is free, or held by a thread that
\* is elsewhere.
LEMMA NoVictim ==
  ASSUME IInv, NEW t \in Threads, pc[t] \in Inside \ {"reap"} \/ opLock = None PROVE victim = None
BY DEF IInv, Locked, Inside, Reaping, Threads

\* The lock is released.
LEMMA ReleaseKeeps ==
  ASSUME IInv, NEW t \in Threads, pc[t] \in Inside \ {"reap"}, Release(t), victim' = victim
  PROVE  Locked' /\ Places' /\ Starting' /\ Reaping'
<1>1. Locked' BY DEF IInv, TypeOK, Locked, Inside, Threads, Release, Done, Goto
<1>2. Places' BY DEF IInv, TypeOK, Places, Inside, Threads, Release, Done, Goto
<1>3. Starting' BY DEF IInv, TypeOK, Places, Starting, Inside, Threads, Release, Done, Goto
<1>4. Reaping'
  <2>1. victim = None BY NoVictim
  <2>2. \A u \in Threads : pc'[u] # "reap" BY DEF IInv, TypeOK, Locked, Inside, Release, Done, Goto
  <2> QED BY <2>1, <2>2 DEF Reaping, Threads
<1> QED BY <1>1, <1>2, <1>3, <1>4

----------------------------------------------------------------------------
(* _ensure_running.                                                         *)

\* The listener answered.
LEMMA EnsureListeningKeeps == ASSUME IInv, NEW t \in Threads, EnsureListening(t) PROVE IInv'
<1>1. Locked' /\ Places' /\ Starting' /\ Reaping' BY ReleaseKeeps DEF EnsureListening, releaseRest, Inside
<1>2. TypeOK'
  BY DEF IInv, TypeOK, EnsureListening, releaseRest, Release, Done, Goto, Phases, portVars
<1>3. victim = None BY NoVictim DEF EnsureListening, Inside
<1>4. OwnsEveryRunner' /\ OwnedRunsConfig'
  BY <1>3 DEF IInv, OwnsEveryRunner, OwnedRunsConfig, Owned, Alive, EnsureListening, releaseRest
<1> QED BY <1>1, <1>2, <1>4 DEF IInv

\* The process that ended is dropped: none lives.
LEMMA SpawnNotKeeps == ASSUME IInv, NEW t \in Threads, SpawnRefused(t) \/ SpawnFails(t) PROVE IInv'
<1>1. Locked' /\ Places' /\ Starting' /\ Reaping'
  BY ReleaseKeeps DEF SpawnRefused, SpawnFails, MaySpawn, releaseRest, Inside
<1>2. TypeOK'
  BY DEF IInv, TypeOK, SpawnRefused, SpawnFails, MaySpawn, releaseRest, Release, Done, Goto, Phases, portVars
<1>3. victim = None BY NoVictim DEF SpawnRefused, SpawnFails, MaySpawn, Inside
<1>4. OwnsEveryRunner'
  BY <1>3 DEF IInv, OwnsEveryRunner, Owned, Alive, SpawnRefused, SpawnFails, MaySpawn
<1>5. OwnedRunsConfig' BY DEF OwnedRunsConfig, Owned, Alive, SpawnRefused, SpawnFails
<1> QED BY <1>1, <1>2, <1>4, <1>5 DEF IInv

\* None lives before, so that the new runner is the only one.
LEMMA SpawnKeeps == ASSUME IInv, NEW t \in Threads, Spawn(t) PROVE IInv'
<1>1. Locked' /\ Places' /\ Starting' /\ Reaping' BY ReleaseKeeps DEF Spawn, MaySpawn, Inside
<1>2. TypeOK' BY DEF IInv, TypeOK, Spawn, MaySpawn, Release, Done, Goto, Phases, portVars
<1>3. victim = None BY NoVictim DEF Spawn, MaySpawn, Inside
<1>4. \A p \in Runners : ~Alive(p) BY <1>3 DEF IInv, OwnsEveryRunner, Owned, Spawn, MaySpawn, Alive
<1>5. \A p \in Runners : Alive(p)' => p = process'
  BY <1>4 DEF IInv, TypeOK, Alive, Spawn
<1>6. OwnsEveryRunner' BY <1>5 DEF OwnsEveryRunner
<1>7. OwnedRunsConfig' BY DEF IInv, TypeOK, OwnedRunsConfig, Owned, Alive, Spawn
<1> QED BY <1>1, <1>2, <1>6, <1>7 DEF IInv

----------------------------------------------------------------------------
(* configure_engine.                                                        *)

\* A call begins.
LEMMA ConfigureKeeps == ASSUME IInv, NEW t \in Threads, Configure(t) PROVE IInv'
<1>1. TypeOK' BY DEF IInv, TypeOK, Configure, Goto, Phases, superVars, holderVars, worldVars, portVars
<1>2. Locked' BY DEF IInv, TypeOK, Locked, Inside, Configure, Goto, holderVars
<1>3. Places' BY DEF IInv, TypeOK, Places, Threads, Configure, Goto
<1>4. Starting' BY DEF IInv, TypeOK, Starting, Threads, Configure, Goto
<1>5. Reaping' BY DEF IInv, TypeOK, Reaping, Threads, Configure, Goto, superVars, holderVars
<1>6. OwnsEveryRunner' /\ OwnedRunsConfig'
  BY DEF IInv, OwnsEveryRunner, OwnedRunsConfig, Owned, Alive, Configure, superVars, holderVars, worldVars
<1> QED BY <1>1, <1>2, <1>3, <1>4, <1>5, <1>6 DEF IInv

\* A listener of somebody else.
LEMMA ConfigureRefusedKeeps == ASSUME IInv, NEW t \in Threads, ConfigureRefused(t) PROVE IInv'
<1>1. Locked' /\ Places' /\ Starting' /\ Reaping' BY ReleaseKeeps DEF ConfigureRefused, releaseRest, Inside
<1>2. TypeOK' BY DEF IInv, TypeOK, ConfigureRefused, releaseRest, Release, Done, Goto, Phases, portVars
<1>3. victim = None BY NoVictim DEF ConfigureRefused, Inside
<1>4. OwnsEveryRunner' /\ OwnedRunsConfig'
  BY <1>3 DEF IInv, OwnsEveryRunner, OwnedRunsConfig, Owned, Alive, ConfigureRefused, releaseRest
<1> QED BY <1>1, <1>2, <1>4 DEF IInv

\* The runner is terminated; the supervisor holds it until it is reaped.
LEMMA ConfigureOwnedKeeps == ASSUME IInv, NEW t \in Threads, ConfigureOwned(t) PROVE IInv'
<1>1. TypeOK'
  BY DEF IInv, TypeOK, ConfigureOwned, Owned, Alive, Goto, Phases, superVars, portVars
<1>2. Locked' BY DEF IInv, TypeOK, Locked, Inside, ConfigureOwned, Goto
<1>3. t \in Editors BY DEF IInv, Places, Threads, ConfigureOwned
<1>4. Places' BY <1>3 DEF IInv, TypeOK, Places, Inside, ConfigureOwned, Goto
<1>5. Starting' BY <1>3 DEF IInv, TypeOK, Starting, ConfigureOwned, Goto
<1>6. \A e \in Editors \ {t} : pc'[e] # "reap"
  BY <1>3 DEF IInv, TypeOK, Locked, Inside, Threads, ConfigureOwned, Goto
<1>7. Reaping' BY <1>3, <1>6 DEF IInv, TypeOK, Reaping, Threads, ConfigureOwned, Goto, superVars
<1>8. victim = None BY NoVictim DEF ConfigureOwned, Inside
<1>9. \A p \in Runners : Alive(p)' => Alive(p) BY DEF IInv, TypeOK, ConfigureOwned, Owned, Alive
<1>10. OwnsEveryRunner' BY <1>8, <1>9 DEF IInv, OwnsEveryRunner, ConfigureOwned, superVars
<1>11. OwnedRunsConfig'
  BY <1>9 DEF IInv, TypeOK, OwnedRunsConfig, Owned, Alive, ConfigureOwned, superVars
<1> QED BY <1>1, <1>2, <1>4, <1>5, <1>7, <1>10, <1>11 DEF IInv

\* The victim is the process held, and it ended: dropping it loses nothing.
LEMMA AdoptKeeps == ASSUME IInv, NEW t \in Threads, AdoptConfig(t) PROVE IInv'
<1>1. TypeOK' BY DEF IInv, TypeOK, Reaping, AdoptConfig, Goto, Phases, worldVars, portVars
<1>2. Locked' BY DEF IInv, TypeOK, Locked, Inside, AdoptConfig, Goto
<1>3. Places' BY DEF IInv, TypeOK, Places, Inside, AdoptConfig, Goto
<1>4. Starting' BY DEF IInv, TypeOK, Starting, AdoptConfig, Goto
<1>5. \A u \in Threads : pc'[u] # "reap" BY DEF IInv, TypeOK, Locked, Inside, AdoptConfig, Goto
<1>6. Reaping' BY <1>5 DEF Reaping, Threads, AdoptConfig
<1>7. OwnsEveryRunner'
  BY DEF IInv, Reaping, OwnsEveryRunner, AdoptConfig, Reaped, Alive, worldVars
<1>8. OwnedRunsConfig' BY DEF OwnedRunsConfig, Owned, Alive, AdoptConfig
<1> QED BY <1>1, <1>2, <1>3, <1>4, <1>6, <1>7, <1>8 DEF IInv

----------------------------------------------------------------------------
(* The monitor's loop and the main thread.                                  *)

\* Steps of the two threads that touch neither lock nor process.
Walk == MonitorTick \/ Start \/ StartMonitor \/ StartReturns \/ StopBegins \/ JoinMonitor \/ StopReturns

\* Such a step leads from a place outside the lock to another.
LEMMA WalkKeeps == ASSUME IInv, Walk PROVE IInv'
<1> USE DEF Walk, MonitorTick, Start, StartMonitor, StartReturns, StopBegins, JoinMonitor, StopReturns, Goto
<1>1. TypeOK' BY DEF IInv, TypeOK, Threads, Phases, mainRest, superVars, holderVars, worldVars, portVars
<1>2. Locked' BY DEF IInv, TypeOK, Locked, Inside, Threads, Starting, mainRest, holderVars
<1>3. Places' BY DEF IInv, TypeOK, Places, Threads
<1>4. Starting' BY DEF IInv, TypeOK, Places, Starting, Threads
<1>5. Reaping' BY DEF IInv, TypeOK, Reaping, Starting, Places, Threads, mainRest, superVars, holderVars
<1>6. OwnsEveryRunner' /\ OwnedRunsConfig'
  BY DEF IInv, OwnsEveryRunner, OwnedRunsConfig, Owned, Alive, mainRest, superVars, holderVars, worldVars
<1> QED BY <1>1, <1>2, <1>3, <1>4, <1>5, <1>6 DEF IInv

\* SIGTERM during start(): nobody waits for a process yet.
LEMMA InterruptedKeeps == ASSUME IInv, Interrupted PROVE IInv'
<1>1. TypeOK' BY DEF IInv, TypeOK, Interrupted, Phases, superVars, worldVars, portVars
<1>2. Locked' BY DEF Locked, Inside, Threads, Interrupted
<1>3. Places' BY DEF Places, Threads, Inside, Interrupted
<1>4. Starting' BY DEF Starting, Threads, Interrupted
<1>5. victim = None BY DEF IInv, Reaping, Starting, Places, Threads, Interrupted
<1>6. Reaping' BY <1>5 DEF Reaping, Threads, Interrupted
<1>7. OwnsEveryRunner' /\ OwnedRunsConfig'
  BY <1>5 DEF IInv, OwnsEveryRunner, OwnedRunsConfig, Owned, Alive, Interrupted, superVars, worldVars
<1> QED BY <1>1, <1>2, <1>3, <1>4, <1>6, <1>7 DEF IInv

\* stop() takes the process from the supervisor and waits for it.
LEMMA StopOwnedKeeps == ASSUME IInv, StopOwned PROVE IInv'
<1>1. TypeOK' BY DEF IInv, TypeOK, StopOwned, Owned, Alive, Threads, Goto, Phases, portVars
<1>2. Locked' BY DEF IInv, TypeOK, Locked, Inside, Threads, StopOwned, Goto
<1>3. Places' BY DEF IInv, TypeOK, Places, Threads, StopOwned, Goto
<1>4. Starting' BY DEF IInv, TypeOK, Starting, Threads, StopOwned, Goto
<1>5. \A e \in Editors : pc'[e] # "reap"
  BY DEF IInv, TypeOK, Locked, Inside, Threads, StopOwned, Goto
<1>6. Reaping' BY <1>5 DEF IInv, TypeOK, Reaping, Threads, StopOwned, Goto
<1>7. victim = None BY NoVictim DEF StopOwned, Threads
<1>8. \A p \in Runners : Alive(p)' => Alive(p) BY DEF IInv, TypeOK, StopOwned, Owned, Alive
<1>9. OwnsEveryRunner' BY <1>7, <1>8 DEF IInv, OwnsEveryRunner, StopOwned, Threads
<1>10. OwnedRunsConfig' BY DEF OwnedRunsConfig, Owned, Alive, StopOwned
<1> QED BY <1>1, <1>2, <1>3, <1>4, <1>6, <1>9, <1>10 DEF IInv

\* The process ended; the lock is free.
LEMMA StopReapedKeeps == ASSUME IInv, StopReaped PROVE IInv'
<1>1. TypeOK' BY DEF IInv, TypeOK, StopReaped, Goto, Phases, superVars, worldVars, portVars
<1>2. Locked' BY DEF IInv, TypeOK, Locked, Inside, Threads, StopReaped, Goto
<1>3. Places' BY DEF IInv, TypeOK, Places, Threads, StopReaped, Goto
<1>4. Starting' BY DEF IInv, TypeOK, Starting, Threads, StopReaped, Goto
<1>5. \A u \in Threads : pc'[u] # "reap" BY DEF IInv, TypeOK, Locked, Inside, Threads, StopReaped, Goto
<1>6. Reaping' BY <1>5 DEF Reaping, Threads, StopReaped
<1>7. OwnsEveryRunner' BY DEF IInv, OwnsEveryRunner, StopReaped, Reaped, Alive, superVars, worldVars
<1>8. OwnedRunsConfig' BY DEF IInv, OwnedRunsConfig, Owned, Alive, StopReaped, superVars, worldVars
<1> QED BY <1>1, <1>2, <1>3, <1>4, <1>6, <1>7, <1>8 DEF IInv

----------------------------------------------------------------------------
(* Together.                                                                *)

\* The WebUI that was not started.
LEMMA InitHolds == Init => IInv
<1> SUFFICES ASSUME Init PROVE IInv OBVIOUS
<1>1. TypeOK
  <2>1. pc \in [Threads -> Phases]
    <3>1. pc = [t \in Threads |-> IF t = Monitor THEN "gone" ELSE "idle"] BY DEF Init
    <3> QED BY <3>1 DEF Phases
  <2>2. life \in [Runners -> {"exited", "starting", "serving", "dying"}] /\ runs \in [Runners -> Configs]
    BY DEF Init
  <2>3. starts \in 0..StartLimit BY DEF Init
  <2>4. edits \in Nat /\ crashes \in Nat /\ comings \in Nat BY DEF Init
  <2> QED BY <2>1, <2>2, <2>3, <2>4 DEF Init, TypeOK
<1>2. Locked /\ Places /\ Starting BY DEF Init, Locked, Places, Starting, Inside, Threads
<1>3. Reaping BY DEF Init, Reaping, Threads
<1>4. OwnsEveryRunner /\ OwnedRunsConfig BY DEF Init, OwnsEveryRunner, OwnedRunsConfig, Owned, Alive
<1> QED BY <1>1, <1>2, <1>3, <1>4 DEF IInv

\* Every step, by who takes it.
LEMMA StepKeeps == IInv /\ [Next]_vars => IInv'
<1> SUFFICES ASSUME IInv, [Next]_vars PROVE IInv' OBVIOUS
<1>1. CASE UNCHANGED vars
  BY <1>1 DEF IInv, TypeOK, Locked, Places, Starting, Reaping, OwnsEveryRunner, OwnedRunsConfig, Owned, Alive,
              vars, superVars, holderVars, worldVars, portVars
<1>2. CASE \E p \in Runners : RunnerBinds(p) \/ RunnerCrashes(p) \/ RunnerEnds(p) BY <1>2, RunnerSteps
<1>3. CASE StrangerComes \/ StrangerGoes \/ StartExpires BY <1>3, PortSteps
<1>4. ASSUME NEW t \in Threads, Thread(t) PROVE IInv'
  BY <1>4, TakeLockKeeps, ProbeKeeps, EnsureListeningKeeps, SpawnNotKeeps, SpawnKeeps DEF Thread, Ensure
<1>5. ASSUME NEW t \in Threads, Editor(t) PROVE IInv'
  BY <1>5, ConfigureKeeps, ConfigureRefusedKeeps, ConfigureOwnedKeeps, AdoptKeeps DEF Editor
<1>6. CASE MonitorTick \/ MainSteps \/ StopBegins
  BY <1>6, WalkKeeps, StopOwnedKeeps, StopReapedKeeps DEF MainSteps, Stopping, Walk
<1>7. CASE Interrupted BY <1>7, InterruptedKeeps
<1> QED BY <1>1, <1>2, <1>3, <1>4, <1>5, <1>6, <1>7 DEF Next

\* The invariant of the supervisor.
THEOREM SupervisorInvariant == Spec => []IInv
BY InitHolds, StepKeeps, PTL DEF Spec

\* Types: the starts in the window never exceed the limit of the restarts.
THEOREM TypesCorrect == Spec => []TypeOK
<1>1. IInv => TypeOK BY DEF IInv
<1> QED BY <1>1, SupervisorInvariant, PTL

\* No order of start(), monitor, configure_engine() and stop() leaves a living
\* runner that the supervisor neither holds nor waits for.
THEOREM NoRunnerLost == Spec => []OwnsEveryRunner
<1>1. IInv => OwnsEveryRunner BY DEF IInv
<1> QED BY <1>1, SupervisorInvariant, PTL

\* A runner that the supervisor holds runs the configuration in force.
THEOREM ConfigInForce == Spec => []RunsEngineConfig
<1>1. IInv => RunsEngineConfig BY DEF IInv, OwnedRunsConfig, RunsEngineConfig
<1> QED BY <1>1, SupervisorInvariant, PTL
=============================================================================
