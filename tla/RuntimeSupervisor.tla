------------------------- MODULE RuntimeSupervisor -------------------------
(***************************************************************************)
(* RvcRuntimeSupervisor (rvc_runtime_supervisor.py), the WebUI's owner of   *)
(* the RSVC runner, as webui.py uses it.  The main thread starts it, waits  *)
(* in Gradio and stops it; a monitor thread probes and respawns; threads of *)
(* the WebUI apply an engine configuration.  _operation_lock orders them,   *)
(* and a probe result may be old by the time it is used.                    *)
(*                                                                         *)
(* The environment is the stream port: a runner or a stranger listens.      *)
(***************************************************************************)
EXTENDS Integers, FiniteSets

CONSTANTS
  Runners,       \* process identities, used again once a process has exited
  Editors,       \* WebUI threads that may be inside configure_engine
  Main, Monitor, \* the two other threads
  None,          \* no process, no holder of the lock, nobody on the port
  Configs,       \* engine configurations, as the command line names them
  StartLimit,    \* _max_starts within _restart_window
  Strangers,     \* programs that may listen on the port
  MaxStrangers,  \* bound: strangers that come
  MaxCrashes,    \* bound: runners that die, or cannot be spawned
  MaxEdits       \* bound: calls of configure_engine

ASSUME ThreadsAssumption == /\ Main # Monitor /\ Main \notin Editors /\ Monitor \notin Editors
                            /\ None \notin Editors \cup {Main, Monitor} \cup Runners
ASSUME StrangersAssumption == Strangers \subseteq {"rsvc", "alien", "closer"}
ASSUME ConstantsAssumption == StartLimit \in Nat \ {0} /\ Configs # {}

VARIABLES
  process,       \* _process
  engineConfig,  \* engine_config
  status,        \* _state
  starts,        \* how many of _starts are inside the restart window
  stopEvent,     \* _stop_event
  opLock,        \* holder of _operation_lock
  victim,        \* the process the holder terminates and waits for
  pc,            \* where each thread is
  probed,        \* the ProbeResult.state the holder has
  wanted,        \* the configuration the holder applies
  life, runs,    \* of each process: whether it lives, and its configuration
  stranger,      \* another program on the port
  comings, crashes, edits

superVars == <<process, engineConfig, status, starts, stopEvent>>
holderVars == <<opLock, victim, probed, wanted>>
portVars == <<stranger, comings>>
worldVars == <<life, runs, portVars, crashes>>
vars == <<superVars, holderVars, pc, worldVars, edits>>

Threads == Editors \cup {Main, Monitor}
Phases == {"idle", "lock", "probe", "ensure", "survey", "check", "reap", "launch", "poll", "up",
           "wait", "join", "stopLock", "settle", "stopped", "gone"}

Alive(p) == p \in Runners /\ life[p] \in {"starting", "serving", "dying"}
Owned == Alive(process)
Served == \E p \in Runners : life[p] = "serving"

Goto(t, phase) == pc' = [pc EXCEPT ![t] = phase]

----------------------------------------------------------------------------
(* The port and the processes.                                              *)

processRest == <<superVars, holderVars, pc, runs, edits>>

\* A runner listens, or exits because the port is taken.
RunnerBinds(p) ==
  /\ life[p] = "starting"
  /\ life' = [life EXCEPT ![p] = IF Served \/ stranger # None THEN "exited" ELSE "serving"]
  /\ UNCHANGED <<processRest, portVars, crashes>>

RunnerCrashes(p) ==
  /\ life[p] \in {"starting", "serving"} /\ crashes < MaxCrashes
  /\ life' = [life EXCEPT ![p] = "exited"]
  /\ crashes' = crashes + 1
  /\ UNCHANGED <<processRest, portVars>>

\* terminate(), and kill() after three seconds.
RunnerEnds(p) ==
  /\ life[p] = "dying"
  /\ life' = [life EXCEPT ![p] = "exited"]
  /\ UNCHANGED <<processRest, portVars, crashes>>

StrangerComes ==
  /\ stranger = None /\ ~Served /\ comings < MaxStrangers
  /\ stranger' \in Strangers
  /\ comings' = comings + 1
  /\ UNCHANGED <<processRest, life, crashes>>

StrangerGoes ==
  /\ stranger # None
  /\ stranger' = None
  /\ UNCHANGED <<processRest, life, comings, crashes>>

StartExpires ==
  /\ starts > 0
  /\ starts' = starts - 1
  /\ UNCHANGED <<process, engineConfig, status, stopEvent, holderVars, pc, worldVars, edits>>

----------------------------------------------------------------------------
(* ensure_running: the lock, the probe, then _ensure_running with what the  *)
(* probe found.                                                             *)

Listener == IF Served THEN "rsvc" ELSE stranger

\* A listener that closes the connection raises ConnectionError, which the
\* handler of OSError takes before the one meant for it.
ProbeOf(listener) == CASE listener = "rsvc"  -> "ready"
                       [] listener = "alien" -> "incompatible"
                       [] OTHER              -> "unavailable"

TakeLock(t) ==
  /\ pc[t] = "lock" /\ opLock = None
  /\ opLock' = t
  /\ Goto(t, IF t \in Editors THEN "survey" ELSE "probe")
  /\ UNCHANGED <<superVars, victim, probed, wanted, worldVars, edits>>

Probe(t) ==
  /\ pc[t] \in {"probe", "survey"}
  /\ probed' = ProbeOf(Listener)
  /\ Goto(t, IF pc[t] = "survey" THEN "check" ELSE "ensure")
  /\ UNCHANGED <<superVars, opLock, victim, wanted, worldVars, edits>>

\* Where a thread goes when it leaves the lock.
Done(t) == CASE t = Main -> "launch" [] t = Monitor -> "wait" [] OTHER -> "idle"
Release(t) == opLock' = None /\ wanted' = None /\ Goto(t, Done(t))
releaseRest == <<engineConfig, stopEvent, victim, probed, runs, portVars, edits>>

\* The listener answered, or a runner of ours has still to.
EnsureListening(t) ==
  /\ pc[t] = "ensure"
  /\ probed # "unavailable" \/ Owned
  /\ status' = CASE probed = "incompatible" -> "ERROR"
                 [] probed = "unavailable"  -> "STARTING"
                 [] OTHER                   -> IF Owned THEN "READY" ELSE "REUSED"
  /\ Release(t)
  /\ UNCHANGED <<releaseRest, process, starts, life, crashes>>

\* Mutant: a runner that does not answer yet is taken for none.
MaySpawnAgain(t) == pc[t] = "ensure" /\ probed = "unavailable"

\* _close_finished_process, then _spawn: beyond the limit of starts, with a
\* process that cannot be created, and with one that is.
MaySpawn(t) == pc[t] = "ensure" /\ probed = "unavailable" /\ ~Owned

SpawnRefused(t) ==
  /\ MaySpawn(t) /\ starts >= StartLimit
  /\ process' = None
  /\ status' = "ERROR"
  /\ Release(t)
  /\ UNCHANGED <<releaseRest, starts, life, crashes>>

SpawnFails(t) ==
  /\ MaySpawn(t) /\ starts < StartLimit /\ crashes < MaxCrashes
  /\ starts' = starts + 1 /\ crashes' = crashes + 1
  /\ process' = None
  /\ status' = "ERROR"
  /\ Release(t)
  /\ UNCHANGED <<releaseRest, life>>

\* Mutant: the command line is built once, with the first configuration.
SpawnFirstConfig(t) ==
  /\ MaySpawn(t) /\ starts < StartLimit
  /\ starts' = starts + 1
  /\ \E p \in Runners :
       /\ life[p] = "exited"
       /\ life' = [life EXCEPT ![p] = "starting"]
       /\ process' = p
  /\ status' = "STARTING"
  /\ Release(t)
  /\ UNCHANGED <<engineConfig, stopEvent, victim, probed, runs, portVars, crashes, edits>>

Spawn(t) ==
  /\ MaySpawn(t) /\ starts < StartLimit
  /\ starts' = starts + 1
  /\ \E p \in Runners :
       /\ life[p] = "exited"
       /\ life' = [life EXCEPT ![p] = "starting"]
       /\ runs' = [runs EXCEPT ![p] = engineConfig]
       /\ process' = p
  /\ status' = "STARTING"
  /\ Release(t)
  /\ UNCHANGED <<engineConfig, stopEvent, victim, probed, portVars, crashes, edits>>

Ensure(t) == EnsureListening(t) \/ SpawnRefused(t) \/ SpawnFails(t) \/ Spawn(t)

----------------------------------------------------------------------------
(* configure_engine.                                                        *)

\* The WebUI is served between start() and the end of stop(); its threads
\* outlive the main thread's wait.
Configure(t) ==
  /\ t \in Editors /\ pc[t] = "idle" /\ edits < MaxEdits
  /\ pc[Main] \notin {"idle", "lock", "probe", "ensure", "launch", "poll", "stopped", "gone"}
  /\ Goto(t, "lock")
  /\ edits' = edits + 1
  /\ UNCHANGED <<superVars, holderVars, worldVars>>

\* Mutant: the early return keeps the lock.
ConfigureRefusedLocked(t) ==
  /\ pc[t] = "check" /\ probed = "ready" /\ ~Owned
  /\ status' = "ERROR"
  /\ Goto(t, "idle")
  /\ UNCHANGED <<process, starts, releaseRest, opLock, wanted, life, crashes>>

ConfigureRefused(t) ==
  /\ pc[t] = "check" /\ probed = "ready" /\ ~Owned
  /\ status' = "ERROR"
  /\ Release(t)
  /\ UNCHANGED <<process, starts, releaseRest, life, crashes>>

\* Our runner, if it lives, is terminated.
ConfigureOwned(t) ==
  /\ pc[t] = "check" /\ (probed # "ready" \/ Owned)
  /\ \E c \in Configs : wanted' = c
  /\ victim' = process
  /\ life' = IF Owned THEN [life EXCEPT ![process] = "dying"] ELSE life
  /\ Goto(t, "reap")
  /\ UNCHANGED <<superVars, opLock, probed, runs, portVars, crashes, edits>>

\* wait() returned: the new configuration, and _ensure_running.
Reaped == ~Alive(victim)
AdoptConfig(t) ==
  /\ pc[t] = "reap" /\ t \in Editors /\ Reaped
  /\ process' = None /\ victim' = None
  /\ engineConfig' = wanted
  /\ Goto(t, "probe")
  /\ UNCHANGED <<status, starts, stopEvent, opLock, probed, wanted, worldVars, edits>>

Editor(t) == Configure(t) \/ ConfigureRefused(t) \/ ConfigureOwned(t) \/ AdoptConfig(t)

----------------------------------------------------------------------------
(* _monitor_loop.                                                           *)

\* Mutant: the loop ends with the first error.
MonitorTickUntilError ==
  /\ pc[Monitor] = "wait"
  /\ Goto(Monitor, IF stopEvent \/ status = "ERROR" THEN "gone" ELSE "lock")
  /\ UNCHANGED <<superVars, holderVars, worldVars, edits>>

MonitorTick ==
  /\ pc[Monitor] = "wait"
  /\ Goto(Monitor, IF stopEvent THEN "gone" ELSE "lock")
  /\ UNCHANGED <<superVars, holderVars, worldVars, edits>>

----------------------------------------------------------------------------
(* The main thread: start(), the wait in Gradio, stop().                    *)

mainRest == <<holderVars, worldVars, edits>>

Start ==
  /\ pc[Main] = "idle"
  /\ Goto(Main, "lock")
  /\ UNCHANGED <<mainRest, superVars>>

StartMonitor ==
  /\ pc[Main] = "launch"
  /\ pc' = [pc EXCEPT ![Main] = "poll", ![Monitor] = "wait"]
  /\ UNCHANGED <<mainRest, superVars>>

\* READY, REUSED or ERROR ends the poll; the deadline sets ERROR.
StartReturns ==
  /\ pc[Main] = "poll"
  /\ status' = IF status \in {"READY", "REUSED", "ERROR"} THEN status ELSE "ERROR"
  /\ Goto(Main, "up")
  /\ UNCHANGED <<mainRest, process, engineConfig, starts, stopEvent>>

\* SIGTERM raises KeyboardInterrupt.  In Gradio's wait it leads to the finally
\* that calls stop(); start() is called outside that try.
StopBegins ==
  /\ pc[Main] = "up"
  /\ stopEvent' = TRUE
  /\ Goto(Main, "join")
  /\ UNCHANGED <<mainRest, process, engineConfig, status, starts>>

Interrupted ==
  /\ pc[Main] \in {"lock", "probe", "ensure", "launch", "poll"}
  /\ pc' = [t \in Threads |-> "gone"]
  /\ opLock' = None
  /\ UNCHANGED <<superVars, victim, probed, wanted, worldVars, edits>>

\* monitor.join returns when the monitor ended, or when its timeout passed
\* because an operation under the lock took longer.
JoinMonitor ==
  /\ pc[Main] = "join"
  /\ pc[Monitor] = "gone" \/ opLock # None
  /\ Goto(Main, "stopLock")
  /\ UNCHANGED <<mainRest, superVars>>

StopOwned ==
  /\ pc[Main] = "stopLock" /\ opLock = None
  /\ opLock' = Main
  /\ victim' = process /\ process' = None
  /\ life' = IF Owned THEN [life EXCEPT ![process] = "dying"] ELSE life
  /\ Goto(Main, "reap")
  /\ UNCHANGED <<engineConfig, status, starts, stopEvent, probed, wanted, runs, portVars,
                 crashes, edits>>

StopReaped ==
  /\ pc[Main] = "reap" /\ Reaped
  /\ opLock' = None /\ victim' = None
  /\ Goto(Main, "settle")
  /\ UNCHANGED <<superVars, probed, wanted, worldVars, edits>>

StopReturns ==
  /\ pc[Main] = "settle"
  /\ status' = "STOPPED"
  /\ Goto(Main, "stopped")
  /\ UNCHANGED <<mainRest, process, engineConfig, starts, stopEvent>>

Stopping == JoinMonitor \/ StopOwned \/ StopReaped \/ StopReturns

----------------------------------------------------------------------------
Init ==
  /\ process = None /\ engineConfig \in Configs /\ status = "STOPPED"
  /\ starts = 0 /\ stopEvent = FALSE
  /\ opLock = None /\ victim = None /\ probed = None /\ wanted = None
  /\ pc = [t \in Threads |-> IF t = Monitor THEN "gone" ELSE "idle"]
  /\ life = [p \in Runners |-> "exited"] /\ runs = [p \in Runners |-> engineConfig]
  /\ stranger = None /\ comings = 0 /\ crashes = 0 /\ edits = 0

Thread(t) == TakeLock(t) \/ Probe(t) \/ Ensure(t)
MainSteps == Start \/ StartMonitor \/ StartReturns \/ Stopping
Next == \/ \E p \in Runners : RunnerBinds(p) \/ RunnerCrashes(p) \/ RunnerEnds(p)
        \/ StrangerComes \/ StrangerGoes \/ StartExpires
        \/ \E t \in Threads : Thread(t) \/ Editor(t)
        \/ MonitorTick \/ MainSteps \/ StopBegins \/ Interrupted

Spec == Init /\ [][Next]_vars

\* Every thread runs, time passes, a spawned process binds or exits, a killed
\* one exits.  Nobody need apply a configuration or stop the WebUI.
FairSpec ==
  /\ Spec
  /\ \A p \in Runners : WF_vars(RunnerBinds(p)) /\ WF_vars(RunnerEnds(p))
  /\ WF_vars(StartExpires)
  /\ \A t \in Threads : WF_vars(Thread(t) \/ ConfigureRefused(t) \/ ConfigureOwned(t) \/ AdoptConfig(t))
  /\ WF_vars(MonitorTick) /\ WF_vars(MainSteps)

----------------------------------------------------------------------------
(* Properties.                                                              *)

TypeOK ==
  /\ process \in Runners \cup {None} /\ engineConfig \in Configs
  /\ status \in {"STOPPED", "STARTING", "READY", "REUSED", "ERROR"}
  /\ starts \in 0..StartLimit /\ stopEvent \in BOOLEAN
  /\ opLock \in Threads \cup {None} /\ victim \in Runners \cup {None}
  /\ probed \in {"ready", "unavailable", "incompatible", None}
  /\ wanted \in Configs \cup {None}
  /\ pc \in [Threads -> Phases]
  /\ life \in [Runners -> {"exited", "starting", "serving", "dying"}]
  /\ runs \in [Runners -> Configs]
  /\ stranger \in Strangers \cup {None}
  /\ comings \in Nat /\ crashes \in Nat /\ edits \in Nat

\* Every living runner is the one the supervisor holds, or the one the holder
\* of the lock waits for: no order of the three kinds of threads loses one.
OwnsEveryRunner ==
  \A p \in Runners : Alive(p) => p = process \/ (p = victim /\ opLock # None)

\* Outside configure_engine the runner we own runs the configuration in force.
RunsEngineConfig == opLock = None /\ Owned => runs[process] = engineConfig

\* A runner that dies is replaced, as often as the limit allows again in time:
\* once nothing fails any more, the stream ends up READY and stays there.
Undisturbed == pc[Main] \in {"idle", "lock", "probe", "ensure", "launch", "poll", "up"}
Recovers ==
  [](Undisturbed) /\ <>[](stranger = None) => <>[](Owned /\ Served /\ status = "READY")

\* stop() returns, whatever the monitor and the editors are doing.
StopComesBack == pc[Main] = "join" ~> pc[Main] = "stopped"

\* Once stop() has said that the runner is stopped, none runs.
StoppedHasNoRunner == pc[Main] = "stopped" => \A p \in Runners : ~Alive(p)
=============================================================================
