---------------------------- MODULE WorkerClient ----------------------------
(***************************************************************************)
(* The Audio Unit's client of the RSVC stream                              *)
(* (RVCRealtime/src/WorkerClient_stream_mac.cpp): host callbacks that must  *)
(* never block on the management thread in realtime, may wait for it in an  *)
(* offline render, and share two lock-free rings with it; and the parameter *)
(* and configuration versions that the user interface bumps.                *)
(*                                                                         *)
(* The rings are their fill levels.  resetUnsafe() is not safe against push *)
(* and pop: ready and audioRingUsers keep the two apart.                    *)
(***************************************************************************)
EXTENDS Integers, FiniteSets

CONSTANTS
  Callbacks,     \* host threads that may be inside ProcessBlock
  HostFrames,    \* nFrames of one ProcessBlock call
  BlockFrames,   \* block size of the session
  Latency,       \* latency_frames of SESSION_ACCEPT
  RingCapacity,  \* kRingCapacity
  Shapes,        \* sample rate, block, crossfade, context, paths: one value
  Hots,          \* values of the hot parameters
  NoSession,     \* ipc_ == nullptr
  MayExpire,     \* can the 30 s deadline of processOffline pass?
  MaxModes,      \* bound: changes of the render mode
  MaxEdits       \* bound: changes of the settings and of the engine switch

ASSUME CallbacksAssumption == IsFiniteSet(Callbacks)
ASSUME FramesAssumption == /\ HostFrames \in Nat \ {0} /\ BlockFrames \in Nat \ {0}
                           /\ Latency \in Nat /\ RingCapacity \in Nat
                           /\ Latency < RingCapacity
\* The service answers twice the block for latency_frames; a block of the host
\* fits in the ring beside it.
ASSUME LatencyAssumption == BlockFrames <= Latency /\ Latency + HostFrames <= RingCapacity
ASSUME SettingsAssumption == Shapes # {} /\ Hots # {}

VARIABLES
  ready, audioRingUsers, renderingOffline, discontinuous,
  renderModeVersion, appliedRenderModeVersion,
  inFrames, outFrames,                \* inputRing_, outputRing_
  enabled, stopRequested,
  shape, hot,                         \* the atomics the user interface stores
  configVersion, parameterVersion,
  edit,                               \* the fetch_add the user interface owes
  call,                               \* where each callback is
  mpc,                                \* where threadMain is
  launching,                          \* the reset belongs to launchWorker
  requestedMode, requestedParams,     \* threadMain's locals
  activeVersion, activeParameterVersion,
  session                             \* what the service knows of this client

ringVars == <<inFrames, outFrames>>
modeVars == <<renderingOffline, renderModeVersion>>
uiVars == <<enabled, stopRequested, shape, hot, configVersion, parameterVersion, edit>>
localVars == <<launching, requestedMode, requestedParams, activeVersion, activeParameterVersion>>
vars == <<ready, audioRingUsers, modeVars, discontinuous, appliedRenderModeVersion,
          ringVars, uiVars, call, mpc, localVars, session>>

Least(a, b) == IF a < b THEN a ELSE b

Idle == [op |-> "none", step |-> "idle", offline |-> FALSE, mode |-> 0]
Ops == {"none", "mode", "enter", "push", "pop", "ready", "space", "output"}
Steps == {"idle", "lower", "bump", "request", "check", "join", "recheck", "ring",
          "eval", "doze", "asleep"}
MgmtPhases == {"loop", "launch", "configure", "wait", "reset", "publish", "raise", "adopt",
               "params", "apply", "block", "await", "mode", "lower", "ended"}

At(c, op, step) == call[c].op = op /\ call[c].step = step
Goto(c, op, step) == call' = [call EXCEPT ![c].op = op, ![c].step = step]
Finish(c) == call' = [call EXCEPT ![c] = Idle]

\* offlineCv_.notify_all(): wakes the callbacks asleep in wait_until, not one
\* that has tested its predicate and is about to sleep.
Woken(calls) == [c \in Callbacks |-> IF calls[c].step = "asleep"
                                     THEN [calls[c] EXCEPT !.step = "eval"] ELSE calls[c]]

----------------------------------------------------------------------------
(* RVCRealtime::ProcessBlock, on a host thread.                             *)

\* setRenderingOffline returns at once when the mode did not change; else the
\* flag is exchanged first, then ready is lowered, then the version is bumped.
Begin(c) ==
  /\ call[c] = Idle /\ ~stopRequested
  /\ \E offline \in BOOLEAN :
       /\ offline # renderingOffline => renderModeVersion < MaxModes
       /\ renderingOffline' = offline
       /\ call' = [call EXCEPT ![c] =
            [op |-> IF offline # renderingOffline THEN "mode" ELSE IF offline THEN "ready" ELSE "enter",
             step |-> IF offline # renderingOffline THEN "lower" ELSE IF offline THEN "request" ELSE "check",
             offline |-> offline, mode |-> 0]]
  /\ UNCHANGED <<ready, audioRingUsers, renderModeVersion, discontinuous, appliedRenderModeVersion,
                 ringVars, uiVars, mpc, localVars, session>>

LowerReady(c) ==
  /\ At(c, "mode", "lower")
  /\ ready' = FALSE
  /\ Goto(c, "mode", "bump")
  /\ UNCHANGED <<audioRingUsers, modeVars, discontinuous, appliedRenderModeVersion,
                 ringVars, uiVars, mpc, localVars, session>>

BumpMode(c) ==
  /\ At(c, "mode", "bump")
  /\ renderModeVersion' = renderModeVersion + 1
  /\ IF call[c].offline THEN Goto(c, "ready", "request") ELSE Goto(c, "enter", "check")
  /\ UNCHANGED <<ready, audioRingUsers, renderingOffline, discontinuous, appliedRenderModeVersion,
                 ringVars, uiVars, mpc, localVars, session>>

callOnly == <<ready, modeVars, discontinuous, appliedRenderModeVersion,
              uiVars, mpc, localVars, session>>

\* The engine parameter is off: the mode was set, the rest is passthrough.
Passthrough(c) ==
  /\ At(c, "enter", "check") \/ At(c, "ready", "request")
  /\ Finish(c)
  /\ UNCHANGED <<callOnly, audioRingUsers, ringVars>>

\* Realtime: isReady(), then pushInput, then popOutput, whatever pushInput did.
After(c, op) == IF op = "push" THEN Goto(c, "pop", "check") ELSE Finish(c)

Check(c) ==
  /\ \E op \in {"enter", "push", "pop"} :
       /\ At(c, op, "check")
       /\ CASE ready /\ op = "enter" -> Goto(c, "push", "check")
            [] ready /\ op # "enter" -> Goto(c, op, "join")
            [] OTHER -> After(c, op)
  /\ UNCHANGED <<callOnly, audioRingUsers, ringVars>>

Join(c) ==
  /\ call[c].step = "join"
  /\ audioRingUsers' = audioRingUsers + 1
  /\ Goto(c, call[c].op, "recheck")
  /\ UNCHANGED <<callOnly, ringVars>>

\* Mutant: ready is not read again after the fetch_add.
RecheckNothing(c) ==
  /\ \E op \in {"push", "pop"} : At(c, op, "recheck") /\ Goto(c, op, "ring")
  /\ UNCHANGED <<callOnly, audioRingUsers, ringVars>>

Recheck(c) ==
  /\ \E op \in {"push", "pop"} :
       /\ At(c, op, "recheck")
       /\ IF ready
          THEN Goto(c, op, "ring") /\ UNCHANGED audioRingUsers
          ELSE After(c, op) /\ audioRingUsers' = audioRingUsers - 1
  /\ UNCHANGED <<callOnly, ringVars>>

PushInput(c) ==
  /\ At(c, "push", "ring")
  /\ inFrames' = Least(RingCapacity, inFrames + HostFrames)
  /\ audioRingUsers' = audioRingUsers - 1
  /\ After(c, "push")
  /\ UNCHANGED <<callOnly, outFrames>>

PopOutput(c) ==
  /\ At(c, "pop", "ring")
  /\ outFrames' = outFrames - Least(outFrames, HostFrames)
  /\ audioRingUsers' = audioRingUsers - 1
  /\ After(c, "pop")
  /\ UNCHANGED <<callOnly, inFrames>>

----------------------------------------------------------------------------
(* processOffline: three waits on offlineCv_, each with a deadline.  A wait *)
(* that finds its predicate false first dozes (the test was made) and then  *)
(* is asleep: the management thread notifies without the mutex.             *)
(* offlineMutex_ is left out: a host has one call in ProcessBlock at a time, *)
(* and where two are modelled its absence only adds interleavings.          *)

RequestMode(c) ==
  /\ At(c, "ready", "request")
  /\ call' = [call EXCEPT ![c].step = "eval", ![c].mode = renderModeVersion]
  /\ UNCHANGED <<callOnly, audioRingUsers, ringVars>>

Predicate(c) ==
  CASE call[c].op = "ready" -> \/ stopRequested \/ ~enabled
                               \/ ready /\ appliedRenderModeVersion = call[c].mode
    [] call[c].op = "space" -> ~ready \/ inFrames + HostFrames <= RingCapacity
    [] OTHER                -> ~ready \/ outFrames >= HostFrames

\* leaveRingGeneration(): audioRingUsers is lowered and the others are notified.
LeaveRingGeneration(c) ==
  /\ audioRingUsers' = audioRingUsers - 1
  /\ call' = Woken([call EXCEPT ![c] = Idle])

StopWaitingReady(c) ==
  /\ At(c, "ready", "eval") /\ Predicate(c)
  /\ IF ready /\ renderingOffline THEN Goto(c, "space", "join") ELSE Finish(c)
  /\ UNCHANGED <<callOnly, audioRingUsers, ringVars>>

RecheckOffline(c) ==
  /\ At(c, "space", "recheck")
  /\ IF ready /\ appliedRenderModeVersion = call[c].mode
     THEN Goto(c, "space", "eval") /\ UNCHANGED audioRingUsers
     ELSE LeaveRingGeneration(c)
  /\ UNCHANGED <<callOnly, ringVars>>

PushOffline(c) ==
  /\ At(c, "space", "eval") /\ Predicate(c)
  /\ IF ready
     THEN /\ inFrames' = inFrames + HostFrames
          /\ Goto(c, "output", "eval")
          /\ UNCHANGED audioRingUsers
     ELSE LeaveRingGeneration(c) /\ UNCHANGED inFrames
  /\ UNCHANGED <<callOnly, outFrames>>

PopOffline(c) ==
  /\ At(c, "output", "eval") /\ Predicate(c)
  /\ outFrames' = IF ready THEN outFrames - HostFrames ELSE outFrames
  /\ LeaveRingGeneration(c)
  /\ UNCHANGED <<callOnly, inFrames>>

Doze(c) ==
  /\ call[c].step = "eval" /\ ~Predicate(c)
  /\ Goto(c, call[c].op, "doze")
  /\ UNCHANGED <<callOnly, audioRingUsers, ringVars>>

FallAsleep(c) ==
  /\ call[c].step = "doze"
  /\ Goto(c, call[c].op, "asleep")
  /\ UNCHANGED <<callOnly, audioRingUsers, ringVars>>

SpuriousWakeup(c) ==
  /\ call[c].step = "asleep"
  /\ Goto(c, call[c].op, "eval")
  /\ UNCHANGED <<callOnly, audioRingUsers, ringVars>>

\* wait_until returns the predicate when the deadline passes.
Deadline(c) ==
  /\ MayExpire
  /\ call[c].step = "asleep"
  /\ IF Predicate(c) THEN Goto(c, call[c].op, "eval") /\ UNCHANGED audioRingUsers
     ELSE IF call[c].op = "ready" THEN Finish(c) /\ UNCHANGED audioRingUsers
     ELSE LeaveRingGeneration(c)
  /\ UNCHANGED <<callOnly, ringVars>>

Offline(c) == RequestMode(c) \/ StopWaitingReady(c) \/ RecheckOffline(c) \/ PushOffline(c)
              \/ PopOffline(c) \/ Doze(c) \/ FallAsleep(c) \/ Deadline(c)

Realtime(c) == Passthrough(c) \/ Check(c) \/ Recheck(c) \/ PushInput(c) \/ PopOutput(c)

CallStep(c) == LowerReady(c) \/ BumpMode(c) \/ Join(c) \/ Realtime(c) \/ Offline(c)

----------------------------------------------------------------------------
(* The user interface: the value is stored first, the version is bumped     *)
(* second.                                                                  *)

uiRest == <<ready, audioRingUsers, modeVars, discontinuous, appliedRenderModeVersion, ringVars,
            mpc, localVars, session>>
Editable == configVersion + parameterVersion < 2 + MaxEdits

SetShape ==
  /\ edit = "none" /\ Editable
  /\ \E value \in Shapes \ {shape} : shape' = value
  /\ edit' = "shape"
  /\ UNCHANGED <<uiRest, call, enabled, stopRequested, hot, configVersion, parameterVersion>>

SetHot ==
  /\ edit = "none" /\ Editable
  /\ \E value \in Hots \ {hot} : hot' = value
  /\ edit' = "hot"
  /\ UNCHANGED <<uiRest, call, enabled, stopRequested, shape, configVersion, parameterVersion>>

SetEnabled ==
  /\ edit = "none" /\ Editable
  /\ enabled' = ~enabled
  /\ edit' = "enable"
  /\ UNCHANGED <<uiRest, call, stopRequested, shape, hot, configVersion, parameterVersion>>

\* fetch_add on the version of the value stored; setEnabled(false) notifies.
BumpVersion ==
  /\ edit # "none"
  /\ configVersion' = IF edit = "hot" THEN configVersion ELSE configVersion + 1
  /\ parameterVersion' = IF edit = "hot" THEN parameterVersion + 1 ELSE parameterVersion
  /\ edit' = "none"
  /\ call' = IF edit = "enable" /\ ~enabled THEN Woken(call) ELSE call
  /\ UNCHANGED <<uiRest, enabled, stopRequested, shape, hot>>

\* ~WorkerClient, once the host makes no more calls.
Destroy ==
  /\ ~stopRequested /\ edit = "none" /\ \A c \in Callbacks : call[c] = Idle
  /\ stopRequested' = TRUE
  /\ UNCHANGED <<uiRest, call, enabled, shape, hot, configVersion, parameterVersion, edit>>

UserInterface == SetShape \/ SetHot \/ SetEnabled \/ BumpVersion \/ Destroy

----------------------------------------------------------------------------
(* threadMain, the management thread.                                       *)

hostVars == <<modeVars, uiVars>>
StopWorker == ready' = FALSE /\ session' = NoSession /\ call' = Woken(call)

Exit ==
  /\ mpc = "loop" /\ stopRequested
  /\ StopWorker
  /\ mpc' = "ended"
  /\ UNCHANGED <<hostVars, audioRingUsers, discontinuous, appliedRenderModeVersion, ringVars, localVars>>

TurnOff ==
  /\ mpc = "loop" /\ ~stopRequested /\ ~enabled
  /\ session # NoSession
  /\ StopWorker
  /\ UNCHANGED <<hostVars, audioRingUsers, discontinuous, appliedRenderModeVersion, ringVars,
                 mpc, localVars>>

Relaunch ==
  /\ mpc = "loop" /\ ~stopRequested /\ enabled
  /\ session = NoSession \/ configVersion # activeVersion
  /\ StopWorker
  /\ activeVersion' = configVersion
  /\ mpc' = "launch"
  /\ UNCHANGED <<hostVars, audioRingUsers, discontinuous, appliedRenderModeVersion, ringVars,
                 launching, requestedMode, requestedParams, activeParameterVersion>>

KeepSession ==
  /\ mpc = "loop" /\ ~stopRequested /\ enabled
  /\ session # NoSession /\ configVersion = activeVersion
  /\ mpc' = "params"
  /\ UNCHANGED <<hostVars, ready, audioRingUsers, discontinuous, appliedRenderModeVersion, ringVars,
                 call, localVars, session>>

\* launchWorker up to SESSION_ACCEPT; the service starts from its own defaults.
OpenSession ==
  /\ mpc = "launch"
  /\ session' = [shape |-> shape, hot |-> NoSession, stream |-> {}]
  /\ mpc' = "configure"
  /\ UNCHANGED <<hostVars, ready, audioRingUsers, discontinuous, appliedRenderModeVersion, ringVars,
                 call, localVars>>

\* applyParameters sends whatever the atomics hold, not what the version says.
SendParameters == session' = [session EXCEPT !.hot = hot]

ConfigureSession ==
  /\ mpc = "configure"
  /\ SendParameters
  /\ launching' = TRUE
  /\ mpc' = "wait"
  /\ UNCHANGED <<hostVars, ready, audioRingUsers, discontinuous, appliedRenderModeVersion, ringVars,
                 call, requestedMode, requestedParams, activeVersion, activeParameterVersion>>

WaitForAudioRingUsers ==
  /\ mpc = "wait" /\ audioRingUsers = 0
  /\ mpc' = "reset"
  /\ UNCHANGED <<hostVars, ready, audioRingUsers, discontinuous, appliedRenderModeVersion, ringVars,
                 call, localVars, session>>

\* Mutant: the output ring is not filled with the latency.
ResetWithoutLatency ==
  /\ mpc = "reset"
  /\ inFrames' = 0 /\ outFrames' = 0
  /\ mpc' = "publish"
  /\ UNCHANGED <<hostVars, ready, audioRingUsers, discontinuous, appliedRenderModeVersion,
                 call, localVars, session>>

\* Mutant: only the output ring is reset.
ResetOutputOnly ==
  /\ mpc = "reset"
  /\ outFrames' = Latency
  /\ mpc' = "publish"
  /\ UNCHANGED <<hostVars, ready, audioRingUsers, discontinuous, appliedRenderModeVersion, inFrames,
                 call, localVars, session>>

ResetRings ==
  /\ mpc = "reset"
  /\ inFrames' = 0 /\ outFrames' = Latency
  /\ mpc' = "publish"
  /\ UNCHANGED <<hostVars, ready, audioRingUsers, discontinuous, appliedRenderModeVersion,
                 call, localVars, session>>

\* Mutant: a new generation does not ask for the discontinuity flag.
PublishModeSilently ==
  /\ mpc = "publish"
  /\ appliedRenderModeVersion' = IF launching THEN renderModeVersion ELSE requestedMode
  /\ mpc' = "raise"
  /\ UNCHANGED <<hostVars, ready, audioRingUsers, discontinuous, ringVars, call, localVars, session>>

PublishMode ==
  /\ mpc = "publish"
  /\ appliedRenderModeVersion' = IF launching THEN renderModeVersion ELSE requestedMode
  /\ discontinuous' = (discontinuous \/ ~launching)
  /\ mpc' = "raise"
  /\ UNCHANGED <<hostVars, ready, audioRingUsers, ringVars, call, localVars, session>>

RaiseReady ==
  /\ mpc = "raise"
  /\ ready' = TRUE
  /\ call' = Woken(call)
  /\ mpc' = IF launching THEN "adopt" ELSE "loop"
  /\ launching' = FALSE
  /\ UNCHANGED <<hostVars, audioRingUsers, discontinuous, appliedRenderModeVersion, ringVars,
                 requestedMode, requestedParams, activeVersion, activeParameterVersion, session>>

\* Mutant: configVersion is adopted after the session was opened, too.
AdoptVersions ==
  /\ mpc = "adopt"
  /\ activeParameterVersion' = parameterVersion
  /\ activeVersion' = configVersion
  /\ mpc' = "params"
  /\ UNCHANGED <<hostVars, ready, audioRingUsers, discontinuous, appliedRenderModeVersion, ringVars,
                 call, launching, requestedMode, requestedParams, session>>

AdoptParameters ==
  /\ mpc = "adopt"
  /\ activeParameterVersion' = parameterVersion
  /\ mpc' = "params"
  /\ UNCHANGED <<hostVars, ready, audioRingUsers, discontinuous, appliedRenderModeVersion, ringVars,
                 call, launching, requestedMode, requestedParams, activeVersion, session>>

ReadParameterVersion ==
  /\ mpc = "params"
  /\ requestedParams' = parameterVersion
  /\ mpc' = IF parameterVersion # activeParameterVersion THEN "apply" ELSE "block"
  /\ UNCHANGED <<hostVars, ready, audioRingUsers, discontinuous, appliedRenderModeVersion, ringVars,
                 call, launching, requestedMode, activeVersion, activeParameterVersion, session>>

ApplyParameters ==
  /\ mpc = "apply"
  /\ SendParameters
  /\ activeParameterVersion' = requestedParams
  /\ mpc' = "block"
  /\ UNCHANGED <<hostVars, ready, audioRingUsers, discontinuous, appliedRenderModeVersion, ringVars,
                 call, launching, requestedMode, requestedParams, activeVersion>>

\* processOneBlock without a full block: a heartbeat at most.
IdleBlock ==
  /\ mpc = "block" /\ inFrames < BlockFrames
  /\ mpc' = "mode"
  /\ UNCHANGED <<hostVars, ready, audioRingUsers, discontinuous, appliedRenderModeVersion, ringVars,
                 call, localVars, session>>

\* The block leaves the ring and is sent; stream records which ring generation
\* the service heard last.
SendBlock ==
  /\ mpc = "block" /\ inFrames >= BlockFrames
  /\ inFrames' = inFrames - BlockFrames
  /\ call' = Woken(call)
  /\ discontinuous' = FALSE
  /\ session' = [session EXCEPT !.stream = {appliedRenderModeVersion}]
  /\ mpc' = "await"
  /\ UNCHANGED <<hostVars, ready, audioRingUsers, appliedRenderModeVersion, outFrames, localVars>>

\* AUDIO_OUT, or in realtime AUDIO_SKIP, which is filled with zeros.
ReceiveBlock ==
  /\ mpc = "await"
  /\ outFrames' = Least(RingCapacity, outFrames + BlockFrames)
  /\ call' = Woken(call)
  /\ mpc' = "mode"
  /\ UNCHANGED <<hostVars, ready, audioRingUsers, discontinuous, appliedRenderModeVersion, inFrames,
                 localVars, session>>

\* A refused or lost connection, a rejected update, a missing heartbeat or
\* answer, an engine that was switched off: stopWorker and start over.
ConnectionFails ==
  /\ mpc \in {"launch", "configure", "apply", "block", "await"}
  /\ StopWorker
  /\ mpc' = "loop"
  /\ UNCHANGED <<hostVars, audioRingUsers, discontinuous, appliedRenderModeVersion, ringVars, localVars>>

\* Mutant: a change of mode is looked for only while ready.
ReadModeWhenReady ==
  /\ mpc = "mode"
  /\ requestedMode' = renderModeVersion
  /\ mpc' = IF ready /\ appliedRenderModeVersion # renderModeVersion THEN "lower" ELSE "loop"
  /\ UNCHANGED <<hostVars, ready, audioRingUsers, discontinuous, appliedRenderModeVersion, ringVars,
                 call, launching, requestedParams, activeVersion, activeParameterVersion, session>>

ReadMode ==
  /\ mpc = "mode"
  /\ requestedMode' = renderModeVersion
  /\ mpc' = IF appliedRenderModeVersion # renderModeVersion THEN "lower" ELSE "loop"
  /\ UNCHANGED <<hostVars, ready, audioRingUsers, discontinuous, appliedRenderModeVersion, ringVars,
                 call, launching, requestedParams, activeVersion, activeParameterVersion, session>>

CloseGeneration ==
  /\ mpc = "lower"
  /\ ready' = FALSE
  /\ call' = Woken(call)
  /\ mpc' = "wait"
  /\ UNCHANGED <<hostVars, audioRingUsers, discontinuous, appliedRenderModeVersion, ringVars,
                 localVars, session>>

Connected == \/ OpenSession \/ ConfigureSession \/ ApplyParameters \/ IdleBlock
             \/ SendBlock \/ ReceiveBlock
Management == \/ Exit \/ TurnOff \/ Relaunch \/ KeepSession
              \/ WaitForAudioRingUsers \/ ResetRings \/ PublishMode \/ RaiseReady
              \/ AdoptParameters \/ ReadParameterVersion \/ ReadMode \/ CloseGeneration
              \/ Connected \/ ConnectionFails

----------------------------------------------------------------------------
Init ==
  /\ ready = FALSE /\ audioRingUsers = 0
  /\ renderingOffline = FALSE /\ discontinuous = FALSE
  /\ renderModeVersion = 0 /\ appliedRenderModeVersion = 0
  /\ inFrames = 0 /\ outFrames = 0
  /\ enabled = FALSE /\ stopRequested = FALSE
  /\ shape \in Shapes /\ hot \in Hots
  /\ configVersion = 1 /\ parameterVersion = 1 /\ edit = "none"
  /\ call = [c \in Callbacks |-> Idle]
  /\ mpc = "loop" /\ launching = FALSE
  /\ requestedMode = 0 /\ requestedParams = 0
  /\ activeVersion = 0 /\ activeParameterVersion = 0
  /\ session = NoSession

Next == \/ \E c \in Callbacks : Begin(c) \/ CallStep(c) \/ SpuriousWakeup(c)
        \/ UserInterface
        \/ Management

Spec == Init /\ [][Next]_vars

\* A callback thread runs, a deadline passes, the management thread runs; the
\* service may refuse or drop the connection again and again.
FairSpec == /\ Spec
            /\ \A c \in Callbacks : WF_vars(CallStep(c))
            /\ WF_vars(BumpVersion)
            /\ WF_vars(Management)

----------------------------------------------------------------------------
(* Properties.                                                              *)

TypeOK ==
  /\ ready \in BOOLEAN /\ audioRingUsers \in Nat
  /\ renderingOffline \in BOOLEAN /\ discontinuous \in BOOLEAN
  /\ renderModeVersion \in Nat /\ appliedRenderModeVersion \in Nat
  /\ inFrames \in 0..RingCapacity /\ outFrames \in 0..RingCapacity
  /\ enabled \in BOOLEAN /\ stopRequested \in BOOLEAN
  /\ shape \in Shapes /\ hot \in Hots
  /\ configVersion \in Nat /\ parameterVersion \in Nat
  /\ edit \in {"none", "shape", "hot", "enable"}
  /\ call \in [Callbacks -> [op : Ops, step : Steps, offline : BOOLEAN, mode : Nat]]
  /\ mpc \in MgmtPhases /\ launching \in BOOLEAN
  /\ requestedMode \in Nat /\ requestedParams \in Nat
  /\ activeVersion \in Nat /\ activeParameterVersion \in Nat
  /\ session \in {NoSession} \cup [shape : Shapes, hot : Hots \cup {NoSession}, stream : SUBSET Nat]

\* A callback inside a ring operation, or waiting between two of them.
Inside(c) == \/ call[c].step = "ring"
             \/ call[c].op \in {"space", "output"} /\ call[c].step \in {"eval", "doze", "asleep"}

\* waitForAudioRingUsers: the rings are never reset under a callback that is
\* using them, whatever the callback read before ready was lowered.
RingExclusion == mpc = "reset" => \A c \in Callbacks : ~Inside(c)

\* An offline callback that pushed its input finds its output in the ring, or
\* the management thread has a block to send or to receive: the latency the
\* ring starts with is enough, so only a failing service uses up the deadline.
OfflineSupply ==
  \A c \in Callbacks :
     call[c].op = "output" /\ ready /\ mpc # "await" =>
        inFrames >= BlockFrames \/ outFrames >= HostFrames

\* In an offline render the output is exactly Latency frames behind the input,
\* as SetLatency told the host, unless a call gave up at its deadline.
Current == /\ ready /\ session # NoSession
           /\ appliedRenderModeVersion = renderModeVersion
           /\ \A c \in Callbacks : call[c].op # "mode"
Waiting == {c \in Callbacks : call[c].op = "output"}
OfflineDelayIsLatency ==
  Current /\ renderingOffline =>
     inFrames + outFrames + (IF mpc = "await" THEN BlockFrames ELSE 0)
       = Latency + HostFrames * Cardinality(Waiting)

\* A session that threadMain keeps was opened with the settings in force.
SessionHasShape ==
  mpc \in {"params", "apply", "block", "await", "mode"} /\ edit = "none" /\ configVersion = activeVersion
    => session.shape = shape

\* Once threadMain has caught up with parameterVersion, the service has the
\* hot parameters of the user interface.
SessionHasHotParameters ==
  mpc = "block" /\ edit = "none" /\ activeParameterVersion = parameterVersion => session.hot = hot

\* The first block of a new ring generation on an open session carries the
\* discontinuity flag, so that the engine resets its temporal state.
NewGenerationFlagged ==
  [][SendBlock => session.stream \subseteq {appliedRenderModeVersion} \/ discontinuous]_vars

\* A session, once open, becomes ready in the current render mode, or is lost:
\* no order of a mode change, a reset and a waiting callback leaves the client
\* connected and silent.
ReadyOrLost == session # NoSession ~> (Current \/ session = NoSession)
=============================================================================
