# TLA+ models and proofs for the RVC WebUI

The repository is the Retrieval-based Voice Conversion WebUI with a realtime
path of its own: an Audio Unit plug-in (C++) that streams the host's audio over
TCP to a Python service (RSVC) which owns the conversion engine. Most of the
code by lines is numeric (models, training, separation) or interface, which a
model checker has nothing to say about. What is concurrent, and hard to test, is
the chain from the host callback to the engine, the programs that keep that
chain alive, and the tasks, workers and server the WebUI runs its numeric code
in. These modules model that part.

Paths below are relative to `src/`.

## The system

```
 host callbacks ──> SPSC rings ──> management thread ──TCP──> gateway ──TCP──> RSVC session ──> engine
   (ProcessBlock)   WorkerClient (RVCRealtime/src)          (WebUI process)   (runner process)
                                                              ▲                 ▲
     AU panel ──HTTP──> control page, Bonjour ── select ──────┘                 │ spawns, probes, kills
                                                  WebUI ── runtime supervisor ──┘
                                                    │
             start and stop buttons ──> training subprocesses ──> checkpoints G/D
                                    └─> PyMSS worker process
 HTTP clients ──> PyMSS server (event loop, model slot, limiter) ──> threads: separate, load, download
```

| Component | Where | State it keeps | Operations | Modelled |
|---|---|---|---|---|
| RSVC session service | `rvc_runtime_service.py` | per session: queue and semaphore of `MAX_IN_FLIGHT`, send lock, `SessionConfigState`, the engine's buffers | HELLO, SESSION_OPEN, AUDIO_IN, CONFIG_UPDATE, HEARTBEAT, CLOSE; `_run_inference` | partly |
| Audio Unit stream client | `RVCRealtime/src/WorkerClient_stream_mac.cpp`, `WorkerClient.hpp`, `RVCRealtime.cpp` | `ready`, `audioRingUsers`, two rings, versions of settings, parameters and render mode, the connection | `ProcessBlock` (push/pop, `processOffline`), setters, `threadMain` with `launchWorker`, `processOneBlock`, `stopWorker` | yes |
| RSVC gateway | `rvc_runtime_gateway.py` | target and route generation, session count and socket table | start, stop, select, `_forward`, `_pump` | yes |
| Runtime control page | `rvc_runtime_control.py` | selected choice | start, stop, select, snapshot over HTTP and Gradio | yes |
| Bonjour directory | `rvc_runtime_bonjour.py` | discovered services, two dns-sd processes | browse, resolve | partly |
| AU control client | `RVCRealtime/src/RuntimeControlClient_mac.cpp` | what the panel shows | select with its timeout | partly |
| Runtime supervisor | `rvc_runtime_supervisor.py` | runner process, engine configuration, state, start times | start, `ensure_running`, monitor, `configure_engine`, stop | yes |
| WebUI runtime lifecycle | `webui.py` (main block, `configure_rvc_runtime`), `rvc_runtime_lifecycle.py` | pending and live configuration files | start and stop in order, SIGTERM as KeyboardInterrupt | partly |
| Training tasks | `webui.py`, `tools/process_utils.py` | `TRAIN_TASK` and its subprocesses | the five tasks, stop, kill, a page that is closed | yes |
| Training checkpoints | `train/train.py`, `train/utils.py` | files G and D of one experiment | resume, save, exit, being killed | partly |
| PyMSS tasks | `tools/pymss_webui.py` | `PYMSS_WORKER_STATE`, task id, worker process | start, the FP16 fallback, stop | yes |
| PyMSS HTTP server | `tools/pymss/server/` | loaded model, four locks, request limiter | separation, model load and switch, download | partly |
| PyMSS model download | `tools/pymss/model_download.py` | the model file and its `.part` | `download_model` with either downloader | partly |
| SPSC ring | `RVCRealtime/src/SpscRing.hpp` | head, tail, buffer | push, pop, `resetUnsafe` | as fill levels |
| Wire protocol, engine, legacy clients, PyMSS command line, models, desktop GUI, texts | see "Not modelled" | | | no |

### How the parts interact

* The service runs two threads per session. `serve_client` reads frames and
  answers heartbeats, updates and refused blocks itself; accepted blocks go
  through a bounded queue, with a semaphore taken without waiting, to
  `_run_inference`, which answers with AUDIO_OUT. A send lock keeps frames whole.
* The client's host callbacks share lock-free rings with one management thread.
  `ready` and `audioRingUsers` keep `resetUnsafe` away from push and pop.
  In an offline render a callback may wait on `offlineCv_`; the management
  thread notifies without the mutex.
* Settings are atomics plus version counters: the user interface stores a value,
  then bumps a version; the management thread reads versions and values at its
  own time.
* The gateway stands between the plug-in's fixed endpoint and the selected
  runtime. `select()` bumps the generation under the lock and shuts down the
  registered sockets after it; the plug-in reconnects. The control page resolves
  a choice, changes the route and then its label, in as many threads as there
  are requests, while the panel waits for its answer only so long.
* The supervisor's monitor, the main thread and the threads that apply a
  configuration serialise on one lock, but the port they probe, the runner and
  strangers on the port move at any time.
* A click on the training or separation tab is a generator that starts processes
  and polls them, or reads their events; a stop button is another thread; the
  page may be closed, which ends the generator at a yield. They share one global
  and its lock. A training subprocess, killed at any point, leaves its
  checkpoints to the next one.
* The handlers of the PyMSS server are coroutines; what they await runs in
  threads that go on when a handler stops waiting. Downloads share the file
  system with any other process.

### What is hard

Two threads answering one socket; a block that waits while the configuration
changes; a semaphore released after the answer left; a thread that dies while
its peer thread goes on; a reset under a late callback; a change of settings at
any point of a relaunch; offline waits with lost wakeups and deadlines; route
changes at any point of a connection; answers nobody waits for any more; a join
with a timeout; SIGTERM between two lines; a stop between `Popen` and the
registration of its process; a kill between two checkpoint files; a timeout that
leaves its thread on the model; two downloads of one file. `PROJECT.json` lists
these hazards at their lines with the properties that would catch each one going
wrong.

### What makes each part correct

* Session: the queue always has room for an accepted block; no more than
  `MAX_IN_FLIGHT` blocks are held; each block is answered once and in order, with
  the configuration of its own place in the stream, on buffers of its own
  stream; heartbeats do not wait for the engine; both threads end.
* Client: rings are reset alone; an offline call's output is always on its way
  and exactly one latency late; a kept session has the settings in force; a new
  ring generation is flagged; an opened session becomes ready or is lost.
* Gateway and control page: the session count is exact; a connection of the
  current generation goes to the current target; no byte of an old route passes
  once `select()` returned; old sessions close although nobody speaks; label and
  route are of the last selections.
* Supervisor: no runner that nobody holds; the runner has the configuration in
  force; the stream comes back after failures; `stop()` returns.
* Tasks: a stop reaches every process of its task, also the one just being
  created, and the task ends; a process outlives its task only by a failure; the
  outcome shown for a stopped task is "cancelled"; an FP16 that failed is not tried
  again.
* Checkpoints: the pair a training resumes from is of one save or of neighbouring
  ones; a training that comes to its end leaves its last save to continue from,
  whatever an earlier stop had cut.
* PyMSS server: one awaited request on a separator at a time, on an open model;
  locks, flag and limiter agree with the requests under way; a verified file is
  installed whole; every request is answered.

## Modules

| Module | Models | Checked by | Proved in |
|---|---|---|---|
| `RsvcSession` | one session of the service with its peer | session runs | `RsvcSession_proofs` |
| `WorkerClient` | the plug-in's client, callbacks to management thread | client runs | `WorkerClient_proofs` |
| `RsvcGateway` | the gateway and its connections | through `RuntimeControl` | `RsvcGateway_proofs` |
| `RuntimeControl` | extends `RsvcGateway`: control page, directory, panel | control runs, as `MCRuntimeControl` | `RuntimeControl_proofs` |
| `RuntimeSupervisor` | supervisor, its threads, runner, port, SIGTERM | supervisor runs | `RuntimeSupervisor_proofs` |
| `TrainTasks` | the training tab: clicks, stops, subprocesses | `webui_tasks` | `TrainTasks_proofs` |
| `TrainCheckpoints` | extends `TrainTasks`: what a training subprocess reads and writes | `webui_tasks` | `TrainTasks_proofs` |
| `PymssTasks` | the separation tab | `webui_tasks`, as `MCWebuiTasks` | `PymssTasks_proofs` |
| `ModelDownload` | installing one model file | through `PymssServer` | `PymssServer_proofs` |
| `PymssServer` | extends `ModelDownload`: the HTTP server | `pymss_server` | `PymssServer_proofs` |
| `InOrderService` | abstract: blocks converted in order, a bounded number held | refined by `RsvcSession` | `RsvcSession_proofs` |
| `ModelSlot` | abstract: one model, used by one request at a time | refined by `PymssServer` | `PymssServer_proofs` |

The operators with a "Mutant:" comment are variants of the action
below them, with one plausible slip each; none is part of a specification. They
document what each property is sensitive to: with the variant in the action's
place, the property fails.

### RsvcSession

`serve` is the place of `serve_client` (`hello`, `open`, `recv`, `send`,
`finally`, `closed`), `infer` that of `_run_inference` (`off`, `get`, `process`,
`send`, `release`, `dying`, `exit`; `dying` is the way to the finally with
an exception or a failed send). One action per branch of the read loop, and
sending is two steps for each thread: taking the send lock, and `sendall`,
which may fail after part of a frame when the peer stopped reading or left.
Frames keep the fields the properties tell apart: sequence number, payload
value of an update, discontinuity flag. `epoch` counts the streams the
peer started with that flag and `memory` says which of them the engine's
buffers hold; `engine.process` itself does nothing else. `ApplyStatus` is
`SessionConfigState.apply`. The peer follows the handshake as the plug-in does
and is otherwise free: any number of blocks up to `Window` unanswered, updates
with any sequence number, a frame the service refuses (`BAD`), silence, an end.
A receive timeout may happen whenever no frame waits.

`InOrderService` says what a session is to its peer, without threads, queue or
semaphore: blocks are accepted or refused in order of their numbers, those accepted
are converted from the front with the setting of their acceptance, and a failure ends
the conversion. `RsvcSession!Service` maps the block in hand and the queue (without
None) to what is held.

### WorkerClient

The rings are fill levels. A callback is a record of where it is: `op` is the
operation (`mode`, `enter`, `push`, `pop`, or the three offline waits `ready`,
`space`, `output`), `step` the place in it. Each atomic access that another
thread can tell apart is a step: the load of `ready`, `fetch_add`, the second
load, the ring operation with its `fetch_sub`. A wait evaluates its predicate,
dozes, is asleep, so a notification between test and sleep is lost; a sleeper
wakes by a notification, spuriously, or at its deadline. `mpc` is the place of
`threadMain`, with `launchWorker` unfolded into opening the session, sending
the parameters, the wait for `audioRingUsers = 0`, the reset, publishing the
mode and raising `ready`; the same wait and reset serve a change of mode,
told apart by `launching`. Everything the service does with a connection is
`OpenSession`, `ConfigureSession`, `ApplyParameters`, `SendBlock`,
`ReceiveBlock` or `ConnectionFails`. `session` is what the service knows: the
settings of SESSION_OPEN, the parameters last sent, the ring generation last
heard. Settings are one value (`shape`: rate, block, crossfade, context, paths)
and hot parameters another (`hot`). `offlineMutex_` is left out: with
several callbacks, which the proofs cover, its absence only adds interleavings.

### RsvcGateway and RuntimeControl

`sess[s].phase` follows a connection from the backlog through `_accept_loop`
(`accepted`, then `routed` with target and generation), `_forward` (`connecting`,
`connected`, `pump`, `leave`) to `closed`; `pump[s]` holds its two `_pump`
loops. `activeSockets` is the table, `pending[x]` the copy of it that a
`select()` or `stop()` under way has still to shut down, `dead` the sockets
shut down or closed, `eof` the ones whose remote end finished. Bytes are not
interpreted. `stop()` and `start()` may alternate.

`RuntimeControl` puts the callers of `select()` around it. `sel[x]` is a request
thread: `find` looks the choice up in `services`, `resolve` is the three seconds
of `dns-sd -L`, `route` the call of the gateway's `select()`, `label` what
follows it under the page's own lock, `probe` the snapshot of the answer. The
browser adds and removes a service at any time; the panel (`panel`) awaits one
thread and may stop doing so. A target is the choice it was resolved for with an
address, so that the route can be compared with the label. `recent` is history:
the choices of the selections that overlapped last between route and label, or of
the last one alone. `MCRuntimeControl` splits the
exploration for TLC: selections of every kind while there is no connection, and
plain selections around connections in every phase.

### RuntimeSupervisor

`pc[t]` is the place of each thread: main (start, poll, up, join, stop), the
monitor and the editors (threads inside `configure_engine`). The probe and the
decision based on it are separate steps under `_operation_lock`. A runner process
is `starting`, `serving`, `dying` (terminated, to be killed if need be) or
`exited`; a runner that finds the port taken exits. `stranger` is another
program on the port: a compatible service, an incompatible one, or one that
accepts and closes. `starts` counts the starts within the restart window.
SIGTERM while `start()` runs (`Interrupted`) ends the WebUI without `stop()`;
later it leads to `StopBegins`.

### TrainTasks and TrainCheckpoints

A click is one run of a generator: `click[c]` is its state dictionary with the
place it has reached (`spawn`, `register`, `wait`, `drained`, `finish`).
`Popen` and the registration that follows it under the lock are two steps, and
so are the list a stop copies under the lock and the kills after it. `plan` is
the sequence of stages that are left, one for each of the four plain tasks and
all of them for the one-click task. A stage may raise wherever the code reads or
writes files, and a page may be closed at the yields, nowhere else.

`TrainCheckpoints` adds the training subprocess: `files` are the slots of G and
D on disk, `Torn` the content between `open` and the end of `torch.save`.
`Resume` is `run()` with `latest_checkpoint_path`, which takes the file of the
largest number (2333333 above all others). A process that ends, by whatever way,
loses `trainer` and leaves `files`. `mixed` is history, not state of the program:
two trainings have met in the slot of 2333333, because one that began anew, after a
stop had cut G, found the D of an earlier one there, or because a training of
another task still ran. Numbered files have no such past: every number has its own.
`together` remembers, for either kind, that two trainings ran at once. A slot stands
for a value of `global_step`: after a resume it is computed from the epoch
(`train.py:262`), so that file numbers follow the epochs as long as the data and the
batch size stay the same, which the model assumes.

### PymssTasks

`pymss_separate` and `_pymss_worker_events` are one program of nine places; the
two finally blocks are `reap`, `kill`, `unregister` and `finish`. `state` is
`PYMSS_WORKER_STATE` with the task id every function compares. A worker loads,
separates any number of files, and may ask for a second attempt in FP32: the handler
of a file does so before the first success, the outer one (line 700) also after it,
so that finished files may be separated once more. It may hang or die anywhere. `stopper[s].hit` remembers
whether the stopped process was running.

### PymssServer, ModelDownload and ModelSlot

What a coroutine does between two awaits is one action: `Separate`, `Load` and
`Download` up to the first await with their 409, 429 and 503 answers, `Enter`
after the inference lock, `Unload` and `Closed` around the old model,
`Resolve` and `Create` for the new one, `Downloaded`. `inference` is the FIFO of
the asyncio lock. `thread[r]` is the separation thread, which `TimeOut` leaves
running. A separator is named after the request that created it. The server starts with a
model loaded; a load that failed leaves it without. In
`ModelDownload` a call goes through `Open`, `WriteEnds`, `Validate` and `Replace`,
and a handle (`into`) follows its file over a rename, so that a second downloader
can write into the installed file. `ModelSlot` says what this amounts to for a
user of the model, and `PymssServer!Slot` maps the server to it.

## Runs

| Run | Module | Result | Question |
|---|---|---|---|
| `session_safety` | `RsvcSession` | pass | Queue, semaphore, answers, engine buffers and the configuration of each block, with an engine that raises and a peer that stalls, leaves or breaks the protocol; the refinement of `InOrderService` |
| `session_live` | `RsvcSession` | pass | Heartbeats during inference, answers, end of both threads |
| `session_v_ends` | `RsvcSession` | violation of `SessionEnds` | The same with one more unanswered block |
| `client_offline` | `WorkerClient` | pass | Supply, exact delay, flag and settings over mode changes and relaunches |
| `client_ready` | `WorkerClient` | pass | Reset against push, pop and offline waits; from an open session to `ready` |
| `client_v_hot` | `WorkerClient` | violation of `SessionHasHotParameters` | A parameter changed during `launchWorker` |
| `control_route` | `MCRuntimeControl` | pass | Table, count, routes, stale bytes, label, with selections of the panel and the WebUI around connections; old sessions close |
| `control_v_panel` | `MCRuntimeControl` | violation of `PanelShowsSelection` | A selection whose panel stopped waiting |
| `supervisor_runs` | `RuntimeSupervisor` | pass | Ownership, configuration, recovery, end |
| `supervisor_v_stopped` | `RuntimeSupervisor` | violation of `StoppedHasNoRunner` | The monitor after `stop()` |
| `webui_tasks` | `MCWebuiTasks` | pass | Stop at every step of both tabs, orphans, checkpoints after a kill and after a training that ended, the FP16 fallback |
| `pymss_server` | `PymssServer` | pass | Separations, switches and downloads with timeouts, a full queue and a second process; the refinement of `ModelSlot` |

### Bounds

* Session: `MaxInFlight` is 2, the smallest with an order in the queue. Three
  blocks with a window of four fill queue and slots and overrun them by one (or
  while a slot waits for its release), which reaches a skip before, between and
  after answers; two updates out of two values and an invalid one, with sequence
  numbers that may be stale, repeated or rising, fall on both sides of each
  block. `session_live` keeps the window at `MaxInFlight`, the limit that
  SESSION_ACCEPT tells the peer; the violation run has a window of 3.
* Client: `client_offline` has host blocks of 2 frames against session blocks of
  3, so that every phase between the two occurs; a latency of two session blocks,
  a ring of more than both; two mode changes, so that an offline generation
  follows another; two settings. Deadlines do not expire there: a call that gives
  up shifts the delay by design. In `client_ready` they do, with one mode change
  and two edits among switch and hot parameters. Both have one callback; with two
  the run is too long, and `RingExclusion`, which is about a count of callbacks,
  is proved for any number.
* Control: one connection, two selecting threads (one of them the panel's), two
  selections among local, own and one remote runtime, one lost end: a generation
  becomes old twice and the copied lists overlap. The gateway's safety properties
  are proved for any numbers, with the control page around it or without.
* Supervisor: two process identities (a living and a leaving one), a limit of
  two starts, two failures, one stranger of three kinds, two configurations:
  enough to reach the limit, a refused start and recovery, and to have each pair of
  the three threads at the lock.
* Tasks: two clicks, so that one meets the other's task; one stop; two
  subprocesses; the training task and feature extraction, whose last stage is
  split in two, so that a stop falls between the registrations. Four epochs with
  every second one saved, so that a training has two saves and an epoch without
  one before each, by number or as latest: the second training may find no file, a
  cut one, one pair, a pair with a newer G, or two pairs. On the other tab two
  separations, two workers, one stop, a first attempt in FP16. A behaviour uses
  one tab, as they share no variable.
* PyMSS server: three requests of any kind with a limit of two, so that one is
  refused and two queue behind each other or behind a switch; one retry of a
  download; a command line that fetches the same file.

Every bound is a constant whose declaration says so, or the operator `MCBound`.
`CHECK_DEADLOCK FALSE` is set everywhere, because every one of these programs may
stop: a session is closed, the client destroyed, the gateway idle, the WebUI
ended, the buttons pressed and the requests answered.

### Fairness

* Session: both threads keep running, and `sendall` returns or times out (the
  socket has a timeout). Whether `engine.process` returns is not assumed; the
  two properties that need it say so (`EngineReturns`). The receive timeout
  is not forced: heartbeats put it off.
* Client: callbacks and the management thread run, deadlines pass, a version
  bump follows its store. `ConnectionFails` is part of the management thread's
  fairness only as one of its alternatives: the service may fail every time.
* Gateway: `_forward` goes on (connecting has a timeout), shutdowns go through,
  a pump that can end does. Nothing is assumed of the peers, nor of the
  directory or of anyone who selects.
* Supervisor: each thread runs, a spawned process binds or exits, a terminated
  one exits, the window of starts passes. Nobody has to stop the WebUI.
  `Recovers` is stated for runs in which nobody stops it and strangers leave.
* Tasks: a generator that is neither dropped nor waiting goes on, a stop handler
  kills what it copied. A subprocess or worker may hang for ever.
* PyMSS server: the event loop resumes what can go on, separations that are
  awaited and the server's own downloads end. A separation that timed out may run
  for ever, and nothing is assumed of the other process.

## What is proved

TLAPS checks these for every value of the constants, from the assumptions
declared with them (`MaxInFlight` is positive and `NoItem` no item; callbacks,
connections, processes and requests are finitely many where they are counted,
frame counts are natural; a latency is at least one block of the session and fits
the ring with a host block, which the service and the plug-in see to: the latency it
answers is twice the block, the rings hold 2^20 frames; the kinds of tasks are the
five the tab has; special values such as `None` are no members of the sets they
stand beside).

* `RsvcSession_proofs`. `TypesCorrect` and `RoomInQueue` from `IInv`:
  `QueueHasRoom` says nothing of slots in use, so `SlotsAccounted` (free slots,
  queued blocks and the block in hand make up `MaxInFlight`, while the inference
  thread has not lost one), `SentinelLast` (None is queued once, last, after the
  read loop ended) and `InHand` (a phase that works has an item) are added. That
  `slots` stays within its type is the guarantee that the bounded semaphore never
  raises ValueError.
  `AnswersInOrder`, `StreamFollowed` and `ConfigOfReceipt` from `SInv`, which
  traces a block from the peer's end through the queue to its answer: `Numbered`
  and `Epochs` for what the peer wrote, `ConfigCurrent` for the accepted update,
  and in `Debts` that each block owed is in exactly one place (`Traced`), that the
  queue is in the peer's order and behind what was answered (`Ordered`), that a
  skip concerns another block (`SkipsApart`), and that a stream's blocks in the
  queue follow from what the engine holds (`Chain`, `LastRead`). `BoundInFlight`
  counts: an unanswered block has a place of its own in the queue or in hand, and
  `SlotsAccounted` bounds those (`OwedHavePlaces`).
  `ImplementsService` is the step simulation of `InOrderService`. Its mapping cuts
  None off the queue and puts the block in hand in front, so one lemma gives what is
  held as a row (`HoldingIsRow`), and one for each action how the row moves: a get
  leaves it, an answer or a failure takes its head (`HandIsHead`), an acceptance
  appends. That a block is refused only with `MaxInFlight` - 1 or more held is
  `SlotsAccounted` again: the one slot that may be missing is that of the block
  answered last. `MaxAudio`, a bound of the model, only has to be a natural number.
* `WorkerClient_proofs!TypesCorrect`, `RingsExclusive`, `ShapeInForce`,
  `GenerationsFlagged`. The invariant counts:
  `UsersCounted` (`audioRingUsers` is the number of callbacks between their
  `fetch_add` and `fetch_sub`), `NotReady` (while the management thread waits or
  resets, `ready` is low, so a callback that joins leaves again at its second
  look), `OnlyOfflineWaits` and `SessionOpen` for the types. A callback's step
  is treated by how it moves one user (`MoveKeeps`); the step into the rings
  needs `ready`, which is low in `reset`, and the step of the management thread
  into `reset` needs a count of zero. It holds for any number of callbacks at
  any place, so also without `offlineMutex_`. The last two rest on `SessionInv`:
  `ShapeKept` (a store the session has not seen is either still owed to
  `configVersion_` or counted in it beyond the version adopted) and `Heard` (what
  the service heard belongs to the generation of the rings or the next block is
  flagged; a session that launches heard nothing).
  `OfflineSupplied` and `DelayIsLatency` are about the arithmetic of two block sizes
  that need not divide each other, and hold for any. They assume `OneCall`, a host
  that makes one call of `ProcessBlock` at a time, as in the runs. `RenderInv` says that the places of a call and of the management
  thread go together (`InTurn`), what the rings hold of each mode (`Filled`), and
  that in an offline generation what lies in both rings and with the service
  amounts to the latency, and to a host block more while a call waits for its output
  (`Level`: at least so much, and exactly so much as long as no call gave up at its
  deadline). A call that waits for output in vain would leave less than a host
  block in the output ring and less than a session block in the other, which
  together are less than `Level` has. The supply holds with deadlines, the
  exact delay without (`~MayExpire`).
* `RsvcGateway_proofs!TypesCorrect`, `CountExact`, `RouteCurrent`, `StaleDoomed`,
  `NothingStale`. `TableExact` says which phase has which socket in the table;
  with it `select()`, which copies the table, is known to have both sockets of
  every connection that pumps. `RouteKept` covers connections that are routed
  and not yet registered, and says that no connection is ahead of the
  generation, so that a `select()` makes all of them old. `PumpsKept` is for the
  upload pump that outlives `_forward` after a join that gave up: its sockets are
  closed. Every step of a connection is treated by how it moves that connection
  in and out of the table (`MovesKeep`, on cardinalities). `NothingStale` follows
  from the invariant: a `sendall` that succeeds has a destination that is not
  shut down, so it is still in a list (`ForwardIsSend`).
* `RuntimeControl_proofs`. `ControlImplementsGateway`: a step of the page is a step
  of the gateway or a stutter, so that the gateway's theorems hold under it
  (`ControlKeepsGateway`). `LabelOfRoute`: the route and every thread that is
  about to store a label are of `recent` (`OfRecent`), and so is the label once there
  is no such thread. `LabelOfAlone` says what follows for a selection that overlapped
  with none: label and route are its own.
* `RuntimeSupervisor_proofs!TypesCorrect`, `NoRunnerLost`, `ConfigInForce`. A
  runner may be unowned while the thread that spawned or terminates it is at
  work, so the invariant ties these moments to the lock: `Locked` (one thread is
  between acquiring and releasing), `Places` (what main and monitor may be doing),
  `Starting` and `Reaping` (what the holder has in hand), then the two properties.
* `TrainTasks_proofs!StopReachesChildren`, `OrphansExplained`. A child of a task is
  registered, in the hands of the generator that has just created it, in a list
  some stop has still to kill, or over; a stop between `Popen` and the
  registration is seen by the latter. `TypesCorrect` needs `Planned`: a click that
  works has a stage left to do.
* `TrainTasks_proofs!EndRepairs` and `ResumesNearPair` are about trainings that pass one
  `if_latest` and one `save_every_epoch` (`Alike`; the continuation that
  `docs/cn/faq.md` describes is a click with the same parameters), any number of them,
  of epochs and of stops. `EndRepairs` rests on `Repairs`: every file holds an epoch
  that ends with a save, or was cut (`Saved`), so a training begins no later than its
  last save; and a training that runs alone and is past that save has left both files
  of it whole (`Ended`). No file has a larger number, so the next training goes on from
  them.
  `ResumesNearPair` holds also with trainings that run at once. There are two
  invariants. For numbered files
  (`Numbered`), a file is cut or holds the epoch of its name, a D has its G, and a
  G has every pair before it, as has every training the pairs before its epoch. For 2333333 (`InPlace`), as long as trainings
  are not `mixed`, one training at a time has the slot, and where it is in
  its save says how far G may be ahead of D.
* `PymssTasks_proofs!PymssTypesCorrect`, `WorkersOfActiveTask`, `StopIsTheOutcome`,
  `OneFallback`. The task id is never reused and belongs to one generator, so a
  late step of an old task changes nothing of the new one; the stop of an active
  task stays until the outcome is chosen. That the id stays below the number of
  clicks is a count (`Counted`: it is the number of clicks that began). `OneFallback` is
  a property of steps: only the start of a worker lets it ask for FP32 (`OnlyStarts`),
  and a task that would allow it began before FP16 failed (`Hopeful`).
* `PymssServer_proofs!StateExact`, `OneOnSeparator`, `OpenServes`, `FilesWhole`,
  `ImplementsSlot`. The head of `inference` is the one request that runs or
  closes, which gives exclusion and, with `StateFollowsRequests`, the step
  simulation of `ModelSlot`. `FilesWhole` holds because the two locks leave at
  most one downloader of the server.

Only model-checked are the liveness properties (`HeartbeatAnswered`,
`AudioAnswered`, `SessionEnds`, `ReadyOrLost`, `OldSessionsClose`, `Recovers`,
`StopComesBack`, `StopEndsTask`, `StopFreesPage`, `EveryRequestAnswered`): they follow
from fairness, which is about ENABLED, and the provers have no rules for that.
Every other property of a passing run is a theorem, the two refinements included. Two of the theorems have
a hypothesis the properties do not mention, given above: `OneCall`, and `Alike`.

## What the runs found

* `session_v_ends`: an exception of `engine.process` ends the inference thread
  only. The read loop accepts blocks into the queue until it is full; its finally
  then waits for ever in `requests.put(None)`, and the socket is not closed. With a
  peer that keeps to `max_in_flight` unanswered blocks there is room for None,
  and both threads end (`session_live`).
* `client_v_hot`: `launchWorker` sends the parameters, `threadMain` adopts
  `parameterVersion_` afterwards. A change in between counts as applied and is
  sent only with the next change.
* `supervisor_v_stopped`: `stop()` joins the monitor with a timeout. When
  `configure_engine` holds the lock longer, the waiting monitor (or a waiting
  `configure_engine`) takes it after `stop()` and spawns a runner that nobody
  stops.
* `control_v_panel`: the panel gives a selection 350 ms, resolving a remote
  runtime takes three seconds. It reports a failure, and the selection lands
  later, in the place of one that the panel shows by then.

Remarks that narrow what the passing runs show:

* `EngineFollowsStream` excepts a stream whose flagged block was skipped: the
  service drops the flag with the block. A skip may also meet a peer with exactly
  `max_in_flight` blocks unanswered, when the slot of the one just answered is not
  yet free. The plug-in waits for each answer and meets neither.
* `LabelNamesRoute` lets selections that overlap between route and label leave the
  label of one beside the route of the other, as nothing in `select()` orders them; an
  older selection it does not allow. The case occurs in `control_route`.
* A stop inside the save of G leaves a torn file, and the next training starts
  from epoch 1 although whole pairs are there, and so does every one after it
  until the file is written anew, which a training that runs to its end has done
  (`FinishedTrainingRepairs`).
  `docs/cn/faq.md:79-81` promises that the same click continues: the code does not
  keep that for a stop inside a save, and the model shows it (`Resumes` is false with
  a whole pair on disk); no run of its own is spent on it. A stop before D leaves G one
  save ahead. A file 2333333
  from a training with "save only the latest" outranks numbered ones however old
  it is. `PairWithinOneSave` excepts `mixed` trainings: after a torn G, the
  next training with "save only the latest" starts over, and a stop between its
  first G and D leaves the new G beside the D of the old training. Its
  theorem is for trainings that save alike: a change of the interval or of "save
  only the latest" between two trainings may leave an old G under the largest
  number beside a newer D.
* `SeparatorExclusive` excepts the threads of requests that were answered 504:
  they may work on a separator beside the next request, or after it was closed.
* `InstalledWhole` excepts a second process that fetches the same file: its
  handle may truncate a `.part` that is renamed over the model.
* A worker of the separation tab that fails outside the handler of a file, after some
  were done, is answered by the same fallback, which separates the whole list again.
  The test of `successful_files` (`pymss_webui.py:648`) is inside the loop only; no
  text promises that a file is separated once, so no property says so.
  `FallbackIsRemembered` bounds the repetition to one.
* The branch of `_register_worker` for a task that is no longer the active one is
  never taken.

## What is not modelled

* The numeric code: models, training steps, separation models, the realtime
  engine's conversion. Nothing about it is a matter of states and steps; that its
  buffers follow one stream is `EngineFollowsStream`. With the interface code and
  its texts this is most of the repository, which is why the mapped lines are a
  small share of it.
* The desktop GUI (`realtime_gui.py`): widgets and one callback of sounddevice,
  with no thread of its own logic beside it.
* The wire protocol: pure packing and unpacking of fixed layouts; the modules use
  its frame types.
* The inside of `SpscRing`: what could go wrong there is the memory order of two
  atomics. `WorkerClient` takes it as a fill level.
* The shared-memory clients and their worker loop: an older transport, off in the
  default build.
* The service's handshake contents, health endpoint and session ids; the pending
  configuration file of the WebUI; a second SIGTERM during `stop()`; starting and
  stopping dns-sd and the advertiser; the panel's list of services.
* The other ranks of a training on several GPUs, which show only in the exit code;
  the preparation stages' own work.
* Of the PyMSS server the change of the download source, which takes the download
  lock for a moment, and the read-only endpoints; the index request, which is the
  choice whether a call verifies. The command line is sequential; as a second
  downloader it is `Foreign`.

## Plan

1. (done) `RsvcSession`, `WorkerClient`, `RsvcGateway`, `RuntimeSupervisor`;
   `RuntimeControl` composed with the gateway; the tasks of the WebUI with their
   checkpoints; the PyMSS server with its downloads, refining `ModelSlot`; the
   proofs above.
2. `SpscRing`: load and store orders inside push and pop; an abstract FIFO as
   specification, and the ring as its implementation.
3. Gateway and supervisor composed: what the plug-in sees while the runner is
   replaced behind an unchanged route.
4. The pending configuration file, with the crash between writing and renaming it.

## Running

`tlc -config <run>.cfg <module>.tla` for the runs: the file is named after the
module (`RsvcSession_live.cfg`), `RuntimeControl_*.cfg` goes with
`MCRuntimeControl.tla` and `WebuiTasks_runs.cfg` with `MCWebuiTasks.tla`.
`tlapm <module>_proofs.tla` checks the proofs.
