----------------------------- MODULE PymssTasks -----------------------------
(***************************************************************************)
(* The separation tasks of the WebUI (tools/pymss_webui.py).  A click runs  *)
(* as a generator that starts one worker process per attempt and reads its  *)
(* events from a pipe until it is closed; on DirectML a first attempt with  *)
(* FP16 may fall back to a fresh FP32 worker.  A stop button runs in        *)
(* another thread.  PYMSS_WORKER_STATE and its lock hold what they share.   *)
(***************************************************************************)
EXTENDS Naturals, Sequences, FiniteSets

CONSTANTS
  Separations,   \* presses of the start button, each one run of a generator
  PymssStops,    \* presses of the stop button
  Workers,       \* the processes Popen may return
  Attempts,      \* the dtype sequences _dml_model_dtype_attempts may begin with
  NoWorker

ASSUME AttemptsAssumption == Attempts \subseteq {<<"auto">>, <<"float32">>, <<"float16">>, <<"float16", "float32">>}
ASSUME SeparationsAssumption == IsFiniteSet(Separations)
ASSUME NoWorkerAssumption == NoWorker \notin Workers

VARIABLES
  state,      \* PYMSS_WORKER_STATE
  disabled,   \* the model type is in DML_FP16_DISABLED_MODEL_TYPES
  sep,        \* each generator: its position, task id, attempts, worker, outcome
  worker,     \* each process: what it has done and what it said last
  stopper     \* each stop handler: the process it copied, still to kill

pymssVars == <<state, disabled, sep, worker, stopper>>

NoTask == [at |-> "unborn", id |-> 0, attempts |-> <<>>, process |-> NoWorker,
           cancel |-> FALSE, closing |-> FALSE, outcome |-> "none"]
Unstarted == [at |-> "none", id |-> 0, half |-> FALSE,
              said |-> "nothing", code |-> "none"]

PymssInit ==
  /\ state = [id |-> 0, active |-> FALSE, process |-> NoWorker, stop |-> FALSE]
  /\ disabled = FALSE
  /\ sep = [c \in Separations |-> NoTask]
  /\ worker = [w \in Workers |-> Unstarted]
  /\ stopper = [s \in PymssStops |-> [at |-> "unborn", process |-> NoWorker, hit |-> FALSE]]

Running(w) == worker[w].at \in {"load", "file", "leaving"}

\* kill_process_tree does nothing to a process that has ended.
KilledWorker(w) ==
  [v \in Workers |-> IF v = w /\ Running(v)
                     THEN [worker[v] EXCEPT !.at = "ended", !.code = "bad"] ELSE worker[v]]

\* _pymss_task_stop_requested
StopRequested(c) == state.id = sep[c].id /\ state.stop

Ends(c, outcome) == sep' = [sep EXCEPT ![c].at = "finish", ![c].outcome = outcome]

-----------------------------------------------------------------------------
(* pymss_separate and _pymss_worker_events, a generator inside a generator. *)

\* Mutant: the dtypes to try are those of the first task.
BeginSeparationUnaware(c) ==
  /\ sep[c].at = "unborn"
  /\ IF state.active
     THEN /\ sep' = [sep EXCEPT ![c].at = "over", ![c].outcome = "busy"]
          /\ UNCHANGED state
     ELSE /\ state' = [id |-> state.id + 1, active |-> TRUE, process |-> NoWorker, stop |-> FALSE]
          /\ \E attempts \in Attempts :
               sep' = [sep EXCEPT ![c].at = "attempt", ![c].id = state.id + 1, ![c].attempts = attempts]
  /\ UNCHANGED <<disabled, worker, stopper>>

\* _begin_pymss_task, and the dtypes to try.
BeginSeparation(c) ==
  /\ sep[c].at = "unborn"
  /\ IF state.active
     THEN /\ sep' = [sep EXCEPT ![c].at = "over", ![c].outcome = "busy"]
          /\ UNCHANGED state
     ELSE /\ state' = [id |-> state.id + 1, active |-> TRUE, process |-> NoWorker, stop |-> FALSE]
          /\ \E attempts \in Attempts :
               sep' = [sep EXCEPT ![c].at = "attempt", ![c].id = state.id + 1,
                 ![c].attempts = IF disabled /\ Len(attempts) = 2 THEN Tail(attempts) ELSE attempts]
  /\ UNCHANGED <<disabled, worker, stopper>>

\* A stop that came before or between the attempts.
Attempt(c) ==
  /\ sep[c].at = "attempt"
  /\ IF StopRequested(c) THEN Ends(c, "cancelled") ELSE sep' = [sep EXCEPT ![c].at = "start"]
  /\ UNCHANGED <<state, disabled, worker, stopper>>

NewWorkers == {w \in Workers : worker[w].at = "none"}

\* The request is written and Popen called, and either may raise.
StartWorker(c) ==
  /\ sep[c].at = "start"
  /\ \/ /\ ~StopRequested(c)
        /\ \E w \in NewWorkers :
             /\ w = CHOOSE v \in NewWorkers : TRUE
             /\ sep' = [sep EXCEPT ![c].at = "register", ![c].process = w]
             /\ worker' = [worker EXCEPT ![w].at = "load", ![w].id = sep[c].id,
                             ![w].half = Len(sep[c].attempts) = 2]
     \/ Ends(c, IF StopRequested(c) THEN "cancelled" ELSE "failed") /\ UNCHANGED worker
  /\ UNCHANGED <<state, disabled, stopper>>

\* Mutant: the answer of _register_worker is not used.
RegisterWorkerOnly(c) ==
  /\ sep[c].at = "register"
  /\ sep' = [sep EXCEPT ![c].at = "read"]
  /\ state' = [state EXCEPT !.process = sep[c].process]
  /\ UNCHANGED <<disabled, worker, stopper>>

\* _register_worker: a stop that came since Popen kills the worker here.
RegisterWorker(c) ==
  /\ sep[c].at = "register"
  /\ sep' = [sep EXCEPT ![c].at = "read"]
  /\ IF state.id # sep[c].id \/ ~state.active
     THEN worker' = KilledWorker(sep[c].process) /\ UNCHANGED state
     ELSE /\ state' = [state EXCEPT !.process = sep[c].process]
          /\ worker' = IF state.stop THEN KilledWorker(sep[c].process) ELSE worker
  /\ UNCHANGED <<disabled, stopper>>

\* The pipe is at its end and process.wait() returned.
ReadEnds(c) ==
  /\ sep[c].at = "read" /\ ~Running(sep[c].process)
  /\ sep' = [sep EXCEPT ![c].at = "reap"]
  /\ UNCHANGED <<state, disabled, worker, stopper>>

\* The page goes away while the generator is suspended at a yield: GeneratorExit
\* runs the finally blocks of both generators.  External: Gradio.
CloseSeparation(c) ==
  /\ \/ sep[c].at \in {"attempt", "start"} /\ Ends(c, "closed")
     \/ sep[c].at = "read" /\ sep' = [sep EXCEPT ![c].at = "reap", ![c].closing = TRUE]
  /\ UNCHANGED <<state, disabled, worker, stopper>>

\* Mutant: the finally reads the stop and leaves the process.
ReapLeavesWorker(c) ==
  /\ sep[c].at = "reap"
  /\ sep' = [sep EXCEPT ![c].at = "unregister", ![c].cancel = StopRequested(c)]
  /\ UNCHANGED <<state, disabled, worker, stopper>>

\* The finally of _pymss_worker_events reads the stop, then kills what is left.
Reap(c) ==
  /\ sep[c].at = "reap"
  /\ sep' = [sep EXCEPT ![c].at = "kill", ![c].cancel = StopRequested(c)]
  /\ UNCHANGED <<state, disabled, worker, stopper>>

KillRest(c) ==
  /\ sep[c].at = "kill"
  /\ sep' = [sep EXCEPT ![c].at = "unregister"]
  /\ worker' = KilledWorker(sep[c].process)
  /\ UNCHANGED <<state, disabled, stopper>>

\* _unregister_worker
Unregister(c) ==
  /\ sep[c].at = "unregister"
  /\ sep' = [sep EXCEPT ![c].at = "result"]
  /\ state' = IF state.id = sep[c].id /\ state.process = sep[c].process
              THEN [state EXCEPT !.process = NoWorker] ELSE state
  /\ UNCHANGED <<disabled, worker, stopper>>

Fallback(c) ==
  sep' = [sep EXCEPT ![c].at = "attempt", ![c].attempts = Tail(@), ![c].process = NoWorker]

\* Mutant: the return code comes before the stop.
VerdictCodeFirst(c) ==
  LET last == worker[sep[c].process]
  IN  IF sep[c].closing THEN "closed"
      ELSE IF last.said = "done" /\ last.code = "ok" THEN "completed"
      ELSE IF sep[c].cancel \/ (last.said # "fatal" /\ StopRequested(c)) THEN "cancelled" ELSE "failed"

\* The outcome of an attempt that is not followed by another: a closed page or
\* a stop comes first, then a fatal event and the exit code, whose exception
\* asks for the stop once more.
Verdict(c) ==
  LET last == worker[sep[c].process]
  IN  IF sep[c].closing THEN "closed"
      ELSE IF sep[c].cancel THEN "cancelled"
      ELSE IF last.said = "done" /\ last.code = "ok" THEN "completed"
      ELSE IF last.said # "fatal" /\ StopRequested(c) THEN "cancelled" ELSE "failed"

\* What became of the attempt: another one, if the worker asked for it and
\* neither the page was closed nor a stop came, or the end of the task.
Result(c) ==
  /\ sep[c].at = "result"
  /\ IF ~sep[c].closing /\ ~sep[c].cancel /\ worker[sep[c].process].said = "retry"
     THEN Fallback(c) /\ disabled' = TRUE
     ELSE Ends(c, Verdict(c)) /\ UNCHANGED disabled
  /\ UNCHANGED <<state, worker, stopper>>

\* _finish_pymss_task, in the outermost finally; the locals go.
FinishSeparation(c) ==
  /\ sep[c].at = "finish"
  /\ sep' = [sep EXCEPT ![c] = [NoTask EXCEPT !.at = "over", !.id = sep[c].id, !.outcome = sep[c].outcome]]
  /\ state' = IF state.id = sep[c].id
              THEN [state EXCEPT !.active = FALSE, !.process = NoWorker, !.stop = FALSE] ELSE state
  /\ UNCHANGED <<disabled, worker, stopper>>

Separate(c) ==
  \/ Attempt(c) \/ StartWorker(c) \/ RegisterWorker(c) \/ ReadEnds(c)
  \/ Reap(c) \/ KillRest(c) \/ Unregister(c) \/ Result(c) \/ FinishSeparation(c)

-----------------------------------------------------------------------------
(* stop_pymss_separation: the process is copied under the lock and killed   *)
(* after it.  "hit" says whether it ran at that moment.                     *)

StopSeparation(s) ==
  /\ stopper[s].at = "unborn"
  /\ IF ~state.active
     THEN /\ stopper' = [stopper EXCEPT ![s].at = "over"]
          /\ UNCHANGED state
     ELSE /\ state' = [state EXCEPT !.stop = TRUE]
          /\ stopper' = [stopper EXCEPT ![s] =
               [at |-> "kill", process |-> state.process,
                hit |-> state.process # NoWorker /\ Running(state.process)]]
  /\ UNCHANGED <<disabled, sep, worker>>

StopperKills(s) ==
  /\ stopper[s].at = "kill"
  /\ stopper' = [stopper EXCEPT ![s].at = "over"]
  /\ worker' = IF stopper[s].process = NoWorker THEN worker ELSE KilledWorker(stopper[s].process)
  /\ UNCHANGED <<state, disabled, sep>>

-----------------------------------------------------------------------------
(* _pymss_worker_main: load, separate file by file, say how it ended, leave. *)

Says(w, said, code) == worker' = [worker EXCEPT ![w].at = "leaving", ![w].said = said, ![w].code = code]
workerRest == <<state, disabled, sep, stopper>>

WorkerLoads(w) ==
  /\ worker[w].at = "load"
  /\ \/ worker' = [worker EXCEPT ![w].at = "file"]
     \/ worker[w].half /\ Says(w, "retry", "bad")
     \/ Says(w, "fatal", "bad")
  /\ UNCHANGED workerRest

\* Any number of files, each of which succeeds or fails and is counted.  What
\* the handler of a file sees asks for FP32 before the first success, what
\* reaches the outer handler also after it, and is fatal otherwise.
WorkerSeparates(w) ==
  /\ worker[w].at = "file"
  /\ \/ worker[w].half /\ Says(w, "retry", "bad")
     \/ Says(w, "fatal", "bad")
     \/ Says(w, "done", "ok")
  /\ UNCHANGED workerRest

\* The process exits after its last words, or dies without any.
WorkerExits(w) ==
  /\ Running(w)
  /\ worker' = [worker EXCEPT ![w].at = "ended", ![w].code = IF worker[w].at = "leaving" THEN @ ELSE "bad"]
  /\ UNCHANGED workerRest

-----------------------------------------------------------------------------
PymssNext ==
  \/ \E c \in Separations : BeginSeparation(c) \/ Separate(c) \/ CloseSeparation(c)
  \/ \E s \in PymssStops : StopSeparation(s) \/ StopperKills(s)
  \/ \E w \in Workers : WorkerLoads(w) \/ WorkerSeparates(w) \/ WorkerExits(w)

PymssSpec == PymssInit /\ [][PymssNext]_pymssVars

\* Gradio drives a generator until it ends or is dropped, and a stop handler
\* comes to its kill.  A worker may hang: nothing is assumed of it.
PymssFairness ==
  /\ \A c \in Separations : WF_pymssVars(Separate(c))
  /\ \A s \in PymssStops : WF_pymssVars(StopperKills(s))

-----------------------------------------------------------------------------
PymssTypeOK ==
  /\ state \in [id : 0..Cardinality(Separations), active : BOOLEAN,
                process : Workers \cup {NoWorker}, stop : BOOLEAN]
  /\ disabled \in BOOLEAN
  /\ sep \in [Separations ->
       [at : {"unborn", "attempt", "start", "register", "read", "reap", "kill", "unregister",
              "result", "finish", "over"},
        id : 0..Cardinality(Separations), attempts : {<<>>, <<"auto">>, <<"float32">>, <<"float16">>,
        <<"float16", "float32">>}, process : Workers \cup {NoWorker},
        cancel : BOOLEAN, closing : BOOLEAN,
        outcome : {"none", "busy", "completed", "failed", "cancelled", "closed"}]]
  /\ worker \in [Workers ->
       [at : {"none", "load", "file", "leaving", "ended"}, id : 0..Cardinality(Separations),
        half : BOOLEAN, said : {"nothing", "retry", "fatal", "done"}, code : {"none", "ok", "bad"}]]
  /\ stopper \in [PymssStops ->
       [at : {"unborn", "kill", "over"}, process : Workers \cup {NoWorker}, hit : BOOLEAN]]

\* A worker runs only while the task that started it is the active one, in
\* whatever way the task ends: completed, stopped at any step, failed, or with
\* its page closed.  In particular no two workers run at once.
NoWorkerOutlivesTask ==
  \A w \in Workers : Running(w) =>
    /\ state.active /\ state.id = worker[w].id
    /\ \E c \in Separations : sep[c].id = worker[w].id /\ sep[c].process = w /\ sep[c].at # "over"

\* A task whose worker ran when the stop was pressed is reported as stopped,
\* also when the worker finished or asked for its fallback just then.
StoppedWorkerIsCancelled ==
  \A s \in PymssStops, c \in Separations :
    stopper[s].hit /\ sep[c].id = worker[stopper[s].process].id /\ sep[c].at = "over"
      => sep[c].outcome \in {"cancelled", "closed"}

\* "Request one retry in a fresh DirectML FP32 worker" (DMLFP16Fallback): once
\* FP16 failed for the model, no worker that could ask for FP32 is started any
\* more, neither by the task that met it nor by any that begins later.
FallbackIsRemembered ==
  [][\A w \in Workers : worker[w].at = "none" /\ worker'[w].half => ~disabled]_pymssVars

\* A stop frees the page for the next task, although the worker may hang and
\* the stop may come at any step of the generator.
StopFreesPage ==
  (state.active /\ state.stop) ~> ~(state.active /\ state.stop)
=============================================================================
