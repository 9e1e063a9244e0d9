----------------------------- MODULE TrainTasks -----------------------------
(***************************************************************************)
(* The training tasks of the WebUI (webui.py): preprocessing, feature      *)
(* extraction, model training, index training and the one-click task that  *)
(* chains them.  Each click runs as a Gradio generator that starts         *)
(* subprocesses and polls them; a stop button runs in another thread.  One *)
(* global, TRAIN_TASK, says which click owns the trainer, and its lock     *)
(* guards stop_requested and the list of registered subprocesses.          *)
(***************************************************************************)
EXTENDS Naturals, Sequences, FiniteSets

CONSTANTS
  Clicks,      \* presses of a start button, each one run of a generator
  Stops,       \* presses of a stop button
  Children,    \* the subprocesses Popen may return
  Kinds,       \* the tasks the clicks may ask for
  Width,       \* the number of processes each stage is split into
  Idle         \* TRAIN_TASK is None

Stages == {"slice", "f0", "hubert", "train", "index"}

ASSUME WidthAssumption == Width \in [Stages -> Nat \ {0}]
ASSUME KindsAssumption == Kinds \subseteq {"slice", "extract", "train", "index", "onekey"}
ASSUME IdleAssumption == Idle \notin Clicks

VARIABLES
  task,        \* TRAIN_TASK
  click,       \* the state dictionary and the position of each generator
  child,       \* each subprocess: who started it, for which stage, its status
  stop         \* each stop handler: what it has still to kill

taskVars == <<task, click, child, stop>>

\* The stages of a task, in order.  F0 is left out for a model without pitch.
Plans(kind) ==
  LET extract == {<<"f0", "hubert">>, <<"hubert">>}
  IN  CASE kind = "slice"   -> {<<"slice">>}
        [] kind = "extract" -> extract
        [] kind = "train"   -> {<<"train">>}
        [] kind = "index"   -> {<<"index">>}
        [] kind = "onekey"  -> {<<"slice">> \o e \o <<"train", "index">> : e \in extract}

\* Stages whose outputs are listed and compared before the task goes on.
Validated == {"slice", "hubert"}

Alive(p) == child[p].status = "running"

NoChild == [owner |-> Idle, stage |-> "none", status |-> "none"]

TaskInit ==
  /\ task = Idle
  /\ click = [c \in Clicks |->
       [kind |-> "none", at |-> "unborn", plan |-> <<>>, batch |-> {},
        registered |-> {}, stopRequested |-> FALSE, outcome |-> "none"]]
  /\ child = [p \in Children |-> NoChild]
  /\ stop = [s \in Stops |-> [at |-> "unborn", todo |-> {}]]

-----------------------------------------------------------------------------
(* kill_process_tree: SIGTERM, a second of grace, SIGKILL.  It does nothing *)
(* to a process that has already ended.                                    *)
Killed(ps) ==
  [p \in Children |-> IF p \in ps /\ Alive(p)
                      THEN [child[p] EXCEPT !.status = "killed"] ELSE child[p]]

\* begin_train_task: the click takes TRAIN_TASK, or is told that it is busy.
Begin(c, kind) ==
  /\ click[c].at = "unborn"
  /\ \E plan \in Plans(kind) :
       IF task = Idle
       THEN /\ task' = c
            /\ click' = [click EXCEPT ![c].kind = kind, ![c].at = "spawn", ![c].plan = plan]
       ELSE /\ click' = [click EXCEPT ![c].at = "over", ![c].outcome = "busy"]
            /\ UNCHANGED task
  /\ UNCHANGED <<child, stop>>

\* Popen returns a new process: the child runs and nobody but this generator
\* knows it.
Unborn == {p \in Children : child[p].status = "none"}

Spawn(c, p) ==
  /\ click[c].at = "spawn"
  /\ p \in Unborn /\ p = CHOOSE q \in Unborn : TRUE
  /\ child' = [child EXCEPT ![p] =
       [owner |-> c, stage |-> Head(click[c].plan), status |-> "running"]]
  /\ click' = [click EXCEPT ![c].at = "register", ![c].batch = @ \cup {p}]
  /\ UNCHANGED <<task, stop>>

\* A stage may raise: its log or its file list cannot be written or read,
\* nothing usable was extracted, the system refuses a process.
StageRaises(c) ==
  /\ click[c].at \in {"spawn", "wait"}
  /\ click' = [click EXCEPT ![c].at = "finish", ![c].outcome = "failed"]
  /\ UNCHANGED <<task, child, stop>>

\* Mutant: the child is registered and stop_requested is not read again.
RegisterUnchecked(c) ==
  /\ click[c].at = "register"
  /\ click' = [click EXCEPT
       ![c].registered = @ \cup click[c].batch,
       ![c].at = IF Cardinality(click[c].batch) < Width[Head(click[c].plan)]
                 THEN "spawn" ELSE "wait"]
  /\ UNCHANGED <<task, child, stop>>

\* The end of start_train_process: register the child and read stop_requested
\* under the lock, kill it after the lock when a stop came in between.
Register(c) ==
  /\ click[c].at = "register"
  /\ LET me == click[c]
     IN  /\ click' = [click EXCEPT
              ![c].registered = @ \cup me.batch,
              ![c].at = IF Cardinality(me.batch) < Width[Head(me.plan)]
                        THEN "spawn" ELSE "wait"]
         /\ child' = IF me.stopRequested THEN Killed(me.batch \ me.registered) ELSE child
  /\ UNCHANGED <<task, stop>>

\* Mutant: a round that finds the stop leaves the killing to the handler.
WaitRoundKillsNone(c) ==
  /\ click[c].at = "wait"
  /\ (\A p \in click[c].batch : ~Alive(p)) \/ click[c].stopRequested
  /\ click' = [click EXCEPT ![c].at = "drained", ![c].registered = @ \ click[c].batch]
  /\ UNCHANGED <<task, child, stop>>

\* One round of wait_train_processes that leaves the loop: every child has
\* ended, or a stop was requested and the round kills them.
WaitRound(c) ==
  /\ click[c].at = "wait"
  /\ LET running == {p \in click[c].batch : Alive(p)}
     IN  /\ running = {} \/ click[c].stopRequested
         /\ child' = Killed(running)
  /\ click' = [click EXCEPT ![c].at = "drained", ![c].registered = @ \ click[c].batch]
  /\ UNCHANGED <<task, stop>>

\* The return codes, the outputs of the stage, and the next stage or the end.
\* stop_requested is read before each of them.
Check(c) ==
  /\ click[c].at = "drained"
  /\ LET me    == click[c]
         bad   == \E p \in me.batch : child[p].status # "ok"
         ended(outcome) == [click EXCEPT ![c].at = "finish", ![c].outcome = outcome]
     IN  \/ me.stopRequested /\ click' = ended("stopped")
         \/ ~me.stopRequested /\ bad /\ click' = ended("failed")
         \/ ~me.stopRequested /\ ~bad /\ Head(me.plan) \in Validated /\ click' = ended("failed")
         \/ /\ ~me.stopRequested /\ ~bad
            /\ click' = IF Len(me.plan) = 1 THEN ended("completed")
                        ELSE [click EXCEPT ![c].at = "spawn", ![c].plan = Tail(@), ![c].batch = {}]
  /\ UNCHANGED <<task, child, stop>>

\* Mutant: TRAIN_TASK is not cleared.
FinishKeepsTask(c) ==
  /\ click[c].at = "finish"
  /\ click' = [click EXCEPT ![c].at = "over", ![c].plan = <<>>, ![c].batch = {},
                             ![c].registered = {}]
  /\ UNCHANGED <<task, child, stop>>

\* finish_train_task, the finally of every generator.
Finish(c) ==
  /\ click[c].at = "finish"
  /\ task' = IF task = c THEN Idle ELSE task
  /\ click' = [click EXCEPT ![c].at = "over", ![c].plan = <<>>, ![c].batch = {},
                             ![c].registered = {}]
  /\ UNCHANGED <<child, stop>>

\* The page goes away while the generator is suspended at a yield: Gradio
\* drops it, GeneratorExit is raised at the yield, and only the finally runs.
ClosePage(c) ==
  /\ click[c].at \in {"wait", "drained"} \/ (click[c].at = "spawn" /\ click[c].batch = {})
  /\ click' = [click EXCEPT ![c].at = "finish", ![c].outcome = "closed"]
  /\ UNCHANGED <<task, child, stop>>

\* stop_train_task: under the lock, refuse another task's name or set
\* stop_requested and copy the list; the children are killed after the lock.
StopTask(s, kind) ==
  /\ stop[s].at = "unborn"
  /\ IF task = Idle \/ click[task].kind # kind
     THEN /\ stop' = [stop EXCEPT ![s].at = "over"]
          /\ UNCHANGED click
     ELSE /\ stop' = [stop EXCEPT ![s] = [at |-> "killing", todo |-> click[task].registered]]
          /\ click' = [click EXCEPT ![task].stopRequested = TRUE]
  /\ UNCHANGED <<task, child>>

StopKills(s) ==
  /\ stop[s].at = "killing"
  /\ IF stop[s].todo = {}
     THEN /\ stop' = [stop EXCEPT ![s].at = "over"]
          /\ UNCHANGED child
     ELSE \E p \in stop[s].todo :
            /\ child' = Killed({p})
            /\ stop' = [stop EXCEPT ![s].todo = @ \ {p}]
  /\ UNCHANGED <<task, click>>

\* A subprocess ends by itself.
Exit(p, status) ==
  /\ Alive(p)
  /\ child' = [child EXCEPT ![p].status = status]
  /\ UNCHANGED <<task, click, stop>>

Generator(c) ==
  \/ \E p \in Children : Spawn(c, p)
  \/ StageRaises(c)
  \/ Register(c)
  \/ WaitRound(c)
  \/ Check(c)
  \/ Finish(c)

WebuiStep ==
  \/ \E c \in Clicks : \/ \E kind \in Kinds : Begin(c, kind)
                       \/ Generator(c)
                       \/ ClosePage(c)
  \/ \E s \in Stops : \/ \E kind \in Kinds : StopTask(s, kind)
                      \/ StopKills(s)

\* The handlers keep running: Gradio drives a generator until it ends or is
\* dropped, and a stop handler kills everything it copied.
TaskFairness ==
  /\ \A c \in Clicks : WF_taskVars(Generator(c))
  /\ \A s \in Stops : WF_taskVars(StopKills(s))

-----------------------------------------------------------------------------
TaskTypeOK ==
  /\ task \in Clicks \cup {Idle}
  /\ click \in [Clicks ->
       [kind : Kinds \cup {"none"},
        at : {"unborn", "spawn", "register", "wait", "drained", "finish", "over"},
        plan : Seq(Stages), batch : SUBSET Children, registered : SUBSET Children,
        stopRequested : BOOLEAN,
        outcome : {"none", "busy", "failed", "stopped", "completed", "closed"}]]
  /\ child \in [Children ->
       [owner : Clicks \cup {Idle}, stage : Stages \cup {"none"},
        status : {"none", "running", "ok", "failed", "killed"}]]
  /\ stop \in [Stops -> [at : {"unborn", "killing", "over"}, todo : SUBSET Children]]

Working(c) == click[c].at \notin {"unborn", "over"}

(* A stop reaches every subprocess of the task it stops, whenever it comes: *)
(* before, between or after Popen and the registration, and also when the   *)
(* page is closed or a later stage raises.  Once the task is over and the   *)
(* stop handlers have returned, none of its children runs.                  *)
StoppedLeavesNoChild ==
  \A c \in Clicks :
    click[c].stopRequested /\ ~Working(c) /\ (\A s \in Stops : stop[s].at # "killing")
      => \A p \in Children : child[p].owner = c => ~Alive(p)

(* A subprocess that outlives its task was orphaned by an exception or by a *)
(* closed page: a task that ends by itself or by a stop leaves none.        *)
OrphansOnlyFromFailure ==
  \A p \in Children :
    Alive(p) /\ task # child[p].owner => click[child[p].owner].outcome \in {"failed", "closed"}

(* A stop request ends the task it was made to. *)
Stopping == task # Idle /\ click[task].stopRequested
StopEndsTask == Stopping ~> ~Stopping
=============================================================================
