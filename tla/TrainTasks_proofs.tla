-------------------------- MODULE TrainTasks_proofs --------------------------
(***************************************************************************)
(* Proofs about TrainTasks, under the training subprocess of                *)
(* TrainCheckpoints, for any number of clicks, stops and subprocesses: a    *)
(* stop reaches every subprocess of the task it stops, and a subprocess     *)
(* outlives its task only after an exception or a closed page.  Of the      *)
(* checkpoints, for any number of epochs and for trainings that save alike: *)
(* one that comes to its end leaves its last pair whole and newest, whatever *)
(* was cut before, and what is resumed is a pair of one save or of           *)
(* neighbouring ones.                                                       *)
(***************************************************************************)
EXTENDS TrainCheckpoints, SequenceTheorems, WellFoundedInduction, TLAPS

ClickPlaces == {"unborn", "spawn", "register", "wait", "drained", "finish", "over"}
Outcomes == {"none", "busy", "failed", "stopped", "completed", "closed"}

\* The records, whatever the kinds, plans and stages are.
ClickType(Any) ==
  [kind : Any, at : ClickPlaces, plan : Any, batch : SUBSET Children, registered : SUBSET Children,
   stopRequested : BOOLEAN, outcome : Outcomes]
ChildType(Any) ==
  [owner : Clicks \cup {Idle}, stage : Any, status : {"none", "running", "ok", "failed", "killed"}]
StopType == [at : {"unborn", "killing", "over"}, todo : SUBSET Children]

Shape ==
  /\ \E Any : click \in [Clicks -> ClickType(Any)] /\ child \in [Children -> ChildType(Any)]
  /\ stop \in [Stops -> StopType]
  /\ task \in Clicks \cup {Idle}

\* TRAIN_TASK is the one click that works.
Single == \A c \in Clicks : task = c <=> Working(c)

\* A generator only knows subprocesses that were started.
Known == \A c \in Clicks : \A p \in click[c].batch \cup click[c].registered : child[p].status # "none"

\* Where a click keeps a subprocess that runs: in its batch and registered, but
\* between Popen and the registration; an exception or a closed page leaves it.
Keeps(c, p) ==
  \/ /\ click[c].at \in {"spawn", "register", "wait"} /\ p \in click[c].batch
     /\ p \in click[c].registered \/ click[c].at = "register"
  \/ /\ click[c].at \in {"finish", "over"} /\ click[c].outcome \in {"failed", "closed"}
     /\ click[c].at = "finish" => p \in click[c].registered

\* Started and not yet registered.
Pending(c, p) == click[c].at = "register" /\ p \in click[c].batch \ click[c].registered

Owned == \A p \in Children : Alive(p) => child[p].owner \in Clicks /\ Keeps(child[p].owner, p)

\* What runs of a stopped task is in the list of a stop handler, or about to be
\* registered and killed.
Reached ==
  \A p \in Children : Alive(p) /\ child[p].owner \in Clicks /\ click[child[p].owner].stopRequested =>
    \/ Pending(child[p].owner, p)
    \/ \E s \in Stops : stop[s].at = "killing" /\ p \in stop[s].todo

IInv == Shape /\ Single /\ Known /\ Owned /\ Reached

USE IdleAssumption

----------------------------------------------------------------------------
(* Steps of a generator.                                                    *)

\* A step that starts no subprocess: some end.
Quiet ==
  /\ \E Any : click \in [Clicks -> ClickType(Any)] /\ child \in [Children -> ChildType(Any)]
              /\ child' \in [Children -> ChildType(Any)]
  /\ \A p \in Children : /\ child'[p].owner = child[p].owner
                         /\ child'[p].status = "none" <=> child[p].status = "none"
                         /\ child'[p].status = "running" => child[p].status = "running"

\* kill_process_tree starts nothing, and leaves none of its targets running.
LEMMA KilledQuiet ==
  ASSUME Shape, NEW ps, child' = Killed(ps)
  PROVE  Quiet /\ \A p \in Children : child'[p].status = "running" => p \notin ps
<1>1. PICK Any : click \in [Clicks -> ClickType(Any)] /\ child \in [Children -> ChildType(Any)] BY DEF Shape
<1>2. child' \in [Children -> ChildType(Any)] BY <1>1 DEF Killed, ChildType
<1>3. \A p \in Children : child'[p] = IF p \in ps /\ child[p].status = "running"
                                      THEN [child[p] EXCEPT !.status = "killed"] ELSE child[p]
  BY DEF Killed, Alive
<1>4. \A p \in Children : LET k == [child[p] EXCEPT !.status = "killed"]
                          IN  k.owner = child[p].owner /\ k.status = "killed"
  BY <1>1 DEF ChildType
<1> QED BY <1>1, <1>2, <1>3, <1>4 DEF Quiet

\* Nor does a step that touches no subprocess.
LEMMA StillQuiet == ASSUME Shape, child' = child PROVE Quiet
BY DEF Shape, Quiet

\* What a step of click c must do to keep the invariant.
Moves(c) ==
  /\ UNCHANGED stop
  /\ task' \in Clicks \cup {Idle}
  /\ \A d \in Clicks \ {c} : click'[d] = click[d] /\ (task' = d <=> task = d)
  /\ task' = c <=> click'[c].at \notin {"unborn", "over"}
  /\ click'[c].stopRequested = click[c].stopRequested
  /\ click'[c].batch \cup click'[c].registered \subseteq click[c].batch \cup click[c].registered
  /\ \A p \in Children :
       child[p].owner = c /\ child[p].status = "running" /\ child'[p].status = "running" /\ Keeps(c, p) =>
         Keeps(c, p)' /\ (click[c].stopRequested /\ Pending(c, p) => Pending(c, p)')

\* A step that moves one click as Moves says keeps the invariant.
LEMMA MovesKeep ==
  ASSUME IInv, NEW c \in Clicks, Moves(c), Quiet, Shape'
  PROVE  IInv'
<1> USE DEF IInv
<1>1. Single' BY DEF Single, Moves, Working
<1>2. Known' BY DEF Known, Moves, Quiet, Shape, ClickType
<1>3. Owned'
  <2> SUFFICES ASSUME NEW p \in Children, Alive(p)'
               PROVE  child'[p].owner \in Clicks /\ Keeps(child[p].owner, p)'
    BY DEF Owned
  <2>1. child[p].status = "running" /\ child'[p].status = "running" /\ child'[p].owner = child[p].owner
    BY DEF Quiet, Alive
  <2>2. PICK d \in Clicks : d = child[p].owner BY <2>1 DEF Owned, Alive
  <2>3. Keeps(d, p) BY <2>1, <2>2 DEF Owned, Alive
  <2>4. Keeps(d, p)'
    <3>1. CASE d = c BY <2>1, <2>2, <2>3, <3>1 DEF Moves
    <3>2. CASE d # c BY <2>3, <3>2 DEF Moves, Keeps
    <3> QED BY <3>1, <3>2
  <2> QED BY <2>1, <2>2, <2>4 DEF Keeps
<1>4. Reached'
  <2> SUFFICES ASSUME NEW p \in Children, Alive(p)', child'[p].owner \in Clicks,
                      click'[child'[p].owner].stopRequested
               PROVE  \/ Pending(child[p].owner, p)'
                      \/ \E s \in Stops : stop[s].at = "killing" /\ p \in stop[s].todo
    BY DEF Reached, Moves
  <2>1. child[p].status = "running" /\ child'[p].status = "running" /\ child'[p].owner = child[p].owner
    BY DEF Quiet, Alive
  <2>2. PICK d \in Clicks : d = child[p].owner BY <2>1 DEF Owned, Alive
  <2>3. Keeps(d, p) BY <2>1, <2>2 DEF Owned, Alive
  <2>4. click[d].stopRequested BY <2>1, <2>2 DEF Moves
  <2>5. \/ Pending(d, p)
        \/ \E s \in Stops : stop[s].at = "killing" /\ p \in stop[s].todo
    BY <2>1, <2>2, <2>4 DEF Reached, Alive
  <2>6. Pending(d, p) => Pending(d, p)'
    <3>1. CASE d = c BY <2>1, <2>2, <2>3, <2>4, <3>1 DEF Moves
    <3>2. CASE d # c BY <3>2 DEF Moves, Pending
    <3> QED BY <3>1, <3>2
  <2> QED BY <2>1, <2>2, <2>5, <2>6 DEF Pending
<1> QED BY <1>1, <1>2, <1>3, <1>4

----------------------------------------------------------------------------
(* The steps that start no subprocess and set no stop.                      *)

\* What a step of click c makes of it, when it makes it new.
Becomes(c, new) ==
  /\ \E Any : /\ click \in [Clicks -> ClickType(Any)] /\ child' \in [Children -> ChildType(Any)]
              /\ new \in ClickType(Any)
  /\ click' = [click EXCEPT ![c] = new]
  /\ UNCHANGED stop
  /\ task' = IF new.at = "over" THEN (IF task = c THEN Idle ELSE task) ELSE c
  /\ new.at # "unborn" /\ (Working(c) \/ task = Idle \/ new.at = "over")
  /\ new.stopRequested = click[c].stopRequested
  /\ new.batch \cup new.registered \subseteq click[c].batch \cup click[c].registered
  /\ \A p \in Children :
       child[p].owner = c /\ child[p].status = "running" /\ child'[p].status = "running" /\ Keeps(c, p) =>
         /\ \/ /\ new.at \in {"spawn", "register", "wait"} /\ p \in new.batch
               /\ p \in new.registered \/ new.at = "register"
            \/ /\ new.at \in {"finish", "over"} /\ new.outcome \in {"failed", "closed"}
               /\ new.at = "finish" => p \in new.registered
         /\ click[c].stopRequested /\ Pending(c, p) => new.at = "register" /\ p \in new.batch \ new.registered

\* Such a step keeps the invariant.
LEMMA BecomesKeeps ==
  ASSUME IInv, Quiet, NEW c \in Clicks, NEW new, Becomes(c, new)
  PROVE  IInv'
<1>1. PICK Any : /\ click \in [Clicks -> ClickType(Any)] /\ child' \in [Children -> ChildType(Any)]
                 /\ new \in ClickType(Any)
  BY DEF Becomes
<1>2. click'[c] = new /\ \A d \in Clicks \ {c} : click'[d] = click[d] BY <1>1 DEF Becomes
<1>3. task' \in Clicks \cup {Idle} BY DEF IInv, Shape, Becomes
<1>4. Shape'
  <2>1. click' \in [Clicks -> ClickType(Any)] BY <1>1 DEF Becomes
  <2> QED BY <1>1, <1>3, <2>1 DEF IInv, Shape, Becomes
<1>5. \A d \in Clicks \ {c} : task' = d <=> task = d BY DEF IInv, Single, Becomes
<1>6. task' = c <=> new.at \notin {"unborn", "over"} BY DEF Becomes
<1>7. \A p \in Children :
        child[p].owner = c /\ child[p].status = "running" /\ child'[p].status = "running" /\ Keeps(c, p) =>
          Keeps(c, p)' /\ (click[c].stopRequested /\ Pending(c, p) => Pending(c, p)')
  BY <1>2 DEF Becomes, Keeps, Pending
<1>8. Moves(c) BY <1>2, <1>3, <1>5, <1>6, <1>7 DEF Moves, Becomes
<1> QED BY <1>4, <1>8, MovesKeep

\* The records have their types, with one set of kinds, plans and stages that
\* may be as large as one likes.
LEMMA Typed ==
  ASSUME Shape, Quiet, NEW More
  PROVE  \E Any : /\ More \subseteq Any
                  /\ click \in [Clicks -> ClickType(Any)] /\ child' \in [Children -> ChildType(Any)]
<1>1. PICK Any : click \in [Clicks -> ClickType(Any)] /\ child' \in [Children -> ChildType(Any)] BY DEF Quiet
<1>2. click \in [Clicks -> ClickType(Any \cup More)] BY <1>1 DEF ClickType
<1>3. child' \in [Children -> ChildType(Any \cup More)] BY <1>1 DEF ChildType
<1> QED BY <1>2, <1>3

\* The click takes TRAIN_TASK, or is over at once.
LEMMA BeginKeeps == ASSUME IInv, NEW c \in Clicks, NEW kind, Begin(c, kind) PROVE IInv'
<1>1. click[c].at = "unborn" /\ UNCHANGED <<child, stop>> BY DEF Begin
<1>2. \A p \in Children : ~Keeps(c, p) BY <1>1 DEF Keeps
<1>3. Quiet BY <1>1, StillQuiet DEF IInv
<1>4. task # c BY <1>1 DEF IInv, Single, Working
<1>5. CASE task = Idle
  <2>1. PICK plan : task' = c /\ click' = [click EXCEPT ![c].kind = kind, ![c].at = "spawn", ![c].plan = plan]
    BY <1>5 DEF Begin
  <2>2. PICK Any : /\ {kind, plan} \subseteq Any
                   /\ click \in [Clicks -> ClickType(Any)] /\ child' \in [Children -> ChildType(Any)]
    BY <1>3, Typed DEF IInv
  <2> DEFINE new == [click[c] EXCEPT !.kind = kind, !.at = "spawn", !.plan = plan]
  <2>3. /\ new \in ClickType(Any) /\ new.at = "spawn" /\ new.batch = click[c].batch
        /\ new.registered = click[c].registered /\ new.stopRequested = click[c].stopRequested
    BY <2>2 DEF ClickType, ClickPlaces
  <2>4. click' = [click EXCEPT ![c] = new] BY <2>1, <2>2
  <2> HIDE DEF new
  <2>5. Becomes(c, new) BY <1>1, <1>2, <1>5, <2>1, <2>2, <2>3, <2>4 DEF Becomes
  <2> QED BY <1>3, <2>5, BecomesKeeps
<1>6. CASE task # Idle
  <2>1. task' = task /\ click' = [click EXCEPT ![c].at = "over", ![c].outcome = "busy"]
    BY <1>6 DEF Begin
  <2>2. PICK Any : click \in [Clicks -> ClickType(Any)] /\ child' \in [Children -> ChildType(Any)]
    BY <1>3, Typed DEF IInv
  <2> DEFINE new == [click[c] EXCEPT !.at = "over", !.outcome = "busy"]
  <2>3. /\ new \in ClickType(Any) /\ new.at = "over" /\ new.batch = click[c].batch
        /\ new.registered = click[c].registered /\ new.stopRequested = click[c].stopRequested
    BY <2>2 DEF ClickType, ClickPlaces, Outcomes
  <2>4. click' = [click EXCEPT ![c] = new] BY <2>1, <2>2
  <2> HIDE DEF new
  <2>5. Becomes(c, new) BY <1>1, <1>2, <1>4, <2>1, <2>2, <2>3, <2>4 DEF Becomes
  <2> QED BY <1>3, <2>5, BecomesKeeps
<1> QED BY <1>5, <1>6

\* An exception, and a page that goes away, end the task and leave what runs.
LEMMA AbortKeeps == ASSUME IInv, NEW c \in Clicks, StageRaises(c) \/ ClosePage(c) PROVE IInv'
<1>1. PICK outcome \in {"failed", "closed"} :
        /\ click' = [click EXCEPT ![c].at = "finish", ![c].outcome = outcome]
        /\ click[c].at \in {"spawn", "wait", "drained"}
        /\ UNCHANGED <<task, child, stop>>
  BY DEF StageRaises, ClosePage
<1>2. Quiet BY <1>1, StillQuiet DEF IInv
<1>3. PICK Any : click \in [Clicks -> ClickType(Any)] /\ child' \in [Children -> ChildType(Any)]
  BY <1>2, Typed DEF IInv
<1> DEFINE new == [click[c] EXCEPT !.at = "finish", !.outcome = outcome]
<1>4. /\ new \in ClickType(Any) /\ new.at = "finish" /\ new.batch = click[c].batch /\ new.outcome = outcome
      /\ new.registered = click[c].registered /\ new.stopRequested = click[c].stopRequested
  BY <1>3 DEF ClickType, ClickPlaces, Outcomes
<1>5. click' = [click EXCEPT ![c] = new] BY <1>1, <1>3
<1> HIDE DEF new
<1>6. Working(c) /\ task = c BY <1>1 DEF IInv, Working, Single
<1>7. \A p \in Children : Keeps(c, p) => p \in click[c].registered /\ ~Pending(c, p) BY <1>1 DEF Keeps, Pending
<1>8. Becomes(c, new) BY <1>1, <1>3, <1>4, <1>5, <1>6, <1>7 DEF Becomes
<1> QED BY <1>2, <1>8, BecomesKeeps

\* A subprocess that was just started is registered, or killed for the stop that
\* came in between.
LEMMA RegisterKeeps == ASSUME IInv, NEW c \in Clicks, Register(c) PROVE IInv'
<1> DEFINE registered == click[c].registered \cup click[c].batch
<1>1. PICK at \in {"spawn", "wait"} : click' = [click EXCEPT ![c].registered = registered, ![c].at = at]
  BY DEF Register
<1>2. click[c].at = "register" /\ UNCHANGED <<task, stop>> BY DEF Register
<1>3. Quiet /\ (click[c].stopRequested => \A p \in Children : child'[p].status = "running" => ~Pending(c, p))
  <2>1. CASE click[c].stopRequested
    <3>1. child' = Killed(click[c].batch \ click[c].registered) BY <2>1 DEF Register
    <3> QED BY <3>1, KilledQuiet DEF Pending, IInv
  <2>2. CASE ~click[c].stopRequested BY <2>2, StillQuiet DEF Register, IInv
  <2> QED BY <2>1, <2>2
<1>4. PICK Any : click \in [Clicks -> ClickType(Any)] /\ child' \in [Children -> ChildType(Any)]
  BY <1>3, Typed DEF IInv
<1> DEFINE new == [click[c] EXCEPT !.at = at, !.registered = registered]
<1>5. /\ new \in ClickType(Any) /\ new.at = at /\ new.batch = click[c].batch
      /\ new.registered = registered /\ new.stopRequested = click[c].stopRequested
  BY <1>4 DEF ClickType, ClickPlaces
<1>6. click' = [click EXCEPT ![c] = new] BY <1>1, <1>4
<1> HIDE DEF new
<1>7. Working(c) /\ task = c BY <1>2 DEF IInv, Working, Single
<1>8. \A p \in Children : Keeps(c, p) => p \in click[c].batch BY <1>2 DEF Keeps
<1>9. Becomes(c, new) BY <1>1, <1>2, <1>3, <1>4, <1>5, <1>6, <1>7, <1>8 DEF Becomes
<1> QED BY <1>3, <1>9, BecomesKeeps

\* A round that leaves the loop leaves nothing running.
LEMMA WaitKeeps == ASSUME IInv, NEW c \in Clicks, WaitRound(c) PROVE IInv'
<1> DEFINE registered == click[c].registered \ click[c].batch
<1>1. /\ click[c].at = "wait" /\ UNCHANGED <<task, stop>>
      /\ click' = [click EXCEPT ![c].at = "drained", ![c].registered = registered]
      /\ child' = Killed({p \in click[c].batch : Alive(p)})
  BY DEF WaitRound
<1>2. /\ Quiet
      /\ \A p \in Children : child'[p].status = "running" => p \notin {q \in click[c].batch : Alive(q)}
  BY <1>1, KilledQuiet DEF IInv
<1>3. PICK Any : click \in [Clicks -> ClickType(Any)] /\ child' \in [Children -> ChildType(Any)]
  BY <1>2, Typed DEF IInv
<1> DEFINE new == [click[c] EXCEPT !.at = "drained", !.registered = registered]
<1>4. /\ new \in ClickType(Any) /\ new.at = "drained" /\ new.batch = click[c].batch
      /\ new.registered = registered /\ new.stopRequested = click[c].stopRequested
  BY <1>3 DEF ClickType, ClickPlaces
<1>5. click' = [click EXCEPT ![c] = new] BY <1>1, <1>3
<1> HIDE DEF new
<1>6. Working(c) /\ task = c BY <1>1 DEF IInv, Working, Single
<1>7. \A p \in Children : child[p].status = "running" /\ child'[p].status = "running" => ~Keeps(c, p)
  BY <1>1, <1>2 DEF Keeps, Alive
<1>8. Becomes(c, new) BY <1>1, <1>3, <1>4, <1>5, <1>6, <1>7 DEF Becomes
<1> QED BY <1>2, <1>8, BecomesKeeps

\* The next stage, or the end: nothing runs then.
LEMMA CheckKeeps == ASSUME IInv, NEW c \in Clicks, Check(c) PROVE IInv'
<1>1. click[c].at = "drained" /\ UNCHANGED <<task, child, stop>> BY DEF Check
<1>2. Quiet /\ task = c /\ Working(c) /\ \A p \in Children : ~Keeps(c, p)
  BY <1>1, StillQuiet DEF IInv, Working, Single, Keeps
<1>3. ASSUME NEW outcome \in {"stopped", "failed", "completed"},
             click' = [click EXCEPT ![c].at = "finish", ![c].outcome = outcome]
      PROVE  IInv'
  <2>1. PICK Any : click \in [Clicks -> ClickType(Any)] /\ child' \in [Children -> ChildType(Any)]
    BY <1>2, Typed DEF IInv
  <2> DEFINE new == [click[c] EXCEPT !.at = "finish", !.outcome = outcome]
  <2>2. /\ new \in ClickType(Any) /\ new.at = "finish" /\ new.batch = click[c].batch
        /\ new.registered = click[c].registered /\ new.stopRequested = click[c].stopRequested
    BY <2>1 DEF ClickType, ClickPlaces, Outcomes
  <2>3. click' = [click EXCEPT ![c] = new] BY <1>3, <2>1
  <2> HIDE DEF new
  <2>4. Becomes(c, new) BY <1>1, <1>2, <2>1, <2>2, <2>3 DEF Becomes
  <2> QED BY <1>2, <2>4, BecomesKeeps
<1>4. ASSUME NEW plan, click' = [click EXCEPT ![c].at = "spawn", ![c].plan = plan, ![c].batch = {}] PROVE IInv'
  <2>1. PICK Any : /\ {plan} \subseteq Any
                   /\ click \in [Clicks -> ClickType(Any)] /\ child' \in [Children -> ChildType(Any)]
    BY <1>2, Typed DEF IInv
  <2> DEFINE new == [click[c] EXCEPT !.at = "spawn", !.plan = plan, !.batch = {}]
  <2>2. /\ new \in ClickType(Any) /\ new.at = "spawn" /\ new.batch = {}
        /\ new.registered = click[c].registered /\ new.stopRequested = click[c].stopRequested
    BY <2>1 DEF ClickType, ClickPlaces
  <2>3. click' = [click EXCEPT ![c] = new] BY <1>4, <2>1
  <2> HIDE DEF new
  <2>4. Becomes(c, new) BY <1>1, <1>2, <2>1, <2>2, <2>3 DEF Becomes
  <2> QED BY <1>2, <2>4, BecomesKeeps
<1>5. \/ \E outcome \in {"stopped", "failed", "completed"} :
           click' = [click EXCEPT ![c].at = "finish", ![c].outcome = outcome]
      \/ click' = [click EXCEPT ![c].at = "spawn", ![c].plan = Tail(@), ![c].batch = {}]
  BY DEF Check
<1> QED BY <1>3, <1>4, <1>5

\* finish_train_task.
LEMMA FinishKeeps == ASSUME IInv, NEW c \in Clicks, Finish(c) PROVE IInv'
<1>1. /\ click[c].at = "finish" /\ UNCHANGED <<child, stop>>
      /\ click' = [click EXCEPT ![c].at = "over", ![c].plan = <<>>, ![c].batch = {}, ![c].registered = {}]
      /\ task' = IF task = c THEN Idle ELSE task
  BY DEF Finish
<1>2. Quiet BY <1>1, StillQuiet DEF IInv
<1>3. PICK Any : /\ {<<>>} \subseteq Any
                 /\ click \in [Clicks -> ClickType(Any)] /\ child' \in [Children -> ChildType(Any)]
  BY <1>2, Typed DEF IInv
<1> DEFINE new == [click[c] EXCEPT !.at = "over", !.plan = <<>>, !.batch = {}, !.registered = {}]
<1>4. /\ new \in ClickType(Any) /\ new.at = "over" /\ new.batch = {} /\ new.registered = {}
      /\ new.stopRequested = click[c].stopRequested /\ new.outcome = click[c].outcome
  BY <1>3 DEF ClickType, ClickPlaces
<1>5. click' = [click EXCEPT ![c] = new] BY <1>1, <1>3
<1> HIDE DEF new
<1>6. \A p \in Children : Keeps(c, p) => click[c].outcome \in {"failed", "closed"} /\ ~Pending(c, p)
  BY <1>1 DEF Keeps, Pending
<1>7. Becomes(c, new) BY <1>1, <1>3, <1>4, <1>5, <1>6 DEF Becomes
<1> QED BY <1>2, <1>7, BecomesKeeps

\* A subprocess ends by itself.
LEMMA ExitKeeps ==
  ASSUME IInv, NEW p \in Children, NEW code \in {"ok", "failed"}, Exit(p, code)
  PROVE  IInv'
<1> DEFINE new == [child[p] EXCEPT !.status = code]
<1>1. task' = task /\ click' = click /\ stop' = stop /\ child[p].status = "running"
  BY DEF Exit, Alive
<1>2. PICK Any : click \in [Clicks -> ClickType(Any)] /\ child \in [Children -> ChildType(Any)]
  BY DEF IInv, Shape
<1>3. new \in ChildType(Any) /\ new.owner = child[p].owner /\ new.status = code
  BY <1>2 DEF ChildType
<1>4. child' = [child EXCEPT ![p] = new] BY <1>2 DEF Exit
<1> HIDE DEF new
<1>5. child' \in [Children -> ChildType(Any)] BY <1>2, <1>3, <1>4
<1>6. \A q \in Children : /\ child'[q].owner = child[q].owner
                          /\ child'[q].status = "none" <=> child[q].status = "none"
                          /\ child'[q].status = "running" => child[q].status = "running"
  BY <1>1, <1>2, <1>3, <1>4
<1>7. Shape' /\ Single' BY <1>1, <1>2, <1>5 DEF IInv, Shape, Single, Working
<1>8. Known' BY <1>1, <1>2, <1>6 DEF IInv, Known, ClickType
<1>9. Owned' BY <1>1, <1>6 DEF IInv, Owned, Keeps, Alive
<1>10. Reached' BY <1>1, <1>6 DEF IInv, Reached, Pending, Alive
<1> QED BY <1>7, <1>8, <1>9, <1>10 DEF IInv

\* Popen: the new subprocess waits to be registered.
LEMMA SpawnKeeps == ASSUME IInv, NEW c \in Clicks, NEW p \in Children, Spawn(c, p) PROVE IInv'
<1> DEFINE stage == Head(click[c].plan)
           born  == [owner |-> c, stage |-> stage, status |-> "running"]
           new   == [click[c] EXCEPT !.at = "register", !.batch = @ \cup {p}]
<1>1. click[c].at = "spawn" /\ child[p].status = "none" /\ UNCHANGED <<task, stop>>
  BY DEF Spawn, Unborn
<1>3. PICK Some : click \in [Clicks -> ClickType(Some)] /\ child \in [Children -> ChildType(Some)]
  BY DEF IInv, Shape
<1> DEFINE Any == Some \cup {stage}
<1>4. click \in [Clicks -> ClickType(Any)] BY <1>3 DEF ClickType
<1>5. child \in [Children -> ChildType(Any)] BY <1>3 DEF ChildType
<1>6. born \in ChildType(Any) /\ born.owner = c /\ born.status = "running" BY DEF ChildType
<1>7. /\ new \in ClickType(Any) /\ new.at = "register" /\ new.batch = click[c].batch \cup {p}
      /\ new.registered = click[c].registered /\ new.stopRequested = click[c].stopRequested
  BY <1>4 DEF ClickType, ClickPlaces
<1>8. child' = [child EXCEPT ![p] = born] BY DEF Spawn
<1>9. click' = [click EXCEPT ![c] = new] BY <1>4 DEF Spawn
<1> HIDE DEF new, born, Any
<1>10. click'[c] = new /\ \A d \in Clicks \ {c} : click'[d] = click[d] BY <1>4, <1>9
<1>11. child'[p] = born /\ \A q \in Children \ {p} : child'[q] = child[q] BY <1>5, <1>8
<1>12. click[c].batch \subseteq Children /\ p \notin click[c].registered
  BY <1>1, <1>4 DEF IInv, Known, ClickType
<1>13. Shape'
  <2>1. click' \in [Clicks -> ClickType(Any)] BY <1>4, <1>7, <1>9
  <2>2. child' \in [Children -> ChildType(Any)] BY <1>5, <1>6, <1>8
  <2> QED BY <1>1, <2>1, <2>2 DEF IInv, Shape
<1>14. Single' BY <1>1, <1>7, <1>10 DEF IInv, Single, Working
<1>15. Known'
  <2> SUFFICES ASSUME NEW d \in Clicks, NEW q \in click'[d].batch \cup click'[d].registered
               PROVE  child'[q].status # "none"
    BY DEF Known
  <2>1. q = p \/ q \in click[d].batch \cup click[d].registered BY <1>7, <1>10
  <2>2. q \in Children BY <1>4, <2>1 DEF ClickType
  <2>3. CASE q = p BY <1>6, <1>11, <2>3
  <2>4. CASE q # p BY <1>11, <2>1, <2>2, <2>4 DEF IInv, Known
  <2> QED BY <2>3, <2>4
<1>16. \A d \in Clicks, q \in Children : q # p /\ Keeps(d, q) => Keeps(d, q)'
  BY <1>1, <1>7, <1>10 DEF Keeps
<1>17. Pending(c, p)' BY <1>7, <1>10, <1>12 DEF Pending
<1>18. Owned'
  <2> SUFFICES ASSUME NEW q \in Children, Alive(q)'
               PROVE  \E d \in Clicks : d = child'[q].owner /\ Keeps(d, q)'
    BY DEF Owned, Keeps
  <2>1. CASE q = p BY <1>6, <1>11, <1>17, <2>1 DEF Pending, Keeps
  <2>2. CASE q # p
    <3>1. child'[q] = child[q] /\ Alive(q) BY <1>11, <2>2 DEF Alive
    <3>2. child[q].owner \in Clicks /\ Keeps(child[q].owner, q) BY <3>1 DEF IInv, Owned
    <3> QED BY <1>16, <2>2, <3>1, <3>2
  <2> QED BY <2>1, <2>2
<1>19. Reached'
  <2> SUFFICES ASSUME NEW q \in Children, Alive(q)', NEW d \in Clicks, d = child'[q].owner,
                      click'[d].stopRequested
               PROVE  \/ Pending(d, q)'
                      \/ \E s \in Stops : stop[s].at = "killing" /\ q \in stop[s].todo
    BY <1>1 DEF Reached, Pending
  <2>1. CASE q = p BY <1>6, <1>11, <1>17, <2>1
  <2>2. CASE q # p
    <3>1. child'[q] = child[q] /\ Alive(q) BY <1>11, <2>2 DEF Alive
    <3>2. child[q].owner = d /\ click[d].stopRequested BY <1>7, <1>10, <3>1
    <3>3. Pending(d, q) => Pending(d, q)' BY <1>1, <1>7, <1>10 DEF Pending
    <3> QED BY <3>1, <3>2, <3>3 DEF IInv, Reached
  <2> QED BY <2>1, <2>2
<1> QED BY <1>13, <1>14, <1>15, <1>18, <1>19 DEF IInv

----------------------------------------------------------------------------
(* Steps of a stop handler.                                                 *)

\* stop_train_task copies what is registered of the task it stops.
LEMMA StopTaskKeeps == ASSUME IInv, NEW s \in Stops, NEW kind, StopTask(s, kind) PROVE IInv'
<1>1. stop[s].at = "unborn" /\ UNCHANGED <<task, child>> BY DEF StopTask
<1>2. PICK Any : click \in [Clicks -> ClickType(Any)] /\ child \in [Children -> ChildType(Any)]
  BY DEF IInv, Shape
<1>3. stop \in [Stops -> StopType] BY DEF IInv, Shape
<1>4. CASE task = Idle \/ click[task].kind # kind
  <2> DEFINE new == [stop[s] EXCEPT !.at = "over"]
  <2>1. click' = click /\ stop' = [stop EXCEPT ![s].at = "over"] BY <1>4 DEF StopTask
  <2>2. new \in StopType BY <1>3 DEF StopType
  <2>3. stop' = [stop EXCEPT ![s] = new] BY <1>3, <2>1
  <2> HIDE DEF new
  <2>4. stop' \in [Stops -> StopType] /\ \A t \in Stops \ {s} : stop'[t] = stop[t] BY <1>3, <2>2, <2>3
  <2>5. Shape' BY <1>1, <1>2, <2>1, <2>4 DEF IInv, Shape
  <2>6. Single' /\ Known' /\ Owned'
    BY <1>1, <2>1 DEF IInv, Single, Known, Owned, Working, Keeps, Alive
  <2>7. Reached' BY <1>1, <2>1, <2>4 DEF IInv, Reached, Pending, Alive
  <2> QED BY <2>5, <2>6, <2>7 DEF IInv
<1>5. CASE ~(task = Idle \/ click[task].kind # kind)
  <2> DEFINE c == task
             new == [click[c] EXCEPT !.stopRequested = TRUE]
             list == [at |-> "killing", todo |-> click[c].registered]
  <2>1. c \in Clicks /\ click[c].at \notin {"unborn", "over"} BY <1>5 DEF IInv, Shape, Single, Working
  <2>2. stop' = [stop EXCEPT ![s] = list] /\ click' = [click EXCEPT ![c].stopRequested = TRUE]
    BY <1>5 DEF StopTask
  <2>3. /\ new \in ClickType(Any) /\ new.at = click[c].at /\ new.batch = click[c].batch
        /\ new.registered = click[c].registered /\ new.outcome = click[c].outcome
    BY <1>2, <2>1 DEF ClickType
  <2>4. click' = [click EXCEPT ![c] = new] BY <1>2, <2>1, <2>2
  <2>5. list \in StopType /\ list.at = "killing" /\ list.todo = click[c].registered
    BY <1>2, <2>1 DEF ClickType, StopType
  <2> HIDE DEF new, list, c
  <2>6. click'[c] = new /\ \A d \in Clicks \ {c} : click'[d] = click[d] BY <1>2, <2>1, <2>4
  <2>7. stop'[s] = list /\ \A t \in Stops \ {s} : stop'[t] = stop[t] BY <1>3, <2>2
  <2>8. Shape'
    <3>1. click' \in [Clicks -> ClickType(Any)] BY <1>2, <2>3, <2>4
    <3>2. stop' \in [Stops -> StopType] BY <1>3, <2>2, <2>5
    <3> QED BY <1>1, <1>2, <3>1, <3>2 DEF IInv, Shape
  <2>9. Single' BY <1>1, <2>3, <2>6 DEF IInv, Single, Working
  <2>10. Known' BY <1>1, <2>3, <2>6 DEF IInv, Known
  <2>11. \A d \in Clicks, p \in Children : /\ Keeps(d, p)' <=> Keeps(d, p)
                                           /\ Pending(d, p)' <=> Pending(d, p)
    BY <2>3, <2>6 DEF Keeps, Pending
  <2>12. Owned'
    <3> SUFFICES ASSUME NEW p \in Children, Alive(p)'
                 PROVE  child[p].owner \in Clicks /\ Keeps(child[p].owner, p)'
      BY <1>1 DEF Owned, Keeps
    <3> QED BY <1>1, <2>11 DEF IInv, Owned, Alive
  <2>13. Reached'
    <3> SUFFICES ASSUME NEW p \in Children, Alive(p), NEW d \in Clicks, d = child[p].owner,
                        click'[d].stopRequested
                 PROVE  \/ Pending(d, p)'
                        \/ \E t \in Stops : stop'[t].at = "killing" /\ p \in stop'[t].todo
      BY <1>1 DEF Reached, Pending, Alive
    <3>1. CASE d = c
      <4>1. Keeps(c, p) BY <3>1 DEF IInv, Owned
      <4>2. p \in click[c].registered \/ Pending(c, p) BY <2>1, <4>1 DEF Keeps, Pending
      <4> QED BY <2>1, <2>5, <2>7, <2>11, <3>1, <4>2
    <3>2. CASE d # c
      <4>1. click[d].stopRequested BY <2>6, <3>2
      <4>2. \/ Pending(d, p)
            \/ \E t \in Stops : stop[t].at = "killing" /\ p \in stop[t].todo
        BY <4>1 DEF IInv, Reached
      <4> QED BY <1>1, <2>7, <2>11, <4>2
    <3> QED BY <3>1, <3>2
  <2> QED BY <2>8, <2>9, <2>10, <2>12, <2>13 DEF IInv
<1> QED BY <1>4, <1>5

\* One of the copied subprocesses is killed, or none is left to kill.
LEMMA StopKillsKeeps == ASSUME IInv, NEW s \in Stops, StopKills(s) PROVE IInv'
<1>1. stop[s].at = "killing" /\ UNCHANGED <<task, click>> BY DEF StopKills
<1>2. stop \in [Stops -> StopType] /\ Shape BY DEF IInv, Shape
<1>3. PICK gone, new :
        /\ gone \subseteq stop[s].todo /\ stop' = [stop EXCEPT ![s] = new] /\ new \in StopType
        /\ \/ new.at = "killing" /\ new.todo = stop[s].todo \ gone
           \/ stop[s].todo = {}
        /\ Quiet /\ \A p \in Children : child'[p].status = "running" => p \notin gone
  <2>1. CASE stop[s].todo = {}
    <3> DEFINE new == [stop[s] EXCEPT !.at = "over"]
    <3>1. child' = child /\ stop' = [stop EXCEPT ![s] = new] BY <1>2, <2>1 DEF StopKills
    <3>2. new \in StopType BY <1>2 DEF StopType
    <3>3. Quiet BY <1>2, <3>1, StillQuiet
    <3> HIDE DEF new
    <3> QED BY <2>1, <3>1, <3>2, <3>3
  <2>2. CASE stop[s].todo # {}
    <3>1. PICK p \in stop[s].todo : child' = Killed({p}) /\ stop' = [stop EXCEPT ![s].todo = @ \ {p}]
      BY <2>2 DEF StopKills
    <3> DEFINE new == [stop[s] EXCEPT !.todo = @ \ {p}]
    <3>2. new \in StopType /\ new.at = "killing" /\ new.todo = stop[s].todo \ {p}
      BY <1>1, <1>2 DEF StopType
    <3>3. stop' = [stop EXCEPT ![s] = new] BY <1>2, <3>1
    <3>4. Quiet /\ \A q \in Children : child'[q].status = "running" => q \notin {p}
      BY <1>2, <3>1, KilledQuiet
    <3> HIDE DEF new
    <3> QED BY <3>1, <3>2, <3>3, <3>4
  <2> QED BY <2>1, <2>2
<1>4. stop'[s] = new /\ \A t \in Stops \ {s} : stop'[t] = stop[t] BY <1>2, <1>3
<1>5. Shape'
  <2>1. stop' \in [Stops -> StopType] BY <1>2, <1>3
  <2> QED BY <1>1, <1>2, <1>3, <2>1 DEF Shape, Quiet
<1>6. Single' BY <1>1 DEF IInv, Single, Working
<1>7. Known' BY <1>1, <1>2, <1>3 DEF IInv, Known, Quiet, Shape, ClickType
<1>8. Owned' BY <1>1, <1>3 DEF IInv, Owned, Quiet, Keeps, Alive
<1>9. Reached'
  <2> SUFFICES ASSUME NEW p \in Children, Alive(p)', NEW d \in Clicks, d = child'[p].owner,
                      click[d].stopRequested
               PROVE  \/ Pending(d, p)'
                      \/ \E t \in Stops : stop'[t].at = "killing" /\ p \in stop'[t].todo
    BY <1>1 DEF Reached, Pending
  <2>1. child[p].owner = d /\ Alive(p) /\ p \notin gone BY <1>3 DEF Quiet, Alive
  <2>2. \/ Pending(d, p)
        \/ \E t \in Stops : stop[t].at = "killing" /\ p \in stop[t].todo
    BY <2>1 DEF IInv, Reached
  <2>3. CASE Pending(d, p) BY <1>1, <2>1, <2>3 DEF Pending
  <2>4. ASSUME NEW t \in Stops, stop[t].at = "killing", p \in stop[t].todo
        PROVE  stop'[t].at = "killing" /\ p \in stop'[t].todo
    BY <1>3, <1>4, <2>1, <2>4
  <2> QED BY <2>2, <2>3, <2>4
<1> QED BY <1>5, <1>6, <1>7, <1>8, <1>9 DEF IInv

----------------------------------------------------------------------------

\* It holds before the first click.
LEMMA InitIInv == Init => IInv
<1> SUFFICES ASSUME Init PROVE IInv OBVIOUS
<1> DEFINE Any == {"none", <<>>}
<1>1. click \in [Clicks -> ClickType(Any)] BY DEF Init, TaskInit, ClickType, ClickPlaces, Outcomes
<1>2. child \in [Children -> ChildType(Any)] BY DEF Init, TaskInit, NoChild, ChildType
<1>3. stop \in [Stops -> StopType] /\ task = Idle BY DEF Init, TaskInit, StopType
<1>4. Shape BY <1>1, <1>2, <1>3 DEF Shape
<1>5. \A c \in Clicks : click[c].at = "unborn" /\ click[c].batch = {} /\ click[c].registered = {}
  BY DEF Init, TaskInit
<1>6. \A p \in Children : child[p].status = "none" BY DEF Init, TaskInit, NoChild
<1> QED BY <1>3, <1>4, <1>5, <1>6 DEF IInv, Single, Known, Owned, Reached, Working, Alive

\* Every step keeps it.
LEMMA NextIInv == IInv /\ [Next]_vars => IInv'
<1> SUFFICES ASSUME IInv, [Next]_vars PROVE IInv' OBVIOUS
<1>1. CASE WebuiStep
  <2>1. ASSUME NEW c \in Clicks, (\E kind \in Kinds : Begin(c, kind)) \/ Generator(c) \/ ClosePage(c)
        PROVE  IInv'
    BY <2>1, BeginKeeps, SpawnKeeps, AbortKeeps, RegisterKeeps, WaitKeeps, CheckKeeps, FinishKeeps
       DEF Generator
  <2>2. ASSUME NEW s \in Stops, (\E kind \in Kinds : StopTask(s, kind)) \/ StopKills(s)
        PROVE  IInv'
    BY <2>2, StopTaskKeeps, StopKillsKeeps
  <2> QED BY <1>1, <2>1, <2>2 DEF WebuiStep
<1>2. ASSUME NEW p \in Children, ChildEnds(p) PROVE IInv'
  BY <1>2, ExitKeeps DEF ChildEnds
<1>3. CASE UNCHANGED taskVars
  BY <1>3 DEF taskVars, IInv, Shape, Single, Known, Owned, Reached, Working, Alive, Keeps, Pending
<1>4. ASSUME NEW p \in Children, TrainerStep(p) PROVE UNCHANGED taskVars
  BY <1>4 DEF TrainerStep, Resume, NotDue, OpenG, CloseG, OpenD, CloseD, NextEpoch, SaveWeights, taskVars
<1> QED BY <1>1, <1>2, <1>3, <1>4 DEF Next, vars

\* The invariant holds throughout.
LEMMA Inductive == Spec => []IInv
BY InitIInv, NextIInv, PTL DEF Spec

\* A stop reaches every subprocess of the task it stops: once the task and the
\* stop handlers are over none of them runs, wherever the stop came.
THEOREM StopReachesChildren == Spec => []StoppedLeavesNoChild
<1>1. IInv => StoppedLeavesNoChild BY DEF IInv, Reached, Pending, StoppedLeavesNoChild, Working
<1> QED BY <1>1, Inductive, PTL

\* A subprocess that outlives its task was left by an exception or a closed page.
THEOREM OrphansExplained == Spec => []OrphansOnlyFromFailure
<1>1. IInv => OrphansOnlyFromFailure BY DEF IInv, Single, Owned, Keeps, OrphansOnlyFromFailure, Working
<1> QED BY <1>1, Inductive, PTL

----------------------------------------------------------------------------
(* The checkpoints.                                                         *)

\* A multiple of the interval is that many intervals.
LEMMA Quotient ==
  ASSUME NEW k \in Nat \ {0}, NEW a \in Nat, a % k = 0
  PROVE  \E q \in Nat : a = q * k
<1>1. a = k * (a \div k) + (a % k) BY SMT
<1>2. (a \div k) \in Nat BY SMT
<1> DEFINE q == a \div k
<1>3. a = q * k /\ q \in Nat BY <1>1, <1>2
<1> HIDE DEF q
<1> QED BY <1>3

\* Two multiples are an interval apart, or more.
LEMMA NextMultiple ==
  ASSUME NEW k \in Nat \ {0}, NEW a \in Nat, NEW b \in Nat, a % k = 0, b % k = 0, a < b
  PROVE  a + k <= b
<1>1. PICK p \in Nat : a = p * k BY Quotient
<1>2. PICK q \in Nat : b = q * k BY Quotient
<1>3. p + 1 <= q BY <1>1, <1>2
<1>4. (p + 1) * k <= q * k BY <1>3
<1> QED BY <1>1, <1>2, <1>4

\* The multiples beside a multiple.
LEMMA Multiples ==
  ASSUME NEW k \in Nat \ {0}, NEW a \in Nat, a % k = 0
  PROVE  /\ (a + k) % k = 0 /\ k % k = 0
         /\ k <= a => a - k \in Nat /\ (a - k) % k = 0
<1>1. PICK p \in Nat : a = p * k BY Quotient
<1>2. a + k = (p + 1) * k BY <1>1
<1> QED BY <1>1, <1>2

\* A set of numbers below a bound has a largest one.
LEMMA Largest ==
  ASSUME NEW n \in Nat, NEW T, T \subseteq 0..n, T # {}
  PROVE  \E s \in T : \A t \in T : t <= s
<1> DEFINE R == OpToRel(<, Nat)
           B == {n - t : t \in T}
<1>1. IsWellFoundedOn(R, Nat) BY NatLessThanWellFounded
<1>2. B \subseteq Nat /\ B # {}
  <2>1. PICK t \in T : TRUE OBVIOUS
  <2>2. n - t \in B BY <2>1
  <2>3. \A u \in T : u \in 0..n OBVIOUS
  <2>4. \A u \in T : n - u \in Nat BY <2>3
  <2> QED BY <2>2, <2>4
<1>3. \A x, y \in Nat : <<y, x>> \in R <=> y < x BY DEF OpToRel
<1> HIDE DEF R
<1>4. PICK x \in B : \A y \in B : ~(<<y, x>> \in R) BY <1>1, <1>2, WFMin, Zenon
<1>5. PICK s \in T : x = n - s OBVIOUS
<1>6. ASSUME NEW t \in T PROVE t <= s 
  <2>1. n - t \in B OBVIOUS
  <2>2. ~(n - t < x) BY <1>2, <1>3, <1>4, <2>1
  <2> QED BY <2>2, <1>5
<1> QED BY <1>6

USE TotalEpochAssumption, LatestModesAssumption, IntervalsAssumption, TornAssumption

Places == {"none", "epoch", "G", "G saved", "D", "saved", "done"}
TrainerType == [at : Places, epoch : 0..TotalEpoch, latest : BOOLEAN, every : Nat]
FilesType == [{"G", "D"} -> [Slots -> Contents]]

\* The subprocesses between their start and their end.
Started(p) == trainer[p].at # "none"

SaveTypes ==
  /\ files \in FilesType
  /\ trainer \in [Children -> TrainerType]
  /\ \A p \in Children : Started(p) => trainer[p].epoch \in Epochs
  /\ mixed \in BOOLEAN /\ together \in BOOLEAN

\* A step that loses memories and nothing else.
Forgets ==
  /\ UNCHANGED <<files, mixed, together>>
  /\ \A p \in Children : trainer'[p] = NoTrainer \/ trainer'[p] = trainer[p]
  /\ trainer' = [p \in Children |-> trainer'[p]]

\* The steps of the tasks forget, at most.
LEMMA TaskStepForgets == ASSUME SaveTypes, MemoryLost \/ UNCHANGED vars PROVE Forgets
BY DEF SaveTypes, MemoryLost, Forgets, vars, trainVars

\* Where a step of training moves its subprocess.
LEMMA AtFacts ==
  ASSUME SaveTypes, NEW p \in Children, NEW from \in Places, NEW to \in Places, At(p, from, to)
  PROVE  /\ trainer[p].at = from /\ trainer'[p].at = to
         /\ trainer'[p].epoch = trainer[p].epoch /\ trainer'[p].latest = trainer[p].latest
         /\ trainer'[p].every = trainer[p].every
         /\ \A q \in Children \ {p} : trainer'[q] = trainer[q]
         /\ trainer' \in [Children -> TrainerType]
<1> DEFINE new == [trainer[p] EXCEPT !.at = to]
<1>1. trainer' = [trainer EXCEPT ![p] = new] /\ trainer[p].at = from BY DEF At, SaveTypes
<1>2. /\ new \in TrainerType /\ new.at = to /\ new.epoch = trainer[p].epoch
      /\ new.latest = trainer[p].latest /\ new.every = trainer[p].every
  BY DEF SaveTypes, TrainerType
<1> HIDE DEF new
<1> QED BY <1>1, <1>2 DEF SaveTypes

\* What save_checkpoint changes on disk.
LEMMA WriteFacts ==
  ASSUME SaveTypes, NEW p \in Children, NEW net \in {"G", "D"}, NEW content \in Contents,
         Write(p, net, content), NEW slot \in Slots, slot = Slot(trainer[p].latest, trainer[p].epoch)
  PROVE  /\ files'[net][slot] = content /\ files' \in FilesType
         /\ \A s \in Slots \ {slot} : files'[net][s] = files[net][s]
         /\ \A other \in {"G", "D"} \ {net} : files'[other] = files[other]
BY DEF SaveTypes, FilesType, Write

\* Where Resume and NextEpoch put theirs.
LEMMA PutFacts ==
  ASSUME SaveTypes, NEW p \in Children, NEW new \in TrainerType, trainer' = [trainer EXCEPT ![p] = new]
  PROVE  /\ trainer'[p] = new /\ \A q \in Children \ {p} : trainer'[q] = trainer[q]
         /\ trainer' \in [Children -> TrainerType]
BY DEF SaveTypes

\* A training that starts: from the newest pair, or anew.
LEMMA ResumeFacts ==
  ASSUME SaveTypes, NEW p \in Children, Resume(p)
  PROVE  \E latest \in LatestModes, every \in Intervals :
           /\ UNCHANGED files /\ mixed' = (mixed \/ (latest /\ Mixes))
           /\ together' = (together \/ AnotherTrains)
           /\ trainer[p].at = "none" /\ trainer'[p].at = "epoch"
           /\ trainer'[p].epoch = (IF Resumes THEN Newest("G") ELSE 1)
           /\ trainer'[p].epoch \in Epochs
           /\ trainer'[p].latest = latest /\ trainer'[p].every = every
           /\ \A q \in Children \ {p} : trainer'[q] = trainer[q]
           /\ trainer' \in [Children -> TrainerType] /\ mixed' \in BOOLEAN /\ together' \in BOOLEAN
<1> DEFINE start == IF Resumes THEN Newest("G") ELSE 1
           new(latest, every) == [at |-> "epoch", epoch |-> start, latest |-> latest, every |-> every]
<1>1. PICK latest \in LatestModes, every \in Intervals :
        /\ trainer' = [trainer EXCEPT ![p] = new(latest, every)]
        /\ mixed' = (mixed \/ (latest /\ Mixes))
  BY DEF Resume
<1>2. UNCHANGED files /\ trainer[p].at = "none" /\ together' = (together \/ AnotherTrains) BY DEF Resume
<1>3. start \in Epochs BY DEF Resumes, Epochs
<1>4. new(latest, every) \in TrainerType BY <1>3 DEF TrainerType, Places, Epochs
<1>5. mixed' \in BOOLEAN /\ together' \in BOOLEAN BY <1>1, <1>2
<1> HIDE DEF start
<1>6. /\ new(latest, every).at = "epoch" /\ new(latest, every).epoch = start
      /\ new(latest, every).latest = latest /\ new(latest, every).every = every
  OBVIOUS
<1> HIDE DEF new
<1>7. /\ trainer'[p] = new(latest, every) /\ \A q \in Children \ {p} : trainer'[q] = trainer[q]
      /\ trainer' \in [Children -> TrainerType]
  BY <1>1, <1>4, PutFacts
<1> QED BY <1>1, <1>2, <1>3, <1>5, <1>6, <1>7 DEF start

\* The next epoch of a training.
LEMMA NextEpochFacts ==
  ASSUME SaveTypes, NEW p \in Children, NextEpoch(p)
  PROVE  /\ UNCHANGED <<files, mixed, together>> /\ trainer[p].at = "saved" /\ trainer'[p].at = "epoch"
         /\ trainer[p].epoch < TotalEpoch /\ trainer'[p].epoch = trainer[p].epoch + 1
         /\ trainer'[p].latest = trainer[p].latest /\ trainer'[p].every = trainer[p].every
         /\ \A q \in Children \ {p} : trainer'[q] = trainer[q]
         /\ trainer' \in [Children -> TrainerType]
<1> DEFINE old == trainer[p]
           new == [old EXCEPT !.at = "epoch", !.epoch = @ + 1]
<1>1. trainer' = [trainer EXCEPT ![p] = new] /\ old.at = "saved" /\ old.epoch < TotalEpoch
      /\ UNCHANGED <<files, mixed, together>>
  BY DEF NextEpoch, SaveTypes
<1>2. old \in TrainerType BY DEF SaveTypes
<1> HIDE DEF old
<1>3. old.epoch + 1 \in 0..TotalEpoch BY <1>1, <1>2 DEF TrainerType
<1>4. new \in TrainerType BY <1>2, <1>3 DEF TrainerType, Places
<1>5. /\ new.at = "epoch" /\ new.epoch = old.epoch + 1 /\ new.latest = old.latest
      /\ new.every = old.every
  BY <1>2 DEF TrainerType
<1> HIDE DEF new
<1> QED BY <1>1, <1>4, <1>5, PutFacts DEF old

\* The slots of a net that hold a file.
There(net) == {s \in Slots : files[net][s] # NoFile}

\* What a new training finds newest.
LEMMA NewestFacts ==
  ASSUME SaveTypes, NEW net \in {"G", "D"}
  PROVE  \/ There(net) = {} /\ Newest(net) = NoFile
         \/ \E s \in There(net) : (\A t \in There(net) : t <= s) /\ Newest(net) = files[net][s]
<1>1. CASE There(net) = {} BY <1>1 DEF There, Newest
<1>2. CASE There(net) # {}
  <2> DEFINE last == CHOOSE s \in There(net) : \A t \in There(net) : t <= s
  <2>1. Latest \in Nat /\ There(net) \subseteq 0..Latest BY DEF Latest, There, Slots
  <2>2. \E s \in There(net) : \A t \in There(net) : t <= s BY <1>2, <2>1, Largest
  <2>3. last \in There(net) /\ \A t \in There(net) : t <= last BY <2>2
  <2>4. Newest(net) = files[net][last] BY <1>2 DEF There, Newest
  <2> HIDE DEF last
  <2> QED BY <2>3, <2>4
<1> QED BY <1>1, <1>2

\* A file that is written is there; no other file comes or goes.
LEMMA ThereFacts ==
  ASSUME SaveTypes, NEW p \in Children, Started(p), NEW net \in {"G", "D"},
         NEW content \in Contents \ {NoFile}, Write(p, net, content)
  PROVE  LET slot == Slot(trainer[p].latest, trainer[p].epoch)
         IN  /\ slot \in Slots /\ files' \in FilesType /\ files'[net][slot] = content
             /\ \A s \in Slots \ {slot} : files'[net][s] = files[net][s]
             /\ \A other \in {"G", "D"} \ {net} : files'[other] = files[other]
             /\ There(net)' = There(net) \cup {slot}
             /\ \A other \in {"G", "D"} \ {net} : There(other)' = There(other)
<1> DEFINE slot == Slot(trainer[p].latest, trainer[p].epoch)
<1>1. slot \in Slots BY DEF SaveTypes, TrainerType, Slot, Slots, Latest, Epochs
<1> HIDE DEF slot
<1>2. /\ files'[net][slot] = content /\ files' \in FilesType
      /\ \A s \in Slots \ {slot} : files'[net][s] = files[net][s]
      /\ \A other \in {"G", "D"} \ {net} : files'[other] = files[other]
  BY <1>1, WriteFacts DEF slot
<1> QED BY <1>1, <1>2 DEF There, slot

\* The types hold throughout.
LEMMA NextSaveTypes == SaveTypes /\ [Next]_vars => SaveTypes'
<1> SUFFICES ASSUME SaveTypes, [Next]_vars PROVE SaveTypes' OBVIOUS
<1>1. CASE MemoryLost \/ UNCHANGED vars
  <2>1. NoTrainer \in TrainerType /\ NoTrainer.at = "none" BY DEF NoTrainer, TrainerType, Places
  <2> QED BY <1>1, <2>1, TaskStepForgets DEF Forgets, SaveTypes, Started
<1>2. ASSUME NEW p \in Children, TrainerStep(p) PROVE SaveTypes'
  <2>1. CASE Resume(p) BY <2>1, ResumeFacts DEF SaveTypes, Started
  <2>2. CASE NextEpoch(p)
    <3>1. trainer'[p].epoch \in Epochs BY <2>2, NextEpochFacts DEF SaveTypes, Started, Epochs
    <3> QED BY <2>2, <3>1, NextEpochFacts DEF SaveTypes, Started
  <2>3. CASE NotDue(p) \/ SaveWeights(p)
    BY <2>3, AtFacts DEF NotDue, SaveWeights, SaveTypes, Started, Places
  <2>4. ASSUME NEW from \in Places \ {"none"}, NEW to \in Places, At(p, from, to),
               NEW net \in {"G", "D"}, NEW content \in Contents \ {NoFile}, Write(p, net, content),
               UNCHANGED <<mixed, together>>
        PROVE  SaveTypes'
    <3>1. Started(p) BY <2>4, AtFacts DEF Started
    <3>2. files' \in FilesType BY <2>4, <3>1, ThereFacts
    <3> QED BY <2>4, <3>1, <3>2, AtFacts DEF SaveTypes, Started
  <2>5. trainer[p].at # "none" => trainer[p].epoch \in Contents \ {NoFile} /\ Torn \in Contents \ {NoFile}
    BY DEF SaveTypes, Started, Contents, Epochs, NoFile
  <2> QED BY <1>2, <2>1, <2>2, <2>3, <2>4, <2>5 DEF TrainerStep, OpenG, CloseG, OpenD, CloseD, Places, At
<1> QED BY <1>1, <1>2 DEF Next

LEMMA TypesHold == Spec => []SaveTypes
<1>1. ASSUME Init PROVE SaveTypes
  <2>1. NoTrainer \in TrainerType /\ NoTrainer.at = "none" BY DEF NoTrainer, TrainerType, Places
  <2>2. trainer \in [Children -> TrainerType] /\ \A p \in Children : ~Started(p)
    BY <1>1, <2>1 DEF Init, Started
  <2>3. files \in FilesType BY <1>1 DEF Init, FilesType, Contents
  <2> QED BY <1>1, <2>2, <2>3 DEF Init, SaveTypes
<1> QED BY <1>1, NextSaveTypes, PTL DEF Spec

----------------------------------------------------------------------------
(* Trainings that save alike: a pair of files for each save.                *)

\* The epochs that end with a save.
Saves(k) == {e \in Epochs : e % k = 0}

Alike(latest, k) == LatestModes = {latest} /\ Intervals = {k}

\* Every training passes the same values.
Setting(latest, k) ==
  \A p \in Children : Started(p) => trainer[p].latest = latest /\ trainer[p].every = k

\* A file is named after the epoch it holds, or was cut; a generator is written
\* before its discriminator, and each pair before the next.
Pairs(k) ==
  /\ \A net \in {"G", "D"} : \A s \in There(net) : s \in Saves(k) /\ files[net][s] \in {Torn, s}
  /\ There("D") \subseteq There("G")
  /\ \A s \in There("G") : \A m \in Saves(k) : m < s => m \in There("D")

\* A training has every pair before its epoch, and its own as far as it wrote it.
Wrote(p, k) ==
  LET epoch == trainer[p].epoch
  IN  /\ Started(p) => \A m \in Saves(k) : m < epoch => m \in There("D")
      /\ trainer[p].at \in {"G", "G saved", "D"} => epoch \in There("G")
      /\ trainer[p].at \in {"saved", "done"} /\ epoch \in Saves(k) => epoch \in There("D")

Numbered(k) == Setting(FALSE, k) /\ Pairs(k) /\ \A p \in Children : Wrote(p, k)

\* One subprocess moves and no file is removed.
Grows(p) ==
  /\ \A q \in Children \ {p} : trainer'[q] = trainer[q]
  /\ \A net \in {"G", "D"} : There(net) \subseteq There(net)'

\* The others keep what they know.
LEMMA OthersNumbered ==
  ASSUME NEW k \in Nat \ {0}, Numbered(k), NEW p \in Children, Grows(p), Pairs(k)', Wrote(p, k)',
         trainer'[p].latest = FALSE /\ trainer'[p].every = k
  PROVE  Numbered(k)'
<1>1. Setting(FALSE, k)' BY DEF Numbered, Grows, Setting, Started
<1>2. ASSUME NEW q \in Children PROVE Wrote(q, k)'
  BY DEF Numbered, Grows, Wrote, Started
<1> QED BY <1>1, <1>2 DEF Numbered

\* A training resumes from the newest pair, the pairs before it are whole.
LEMMA ResumeNumbered ==
  ASSUME NEW k \in Nat \ {0}, Alike(FALSE, k), SaveTypes, Numbered(k), NEW p \in Children, Resume(p)
  PROVE  Numbered(k)'
<1>1. /\ UNCHANGED files /\ trainer'[p].at = "epoch"
      /\ trainer'[p].epoch = (IF Resumes THEN Newest("G") ELSE 1)
      /\ trainer'[p].latest = FALSE /\ trainer'[p].every = k
      /\ \A q \in Children \ {p} : trainer'[q] = trainer[q]
  BY ResumeFacts DEF Alike
<1>2. There("G")' = There("G") /\ There("D")' = There("D") BY <1>1 DEF There
<1>3. Pairs(k)' BY <1>1, <1>2 DEF Numbered, Pairs
<1>4. ASSUME NEW m \in Saves(k), m < trainer'[p].epoch PROVE m \in There("D")
  <2>1. m >= 1 BY DEF Saves, Epochs
  <2>2. Resumes BY <1>1, <1>4, <2>1 DEF Saves, Epochs
  <2>3. Newest("G") \in Epochs BY <2>2 DEF Resumes
  <2>4. PICK s \in There("G") : Newest("G") = files["G"][s]
    BY <2>3, NewestFacts DEF Epochs, NoFile
  <2>5. Newest("G") = s BY <2>3, <2>4 DEF Numbered, Pairs, Epochs
  <2> QED BY <1>1, <1>4, <2>2, <2>5 DEF Numbered, Pairs
<1>5. Wrote(p, k)' BY <1>1, <1>2, <1>4 DEF Wrote, Started
<1> QED BY <1>1, <1>2, <1>3, <1>5, OthersNumbered DEF Grows

\* The steps that write nothing.
LEMMA QuietNumbered ==
  ASSUME NEW k \in Nat \ {0}, SaveTypes, Numbered(k), NEW p \in Children,
         NotDue(p) \/ SaveWeights(p) \/ NextEpoch(p)
  PROVE  Numbered(k)'
<1>1. UNCHANGED files BY DEF NotDue, SaveWeights, NextEpoch
<1>2. There("G")' = There("G") /\ There("D")' = There("D") BY <1>1 DEF There
<1>3. Pairs(k)' BY <1>1, <1>2 DEF Numbered, Pairs
<1>4. Started(p) /\ trainer[p].epoch \in Epochs /\ trainer[p].latest = FALSE /\ trainer[p].every = k
  BY AtFacts DEF NotDue, SaveWeights, NextEpoch, At, Started, SaveTypes, Numbered, Setting
<1>5. CASE NotDue(p)
  <2>1. trainer[p].epoch \notin Saves(k) BY <1>4, <1>5 DEF NotDue, Due, Saves
  <2>2. /\ trainer'[p].at = "saved" /\ trainer'[p].epoch = trainer[p].epoch
        /\ trainer'[p].latest = trainer[p].latest /\ trainer'[p].every = trainer[p].every
        /\ \A q \in Children \ {p} : trainer'[q] = trainer[q]
    BY <1>5, AtFacts DEF NotDue, Places
  <2>3. Wrote(p, k)' BY <1>2, <1>4, <2>1, <2>2 DEF Numbered, Wrote, Started
  <2> QED BY <1>2, <1>3, <1>4, <2>2, <2>3, OthersNumbered DEF Grows
<1>6. CASE SaveWeights(p)
  <2>2. /\ trainer[p].at = "saved" /\ trainer'[p].at = "done" /\ trainer'[p].epoch = trainer[p].epoch
        /\ trainer'[p].latest = trainer[p].latest /\ trainer'[p].every = trainer[p].every
        /\ \A q \in Children \ {p} : trainer'[q] = trainer[q]
    BY <1>6, AtFacts DEF SaveWeights, Places
  <2>3. Wrote(p, k)' BY <1>2, <1>4, <2>2 DEF Numbered, Wrote, Started
  <2> QED BY <1>2, <1>3, <1>4, <2>2, <2>3, OthersNumbered DEF Grows
<1>7. CASE NextEpoch(p)
  <2>1. /\ trainer[p].at = "saved" /\ trainer'[p].at = "epoch"
        /\ trainer'[p].epoch = trainer[p].epoch + 1
        /\ trainer'[p].latest = trainer[p].latest /\ trainer'[p].every = trainer[p].every
        /\ \A q \in Children \ {p} : trainer'[q] = trainer[q]
    BY <1>7, NextEpochFacts
  <2>2. ASSUME NEW m \in Saves(k), m < trainer[p].epoch + 1 PROVE m \in There("D")
    <3>1. m < trainer[p].epoch \/ m = trainer[p].epoch BY <1>4, <2>2 DEF Saves, Epochs
    <3> QED BY <1>4, <2>1, <3>1 DEF Numbered, Wrote
  <2>3. Wrote(p, k)' BY <1>2, <2>1, <2>2 DEF Wrote, Started
  <2> QED BY <1>2, <1>3, <1>4, <2>1, <2>3, OthersNumbered DEF Grows
<1> QED BY <1>5, <1>6, <1>7

\* The steps of save_checkpoint.
LEMMA SaveNumbered ==
  ASSUME NEW k \in Nat \ {0}, SaveTypes, Numbered(k), NEW p \in Children,
         OpenG(p) \/ CloseG(p) \/ OpenD(p) \/ CloseD(p)
  PROVE  Numbered(k)'
<1> DEFINE e == trainer[p].epoch
<1>1. Started(p) /\ e \in Epochs /\ trainer[p].latest = FALSE /\ trainer[p].every = k
  BY AtFacts DEF OpenG, CloseG, OpenD, CloseD, At, Started, SaveTypes, Numbered, Setting
<1>2. /\ Slot(trainer[p].latest, trainer[p].epoch) = e
      /\ e \in Contents \ {NoFile} /\ Torn \in Contents \ {NoFile}
  BY <1>1 DEF Slot, Contents, Epochs, NoFile
<1>3. /\ trainer[p].at \in Places /\ trainer'[p].epoch = e
      /\ trainer'[p].latest = trainer[p].latest /\ trainer'[p].every = trainer[p].every
      /\ \A q \in Children \ {p} : trainer'[q] = trainer[q]
  BY AtFacts DEF OpenG, CloseG, OpenD, CloseD, Places, SaveTypes, TrainerType
<1>4. e \in Slots BY <1>1 DEF Epochs, Slots, Latest
<1> HIDE DEF e
<1>5. CASE OpenG(p) \/ CloseG(p)
  <2>1. PICK content \in {Torn, e} : Write(p, "G", content)
    BY <1>5 DEF OpenG, CloseG, e
  <2>2. /\ files'["G"][e] = content /\ \A s \in Slots \ {e} : files'["G"][s] = files["G"][s]
        /\ files'["D"] = files["D"]
        /\ There("G")' = There("G") \cup {e} /\ There("D")' = There("D")
    BY <1>1, <1>2, <2>1, ThereFacts
  <2>3. e \in Saves(k)
    BY <1>1, <1>5, <1>2, AtFacts DEF OpenG, CloseG, Due, Saves, Numbered, Wrote, Pairs, Places, e
  <2>4. trainer'[p].at \in {"G", "G saved"} BY <1>5, AtFacts DEF OpenG, CloseG, Places
  <2>5. \A m \in Saves(k) : m < e => m \in There("D") BY <1>1 DEF Numbered, Wrote, e
  <2>6. Pairs(k)'
    <3>1. \A s \in There("G")' : s \in Saves(k) /\ files'["G"][s] \in {Torn, s}
      BY <2>1, <2>2, <2>3 DEF Numbered, Pairs, There
    <3>2. \A s \in There("D")' : s \in Saves(k) /\ files'["D"][s] \in {Torn, s}
      BY <2>2 DEF Numbered, Pairs
    <3>3. There("D")' \subseteq There("G")' BY <2>2 DEF Numbered, Pairs
    <3>4. \A s \in There("G")' : \A m \in Saves(k) : m < s => m \in There("D")'
      BY <2>2, <2>5 DEF Numbered, Pairs
    <3> QED BY <3>1, <3>2, <3>3, <3>4 DEF Pairs
  <2>7. Wrote(p, k)' BY <1>3, <2>2, <2>4, <2>5 DEF Wrote
  <2> QED BY <1>1, <1>3, <2>2, <2>6, <2>7, OthersNumbered DEF Grows
<1>6. CASE OpenD(p) \/ CloseD(p)
  <2>1. PICK content \in {Torn, e} : Write(p, "D", content)
    BY <1>6 DEF OpenD, CloseD, e
  <2>2. /\ files'["D"][e] = content /\ \A s \in Slots \ {e} : files'["D"][s] = files["D"][s]
        /\ files'["G"] = files["G"]
        /\ There("D")' = There("D") \cup {e} /\ There("G")' = There("G")
    BY <1>1, <1>2, <2>1, ThereFacts
  <2>3. e \in There("G") /\ e \in Saves(k)
    BY <1>6, AtFacts DEF OpenD, CloseD, Numbered, Wrote, Pairs, Places, e
  <2>4. trainer'[p].at \in {"D", "saved"} BY <1>6, AtFacts DEF OpenD, CloseD, Places
  <2>5. \A m \in Saves(k) : m < e => m \in There("D") BY <1>1 DEF Numbered, Wrote, e
  <2>6. Pairs(k)'
    <3>1. \A s \in There("D")' : s \in Saves(k) /\ files'["D"][s] \in {Torn, s}
      BY <2>1, <2>2, <2>3 DEF Numbered, Pairs, There
    <3>2. \A s \in There("G")' : s \in Saves(k) /\ files'["G"][s] \in {Torn, s}
      BY <2>2 DEF Numbered, Pairs
    <3>3. There("D")' \subseteq There("G")' BY <2>2, <2>3 DEF Numbered, Pairs
    <3>4. \A s \in There("G")' : \A m \in Saves(k) : m < s => m \in There("D")'
      BY <2>2 DEF Numbered, Pairs
    <3> QED BY <3>1, <3>2, <3>3, <3>4 DEF Pairs
  <2>7. Wrote(p, k)' BY <1>3, <2>2, <2>3, <2>4, <2>5 DEF Wrote
  <2> QED BY <1>1, <1>3, <2>2, <2>6, <2>7, OthersNumbered DEF Grows
<1> QED BY <1>5, <1>6

\* A process that ends leaves its files.
LEMMA ForgetNumbered ==
  ASSUME NEW k \in Nat \ {0}, SaveTypes, Numbered(k), Forgets PROVE Numbered(k)'
<1>1. There("G")' = There("G") /\ There("D")' = There("D") BY DEF Forgets, There
<1>2. Pairs(k)' BY <1>1 DEF Forgets, Numbered, Pairs
<1>3. ASSUME NEW p \in Children
      PROVE  /\ Wrote(p, k)'
             /\ Started(p)' => trainer'[p].latest = FALSE /\ trainer'[p].every = k
  <2>1. CASE trainer'[p] = trainer[p] BY <1>1, <2>1 DEF Numbered, Wrote, Started, Setting
  <2>2. CASE trainer'[p] = NoTrainer BY <2>2 DEF NoTrainer, Wrote, Started
  <2> QED BY <2>1, <2>2 DEF Forgets
<1> QED BY <1>2, <1>3 DEF Numbered, Setting

\* Every step keeps it.
LEMMA NumberedHolds ==
  ASSUME NEW k \in Nat \ {0}, Alike(FALSE, k) PROVE Spec => []Numbered(k)
<1>1. ASSUME Init PROVE Numbered(k)
  <2>1. \A p \in Children : ~Started(p) /\ trainer[p].at = "none" BY <1>1 DEF Init, NoTrainer, Started
  <2>2. There("G") = {} /\ There("D") = {} BY <1>1 DEF Init, There
  <2> QED BY <2>1, <2>2 DEF Numbered, Setting, Pairs, Wrote
<1>2. ASSUME SaveTypes, Numbered(k), [Next]_vars PROVE Numbered(k)'
  <2>1. CASE MemoryLost \/ UNCHANGED vars BY <1>2, <2>1, TaskStepForgets, ForgetNumbered
  <2>2. ASSUME NEW p \in Children, TrainerStep(p) PROVE Numbered(k)'
    BY <1>2, <2>2, ResumeNumbered, QuietNumbered, SaveNumbered DEF TrainerStep
  <2> QED BY <1>2, <2>1, <2>2 DEF Next
<1> QED BY <1>1, <1>2, TypesHold, PTL DEF Spec

\* The newest pair is a pair, or the generator is one save ahead.
LEMMA NumberedPair ==
  ASSUME NEW k \in Nat \ {0}, SaveTypes, Numbered(k), Resumes
  PROVE  Newest("G") - Newest("D") \in {0, k}
<1>1. Newest("G") \in Epochs /\ Newest("D") \in Epochs BY DEF Resumes
<1>2. PICK g \in There("G") : (\A t \in There("G") : t <= g) /\ Newest("G") = files["G"][g]
  BY <1>1, NewestFacts DEF Epochs, NoFile
<1>3. PICK d \in There("D") : (\A t \in There("D") : t <= d) /\ Newest("D") = files["D"][d]
  BY <1>1, NewestFacts DEF Epochs, NoFile
<1>4. Newest("G") = g /\ Newest("D") = d BY <1>1, <1>2, <1>3 DEF Numbered, Pairs, Epochs
<1>5. g \in Saves(k) /\ d \in Saves(k) /\ d <= g BY <1>2, <1>3 DEF Numbered, Pairs
<1>6. g \in Epochs /\ d \in Epochs /\ g % k = 0 /\ d % k = 0 BY <1>5 DEF Saves
<1>7. ASSUME d < g PROVE g = d + k
  <2>1. d + k <= g BY <1>6, <1>7, NextMultiple DEF Epochs
  <2>2. (d + k) % k = 0 BY <1>6, Multiples DEF Epochs
  <2>3. d + k \in Saves(k) BY <1>6, <2>1, <2>2 DEF Saves, Epochs
  <2>4. ~(d + k < g) BY <1>2, <1>3, <1>6, <2>3 DEF Numbered, Pairs, Epochs
  <2> QED BY <1>6, <2>1, <2>4 DEF Epochs
<1> QED BY <1>4, <1>5, <1>6, <1>7 DEF Epochs

----------------------------------------------------------------------------
(* Trainings that save alike: one slot, which each save overwrites.         *)

Kept(net) == files[net][Latest]

\* The discriminator that a generator of this epoch may lie beside.
Beside(epoch, k) == Kept("D") \notin Epochs \/ Kept("D") \in {epoch, epoch - k}

\* How far a training is from what is in the slot.
Place(p, k) ==
  LET epoch == trainer[p].epoch
  IN  /\ trainer[p].at = "epoch" =>
           \/ Kept("D") \notin Epochs /\ epoch <= k
           \/ Kept("G") = epoch /\ Kept("D") \in {epoch, epoch - k} /\ epoch \in Saves(k)
           \/ /\ Kept("G") = Kept("D") /\ Kept("G") \in Epochs
              /\ Kept("G") < epoch /\ epoch <= Kept("G") + k
      /\ trainer[p].at = "G" => epoch \in Saves(k) /\ Beside(epoch, k)
      /\ trainer[p].at = "G saved" => epoch \in Saves(k) /\ Beside(epoch, k) /\ Kept("G") = epoch
      /\ trainer[p].at = "D" => epoch \in Saves(k) /\ Kept("G") = epoch /\ Kept("D") = Torn
      /\ trainer[p].at \in {"saved", "done"} =>
           \/ Kept("D") \notin Epochs /\ epoch < k
           \/ /\ Kept("G") = Kept("D") /\ Kept("G") \in Epochs
              /\ Kept("G") <= epoch /\ epoch < Kept("G") + k

\* One training at a time, beside its own pair.
Unmixed(k) ==
  /\ \A p, q \in Children : Started(p) /\ Started(q) => p = q
  /\ Kept("G") \in Epochs => Kept("G") \in Saves(k)
  /\ Kept("G") \in Epochs /\ Kept("D") \in Epochs => Kept("G") - Kept("D") \in {0, k}
  /\ \A p \in Children : Place(p, k)

InPlace(k) ==
  /\ Setting(TRUE, k)
  /\ \A net \in {"G", "D"} : There(net) \subseteq {Latest}
  /\ ~mixed => Unmixed(k)

\* The newest file is the only one.
LEMMA NewestKept ==
  ASSUME SaveTypes, NEW k, InPlace(k), NEW net \in {"G", "D"}
  PROVE  Newest(net) = Kept(net)
<1>1. Latest \in Slots BY DEF Latest, Slots
<1>2. CASE There(net) = {} BY <1>1, <1>2, NewestFacts DEF There, Kept
<1>3. CASE There(net) # {} BY <1>3, NewestFacts DEF InPlace, Kept
<1> QED BY <1>2, <1>3

\* The place of one training is the place of all.
LEMMA OthersUnmixed ==
  ASSUME NEW k, Unmixed(k), NEW p \in Children, Started(p),
         \A q \in Children \ {p} : trainer'[q] = trainer[q],
         Place(p, k)', Kept("G")' \in Epochs => Kept("G")' \in Saves(k),
         Kept("G")' \in Epochs /\ Kept("D")' \in Epochs => Kept("G")' - Kept("D")' \in {0, k}
  PROVE  Unmixed(k)'
<1>1. \A q \in Children \ {p} : trainer'[q].at = "none" BY DEF Unmixed, Started
<1>2. \A q \in Children \ {p} : Place(q, k)' BY <1>1 DEF Place
<1> QED BY <1>1, <1>2 DEF Unmixed, Started

\* A training that starts alone, beside the pair it loads or beside none.
LEMMA ResumeUnmixed ==
  ASSUME NEW k \in Nat \ {0}, Alike(TRUE, k), SaveTypes, InPlace(k), NEW p \in Children, Resume(p)
  PROVE  InPlace(k)'
<1>1. /\ UNCHANGED files /\ trainer'[p].at = "epoch"
      /\ trainer'[p].epoch = (IF Resumes THEN Newest("G") ELSE 1)
      /\ trainer'[p].latest = TRUE /\ trainer'[p].every = k
      /\ \A q \in Children \ {p} : trainer'[q] = trainer[q]
      /\ mixed' = (mixed \/ Mixes)
  BY ResumeFacts DEF Alike
<1>2. \A net \in {"G", "D"} : There(net)' = There(net) /\ Kept(net)' = Kept(net)
  BY <1>1 DEF There, Kept
<1>3. Setting(TRUE, k)' BY <1>1 DEF InPlace, Setting, Started
<1>4. ASSUME ~mixed' PROVE Unmixed(k)'
  <2>1. Unmixed(k) /\ ~Mixes BY <1>1, <1>4 DEF InPlace
  <2>2. \A q \in Children : trainer[q].at = "none" BY <2>1 DEF Mixes, AnotherTrains
  <2>3. \A q \in Children \ {p} : trainer'[q].at = "none" /\ Place(q, k)' BY <1>1, <2>2 DEF Place
  <2>4. Place(p, k)'
    <3>1. CASE Resumes
      <4>1. Kept("G") \in Epochs /\ Kept("D") \in Epochs /\ trainer'[p].epoch = Kept("G")
        BY <1>1, <3>1, NewestKept DEF Resumes
      <4>2. Kept("G") \in Saves(k) /\ Kept("G") - Kept("D") \in {0, k} BY <2>1, <4>1 DEF Unmixed
      <4>3. Kept("D") \in {Kept("G"), Kept("G") - k} BY <4>1, <4>2 DEF Epochs
      <4> QED BY <1>1, <1>2, <4>1, <4>2, <4>3 DEF Place
    <3>2. CASE ~Resumes
      <4>1. Kept("D") \notin Epochs /\ trainer'[p].epoch = 1
        BY <1>1, <2>1, <3>2, NewestKept DEF Mixes, AnotherTrains
      <4> QED BY <1>1, <1>2, <4>1 DEF Place
    <3> QED BY <3>1, <3>2
  <2>5. /\ Kept("G")' \in Epochs => Kept("G")' \in Saves(k)
        /\ Kept("G")' \in Epochs /\ Kept("D")' \in Epochs => Kept("G")' - Kept("D")' \in {0, k}
    BY <1>2, <2>1 DEF Unmixed
  <2> QED BY <2>3, <2>4, <2>5 DEF Unmixed, Started
<1> QED BY <1>2, <1>3, <1>4 DEF InPlace

\* The steps that write nothing.
LEMMA QuietUnmixed ==
  ASSUME NEW k \in Nat \ {0}, SaveTypes, InPlace(k), NEW p \in Children,
         NotDue(p) \/ SaveWeights(p) \/ NextEpoch(p)
  PROVE  InPlace(k)'
<1> DEFINE e == trainer[p].epoch
           g == Kept("G")
           d == Kept("D")
<1>1. UNCHANGED <<files, mixed>> BY DEF NotDue, SaveWeights, NextEpoch
<1>2. \A net \in {"G", "D"} : There(net)' = There(net) /\ Kept(net)' = Kept(net)
  BY <1>1 DEF There, Kept
<1>3. Started(p) /\ e \in Epochs /\ trainer[p].latest = TRUE /\ trainer[p].every = k
  BY AtFacts DEF NotDue, SaveWeights, NextEpoch, At, Started, SaveTypes, InPlace, Setting
<1>4. /\ trainer'[p].latest = trainer[p].latest /\ trainer'[p].every = trainer[p].every
      /\ \A q \in Children \ {p} : trainer'[q] = trainer[q]
  BY AtFacts, NextEpochFacts DEF NotDue, SaveWeights, Places
<1>5. Setting(TRUE, k)' BY <1>3, <1>4 DEF InPlace, Setting, Started
<1>6. ASSUME ~mixed PROVE Unmixed(k)'
  <2>1. Unmixed(k) BY <1>6 DEF InPlace
  <2>2. (k % k = 0) /\ \A a \in Saves(k) : (a + k) % k = 0
    <3>1. k % k = 0 OBVIOUS
    <3>2. ASSUME NEW a \in Saves(k) PROVE (a + k) % k = 0
      <4>1. a \in Nat /\ a % k = 0 BY DEF Saves, Epochs
      <4> QED BY <4>1, Multiples
    <3> QED BY <3>1, <3>2
  <2>3. g \in Epochs => g \in Saves(k) BY <2>1 DEF Unmixed
  <2>4. Place(p, k) BY <2>1 DEF Unmixed
  <2>5. CASE NotDue(p)
    <3>1. e \notin Saves(k) /\ trainer[p].at = "epoch" /\ trainer'[p].at = "saved" /\ trainer'[p].epoch = e
      BY <1>3, <2>5, AtFacts DEF NotDue, Due, Saves, Places
    <3>2. \/ d \notin Epochs /\ e <= k
          \/ g = d /\ g \in Epochs /\ g < e /\ e <= g + k
      BY <2>4, <3>1 DEF Place
    <3>3. e # k BY <1>3, <2>2, <3>1 DEF Saves
    <3>4. g \in Epochs => e # g + k BY <1>3, <2>2, <2>3, <3>1 DEF Saves
    <3>5. \/ d \notin Epochs /\ e < k
          \/ g = d /\ g \in Epochs /\ g <= e /\ e < g + k
      BY <1>3, <3>2, <3>3, <3>4 DEF Epochs
    <3>6. Place(p, k)' BY <1>2, <3>1, <3>5 DEF Place
    <3> QED BY <1>2, <1>3, <1>4, <2>1, <3>6, OthersUnmixed DEF Unmixed
  <2>6. CASE SaveWeights(p)
    <3>1. trainer[p].at = "saved" /\ trainer'[p].at = "done" /\ trainer'[p].epoch = e
      BY <2>6, AtFacts DEF SaveWeights, Places
    <3>2. Place(p, k)' BY <1>2, <2>4, <3>1 DEF Place
    <3> QED BY <1>2, <1>3, <1>4, <2>1, <3>2, OthersUnmixed DEF Unmixed
  <2>7. CASE NextEpoch(p)
    <3>1. trainer[p].at = "saved" /\ trainer'[p].at = "epoch" /\ trainer'[p].epoch = e + 1
      BY <2>7, NextEpochFacts
    <3>2. \/ d \notin Epochs /\ e < k
          \/ g = d /\ g \in Epochs /\ g <= e /\ e < g + k
      BY <2>4, <3>1 DEF Place
    <3>3. \/ d \notin Epochs /\ e + 1 <= k
          \/ g = d /\ g \in Epochs /\ g < e + 1 /\ e + 1 <= g + k
      BY <1>3, <3>2 DEF Epochs
    <3>4. Place(p, k)' BY <1>2, <3>1, <3>3 DEF Place
    <3> QED BY <1>2, <1>3, <1>4, <2>1, <3>4, OthersUnmixed DEF Unmixed
  <2> QED BY <2>5, <2>6, <2>7
<1> QED BY <1>1, <1>2, <1>5, <1>6 DEF InPlace

\* The steps of save_checkpoint.
LEMMA SaveUnmixed ==
  ASSUME NEW k \in Nat \ {0}, SaveTypes, InPlace(k), NEW p \in Children,
         OpenG(p) \/ CloseG(p) \/ OpenD(p) \/ CloseD(p)
  PROVE  InPlace(k)'
<1> DEFINE e == trainer[p].epoch
           g == Kept("G")
           d == Kept("D")
<1>1. Started(p) /\ e \in Epochs /\ trainer[p].latest = TRUE /\ trainer[p].every = k
  BY AtFacts DEF OpenG, CloseG, OpenD, CloseD, At, Started, SaveTypes, InPlace, Setting
<1>2. /\ Slot(trainer[p].latest, trainer[p].epoch) = Latest
      /\ e \in Contents \ {NoFile} /\ Torn \in Contents \ {NoFile}
  BY <1>1 DEF Slot, Contents, Epochs, NoFile
<1>3. /\ trainer'[p].epoch = e
      /\ trainer'[p].latest = trainer[p].latest /\ trainer'[p].every = trainer[p].every
      /\ \A q \in Children \ {p} : trainer'[q] = trainer[q]
  BY AtFacts DEF OpenG, CloseG, OpenD, CloseD, Places
<1>4. Setting(TRUE, k)' BY <1>1, <1>3 DEF InPlace, Setting, Started
<1>5. mixed' = mixed BY DEF OpenG, CloseG, OpenD, CloseD
<1>6. \A net \in {"G", "D"} : There(net)' \subseteq {Latest}
  <2>1. PICK net \in {"G", "D"}, content \in Contents \ {NoFile} : Write(p, net, content)
    BY <1>2 DEF OpenG, CloseG, OpenD, CloseD
  <2>2. /\ There(net)' = There(net) \cup {Latest}
        /\ \A other \in {"G", "D"} \ {net} : There(other)' = There(other)
    BY <1>1, <1>2, <2>1, ThereFacts
  <2> QED BY <2>2 DEF InPlace
<1>7. Torn \notin Epochs /\ (k % k = 0) BY Multiples DEF Epochs
<1>8. ASSUME ~mixed PROVE Unmixed(k)'
  <2>1. Unmixed(k) BY <1>8 DEF InPlace
  <2>2. Place(p, k) BY <2>1 DEF Unmixed
  <2>3. CASE OpenG(p)
    <3>1. trainer[p].at = "epoch" /\ trainer'[p].at = "G" BY <2>3, AtFacts DEF OpenG, Places
    <3>2. Kept("G")' = Torn /\ Kept("D")' = d BY <1>1, <1>2, <2>3, ThereFacts DEF OpenG, Kept
    <3>3. e \in Saves(k) BY <1>1, <2>3 DEF OpenG, Due, Saves
    <3>4. Beside(e, k)
      <4>1. CASE d \notin Epochs BY <4>1 DEF Beside
      <4>2. CASE g = d /\ g \in Epochs /\ g < e /\ e <= g + k
        <5>1. g \in Saves(k) BY <2>1, <4>2 DEF Unmixed
        <5>2. g + k <= e BY <3>3, <4>2, <5>1, NextMultiple DEF Saves, Epochs
        <5>3. d = e - k BY <4>2, <5>2, <1>1 DEF Epochs
        <5> QED BY <5>3 DEF Beside
      <4> QED BY <2>2, <3>1, <4>1, <4>2 DEF Place, Beside
    <3>5. Place(p, k)' BY <1>3, <3>1, <3>2, <3>3, <3>4 DEF Place, Beside
    <3> QED BY <1>1, <1>3, <1>7, <2>1, <3>2, <3>5, OthersUnmixed
  <2>4. CASE CloseG(p)
    <3>1. trainer[p].at = "G" /\ trainer'[p].at = "G saved" BY <2>4, AtFacts DEF CloseG, Places
    <3>2. Kept("G")' = e /\ Kept("D")' = d BY <1>1, <1>2, <2>4, ThereFacts DEF CloseG, Kept
    <3>3. e \in Saves(k) /\ Beside(e, k) BY <2>2, <3>1 DEF Place
    <3>4. Place(p, k)' BY <1>3, <3>1, <3>2, <3>3 DEF Place, Beside
    <3>5. d \in Epochs => e - d \in {0, k} BY <1>1, <3>3 DEF Beside, Epochs
    <3> QED BY <1>1, <1>3, <2>1, <3>2, <3>3, <3>4, <3>5, OthersUnmixed
  <2>5. CASE OpenD(p)
    <3>1. trainer[p].at = "G saved" /\ trainer'[p].at = "D" BY <2>5, AtFacts DEF OpenD, Places
    <3>2. Kept("D")' = Torn /\ Kept("G")' = g BY <1>1, <1>2, <2>5, ThereFacts DEF OpenD, Kept
    <3>3. e \in Saves(k) /\ g = e BY <2>2, <3>1 DEF Place
    <3>4. Place(p, k)' BY <1>3, <3>1, <3>2, <3>3 DEF Place
    <3> QED BY <1>1, <1>3, <1>7, <2>1, <3>2, <3>3, <3>4, OthersUnmixed
  <2>6. CASE CloseD(p)
    <3>1. trainer[p].at = "D" /\ trainer'[p].at = "saved" BY <2>6, AtFacts DEF CloseD, Places
    <3>2. Kept("D")' = e /\ Kept("G")' = g BY <1>1, <1>2, <2>6, ThereFacts DEF CloseD, Kept
    <3>3. e \in Saves(k) /\ g = e BY <2>2, <3>1 DEF Place
    <3>4. e <= e /\ e < e + k /\ e - e = 0 BY <1>1 DEF Epochs
    <3>5. Place(p, k)' BY <1>1, <1>3, <3>1, <3>2, <3>3, <3>4 DEF Place
    <3> QED BY <1>1, <1>3, <2>1, <3>2, <3>3, <3>4, <3>5, OthersUnmixed
  <2> QED BY <2>3, <2>4, <2>5, <2>6
<1> QED BY <1>4, <1>5, <1>6, <1>8 DEF InPlace

\* A process that ends leaves its files.
LEMMA ForgetUnmixed ==
  ASSUME NEW k \in Nat \ {0}, SaveTypes, InPlace(k), Forgets PROVE InPlace(k)'
<1>1. \A net \in {"G", "D"} : There(net)' = There(net) /\ Kept(net)' = Kept(net)
  BY DEF Forgets, There, Kept
<1>2. ASSUME NEW p \in Children
      PROVE  /\ Place(p, k) => Place(p, k)'
             /\ Started(p)' => Started(p) /\ trainer'[p] = trainer[p]
  <2>1. CASE trainer'[p] = trainer[p] BY <1>1, <2>1 DEF Place, Beside, Started
  <2>2. CASE trainer'[p] = NoTrainer BY <2>2 DEF NoTrainer, Place, Started
  <2> QED BY <2>1, <2>2 DEF Forgets
<1>3. Setting(TRUE, k)' BY <1>2 DEF InPlace, Setting
<1>4. Unmixed(k) => Unmixed(k)' BY <1>1, <1>2 DEF Unmixed
<1> QED BY <1>1, <1>3, <1>4 DEF InPlace, Forgets

\* Every step keeps it.
LEMMA InPlaceHolds ==
  ASSUME NEW k \in Nat \ {0}, Alike(TRUE, k) PROVE Spec => []InPlace(k)
<1>1. ASSUME Init PROVE InPlace(k)
  <2>1. \A p \in Children : ~Started(p) /\ trainer[p].at = "none" BY <1>1 DEF Init, NoTrainer, Started
  <2>2. There("G") = {} /\ There("D") = {} BY <1>1 DEF Init, There
  <2>3. Kept("G") \notin Epochs /\ Kept("D") \notin Epochs
    BY <1>1 DEF Init, Kept, Latest, Slots, NoFile, Epochs
  <2> QED BY <2>1, <2>2, <2>3 DEF InPlace, Setting, Unmixed, Place
<1>2. ASSUME SaveTypes, InPlace(k), [Next]_vars PROVE InPlace(k)'
  <2>1. CASE MemoryLost \/ UNCHANGED vars BY <1>2, <2>1, TaskStepForgets, ForgetUnmixed
  <2>2. ASSUME NEW p \in Children, TrainerStep(p) PROVE InPlace(k)'
    BY <1>2, <2>2, ResumeUnmixed, QuietUnmixed, SaveUnmixed DEF TrainerStep
  <2> QED BY <1>2, <2>1, <2>2 DEF Next
<1> QED BY <1>1, <1>2, TypesHold, PTL DEF Spec

\* Trainings of one setting, any number of them, stopped anywhere: what is
\* resumed is a pair, or a generator one save ahead of its discriminator.
THEOREM ResumesNearPair ==
  ASSUME NEW latest, NEW k, Alike(latest, k) PROVE Spec => PairWithinOneSave
<1> DEFINE Pair(p) == Resume(p) /\ Resumes /\ ~mixed => Newest("G") - Newest("D") \in {0, trainer'[p].every}
           Steps == [\A p \in Children : Pair(p)]_vars
<1>1. k \in Nat \ {0} /\ latest \in BOOLEAN BY DEF Alike
<1>2. ASSUME SaveTypes, Numbered(k) \/ InPlace(k) PROVE Steps
  <2>1. ASSUME NEW p \in Children, Resume(p), Resumes, ~mixed
        PROVE  Newest("G") - Newest("D") \in {0, trainer'[p].every}
    <3>1. trainer'[p].every = k BY <1>2, <2>1, ResumeFacts DEF Alike
    <3>2. CASE Numbered(k) BY <1>1, <1>2, <2>1, <3>1, <3>2, NumberedPair
    <3>3. CASE InPlace(k)
      <4>1. Newest("G") \in Epochs /\ Newest("D") \in Epochs BY <2>1 DEF Resumes
      <4> QED BY <1>2, <2>1, <3>1, <3>3, <4>1, NewestKept DEF InPlace, Unmixed
    <3> QED BY <1>2, <3>2, <3>3
  <2> QED BY <2>1
<1>3. CASE latest = FALSE
  <2>1. Spec => []Numbered(k) BY <1>1, <1>3, NumberedHolds
  <2> QED BY <1>2, <2>1, TypesHold, PTL DEF PairWithinOneSave
<1>4. CASE latest = TRUE
  <2>1. Spec => []InPlace(k) BY <1>1, <1>4, InPlaceHolds
  <2> QED BY <1>2, <2>1, TypesHold, PTL DEF PairWithinOneSave
<1> QED BY <1>1, <1>3, <1>4

----------------------------------------------------------------------------
(* A training that comes to its end.                                        *)

\* The last epoch that ends with a save.
LastOf(m, k) == m \in Saves(k) /\ \A n \in Saves(k) : n <= m

\* A training that is past its last save, or in it.
Past(p, m) ==
  Started(p) /\ (trainer[p].epoch > m \/ (trainer[p].epoch = m /\ trainer[p].at \in {"saved", "done"}))
Within(p, m) == trainer[p].epoch = m /\ trainer[p].at \in {"G saved", "D"}

\* What is on disk was left by saves.
Saved(latest, k) ==
  \A net \in {"G", "D"} : \A s \in There(net) :
    /\ \E e \in Saves(k) : s = Slot(latest, e)
    /\ files[net][s] \in Saves(k) \cup {Torn}

\* A training saves the epochs it should, and ends with the last one.
Course(p, k) ==
  /\ trainer[p].at \in {"G", "G saved", "D"} => trainer[p].epoch \in Saves(k)
  /\ trainer[p].at = "done" => trainer[p].epoch = TotalEpoch

\* The last save of a training that runs alone is on disk when it is past it.
Ended(p, latest, k) ==
  \A m \in Epochs : LastOf(m, k) =>
    /\ Past(p, m) => files["G"][Slot(latest, m)] = m /\ files["D"][Slot(latest, m)] = m
    /\ Within(p, m) => files["G"][Slot(latest, m)] = m

Alone(latest, k) ==
  /\ \A p, q \in Children : Started(p) /\ Started(q) => p = q
  /\ \A p \in Children : Ended(p, latest, k)

Repairs(latest, k) ==
  /\ Setting(latest, k) /\ Saved(latest, k)
  /\ \A p \in Children : Course(p, k)
  /\ ~together => Alone(latest, k)

\* A step of one training keeps it, if it does for that training.
LEMMA OthersRepairs ==
  ASSUME NEW latest, NEW k, Repairs(latest, k), NEW p \in Children, Started(p)',
         \A q \in Children \ {p} : trainer'[q] = trainer[q],
         trainer'[p].latest = latest /\ trainer'[p].every = k,
         Saved(latest, k)', Course(p, k)',
         ~together' => /\ ~together /\ \A q \in Children \ {p} : ~Started(q)
                       /\ Ended(p, latest, k)'
  PROVE  Repairs(latest, k)'
<1>1. Setting(latest, k)' BY DEF Repairs, Setting, Started
<1>2. \A q \in Children : Course(q, k)' BY DEF Repairs, Course
<1>3. ASSUME ~together' PROVE Alone(latest, k)'
  <2>1. \A q \in Children \ {p} : ~Started(q)' /\ trainer'[q].at = "none" BY <1>3 DEF Started
  <2>2. \A q \in Children \ {p} : Ended(q, latest, k)' BY <2>1 DEF Ended, Past, Within
  <2> QED BY <1>3, <2>1, <2>2 DEF Alone
<1> QED BY <1>1, <1>2, <1>3 DEF Repairs

\* A training starts before its last save.
LEMMA ResumeRepairs ==
  ASSUME NEW latest \in BOOLEAN, NEW k \in Nat \ {0}, Alike(latest, k), SaveTypes, Repairs(latest, k),
         NEW p \in Children, Resume(p)
  PROVE  Repairs(latest, k)'
<1>1. /\ UNCHANGED files /\ trainer'[p].at = "epoch"
      /\ trainer'[p].epoch = (IF Resumes THEN Newest("G") ELSE 1)
      /\ trainer'[p].latest = latest /\ trainer'[p].every = k
      /\ \A q \in Children \ {p} : trainer'[q] = trainer[q]
      /\ together' = (together \/ AnotherTrains)
  BY ResumeFacts DEF Alike
<1>2. Saved(latest, k)' BY <1>1 DEF Repairs, Saved, There
<1>3. Course(p, k)' BY <1>1 DEF Course
<1>4. ASSUME ~together' PROVE ~together /\ \A q \in Children \ {p} : ~Started(q)
  BY <1>1, <1>4 DEF AnotherTrains, Started
<1>5. ASSUME NEW m \in Epochs, LastOf(m, k) PROVE trainer'[p].epoch <= m
  <2>1. CASE Resumes
    <3>1. Newest("G") \in Epochs BY <2>1 DEF Resumes
    <3>2. PICK s \in There("G") : Newest("G") = files["G"][s] BY <3>1, NewestFacts DEF Epochs, NoFile
    <3>3. Newest("G") \in Saves(k) BY <3>1, <3>2 DEF Repairs, Saved, Epochs
    <3> QED BY <1>1, <1>5, <2>1, <3>3 DEF LastOf
  <2>2. CASE ~Resumes BY <1>1, <2>2 DEF Epochs
  <2> QED BY <2>1, <2>2
<1>6. trainer'[p].epoch \in Epochs BY ResumeFacts
<1>7. Ended(p, latest, k)' BY <1>1, <1>5, <1>6 DEF Ended, Past, Within, Epochs, LastOf
<1> QED BY <1>1, <1>2, <1>3, <1>4, <1>7, OthersRepairs DEF Started

\* The steps that write nothing: none of them passes the last save.
LEMMA QuietRepairs ==
  ASSUME NEW latest \in BOOLEAN, NEW k \in Nat \ {0}, SaveTypes, Repairs(latest, k), NEW p \in Children,
         NotDue(p) \/ SaveWeights(p) \/ NextEpoch(p)
  PROVE  Repairs(latest, k)'
<1> DEFINE e == trainer[p].epoch
<1>1. UNCHANGED <<files, together>> BY DEF NotDue, SaveWeights, NextEpoch
<1>2. Started(p) /\ e \in Epochs /\ trainer[p].latest = latest /\ trainer[p].every = k
  BY AtFacts DEF NotDue, SaveWeights, NextEpoch, At, Started, SaveTypes, Repairs, Setting
<1>3. /\ trainer'[p].latest = latest /\ trainer'[p].every = k /\ Started(p)'
      /\ \A q \in Children \ {p} : trainer'[q] = trainer[q]
  BY <1>2, AtFacts, NextEpochFacts DEF NotDue, SaveWeights, Places, Started
<1>4. Saved(latest, k)' BY <1>1 DEF Repairs, Saved, There
<1>5. ~together => Ended(p, latest, k) /\ \A q \in Children \ {p} : ~Started(q)
  BY <1>2 DEF Repairs, Alone
<1>6. CASE NotDue(p)
  <2>1. e \notin Saves(k) /\ trainer[p].at = "epoch" /\ trainer'[p].at = "saved" /\ trainer'[p].epoch = e
    BY <1>2, <1>6, AtFacts DEF NotDue, Due, Saves, Places
  <2>2. \A m \in Epochs : LastOf(m, k) => e # m BY <2>1 DEF LastOf
  <2>3. ~together => Ended(p, latest, k)' BY <1>1, <1>2, <1>5, <2>1, <2>2 DEF Ended, Past, Within, LastOf
  <2> QED BY <1>1, <1>3, <1>4, <1>5, <2>1, <2>3, OthersRepairs DEF Course
<1>7. CASE SaveWeights(p)
  <2>1. e = TotalEpoch /\ trainer[p].at = "saved" /\ trainer'[p].at = "done" /\ trainer'[p].epoch = e
    <3>1. At(p, "saved", "done") /\ e >= TotalEpoch BY <1>7 DEF SaveWeights
    <3>2. e = TotalEpoch BY <1>2, <3>1 DEF Epochs
    <3> QED BY <3>1, <3>2, AtFacts DEF Places
  <2>2. ~together => Ended(p, latest, k)' BY <1>1, <1>2, <1>5, <2>1 DEF Ended, Past, Within, LastOf
  <2> QED BY <1>1, <1>3, <1>4, <1>5, <2>1, <2>2, OthersRepairs DEF Course
<1>8. CASE NextEpoch(p)
  <2>1. trainer[p].at = "saved" /\ trainer'[p].at = "epoch" /\ trainer'[p].epoch = e + 1
    BY <1>8, NextEpochFacts
  <2>2. \A m \in Epochs : Past(p, m)' => Past(p, m) BY <1>2, <2>1 DEF Past, Epochs
  <2>3. ~together => Ended(p, latest, k)' BY <1>1, <1>5, <2>1, <2>2 DEF Ended, Within, LastOf
  <2> QED BY <1>1, <1>3, <1>4, <1>5, <2>1, <2>3, OthersRepairs DEF Course
<1> QED BY <1>6, <1>7, <1>8

\* The steps of save_checkpoint: the last save is the last to write its slot.
LEMMA SaveRepairs ==
  ASSUME NEW latest \in BOOLEAN, NEW k \in Nat \ {0}, SaveTypes, Repairs(latest, k), NEW p \in Children,
         OpenG(p) \/ CloseG(p) \/ OpenD(p) \/ CloseD(p)
  PROVE  Repairs(latest, k)'
<1> DEFINE e == trainer[p].epoch
           slot == Slot(latest, e)
<1>1. Started(p) /\ e \in Epochs /\ trainer[p].latest = latest /\ trainer[p].every = k
  BY AtFacts DEF OpenG, CloseG, OpenD, CloseD, At, Started, SaveTypes, Repairs, Setting
<1>2. /\ trainer'[p].epoch = e /\ trainer'[p].latest = latest /\ trainer'[p].every = k
      /\ Started(p)' /\ trainer[p].at \in Places /\ trainer'[p].at \in {"G", "G saved", "D", "saved"}
      /\ \A q \in Children \ {p} : trainer'[q] = trainer[q]
  BY <1>1, AtFacts DEF OpenG, CloseG, OpenD, CloseD, Places, Started, SaveTypes, TrainerType
<1>3. e \in Saves(k)
  BY <1>1, AtFacts DEF OpenG, CloseG, OpenD, CloseD, Due, Saves, Repairs, Course, Places
<1>4. together' = together BY DEF OpenG, CloseG, OpenD, CloseD
<1>5. PICK net \in {"G", "D"}, content \in {Torn, e} : Write(p, net, content)
  BY DEF OpenG, CloseG, OpenD, CloseD
<1>6. content \in Contents \ {NoFile} /\ content \in Saves(k) \cup {Torn}
  BY <1>1, <1>3 DEF Contents, Epochs, NoFile
<1>7. /\ slot \in Slots /\ files'[net][slot] = content
      /\ \A s \in Slots \ {slot} : files'[net][s] = files[net][s]
      /\ \A other \in {"G", "D"} \ {net} : files'[other] = files[other]
      /\ There(net)' = There(net) \cup {slot}
      /\ \A other \in {"G", "D"} \ {net} : There(other)' = There(other)
  BY <1>1, <1>5, <1>6, ThereFacts
<1>8. Saved(latest, k)'
  <2>1. \A s \in There(net)' : /\ \E a \in Saves(k) : s = Slot(latest, a)
                               /\ files'[net][s] \in Saves(k) \cup {Torn}
    BY <1>3, <1>6, <1>7 DEF Repairs, Saved, There
  <2>2. \A other \in {"G", "D"} \ {net} : \A s \in There(other)' :
          /\ \E a \in Saves(k) : s = Slot(latest, a)
          /\ files'[other][s] \in Saves(k) \cup {Torn}
    BY <1>7 DEF Repairs, Saved
  <2> QED BY <2>1, <2>2 DEF Saved
<1>9. Course(p, k)' BY <1>2, <1>3 DEF Course
<1>10. ASSUME ~together
       PROVE  Ended(p, latest, k) /\ \A q \in Children \ {p} : ~Started(q)
  BY <1>1, <1>10 DEF Repairs, Alone
<1>11. e \in Contents \ {NoFile} /\ Torn \in Contents \ {NoFile} BY <1>1 DEF Contents, Epochs, NoFile
<1>12. ASSUME ~together, NEW m \in Epochs, LastOf(m, k)
       PROVE  /\ Past(p, m)' => files'["G"][Slot(latest, m)] = m /\ files'["D"][Slot(latest, m)] = m
              /\ Within(p, m)' => files'["G"][Slot(latest, m)] = m
  <2>1. e <= m /\ m \in Int BY <1>1, <1>3, <1>12 DEF LastOf, Saves, Epochs
  <2>2. CASE e # m
    <3>1. e < m /\ e \in Int BY <1>1, <2>1, <2>2 DEF Epochs
    <3>2. trainer'[p].epoch = e BY <1>2
    <3> HIDE DEF e
    <3>3. ~(trainer'[p].epoch > m \/ trainer'[p].epoch = m) BY <2>1, <3>1, <3>2
    <3> QED BY <3>3 DEF Past, Within
  <2>3. CASE e = m
    <3>1. Past(p, m)' => trainer'[p].at \in {"saved", "done"}
      <4>1. trainer'[p].epoch = m BY <1>2, <2>3
      <4>2. ~(m > m) BY <2>1
      <4> QED BY <4>1, <4>2 DEF Past
    <3>2. Within(p, m)' => trainer'[p].at \in {"G saved", "D"} BY DEF Within
    <3>3. trainer[p].at \in {"G saved", "D"} => files["G"][slot] = e
      <4>1. trainer[p].at \in {"G saved", "D"} => Within(p, m) BY <2>3 DEF Within
      <4> QED BY <1>10, <1>12, <2>3, <4>1 DEF Ended
    <3>4. /\ trainer'[p].at \in {"saved", "done"} => files'["G"][slot] = e /\ files'["D"][slot] = e
          /\ trainer'[p].at \in {"G saved", "D"} => files'["G"][slot] = e
      <4>1. CASE OpenG(p)
        <5>1. trainer'[p].at = "G" BY <4>1, AtFacts DEF OpenG, Places
        <5> QED BY <5>1
      <4>2. CASE CloseG(p)
        <5>1. trainer'[p].at = "G saved" BY <4>2, AtFacts DEF CloseG, Places
        <5>2. Write(p, "G", e) BY <4>2 DEF CloseG
        <5>3. files'["G"][slot] = e BY <1>1, <1>11, <5>2, ThereFacts
        <5> QED BY <5>1, <5>3
      <4>3. CASE OpenD(p)
        <5>1. trainer[p].at = "G saved" /\ trainer'[p].at = "D" BY <4>3, AtFacts DEF OpenD, Places
        <5>2. Write(p, "D", Torn) BY <4>3 DEF OpenD
        <5>3. files'["G"] = files["G"] BY <1>1, <1>11, <5>2, ThereFacts
        <5> QED BY <3>3, <5>1, <5>3
      <4>4. CASE CloseD(p)
        <5>1. trainer[p].at = "D" /\ trainer'[p].at = "saved" BY <4>4, AtFacts DEF CloseD, Places
        <5>2. Write(p, "D", e) BY <4>4 DEF CloseD
        <5>3. files'["G"] = files["G"] /\ files'["D"][slot] = e BY <1>1, <1>11, <5>2, ThereFacts
        <5> QED BY <3>3, <5>1, <5>3
      <4> QED BY <4>1, <4>2, <4>3, <4>4
    <3>5. slot = Slot(latest, m) BY <2>3
    <3> HIDE DEF slot
    <3> QED BY <2>3, <3>1, <3>2, <3>4, <3>5
  <2> QED BY <2>2, <2>3
<1>13. ~together => Ended(p, latest, k)' BY <1>12 DEF Ended, LastOf
<1> QED BY <1>2, <1>4, <1>8, <1>9, <1>10, <1>13, OthersRepairs

\* A process that ends leaves its files.
LEMMA ForgetRepairs ==
  ASSUME NEW latest, NEW k, SaveTypes, Repairs(latest, k), Forgets PROVE Repairs(latest, k)'
<1>1. ASSUME NEW p \in Children
      PROVE  /\ Course(p, k)'
             /\ Ended(p, latest, k) => Ended(p, latest, k)'
             /\ Started(p)' => Started(p) /\ trainer'[p] = trainer[p]
  <2>1. CASE trainer'[p] = trainer[p]
    BY <2>1 DEF Forgets, Repairs, Course, Ended, Past, Within, Started, LastOf
  <2>2. CASE trainer'[p] = NoTrainer
    BY <2>2 DEF NoTrainer, Course, Ended, Past, Within, Started
  <2> QED BY <2>1, <2>2 DEF Forgets
<1>2. Setting(latest, k)' BY <1>1 DEF Repairs, Setting
<1>3. Saved(latest, k)' BY DEF Forgets, Repairs, Saved, There
<1>4. ASSUME Alone(latest, k) PROVE Alone(latest, k)'
  <2>1. \A p, q \in Children : Started(p)' /\ Started(q)' => p = q BY <1>1, <1>4 DEF Alone
  <2>2. \A p \in Children : Ended(p, latest, k)' BY <1>1, <1>4 DEF Alone
  <2> QED BY <2>1, <2>2 DEF Alone
<1>5. together' = together /\ \A p \in Children : Course(p, k)' BY <1>1 DEF Forgets
<1> QED BY <1>2, <1>3, <1>4, <1>5 DEF Repairs

\* Every step keeps it.
LEMMA RepairsHolds ==
  ASSUME NEW latest \in BOOLEAN, NEW k \in Nat \ {0}, Alike(latest, k) PROVE Spec => []Repairs(latest, k)
<1>1. ASSUME Init PROVE Repairs(latest, k)
  <2>1. \A p \in Children : trainer[p].at = "none" BY <1>1 DEF Init, NoTrainer
  <2>2. There("G") = {} /\ There("D") = {} BY <1>1 DEF Init, There
  <2> QED BY <2>1, <2>2 DEF Repairs, Setting, Saved, Course, Alone, Ended, Past, Within, Started
<1>2. ASSUME SaveTypes, Repairs(latest, k), [Next]_vars PROVE Repairs(latest, k)'
  <2>1. CASE MemoryLost \/ UNCHANGED vars BY <1>2, <2>1, TaskStepForgets, ForgetRepairs
  <2>2. ASSUME NEW p \in Children, TrainerStep(p) PROVE Repairs(latest, k)'
    BY <1>2, <2>2, ResumeRepairs, QuietRepairs, SaveRepairs DEF TrainerStep
  <2> QED BY <1>2, <2>1, <2>2 DEF Next
<1> QED BY <1>1, <1>2, TypesHold, PTL DEF Spec

\* The last save of an interval, if there is one.
LEMMA LastSaveFacts ==
  ASSUME NEW k \in Nat \ {0}
  PROVE  \/ Saves(k) = {} /\ LastSave(k) = NoFile
         \/ LastOf(LastSave(k), k)
<1> DEFINE Fits(last) == last % k = 0 /\ \A e \in Epochs : e % k = 0 => e <= last
<1>1. LastSave(k) = CHOOSE last \in Epochs \cup {NoFile} : Fits(last) BY DEF LastSave
<1>2. CASE Saves(k) = {}
  <2>1. Fits(NoFile) /\ \A last \in Epochs : ~Fits(last) BY <1>2 DEF Saves, NoFile
  <2> HIDE DEF Fits
  <2> QED BY <1>1, <1>2, <2>1
<1>3. CASE Saves(k) # {}
  <2>1. Saves(k) \subseteq 0..TotalEpoch BY DEF Saves, Epochs
  <2>2. PICK m \in Saves(k) : \A n \in Saves(k) : n <= m BY <1>3, <2>1, Largest
  <2>3. Fits(m) /\ m \in Epochs BY <2>2 DEF Saves
  <2>4. Fits(LastSave(k)) /\ LastSave(k) \in Epochs \cup {NoFile}
    <3> HIDE DEF Fits
    <3> QED BY <1>1, <2>3
  <2>5. m <= LastSave(k) BY <2>2, <2>4 DEF Saves
  <2>6. LastSave(k) \in Epochs BY <2>3, <2>4, <2>5 DEF Epochs, NoFile
  <2>7. LastSave(k) \in Saves(k) /\ \A n \in Saves(k) : n <= LastSave(k) BY <2>4, <2>6 DEF Saves
  <2> QED BY <2>7 DEF LastOf
<1> QED BY <1>2, <1>3

\* Trainings of one setting, any number of them and of epochs, killed anywhere:
\* one that came to its end alone leaves the pair of its last save whole and
\* newest, so that the next one goes on from it.
THEOREM EndRepairs ==
  ASSUME NEW latest, NEW k, Alike(latest, k) PROVE Spec => []FinishedTrainingRepairs
<1>1. k \in Nat \ {0} /\ latest \in BOOLEAN BY DEF Alike
<1>2. ASSUME SaveTypes, Repairs(latest, k) PROVE FinishedTrainingRepairs
  <2> SUFFICES ASSUME NEW p \in Children, trainer[p].at = "done", ~together, NEW net \in {"G", "D"}
               PROVE  Newest(net) = LastSave(trainer[p].every)
    BY DEF FinishedTrainingRepairs
  <2>1. Started(p) /\ trainer[p].every = k /\ trainer[p].epoch = TotalEpoch /\ Ended(p, latest, k)
    BY <1>2 DEF Repairs, Setting, Course, Alone, Started
  <2>2. CASE Saves(k) = {} /\ LastSave(k) = NoFile
    <3>1. There(net) = {} BY <1>2, <2>2 DEF Repairs, Saved
    <3> QED BY <1>2, <2>1, <2>2, <3>1, NewestFacts
  <2>3. CASE LastOf(LastSave(k), k)
    <3> DEFINE m == LastSave(k)
               slot == Slot(latest, m)
    <3>1. m \in Epochs BY <2>3 DEF LastOf, Saves
    <3>2. Past(p, m) BY <2>1, <3>1 DEF Past, Epochs
    <3>3. files[net][slot] = m BY <2>1, <2>3, <3>1, <3>2 DEF Ended
    <3>4. slot \in There(net) BY <3>1, <3>3 DEF There, Slot, Slots, Latest, Epochs, NoFile
    <3>5. \A e \in Saves(k) : Slot(latest, e) <= slot
      BY <1>1, <2>3, <3>1 DEF LastOf, Saves, Slot, Latest, Epochs
    <3>6. \A s \in There(net) : s <= slot BY <1>2, <3>5 DEF Repairs, Saved
    <3>7. PICK s \in There(net) : (\A t \in There(net) : t <= s) /\ Newest(net) = files[net][s]
      BY <1>2, <3>4, NewestFacts
    <3>8. s = slot BY <3>4, <3>6, <3>7 DEF There, Slots, Latest
    <3> QED BY <2>1, <3>3, <3>7, <3>8
  <2> QED BY <1>1, <2>2, <2>3, LastSaveFacts
<1> QED BY <1>1, <1>2, RepairsHolds, TypesHold, PTL

----------------------------------------------------------------------------
(* The types of everything.                                                 *)

\* A click has a plan of stages, and a stage of it to do while it works.
Planned ==
  /\ \A c \in Clicks : /\ click[c].kind \in Kinds \cup {"none"} /\ click[c].plan \in Seq(Stages)
                       /\ click[c].at \in {"spawn", "register", "wait", "drained"} => Len(click[c].plan) > 0
  /\ \A p \in Children : child[p].stage \in Stages \cup {"none"}

\* The plans have stages only, and some.
LEMMA PlansType ==
  ASSUME NEW kind \in Kinds, NEW plan \in Plans(kind)
  PROVE  plan \in Seq(Stages) /\ Len(plan) > 0
<1>1. kind \in {"slice", "extract", "train", "index", "onekey"} BY KindsAssumption
<1>4. \A a, b \in Stages : /\ <<a>> \in Seq(Stages) /\ Len(<<a>>) > 0
                           /\ <<a, b>> \in Seq(Stages) /\ Len(<<a, b>>) > 0
  OBVIOUS
<1>5. {"slice", "f0", "hubert", "train", "index"} \subseteq Stages BY DEF Stages
<1>2. CASE kind = "onekey"
  <2>1. PICK e \in {<<"f0", "hubert">>, <<"hubert">>} : plan = <<"slice">> \o e \o <<"train", "index">>
    BY <1>2 DEF Plans
  <2>2. e \in Seq(Stages) /\ <<"slice">> \in Seq(Stages) /\ <<"train", "index">> \in Seq(Stages)
    BY <1>4, <1>5
  <2>3. <<"slice">> \o e \in Seq(Stages) /\ Len(<<"slice">> \o e) > 0 BY <2>2, ConcatProperties
  <2>4. plan \in Seq(Stages) /\ Len(plan) > 0 BY <2>1, <2>2, <2>3, ConcatProperties
  <2> QED BY <2>4
<1>3. CASE kind # "onekey"
  <2>1. plan \in {<<"slice">>, <<"f0", "hubert">>, <<"hubert">>, <<"train">>, <<"index">>}
    BY <1>1, <1>3 DEF Plans
  <2> QED BY <1>4, <1>5, <2>1
<1> QED BY <1>2, <1>3

\* One click is made new.
LEMMA ClickPlanned ==
  ASSUME Shape, Planned, NEW c \in Clicks, NEW new, click' = [click EXCEPT ![c] = new],
         new.kind \in Kinds \cup {"none"}, new.plan \in Seq(Stages),
         new.at \in {"spawn", "register", "wait", "drained"} => Len(new.plan) > 0,
         \A p \in Children : child'[p].stage \in Stages \cup {"none"}
  PROVE  Planned'
<1>1. click'[c] = new /\ \A d \in Clicks \ {c} : click'[d] = click[d] BY DEF Shape
<1> QED BY <1>1 DEF Planned

\* What ends a process leaves its stage.
LEMMA StagesKept ==
  ASSUME Shape, Planned, child' = child \/ \E ps : child' = Killed(ps)
  PROVE  \A p \in Children : child'[p].stage \in Stages \cup {"none"}
<1>1. CASE child' = child BY <1>1 DEF Planned
<1>2. ASSUME NEW ps, child' = Killed(ps) PROVE \A p \in Children : child'[p].stage \in Stages \cup {"none"}
  <2> TAKE p \in Children
  <2> DEFINE killed == [child[p] EXCEPT !.status = "killed"]
  <2>1. killed.stage = child[p].stage BY DEF Shape, ChildType
  <2>2. child'[p] = killed \/ child'[p] = child[p] BY <1>2 DEF Killed
  <2> QED BY <2>1, <2>2 DEF Planned
<1> QED BY <1>1, <1>2

LEMMA BeginPlanned ==
  ASSUME Shape, Planned, NEW c \in Clicks, NEW kind \in Kinds, Begin(c, kind) PROVE Planned'
<1>1. PICK Any : click \in [Clicks -> ClickType(Any)] BY DEF Shape
<1>2. child' = child BY DEF Begin
<1>3. CASE task = Idle
  <2>1. PICK plan \in Plans(kind) :
          click' = [click EXCEPT ![c].kind = kind, ![c].at = "spawn", ![c].plan = plan]
    BY <1>3 DEF Begin
  <2> DEFINE new == [click[c] EXCEPT !.kind = kind, !.at = "spawn", !.plan = plan]
  <2>2. new.kind = kind /\ new.plan = plan BY <1>1 DEF ClickType
  <2>3. click' = [click EXCEPT ![c] = new] BY <1>1, <2>1
  <2> HIDE DEF new
  <2> QED BY <1>2, <2>2, <2>3, PlansType, ClickPlanned, StagesKept
<1>4. CASE task # Idle
  <2> DEFINE new == [click[c] EXCEPT !.at = "over", !.outcome = "busy"]
  <2>1. click' = [click EXCEPT ![c] = new] BY <1>1, <1>4 DEF Begin
  <2>2. new.kind = click[c].kind /\ new.plan = click[c].plan /\ new.at = "over" BY <1>1 DEF ClickType
  <2> HIDE DEF new
  <2> QED BY <1>2, <2>1, <2>2, ClickPlanned, StagesKept DEF Planned
<1> QED BY <1>3, <1>4

\* Popen gives the child the stage at the head of the plan.
LEMMA SpawnPlanned ==
  ASSUME Shape, Planned, NEW c \in Clicks, NEW p \in Children, Spawn(c, p) PROVE Planned'
<1>1. PICK Any : click \in [Clicks -> ClickType(Any)] BY DEF Shape
<1> DEFINE new == [click[c] EXCEPT !.at = "register", !.batch = @ \cup {p}]
<1>2. click' = [click EXCEPT ![c] = new] /\ click[c].at = "spawn" BY <1>1 DEF Spawn
<1>3. new.kind = click[c].kind /\ new.plan = click[c].plan BY <1>1 DEF ClickType
<1>4. Head(click[c].plan) \in Stages BY <1>2 DEF Planned
<1>5. \A q \in Children : child'[q].stage \in Stages \cup {"none"}
  BY <1>4 DEF Spawn, Planned, Shape
<1> HIDE DEF new
<1> QED BY <1>2, <1>3, <1>5, ClickPlanned DEF Planned

\* The steps that leave the plan as it is, or the next stage or none of it.
LEMMA GeneratorPlanned ==
  ASSUME Shape, Planned, NEW c \in Clicks, Generator(c) \/ ClosePage(c) PROVE Planned'
<1>1. PICK Any : click \in [Clicks -> ClickType(Any)] BY DEF Shape
<1>2. CASE \E p \in Children : Spawn(c, p) BY <1>2, SpawnPlanned
<1>3. ASSUME NEW at \in {"spawn", "wait", "drained", "finish"}, NEW registered, NEW outcome,
             click' = [click EXCEPT ![c] = [click[c] EXCEPT !.at = at, !.registered = registered,
                                                            !.outcome = outcome]],
             click[c].at \in {"register", "wait"} \/ at = "finish",
             child' = child \/ \E ps : child' = Killed(ps)
      PROVE  Planned'
  <2> DEFINE new == [click[c] EXCEPT !.at = at, !.registered = registered, !.outcome = outcome]
  <2>1. new.kind = click[c].kind /\ new.plan = click[c].plan /\ new.at = at BY <1>1 DEF ClickType
  <2>2. click' = [click EXCEPT ![c] = new] BY <1>3
  <2> HIDE DEF new
  <2> QED BY <1>3, <2>1, <2>2, ClickPlanned, StagesKept DEF Planned
<1>4. CASE StageRaises(c) \/ ClosePage(c)
  <2>1. PICK outcome : child' = child /\ click' = [click EXCEPT ![c].at = "finish", ![c].outcome = outcome]
    BY <1>4 DEF StageRaises, ClosePage
  <2>2. click' = [click EXCEPT ![c] = [click[c] EXCEPT !.at = "finish", !.registered = click[c].registered,
                                                       !.outcome = outcome]]
    BY <1>1, <2>1 DEF ClickType
  <2> QED BY <1>3, <2>1, <2>2
<1>5. CASE Register(c) \/ WaitRound(c)
  <2> DEFINE after == IF Cardinality(click[c].batch) < Width[Head(click[c].plan)] THEN "spawn" ELSE "wait"
  <2>1. \/ click' = [click EXCEPT ![c].registered = @ \cup click[c].batch, ![c].at = after]
        \/ click' = [click EXCEPT ![c].at = "drained", ![c].registered = @ \ click[c].batch]
    BY <1>5 DEF Register, WaitRound
  <2>2. after \in {"spawn", "wait", "drained"} OBVIOUS
  <2> HIDE DEF after
  <2>3. (child' = child \/ \E ps : child' = Killed(ps)) /\ click[c].at \in {"register", "wait"}
    BY <1>5 DEF Register, WaitRound
  <2>4. CASE click' = [click EXCEPT ![c].registered = @ \cup click[c].batch, ![c].at = after]
    <3> DEFINE registered == click[c].registered \cup click[c].batch
    <3>1. click' = [click EXCEPT ![c] = [click[c] EXCEPT !.at = after, !.registered = registered,
                                                         !.outcome = click[c].outcome]]
      BY <1>1, <2>4 DEF ClickType
    <3> HIDE DEF registered
    <3> QED BY <1>3, <2>2, <2>3, <3>1
  <2>5. CASE click' = [click EXCEPT ![c].at = "drained", ![c].registered = @ \ click[c].batch]
    <3> DEFINE registered == click[c].registered \ click[c].batch
    <3>1. click' = [click EXCEPT ![c] = [click[c] EXCEPT !.at = "drained", !.registered = registered,
                                                         !.outcome = click[c].outcome]]
      BY <1>1, <2>5 DEF ClickType
    <3> HIDE DEF registered
    <3> QED BY <1>3, <2>3, <3>1
  <2> QED BY <2>1, <2>4, <2>5
<1>6. CASE Check(c)
  <2>1. child' = child /\ click[c].at = "drained" BY <1>6 DEF Check
  <2>2. ASSUME NEW outcome, click' = [click EXCEPT ![c].at = "finish", ![c].outcome = outcome]
        PROVE  Planned'
    <3>1. click' = [click EXCEPT ![c] = [click[c] EXCEPT !.at = "finish", !.registered = click[c].registered,
                                                         !.outcome = outcome]]
      BY <1>1, <2>2 DEF ClickType
    <3> QED BY <1>3, <2>1, <3>1
  <2>3. ASSUME Len(click[c].plan) # 1,
               click' = [click EXCEPT ![c].at = "spawn", ![c].plan = Tail(@), ![c].batch = {}]
        PROVE  Planned'
    <3> DEFINE plan == Tail(click[c].plan)
               new == [click[c] EXCEPT !.at = "spawn", !.plan = plan, !.batch = {}]
    <3>1. click[c].plan \in Seq(Stages) /\ Len(click[c].plan) > 0 BY <2>1 DEF Planned
    <3>2. plan \in Seq(Stages) /\ Len(plan) = Len(click[c].plan) - 1 BY <3>1, HeadTailProperties
    <3>3. Len(plan) > 0
      <4> DEFINE n == Len(click[c].plan)
      <4>1. n \in Nat /\ n > 0 /\ n # 1 /\ Len(plan) = n - 1 BY <2>3, <3>1, <3>2, LenProperties
      <4> HIDE DEF n, plan
      <4> QED BY <4>1
    <3> HIDE DEF plan
    <3>4. new.kind = click[c].kind /\ new.plan = plan BY <1>1 DEF ClickType
    <3>5. click' = [click EXCEPT ![c] = new] BY <1>1, <2>3 DEF plan
    <3> HIDE DEF new
    <3> QED BY <2>1, <3>2, <3>3, <3>4, <3>5, ClickPlanned, StagesKept DEF Planned
  <2> QED BY <1>6, <2>2, <2>3 DEF Check
<1>7. CASE Finish(c)
  <2> DEFINE new == [click[c] EXCEPT !.at = "over", !.plan = <<>>, !.batch = {}, !.registered = {}]
  <2>1. child' = child /\ click' = [click EXCEPT ![c] = new] BY <1>1, <1>7 DEF Finish
  <2>2. new.kind = click[c].kind /\ new.plan = <<>> /\ new.at = "over" BY <1>1 DEF ClickType
  <2>3. <<>> \in Seq(Stages) BY EmptySeq
  <2> HIDE DEF new
  <2> QED BY <2>1, <2>2, <2>3, ClickPlanned, StagesKept DEF Planned
<1> QED BY <1>2, <1>4, <1>5, <1>6, <1>7 DEF Generator

\* A stop changes no plan and no stage.
LEMMA StopPlanned ==
  ASSUME IInv, Planned, NEW s \in Stops, (\E kind \in Kinds : StopTask(s, kind)) \/ StopKills(s)
  PROVE  Planned'
<1>1. PICK Any : click \in [Clicks -> ClickType(Any)] BY DEF IInv, Shape
<1>2. ASSUME NEW kind \in Kinds, StopTask(s, kind) PROVE Planned'
  <2>1. child' = child BY <1>2 DEF StopTask
  <2>2. CASE click' = click BY <2>1, <2>2 DEF Planned
  <2>3. CASE click' # click
    <3>1. task \in Clicks /\ click' = [click EXCEPT ![task].stopRequested = TRUE]
      BY <1>2, <2>3 DEF StopTask, IInv, Shape
    <3> DEFINE new == [click[task] EXCEPT !.stopRequested = TRUE]
    <3>2. click' = [click EXCEPT ![task] = new] BY <1>1, <3>1
    <3>3. new.kind = click[task].kind /\ new.plan = click[task].plan /\ new.at = click[task].at
      BY <1>1, <3>1 DEF ClickType
    <3> HIDE DEF new
    <3>4. ASSUME NEW c \in Clicks, c = task PROVE Planned'
      BY <2>1, <3>2, <3>3, <3>4, ClickPlanned, StagesKept DEF Planned, IInv
    <3> QED BY <3>1, <3>4
  <2> QED BY <2>2, <2>3
<1>3. CASE StopKills(s)
  <2>1. click' = click /\ (child' = child \/ \E ps : child' = Killed(ps)) BY <1>3 DEF StopKills
  <2> QED BY <2>1, StagesKept DEF Planned, IInv
<1> QED BY <1>2, <1>3

\* Everything keeps its type.
THEOREM TypesCorrect == Spec => []TypeOK
<1>1. ASSUME Init PROVE Planned
  <2>1. <<>> \in Seq(Stages) BY EmptySeq
  <2>2. \A c \in Clicks : click[c].kind = "none" /\ click[c].plan = <<>> /\ click[c].at = "unborn"
    BY <1>1 DEF Init, TaskInit
  <2>3. \A p \in Children : child[p].stage = "none" BY <1>1 DEF Init, TaskInit, NoChild
  <2> QED BY <2>1, <2>2, <2>3 DEF Planned
<1>2. ASSUME IInv, Planned, [Next]_vars PROVE Planned'
  <2>1. CASE WebuiStep
    BY <1>2, <2>1, BeginPlanned, GeneratorPlanned, StopPlanned DEF WebuiStep, IInv
  <2>2. ASSUME NEW p \in Children, ChildEnds(p) PROVE Planned'
    <3>1. PICK status : click' = click /\ child' = [child EXCEPT ![p].status = status]
      BY <2>2 DEF ChildEnds, Exit
    <3>2. \A q \in Children : child'[q].stage = child[q].stage
      BY <1>2, <3>1 DEF IInv, Shape, ChildType
    <3> QED BY <1>2, <3>1, <3>2 DEF Planned
  <2>3. CASE UNCHANGED taskVars BY <1>2, <2>3 DEF taskVars, Planned
  <2>4. ASSUME NEW p \in Children, TrainerStep(p) PROVE UNCHANGED taskVars
    BY <2>4 DEF TrainerStep, Resume, NotDue, OpenG, CloseG, OpenD, CloseD, NextEpoch, SaveWeights, taskVars
  <2> QED BY <1>2, <2>1, <2>2, <2>3, <2>4 DEF Next, vars
<1>3. IInv /\ Planned /\ SaveTypes => TypeOK
  <2> SUFFICES ASSUME IInv, Planned, SaveTypes PROVE TypeOK OBVIOUS
  <2>1. PICK Any : click \in [Clicks -> ClickType(Any)] /\ child \in [Children -> ChildType(Any)]
    BY DEF IInv, Shape
  <2>2. \A c \in Clicks : click[c] \in
          [kind : Kinds \cup {"none"}, at : ClickPlaces, plan : Seq(Stages), batch : SUBSET Children,
           registered : SUBSET Children, stopRequested : BOOLEAN, outcome : Outcomes]
    BY <2>1 DEF Planned, ClickType
  <2>3. \A p \in Children : child[p] \in
          [owner : Clicks \cup {Idle}, stage : Stages \cup {"none"},
           status : {"none", "running", "ok", "failed", "killed"}]
    BY <2>1 DEF Planned, ChildType
  <2>4. TaskTypeOK BY <2>1, <2>2, <2>3 DEF TaskTypeOK, IInv, Shape, StopType, ClickPlaces, Outcomes
  <2> QED BY <2>4 DEF TypeOK, SaveTypes, FilesType, TrainerType, Places
<1> QED BY <1>1, <1>2, <1>3, Inductive, TypesHold, PTL DEF Spec
=============================================================================
