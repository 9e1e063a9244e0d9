-------------------------- MODULE PymssTasks_proofs --------------------------
(***************************************************************************)
(* Proofs about PymssTasks for any number of clicks, stops, workers and     *)
(* dtype sequences: the types, with the task id bounded by the clicks; no   *)
(* worker outlives its task, a stop that finds a worker running is what the *)
(* task reports, and FP16 is not tried again for a model it failed for.      *)
(***************************************************************************)
EXTENDS PymssTasks, FiniteSetTheorems, TLAPS

Live(c) == sep[c].at \notin {"unborn", "over"}

\* Where a generator has a worker of its own.
Held == {"register", "read", "reap", "kill", "unregister", "result"}
SepPlaces == {"unborn", "attempt", "start", "finish", "over"} \cup Held
Dtypes == {<<>>, <<"auto">>, <<"float32">>, <<"float16">>, <<"float16", "float32">>}

SepType ==
  [at : SepPlaces, id : Nat, attempts : Dtypes, process : Workers \cup {NoWorker},
   cancel : BOOLEAN, closing : BOOLEAN,
   outcome : {"none", "busy", "completed", "failed", "cancelled", "closed"}]
WorkerType ==
  [at : {"none", "load", "file", "leaving", "ended"}, id : Nat, half : BOOLEAN,
   said : {"nothing", "retry", "fatal", "done"}, code : {"none", "ok", "bad"}]
StopperType == [at : {"unborn", "kill", "over"}, process : Workers \cup {NoWorker}, hit : BOOLEAN]

Types ==
  /\ state \in [id : Nat, active : BOOLEAN, process : Workers \cup {NoWorker}, stop : BOOLEAN]
  /\ disabled \in BOOLEAN
  /\ sep \in [Separations -> SepType]
  /\ worker \in [Workers -> WorkerType]
  /\ stopper \in [PymssStops -> StopperType]

\* A task id belongs to one click, and the live click is the active one.
Ids ==
  /\ \A c \in Separations :
       /\ sep[c].id <= state.id
       /\ sep[c].at = "unborn" => sep[c].id = 0
       /\ Live(c) => state.active /\ sep[c].id = state.id /\ sep[c].id > 0
  /\ \A c, d \in Separations : sep[c].id = sep[d].id /\ sep[c].id > 0 => c = d

\* A worker that runs is the one its live click still has to kill.
Holder ==
  \A w \in Workers : Running(w) =>
    \E c \in Separations : /\ sep[c].at \in {"register", "read", "reap", "kill"}
                           /\ sep[c].process = w

\* The worker a click holds was started for it.
HeldWorker ==
  \A c \in Separations : sep[c].at \in Held =>
    /\ sep[c].process \in Workers
    /\ worker[sep[c].process].at # "none" /\ worker[sep[c].process].id = sep[c].id
    /\ worker[sep[c].process].half => Len(sep[c].attempts) = 2
    /\ sep[c].at \in {"reap", "kill"} /\ Running(sep[c].process) => sep[c].closing

\* A worker's words: only one that may asks for the fallback.
Words ==
  \A w \in Workers :
    /\ worker[w].said = "retry" => worker[w].half /\ worker[w].at \in {"leaving", "ended"}
    /\ worker[w].at \in {"none", "load"} => worker[w].said = "nothing"
    /\ worker[w].at = "none" => ~worker[w].half
    /\ worker[w].at # "none" => worker[w].id > 0 /\ worker[w].id <= state.id

\* A task that may still try FP16 began when it had not failed for the model.
Hopeful == \A c \in Separations : Live(c) /\ Len(sep[c].attempts) = 2 => ~disabled

\* The process a stop handler finds registered.
RegisteredWorker ==
  state.process # NoWorker =>
    \E c \in Separations : sep[c].at \in {"read", "reap", "kill", "unregister"} /\ sep[c].process = state.process

\* The click reads the stop before it comes to its result, or is closed.
Told(c) ==
  \/ sep[c].at \in {"read", "reap"} /\ state.stop
  \/ sep[c].at \in {"kill", "unregister", "result"} /\ (sep[c].cancel \/ sep[c].closing)
  \/ sep[c].at \in {"finish", "over"} /\ sep[c].outcome \in {"cancelled", "closed"}

\* The click whose worker a stop found running is told.
Hits ==
  \A s \in PymssStops : stopper[s].hit =>
    /\ stopper[s].process \in Workers /\ worker[stopper[s].process].at # "none"
    /\ \A c \in Separations : sep[c].id = worker[stopper[s].process].id => Told(c)

IInv == Types /\ Ids /\ Holder /\ HeldWorker /\ Words /\ Hopeful /\ RegisteredWorker /\ Hits

----------------------------------------------------------------------------
(* What the steps of a generator do to its worker.                          *)

\* Running, of the workers as they are in one state.
Up(workers, w) == workers[w].at \in {"load", "file", "leaving"}

\* A step of the WebUI leaves what its workers said, and starts none.
Quiet ==
  /\ worker' \in [Workers -> WorkerType]
  /\ \A v \in Workers :
       /\ worker'[v].id = worker[v].id /\ worker'[v].half = worker[v].half
       /\ worker'[v].said = worker[v].said
       /\ worker'[v].at = "none" <=> worker[v].at = "none"
       /\ worker[v].at \in {"leaving", "ended"} => worker'[v].at \in {"leaving", "ended"}
       /\ Up(worker', v) => Up(worker, v) /\ worker'[v].at = worker[v].at

\* Killing a worker ends it if it runs, and changes nothing else.
LEMMA KilledQuiet ==
  ASSUME Types, NEW w, worker' = KilledWorker(w)
  PROVE  Quiet /\ (w \in Workers => ~Up(worker', w))
<1> DEFINE ended(v) == [worker[v] EXCEPT !.at = "ended", !.code = "bad"]
<1>1. /\ worker' = [v \in Workers |-> worker'[v]]
      /\ \A v \in Workers : worker'[v] = IF v = w /\ Up(worker, v) THEN ended(v) ELSE worker[v]
  BY DEF KilledWorker, Running, Up
<1>2. \A v \in Workers : worker[v] \in WorkerType BY DEF Types
<1>3. ASSUME NEW v \in Workers
      PROVE  /\ ended(v) \in WorkerType /\ ended(v).at = "ended" /\ ended(v).id = worker[v].id
             /\ ended(v).half = worker[v].half /\ ended(v).said = worker[v].said
  BY <1>2 DEF WorkerType
<1> HIDE DEF ended
<1>4. worker' \in [Workers -> WorkerType] BY <1>1, <1>2, <1>3
<1>5. Quiet BY <1>1, <1>3, <1>4 DEF Quiet, Up
<1>6. w \in Workers => ~Up(worker', w) BY <1>1, <1>3 DEF Up
<1> QED BY <1>5, <1>6

\* A step of no worker is quiet.
LEMMA StillQuiet == ASSUME Types, worker' = worker PROVE Quiet
BY DEF Types, Up, Quiet

\* A step that changes the record of one click keeps the types.
LEMMA ClickTypes ==
  ASSUME Types, NEW c \in Separations, NEW new \in SepType, sep' = [sep EXCEPT ![c] = new],
         disabled' \in BOOLEAN, UNCHANGED <<state, worker, stopper>>
  PROVE  Types'
BY DEF Types

\* The clicks other than the live one have no worker.
LEMMA OneLive ==
  ASSUME Ids, NEW c \in Separations, Live(c)
  PROVE  \A d \in Separations \ {c} : ~Live(d) /\ sep[d].id # sep[c].id
BY DEF Ids

WithWorker == {"register", "read", "reap", "kill"}

\* What a step of the live click c must do to keep the invariant.
Moves(c) ==
  /\ Live(c)
  /\ \A d \in Separations \ {c} : sep'[d] = sep[d]
  /\ sep'[c].id = sep[c].id /\ state'.id = state.id /\ stopper' = stopper
  /\ sep'[c].at # "unborn" /\ (sep'[c].at # "over" => state'.active)
  /\ sep'[c].at \in Held => /\ sep[c].at \in Held /\ sep'[c].process = sep[c].process
                            /\ sep'[c].attempts = sep[c].attempts
  /\ sep[c].at \in WithWorker => sep'[c].at \in WithWorker \/ ~Up(worker', sep[c].process)
  /\ sep'[c].at \in {"reap", "kill"} /\ Up(worker', sep[c].process) => sep'[c].closing
  /\ \/ sep'[c].attempts = sep[c].attempts /\ disabled' = disabled
     \/ Len(sep'[c].attempts) # 2
  /\ state'.process # NoWorker =>
       sep'[c].at \in {"read", "reap", "kill", "unregister"} /\ sep'[c].process = state'.process
  /\ Told(c) => Told(c)'

\* Such a step keeps the invariant.
LEMMA MovesKeep ==
  ASSUME IInv, NEW c \in Separations, Moves(c), Types', Quiet
  PROVE  IInv'
<1> USE DEF IInv
<1>1. \A d \in Separations \ {c} : sep'[d] = sep[d] /\ sep[d].at \in {"unborn", "over"} /\ sep[d].id # sep[c].id
  BY OneLive DEF Moves, Live
<1>2. Ids' BY <1>1 DEF Ids, Moves, Live
<1>3. Holder'
  <2> SUFFICES ASSUME NEW w \in Workers, Running(w)'
               PROVE  sep'[c].at \in WithWorker /\ sep'[c].process = w
    BY DEF Holder, WithWorker
  <2>1. Running(w) /\ Up(worker', w) BY DEF Quiet, Running, Up
  <2>2. sep[c].at \in WithWorker /\ sep[c].process = w BY <1>1, <2>1 DEF Holder, WithWorker
  <2> QED BY <2>1, <2>2 DEF Moves, WithWorker, Held
<1>4. HeldWorker'
  <2> SUFFICES ASSUME NEW d \in Separations, sep'[d].at \in Held
               PROVE  /\ sep'[d].process \in Workers
                      /\ worker'[sep'[d].process].at # "none" /\ worker'[sep'[d].process].id = sep'[d].id
                      /\ worker'[sep'[d].process].half => Len(sep'[d].attempts) = 2
                      /\ sep'[d].at \in {"reap", "kill"} /\ Up(worker', sep'[d].process) => sep'[d].closing
    BY DEF HeldWorker, Running, Up
  <2>1. d = c BY <1>1 DEF Held
  <2>2. sep[c].at \in Held /\ sep'[c].process = sep[c].process /\ sep'[c].attempts = sep[c].attempts
    BY <2>1 DEF Moves
  <2> QED BY <2>1, <2>2 DEF HeldWorker, Moves, Quiet
<1>5. Words' BY DEF Words, Moves, Quiet, Up
<1>6. Hopeful' BY <1>1 DEF Hopeful, Moves, Live
<1>7. RegisteredWorker' BY DEF Moves, RegisteredWorker
<1>8. Hits'
  <2> SUFFICES ASSUME NEW s \in PymssStops, stopper'[s].hit
               PROVE  /\ stopper'[s].process \in Workers /\ worker'[stopper'[s].process].at # "none"
                      /\ \A d \in Separations : sep'[d].id = worker'[stopper'[s].process].id => Told(d)'
    BY DEF Hits
  <2>1. stopper' = stopper BY DEF Moves
  <2>2. /\ stopper[s].process \in Workers /\ worker[stopper[s].process].at # "none"
        /\ \A d \in Separations : sep[d].id = worker[stopper[s].process].id => Told(d)
    BY <2>1 DEF Hits
  <2>3. \A d \in Separations : Told(d) => Told(d)' BY <1>1 DEF Moves, Told
  <2>4. \A d \in Separations : sep'[d].id = sep[d].id BY <1>1 DEF Moves
  <2> QED BY <2>1, <2>2, <2>3, <2>4 DEF Quiet
<1> QED BY <1>2, <1>3, <1>4, <1>5, <1>6, <1>7, <1>8

----------------------------------------------------------------------------
(* The steps of a generator that holds or starts no new worker.             *)

\* A stop, a failure or a closed page, and the way through the finally blocks.
LEMMA GeneratorKeeps ==
  ASSUME IInv, NEW c \in Separations,
         \/ Attempt(c) \/ ReadEnds(c) \/ CloseSeparation(c) \/ Reap(c) \/ KillRest(c)
         \/ Unregister(c) \/ RegisterWorker(c) \/ Result(c) \/ FinishSeparation(c)
  PROVE  IInv'
<1> USE DEF IInv
<1>1. /\ state \in [id : Nat, active : BOOLEAN, process : Workers \cup {NoWorker}, stop : BOOLEAN]
      /\ sep \in [Separations -> SepType]
      /\ Types
  BY DEF Types
<1>2. Live(c) => state.active /\ state.id = sep[c].id BY DEF Ids
<1>3. \A d \in Separations \ {c} : Live(c) => sep[d].at \in {"unborn", "over"} BY OneLive DEF Live
<1>4. state.process # NoWorker /\ Live(c) =>
        sep[c].at \in {"read", "reap", "kill", "unregister"} /\ sep[c].process = state.process
  BY <1>3 DEF RegisteredWorker
<1>5. sep[c].at \in Held => /\ sep[c].process \in Workers
                            /\ sep[c].at \in {"reap", "kill"} /\ Running(sep[c].process) => sep[c].closing
  BY DEF HeldWorker
<1> USE DEF Live, Held, WithWorker
<1>6. CASE Attempt(c)
  <2>1. Types' BY <1>1, <1>6 DEF Attempt, Ends, Types, SepType, SepPlaces
  <2>2. Moves(c) BY <1>1, <1>2, <1>4, <1>6 DEF Attempt, Ends, SepType, Moves, Told
  <2> QED BY <1>1, <1>6, <2>1, <2>2, MovesKeep, StillQuiet DEF Attempt
<1>7. CASE ReadEnds(c)
  <2>1. Types' BY <1>1, <1>7 DEF ReadEnds, Types, SepType, SepPlaces
  <2>2. Moves(c) BY <1>1, <1>2, <1>4, <1>5, <1>7 DEF ReadEnds, SepType, Moves, Told, Running, Up
  <2> QED BY <1>1, <1>7, <2>1, <2>2, MovesKeep, StillQuiet DEF ReadEnds
<1>8. CASE CloseSeparation(c)
  <2>1. Types' BY <1>1, <1>8 DEF CloseSeparation, Ends, Types, SepType, SepPlaces
  <2>2. Moves(c) BY <1>1, <1>2, <1>4, <1>5, <1>8 DEF CloseSeparation, Ends, SepType, Moves, Told, Running, Up
  <2> QED BY <1>1, <1>8, <2>1, <2>2, MovesKeep, StillQuiet DEF CloseSeparation
<1>9. CASE Reap(c)
  <2>1. Types'
    <3>1. PICK b \in BOOLEAN : sep' = [sep EXCEPT ![c].at = "kill", ![c].cancel = b]
      BY <1>1, <1>9 DEF Reap, StopRequested
    <3> DEFINE new == [sep[c] EXCEPT !.at = "kill", !.cancel = b]
    <3>2. new \in SepType BY <1>1 DEF SepType, SepPlaces
    <3>3. sep' = [sep EXCEPT ![c] = new] BY <1>1, <3>1
    <3>4. disabled' \in BOOLEAN /\ UNCHANGED <<state, worker, stopper>> BY <1>1, <1>9 DEF Reap, Types
    <3> QED BY <1>1, <3>2, <3>3, <3>4, ClickTypes
  <2>2. Moves(c)
    BY <1>1, <1>2, <1>4, <1>5, <1>9 DEF Reap, StopRequested, SepType, Moves, Told, Running, Up
  <2> QED BY <1>1, <1>9, <2>1, <2>2, MovesKeep, StillQuiet DEF Reap
<1>10. CASE KillRest(c)
  <2>1. Quiet /\ ~Up(worker', sep[c].process) BY <1>1, <1>5, <1>10, KilledQuiet DEF KillRest
  <2>2. Types' BY <1>1, <1>10, <2>1 DEF KillRest, Quiet, Types, SepType, SepPlaces
  <2>3. Moves(c) BY <1>1, <1>2, <1>4, <1>5, <1>10, <2>1 DEF KillRest, SepType, Moves, Told
  <2> QED BY <2>1, <2>2, <2>3, MovesKeep
<1>11. CASE Unregister(c)
  <2>1. Types' BY <1>1, <1>11 DEF Unregister, Types, SepType, SepPlaces
  <2>2. Moves(c) BY <1>1, <1>2, <1>4, <1>5, <1>11 DEF Unregister, SepType, Moves, Told
  <2> QED BY <1>1, <1>11, <2>1, <2>2, MovesKeep, StillQuiet DEF Unregister
<1>12. CASE RegisterWorker(c)
  <2>1. worker' = worker \/ worker' = KilledWorker(sep[c].process) BY <1>12 DEF RegisterWorker
  <2>2. Quiet BY <1>1, <2>1, StillQuiet, KilledQuiet
  <2>3. state' = [state EXCEPT !.process = sep[c].process]
    BY <1>2, <1>12 DEF RegisterWorker
  <2>4. Types' BY <1>1, <1>5, <1>12, <2>2, <2>3 DEF RegisterWorker, Quiet, Types, SepType, SepPlaces
  <2>5. Moves(c) BY <1>1, <1>2, <1>5, <1>12, <2>3 DEF RegisterWorker, SepType, Moves, Told
  <2> QED BY <2>2, <2>4, <2>5, MovesKeep
<1>13. CASE Result(c)
  <2>1. worker' = worker /\ state' = state /\ stopper' = stopper BY <1>13 DEF Result
  <2>2. CASE /\ worker[sep[c].process].said = "retry" /\ ~sep[c].cancel /\ ~sep[c].closing /\ Fallback(c)
             /\ disabled' = TRUE
    <3>1. Len(sep[c].attempts) = 2
      BY <1>5, <1>13, <2>2 DEF Result, Words, HeldWorker
    <3>2. Tail(sep[c].attempts) \in Dtypes /\ Len(Tail(sep[c].attempts)) # 2
      <4>1. sep[c].attempts \in Dtypes BY <1>1 DEF SepType
      <4>2. sep[c].attempts = <<"float16", "float32">> BY <3>1, <4>1 DEF Dtypes
      <4>3. Tail(<<"float16", "float32">>) = <<"float32">> /\ Len(<<"float32">>) # 2 OBVIOUS
      <4> QED BY <4>2, <4>3 DEF Dtypes
    <3>3. Types'
      <4> DEFINE new == [sep[c] EXCEPT !.at = "attempt", !.attempts = Tail(@), !.process = NoWorker]
      <4>1. new \in SepType BY <1>1, <3>2 DEF SepType, SepPlaces
      <4>2. sep' = [sep EXCEPT ![c] = new] BY <1>1, <2>2 DEF Fallback
      <4> QED BY <1>1, <2>1, <2>2, <4>1, <4>2, ClickTypes
    <3>4. /\ sep'[c].at = "attempt" /\ sep'[c].id = sep[c].id /\ sep'[c].attempts = Tail(sep[c].attempts)
          /\ \A d \in Separations \ {c} : sep'[d] = sep[d]
      BY <1>1, <2>2 DEF Fallback, SepType
    <3>5. Len(sep'[c].attempts) # 2 BY <3>2, <3>4
    <3>6. Moves(c) BY <1>1, <1>2, <1>4, <1>13, <2>1, <2>2, <3>4, <3>5 DEF Result, Moves, Told
    <3> QED BY <1>1, <2>1, <3>3, <3>6, MovesKeep, StillQuiet
  <2>3. ASSUME NEW outcome \in {"completed", "failed", "cancelled", "closed"}, Ends(c, outcome), disabled' = disabled,
               sep[c].cancel \/ sep[c].closing => outcome \in {"cancelled", "closed"}
        PROVE  IInv'
    <3>1. Types'
      <4> DEFINE new == [sep[c] EXCEPT !.at = "finish", !.outcome = outcome]
      <4>1. new \in SepType BY <1>1 DEF SepType, SepPlaces
      <4>2. sep' = [sep EXCEPT ![c] = new] BY <1>1, <2>3 DEF Ends
      <4>3. disabled' \in BOOLEAN BY <1>1, <2>3 DEF Types
      <4> QED BY <1>1, <2>1, <4>1, <4>2, <4>3, ClickTypes
    <3>2. Moves(c)
      BY <1>1, <1>2, <1>4, <1>13, <2>1, <2>3 DEF Result, Ends, SepType, Moves, Told
    <3> QED BY <1>1, <2>1, <3>1, <3>2, MovesKeep, StillQuiet
  <2>4. sep[c].cancel \in BOOLEAN /\ sep[c].closing \in BOOLEAN BY <1>1 DEF SepType
  <2>5. CASE /\ sep[c].closing \/ sep[c].cancel \/ worker[sep[c].process].said # "retry"
             /\ Ends(c, Verdict(c)) /\ disabled' = disabled
    <3>1. /\ Verdict(c) \in {"completed", "failed", "cancelled", "closed"}
          /\ sep[c].cancel \/ sep[c].closing => Verdict(c) \in {"cancelled", "closed"}
      BY DEF Verdict
    <3> QED BY <2>3, <2>5, <3>1
  <2> QED BY <1>13, <2>2, <2>4, <2>5 DEF Result
<1>14. CASE FinishSeparation(c)
  <2>1. Types' BY <1>1, <1>14 DEF FinishSeparation, NoTask, Types, SepType, SepPlaces, Dtypes
  <2>2. Moves(c) BY <1>1, <1>2, <1>4, <1>14 DEF FinishSeparation, NoTask, SepType, Moves, Told
  <2> QED BY <1>1, <1>14, <2>1, <2>2, MovesKeep, StillQuiet DEF FinishSeparation
<1> QED BY <1>6, <1>7, <1>8, <1>9, <1>10, <1>11, <1>12, <1>13, <1>14

----------------------------------------------------------------------------
(* A click that begins, and a new worker.                                   *)

\* A click begins only when no other is live, so that no worker runs.
LEMMA BeginKeeps == ASSUME IInv, NEW c \in Separations, BeginSeparation(c) PROVE IInv'
<1> USE DEF IInv
<1>1. /\ state \in [id : Nat, active : BOOLEAN, process : Workers \cup {NoWorker}, stop : BOOLEAN]
      /\ sep \in [Separations -> SepType] /\ worker \in [Workers -> WorkerType]
  BY DEF Types
<1>2. sep[c].at = "unborn" /\ sep[c].id = 0 /\ UNCHANGED <<disabled, worker, stopper>>
  BY DEF BeginSeparation, Ids
<1>3. \A w \in Workers : worker[w].at # "none" => worker[w].id > 0 /\ worker[w].id <= state.id /\ worker[w].id \in Nat
  BY <1>1 DEF Words, WorkerType
<1>4. CASE state.active
  <2> DEFINE new == [sep[c] EXCEPT !.at = "over", !.outcome = "busy"]
  <2>1. new \in SepType /\ new.at = "over" /\ new.id = 0 BY <1>1, <1>2 DEF SepType, SepPlaces
  <2>2. sep' = [sep EXCEPT ![c] = new] /\ state' = state BY <1>1, <1>4 DEF BeginSeparation
  <2> HIDE DEF new
  <2>3. Types' BY <1>2, <2>1, <2>2, ClickTypes DEF Types
  <2>4. /\ sep'[c].at = "over" /\ sep'[c].id = 0
        /\ \A d \in Separations \ {c} : sep'[d] = sep[d]
    BY <1>1, <2>1, <2>2
  <2>5. Ids' BY <1>1, <1>2, <2>2, <2>4 DEF Ids, Live, SepType
  <2>6. Holder' /\ RegisteredWorker' BY <1>2, <2>2, <2>4 DEF Holder, RegisteredWorker, Running
  <2>7. HeldWorker' BY <1>2, <2>4 DEF HeldWorker, Held, Running
  <2>8. Words' BY <1>2, <2>2 DEF Words
  <2>9. Hopeful' BY <1>2, <2>4 DEF Hopeful, Live
  <2>10. Hits' BY <1>1, <1>2, <1>3, <2>2, <2>4 DEF Hits, Told
  <2> QED BY <2>3, <2>5, <2>6, <2>7, <2>8, <2>9, <2>10
<1>5. CASE ~state.active
  <2>1. PICK attempts \in Attempts :
          sep' = [sep EXCEPT ![c].at = "attempt", ![c].id = state.id + 1,
                    ![c].attempts = IF disabled /\ Len(attempts) = 2 THEN Tail(attempts) ELSE attempts]
    BY <1>5 DEF BeginSeparation
  <2> DEFINE dtypes == IF disabled /\ Len(attempts) = 2 THEN Tail(attempts) ELSE attempts
             new == [sep[c] EXCEPT !.at = "attempt", !.id = state.id + 1, !.attempts = dtypes]
  <2>2. dtypes \in Dtypes /\ (Len(dtypes) = 2 => ~disabled)
    <3>1. attempts \in {<<"auto">>, <<"float32">>, <<"float16">>, <<"float16", "float32">>}
      BY AttemptsAssumption
    <3>2. Len(attempts) = 2 => attempts = <<"float16", "float32">> BY <3>1
    <3>3. Tail(<<"float16", "float32">>) = <<"float32">> /\ Len(<<"float32">>) # 2 OBVIOUS
    <3> QED BY <3>1, <3>2, <3>3 DEF Dtypes
  <2> HIDE DEF dtypes
  <2>3. new \in SepType /\ new.at = "attempt" /\ new.id = state.id + 1 /\ new.attempts = dtypes
    <3>1. state.id + 1 \in Nat BY <1>1
    <3>2. sep[c] \in SepType BY <1>1
    <3> QED BY <2>2, <3>1, <3>2 DEF SepType, SepPlaces
  <2>4. sep' = [sep EXCEPT ![c] = new] BY <1>1, <2>1 DEF dtypes
  <2> HIDE DEF new
  <2>5. state' = [id |-> state.id + 1, active |-> TRUE, process |-> NoWorker, stop |-> FALSE]
    BY <1>5 DEF BeginSeparation
  <2>6. /\ sep'[c].at = "attempt" /\ sep'[c].id = state.id + 1 /\ sep'[c].attempts = dtypes
        /\ \A d \in Separations \ {c} : sep'[d] = sep[d]
    BY <1>1, <2>3, <2>4
  <2>7. \A d \in Separations : /\ ~Live(d) /\ sep[d].id <= state.id /\ sep[d].id \in Nat
                               /\ sep[d].at \in {"unborn", "over"}
    BY <1>1, <1>5 DEF Ids, Live, SepType
  <2>8. Types' BY <1>1, <1>2, <2>3, <2>4, <2>5 DEF Types
  <2>9. Ids' BY <1>1, <2>5, <2>6, <2>7 DEF Ids, Live
  <2>10. Holder' BY <1>2, <2>7 DEF Holder, Running
  <2>11. HeldWorker' BY <2>6, <2>7 DEF HeldWorker, Held
  <2>12. Words' /\ RegisteredWorker' BY <1>1, <1>2, <1>3, <2>5 DEF Words, RegisteredWorker
  <2>13. Hopeful' BY <1>2, <2>2, <2>6, <2>7 DEF Hopeful, Live
  <2>14. Hits'
    <3> SUFFICES ASSUME NEW s \in PymssStops, stopper[s].hit
                 PROVE  /\ stopper[s].process \in Workers /\ worker[stopper[s].process].at # "none"
                        /\ \A d \in Separations : sep'[d].id = worker[stopper[s].process].id => Told(d)'
      BY <1>2 DEF Hits
    <3>1. stopper[s].process \in Workers /\ worker[stopper[s].process].at # "none" BY DEF Hits
    <3>2. ASSUME NEW d \in Separations, sep'[d].id = worker[stopper[s].process].id PROVE Told(d)'
      <4>1. d # c BY <1>1, <1>3, <2>6, <3>1, <3>2
      <4>2. Told(d) BY <2>6, <3>2, <4>1 DEF Hits
      <4> QED BY <2>6, <2>7, <4>1, <4>2 DEF Told
    <3> QED BY <3>1, <3>2
  <2> QED BY <2>8, <2>9, <2>10, <2>11, <2>12, <2>13, <2>14
<1> QED BY <1>4, <1>5

\* A new worker starts when its click has none and no other worker runs.
LEMMA StartKeeps == ASSUME IInv, NEW c \in Separations, StartWorker(c) PROVE IInv'
<1> USE DEF IInv
<1>1. /\ state \in [id : Nat, active : BOOLEAN, process : Workers \cup {NoWorker}, stop : BOOLEAN]
      /\ sep \in [Separations -> SepType] /\ worker \in [Workers -> WorkerType]
  BY DEF Types
<1>2. sep[c].at = "start" /\ Live(c) /\ UNCHANGED <<state, disabled, stopper>> BY DEF StartWorker, Live
<1>3. \A d \in Separations \ {c} : sep[d].at \in {"unborn", "over"} /\ sep[d].id # sep[c].id
  BY <1>2, OneLive DEF Live
<1>4. state.active /\ state.id = sep[c].id /\ sep[c].id > 0 /\ state.process = NoWorker
  BY <1>2, <1>3 DEF Ids, RegisteredWorker
<1>5. ASSUME NEW outcome \in {"cancelled", "failed"}, Ends(c, outcome), worker' = worker PROVE IInv'
  <2> DEFINE new == [sep[c] EXCEPT !.at = "finish", !.outcome = outcome]
  <2>1. new \in SepType BY <1>1 DEF SepType, SepPlaces
  <2>2. sep' = [sep EXCEPT ![c] = new] BY <1>1, <1>5 DEF Ends
  <2>3. Types' BY <1>2, <1>5, <2>1, <2>2, ClickTypes DEF Types
  <2>4. Moves(c) BY <1>1, <1>2, <1>4, <1>5 DEF Ends, SepType, Moves, Told, Held, WithWorker, Live
  <2> QED BY <1>5, <2>3, <2>4, MovesKeep, StillQuiet
<1>6. ASSUME NEW w \in NewWorkers, ~StopRequested(c),
             sep' = [sep EXCEPT ![c].at = "register", ![c].process = w],
             worker' = [worker EXCEPT ![w].at = "load", ![w].id = sep[c].id, ![w].half = Len(sep[c].attempts) = 2]
      PROVE  IInv'
  <2>1. w \in Workers /\ worker[w].at = "none" /\ worker[w].said = "nothing"
    BY DEF NewWorkers, Words
  <2>2. PICK half \in BOOLEAN : half = (Len(sep[c].attempts) = 2) OBVIOUS
  <2> DEFINE new == [sep[c] EXCEPT !.at = "register", !.process = w]
             born == [worker[w] EXCEPT !.at = "load", !.id = sep[c].id, !.half = half]
  <2>3. /\ new \in SepType /\ new.at = "register" /\ new.process = w /\ new.id = sep[c].id
        /\ new.attempts = sep[c].attempts
    BY <1>1, <2>1 DEF SepType, SepPlaces, Held
  <2>4. /\ born \in WorkerType /\ born.at = "load" /\ born.id = sep[c].id /\ born.half = half
        /\ born.said = "nothing"
    BY <1>1, <2>1 DEF WorkerType, SepType
  <2>5. sep' = [sep EXCEPT ![c] = new] /\ worker' = [worker EXCEPT ![w] = born] BY <1>1, <1>6, <2>1, <2>2
  <2> HIDE DEF new, born
  <2>6. sep'[c] = new /\ \A d \in Separations \ {c} : sep'[d] = sep[d] BY <1>1, <2>5
  <2>7. worker'[w] = born /\ \A v \in Workers \ {w} : worker'[v] = worker[v] BY <1>1, <2>1, <2>5
  <2>8. Types' BY <1>1, <1>2, <2>1, <2>3, <2>4, <2>5 DEF Types
  <2>9. Ids' BY <1>1, <1>2, <1>4, <2>3, <2>6 DEF Ids, Live
  <2>10. Holder'
    <3> SUFFICES ASSUME NEW v \in Workers, Running(v)' PROVE sep'[c].at = "register" /\ sep'[c].process = v
      BY DEF Holder
    <3>1. v # w => Running(v) BY <2>7 DEF Running
    <3>2. \A d \in Separations : sep[d].at \notin WithWorker BY <1>2, <1>3 DEF WithWorker
    <3> QED BY <2>3, <2>6, <3>1, <3>2 DEF Holder, WithWorker
  <2>11. HeldWorker'
    <3>1. \A d \in Separations : sep'[d].at \in Held => d = c BY <1>3, <2>6 DEF Held
    <3>2. /\ sep'[c].at = "register" /\ sep'[c].process = w /\ sep'[c].id = sep[c].id
          /\ sep'[c].attempts = sep[c].attempts
      BY <2>3, <2>6
    <3>3. worker'[w].at = "load" /\ worker'[w].id = sep[c].id /\ (worker'[w].half => Len(sep[c].attempts) = 2)
      BY <2>2, <2>4, <2>7
    <3> QED BY <2>1, <3>1, <3>2, <3>3 DEF HeldWorker
  <2>12. Words' BY <1>1, <1>2, <1>4, <2>1, <2>4, <2>7 DEF Words
  <2>13. Hopeful' BY <1>2, <1>3, <2>3, <2>6 DEF Hopeful, Live
  <2>14. RegisteredWorker' BY <1>2, <1>4 DEF RegisteredWorker
  <2>15. Hits'
    <3> SUFFICES ASSUME NEW s \in PymssStops, stopper[s].hit
                 PROVE  /\ stopper[s].process \in Workers /\ worker'[stopper[s].process].at # "none"
                        /\ \A d \in Separations : sep'[d].id = worker'[stopper[s].process].id => Told(d)'
      BY <1>2 DEF Hits
    <3>1. stopper[s].process \in Workers \ {w} BY <2>1 DEF Hits
    <3>2. ~Told(c) /\ sep'[c].id = sep[c].id BY <1>2, <2>3, <2>6 DEF Told
    <3>3. \A d \in Separations \ {c} : Told(d) => Told(d)' BY <1>3, <2>6 DEF Told
    <3> QED BY <2>6, <2>7, <3>1, <3>2, <3>3 DEF Hits
  <2> QED BY <2>8, <2>9, <2>10, <2>11, <2>12, <2>13, <2>14, <2>15
<1> QED BY <1>5, <1>6 DEF StartWorker

----------------------------------------------------------------------------
(* The stop button and the workers.                                         *)

\* A stop that finds a worker running finds its click reading from it.
LEMMA StopKeeps == ASSUME IInv, NEW s \in PymssStops, StopSeparation(s) \/ StopperKills(s) PROVE IInv'
<1> USE DEF IInv
<1>1. /\ state \in [id : Nat, active : BOOLEAN, process : Workers \cup {NoWorker}, stop : BOOLEAN]
      /\ stopper \in [PymssStops -> StopperType]
  BY DEF Types
<1>2. UNCHANGED <<sep, disabled>> BY DEF StopSeparation, StopperKills
<1>3. /\ state'.id = state.id /\ state'.active = state.active /\ state'.process = state.process
      /\ state' \in [id : Nat, active : BOOLEAN, process : Workers \cup {NoWorker}, stop : BOOLEAN]
      /\ state.stop => state'.stop
  BY <1>1 DEF StopSeparation, StopperKills
<1>4. Quiet
  <2>1. CASE worker' = worker BY <2>1, StillQuiet
  <2>2. CASE worker' = KilledWorker(stopper[s].process) BY <2>2, KilledQuiet
  <2> QED BY <2>1, <2>2 DEF StopSeparation, StopperKills
<1>5. PICK at \in {"kill", "over"}, process \in Workers \cup {NoWorker}, hit \in BOOLEAN :
        /\ stopper' = [stopper EXCEPT ![s] = [at |-> at, process |-> process, hit |-> hit]]
        /\ hit => \/ stopper[s].hit /\ process = stopper[s].process
                  \/ /\ process = state.process /\ process # NoWorker /\ Running(process)
                     /\ state'.stop
  <2>1. CASE StopperKills(s) \/ (StopSeparation(s) /\ ~state.active)
    BY <1>1, <2>1 DEF StopSeparation, StopperKills, StopperType
  <2>2. CASE StopSeparation(s) /\ state.active
    <3>1. PICK hit \in BOOLEAN : hit = (state.process # NoWorker /\ Running(state.process)) OBVIOUS
    <3> QED BY <1>1, <2>2, <3>1 DEF StopSeparation
  <2> QED BY <2>1, <2>2
<1>6. stopper' \in [PymssStops -> StopperType] BY <1>1, <1>5 DEF StopperType
<1>7. Types' BY <1>2, <1>3, <1>4, <1>6 DEF Types, Quiet
<1>8. Ids' /\ Holder' /\ HeldWorker' /\ RegisteredWorker'
  <2>1. Ids' /\ RegisteredWorker' BY <1>2, <1>3 DEF Ids, Live, RegisteredWorker
  <2>2. Holder' BY <1>2, <1>4 DEF Holder, Quiet, Running, Up
  <2>3. HeldWorker' BY <1>2, <1>4 DEF HeldWorker, Quiet, Running, Up
  <2> QED BY <2>1, <2>2, <2>3
<1>9. Words' BY <1>3, <1>4 DEF Words, Quiet, Up
<1>10. Hopeful' BY <1>2 DEF Hopeful, Live
<1>11. Hits'
  <2> SUFFICES ASSUME NEW t \in PymssStops, stopper'[t].hit
               PROVE  /\ stopper'[t].process \in Workers /\ worker'[stopper'[t].process].at # "none"
                      /\ \A d \in Separations : sep'[d].id = worker'[stopper'[t].process].id => Told(d)'
    BY DEF Hits
  <2>1. \A d \in Separations : Told(d) => Told(d)' BY <1>2, <1>3 DEF Told
  <2>2. CASE stopper[t].hit /\ stopper'[t].process = stopper[t].process
    BY <1>2, <1>4, <2>1, <2>2 DEF Hits, Quiet
  <2>3. CASE ~(stopper[t].hit /\ stopper'[t].process = stopper[t].process)
    <3>1. t = s /\ stopper'[t].process = state.process /\ state.process # NoWorker /\ Running(state.process) /\ state'.stop
      BY <1>1, <1>5, <2>3
    <3>2. state.process \in Workers BY <1>1, <3>1
    <3>3. PICK c \in Separations :
            sep[c].at \in {"read", "reap", "kill", "unregister"} /\ sep[c].process = state.process
      BY <3>1 DEF RegisteredWorker
    <3>4. worker[state.process].id = sep[c].id /\ worker[state.process].at # "none"
      BY <3>3 DEF HeldWorker, Held
    <3>5. sep[c].at \in {"read", "reap", "kill"}
      <4>1. PICK e \in Separations : sep[e].at \in WithWorker /\ sep[e].process = state.process
        BY <3>1, <3>2 DEF Holder, WithWorker
      <4>2. Live(c) /\ Live(e) BY <3>3, <4>1 DEF Live, WithWorker
      <4>3. c = e BY <4>2, OneLive
      <4> QED BY <3>3, <4>1, <4>3 DEF WithWorker
    <3>6. sep[c].at = "kill" => sep[c].closing BY <3>1, <3>3 DEF HeldWorker, Held
    <3>7. Told(c)' BY <1>2, <3>1, <3>5, <3>6 DEF Told
    <3>8. sep[c].id > 0 BY <3>3 DEF Ids, Live
    <3>9. \A d \in Separations : sep[d].id = sep[c].id => d = c BY <3>8 DEF Ids
    <3> QED BY <1>2, <1>4, <3>1, <3>2, <3>4, <3>7, <3>9 DEF Quiet
  <2> QED BY <2>2, <2>3
<1> QED BY <1>7, <1>8, <1>9, <1>10, <1>11

\* What a step of worker w changes: its own record, and only one that may asks
\* for the fallback.
Speaks(w) ==
  /\ Running(w)
  /\ worker' \in [Workers -> WorkerType]
  /\ \A v \in Workers \ {w} : worker'[v] = worker[v]
  /\ worker'[w].id = worker[w].id /\ worker'[w].half = worker[w].half /\ worker'[w].at \notin {"none", "load"}
  /\ worker'[w].said = "retry" => worker'[w].half /\ worker'[w].at \in {"leaving", "ended"}

\* A line of a worker's output, or the worker's end.
LEMMA WorkerSpeaks ==
  ASSUME Types, Words, NEW w \in Workers, WorkerLoads(w) \/ WorkerSeparates(w) \/ WorkerExits(w)
  PROVE  Speaks(w)
<1>1. worker \in [Workers -> WorkerType] /\ worker[w] \in WorkerType BY DEF Types
<1>2. Running(w) BY DEF WorkerLoads, WorkerSeparates, WorkerExits, Running
<1>3. worker[w].said = "retry" => worker[w].half /\ worker[w].at = "leaving"
  BY <1>1, <1>2 DEF Words, Running
<1>4. ASSUME NEW new \in WorkerType, worker' = [worker EXCEPT ![w] = new],
             new.id = worker[w].id, new.half = worker[w].half, new.at \notin {"none", "load"},
             new.said = "retry" => new.half /\ new.at \in {"leaving", "ended"}
      PROVE  Speaks(w)
  <2>1. worker'[w] = new /\ \A v \in Workers \ {w} : worker'[v] = worker[v] BY <1>1, <1>4
  <2>2. worker' \in [Workers -> WorkerType] BY <1>1, <1>4
  <2> QED BY <1>2, <1>4, <2>1, <2>2 DEF Speaks
<1>5. ASSUME NEW said \in {"retry", "fatal", "done"}, NEW code \in {"ok", "bad"}, Says(w, said, code),
             said = "retry" => worker[w].half
      PROVE  Speaks(w)
  <2> DEFINE new == [worker[w] EXCEPT !.at = "leaving", !.said = said, !.code = code]
  <2>1. worker' = [worker EXCEPT ![w] = new] BY <1>1, <1>5 DEF Says
  <2>2. /\ new \in WorkerType /\ new.id = worker[w].id /\ new.half = worker[w].half /\ new.at = "leaving"
        /\ new.said = said
    BY <1>1 DEF WorkerType
  <2> HIDE DEF new
  <2> QED BY <1>4, <1>5, <2>1, <2>2
<1>6. ASSUME worker[w].at = "load", worker' = [worker EXCEPT ![w].at = "file"] PROVE Speaks(w)
  <2> DEFINE new == [worker[w] EXCEPT !.at = "file"]
  <2>1. worker' = [worker EXCEPT ![w] = new] BY <1>1, <1>6
  <2>2. new \in WorkerType /\ new.id = worker[w].id /\ new.half = worker[w].half /\ new.at = "file" /\ new.said # "retry"
    BY <1>1, <1>3, <1>6 DEF WorkerType
  <2> HIDE DEF new
  <2> QED BY <1>4, <2>1, <2>2
<1>7. CASE WorkerExits(w)
  <2> DEFINE code == IF worker[w].at = "leaving" THEN worker[w].code ELSE "bad"
             new == [worker[w] EXCEPT !.at = "ended", !.code = code]
  <2>1. worker' = [worker EXCEPT ![w] = new] BY <1>1, <1>7 DEF WorkerExits
  <2>2. /\ new \in WorkerType /\ new.id = worker[w].id /\ new.half = worker[w].half /\ new.at = "ended"
        /\ new.said = worker[w].said
    BY <1>1 DEF WorkerType
  <2> HIDE DEF new
  <2> QED BY <1>3, <1>4, <2>1, <2>2
<1>8. CASE WorkerLoads(w)
  <2>1. worker[w].at = "load" /\ worker[w].said # "retry" BY <1>3, <1>8 DEF WorkerLoads
  <2>2. CASE worker' = [worker EXCEPT ![w].at = "file"] BY <1>6, <2>1, <2>2
  <2>3. CASE worker[w].half /\ Says(w, "retry", "bad") BY <1>5, <2>1, <2>3 DEF Words
  <2>4. CASE Says(w, "fatal", "bad") BY <1>5, <2>4
  <2> QED BY <1>8, <2>2, <2>3, <2>4 DEF WorkerLoads
<1>9. CASE WorkerSeparates(w) BY <1>5, <1>9 DEF WorkerSeparates
<1> QED BY <1>7, <1>8, <1>9

\* A worker speaks for the click that holds it.
LEMMA WorkerKeeps ==
  ASSUME IInv, NEW w \in Workers, WorkerLoads(w) \/ WorkerSeparates(w) \/ WorkerExits(w)
  PROVE  IInv'
<1> USE DEF IInv
<1>1. Speaks(w) BY WorkerSpeaks
<1>2. UNCHANGED <<state, disabled, sep, stopper>> BY DEF WorkerLoads, WorkerSeparates, WorkerExits, workerRest
<1>3. PICK c \in Separations : sep[c].at \in WithWorker /\ sep[c].process = w
  BY <1>1 DEF Speaks, Holder, WithWorker
<1>4. sep[c].at \in Held /\ Live(c) /\ worker[w].id = sep[c].id
  BY <1>3 DEF HeldWorker, Held, WithWorker, Live
<1>5. \A d \in Separations : sep[d].id = worker[w].id => d = c BY <1>4 DEF Ids
<1>6. \A v \in Workers : Running(v)' => Running(v) BY <1>1 DEF Speaks, Running
<1>7. \A v \in Workers : worker'[v].id = worker[v].id /\ worker'[v].half = worker[v].half
                         /\ (worker[v].at # "none" => worker'[v].at # "none")
  BY <1>1 DEF Speaks
<1>8. Types' /\ Ids' /\ RegisteredWorker'
  BY <1>1, <1>2 DEF Types, Ids, Live, RegisteredWorker, Speaks
<1>9. Holder' BY <1>2, <1>6 DEF Holder
<1>10. HeldWorker' BY <1>2, <1>6, <1>7 DEF HeldWorker
<1>11. Words' BY <1>1, <1>2 DEF Words, Speaks, Running
<1>12. Hopeful' BY <1>2 DEF Hopeful, Live
<1>13. Hits' BY <1>2, <1>7 DEF Hits, Told
<1> QED BY <1>8, <1>9, <1>10, <1>11, <1>12, <1>13

----------------------------------------------------------------------------
(* The theorems.                                                            *)

\* It holds before the first click.
LEMMA InitIInv == PymssInit => IInv
<1> SUFFICES ASSUME PymssInit PROVE IInv OBVIOUS
<1> USE DEF PymssInit, NoTask, Unstarted
<1>1. Types BY DEF Types, SepType, WorkerType, StopperType, SepPlaces, Dtypes
<1>2. Ids BY DEF Ids, Live
<1>3. Holder /\ Words /\ Hopeful BY DEF Holder, Running, Words, Hopeful, Live
<1>4. HeldWorker /\ RegisteredWorker /\ Hits BY DEF HeldWorker, Held, RegisteredWorker, Hits
<1> QED BY <1>1, <1>2, <1>3, <1>4 DEF IInv

\* Every step keeps it.
LEMMA NextIInv == IInv /\ [PymssNext]_pymssVars => IInv'
<1> SUFFICES ASSUME IInv, [PymssNext]_pymssVars PROVE IInv' OBVIOUS
<1>1. ASSUME NEW c \in Separations, BeginSeparation(c) \/ Separate(c) \/ CloseSeparation(c) PROVE IInv'
  BY <1>1, BeginKeeps, StartKeeps, GeneratorKeeps DEF Separate
<1>2. ASSUME NEW s \in PymssStops, StopSeparation(s) \/ StopperKills(s) PROVE IInv' BY <1>2, StopKeeps
<1>3. ASSUME NEW w \in Workers, WorkerLoads(w) \/ WorkerSeparates(w) \/ WorkerExits(w) PROVE IInv'
  BY <1>3, WorkerKeeps
<1>4. CASE UNCHANGED pymssVars
  BY <1>4 DEF pymssVars, IInv, Types, Ids, Live, Holder, Running, HeldWorker, Words, Hopeful, RegisteredWorker,
              Hits, Told
<1> QED BY <1>1, <1>2, <1>3, <1>4 DEF PymssNext

\* The inductive invariant holds in every reachable state.
LEMMA InvariantHolds == PymssSpec => []IInv
BY InitIInv, NextIInv, PTL DEF PymssSpec

\* However many clicks, stops and workers there are, a worker runs only for the
\* task that is active, and for the click of it that will kill it.
THEOREM WorkersOfActiveTask == PymssSpec => []NoWorkerOutlivesTask
<1>1. IInv => NoWorkerOutlivesTask
  <2> SUFFICES ASSUME IInv, NEW w \in Workers, Running(w)
               PROVE  /\ state.active /\ state.id = worker[w].id
                      /\ \E c \in Separations : sep[c].id = worker[w].id /\ sep[c].process = w /\ sep[c].at # "over"
    BY DEF NoWorkerOutlivesTask
  <2>1. PICK c \in Separations : sep[c].at \in WithWorker /\ sep[c].process = w BY DEF IInv, Holder, WithWorker
  <2>2. Live(c) /\ sep[c].id = worker[w].id BY <2>1 DEF IInv, HeldWorker, Held, WithWorker, Live
  <2> QED BY <2>1, <2>2 DEF IInv, Ids, Live
<1> QED BY InvariantHolds, <1>1, PTL

\* A stop that finds a worker running is the outcome of its task, unless the
\* page is closed, for every interleaving of stops, workers and generators.
THEOREM StopIsTheOutcome == PymssSpec => []StoppedWorkerIsCancelled
<1>1. IInv => StoppedWorkerIsCancelled BY DEF IInv, Hits, Told, StoppedWorkerIsCancelled
<1> QED BY InvariantHolds, <1>1, PTL

\* Only the start of a worker tells it that it may ask for the fallback.
LEMMA OnlyStarts ==
  ASSUME IInv, PymssNext, NEW w \in Workers, worker[w].at = "none", worker'[w].half
  PROVE  \E c \in Separations : StartWorker(c) /\ Len(sep[c].attempts) = 2
<1> USE DEF IInv
<1>1. ~worker[w].half /\ ~Running(w) BY DEF Words, Running
<1>2. worker' # worker /\ \A v : worker' # KilledWorker(v) BY <1>1, KilledQuiet DEF Quiet
<1>3. \A v \in Workers : ~(WorkerLoads(v) \/ WorkerSeparates(v) \/ WorkerExits(v))
  <2> SUFFICES ASSUME NEW v \in Workers, WorkerLoads(v) \/ WorkerSeparates(v) \/ WorkerExits(v) PROVE FALSE
    OBVIOUS
  <2> QED BY <1>1, WorkerSpeaks DEF Speaks
<1>4. \A s \in PymssStops : ~(StopSeparation(s) \/ StopperKills(s))
  BY <1>2 DEF StopSeparation, StopperKills
<1>5. PICK c \in Separations : BeginSeparation(c) \/ Separate(c) \/ CloseSeparation(c)
  BY <1>3, <1>4 DEF PymssNext
<1>6. StartWorker(c)
  BY <1>2, <1>5 DEF BeginSeparation, Separate, CloseSeparation, Attempt, RegisterWorker, ReadEnds, Reap, KillRest,
                    Unregister, Result, FinishSeparation
<1>7. PICK v \in NewWorkers :
        worker' = [worker EXCEPT ![v].at = "load", ![v].id = sep[c].id, ![v].half = Len(sep[c].attempts) = 2]
  BY <1>2, <1>6 DEF StartWorker
<1>8. v = w /\ worker'[w].half = (Len(sep[c].attempts) = 2) BY <1>1, <1>7 DEF Types, WorkerType, NewWorkers
<1> QED BY <1>6, <1>8

\* Once FP16 failed for the model, no worker is started that could ask for a
\* fallback, in the task that met it and in all that follow.
THEOREM OneFallback == PymssSpec => FallbackIsRemembered
<1>1. ASSUME IInv, PymssNext, NEW w \in Workers, worker[w].at = "none", worker'[w].half PROVE ~disabled
  <2>1. PICK c \in Separations : StartWorker(c) /\ Len(sep[c].attempts) = 2 BY <1>1, OnlyStarts
  <2>2. Live(c) BY <2>1 DEF StartWorker, Live
  <2> QED BY <1>1, <2>1, <2>2 DEF IInv, Hopeful
<1>2. ASSUME IInv, UNCHANGED pymssVars, NEW w \in Workers, worker[w].at = "none", worker'[w].half PROVE FALSE
  BY <1>2 DEF IInv, Words, pymssVars
<1>3. IInv /\ [PymssNext]_pymssVars => [\A w \in Workers : worker[w].at = "none" /\ worker'[w].half => ~disabled]_pymssVars
  BY <1>1, <1>2
<1> QED BY InvariantHolds, <1>3, PTL DEF PymssSpec, FallbackIsRemembered

----------------------------------------------------------------------------
(* The types, with the number of tasks.                                     *)

\* The clicks that took the page.
Began == {c \in Separations : sep[c].id > 0}

\* There are no more tasks than clicks, and every worker is of one of them.
Counted ==
  /\ state.id <= Cardinality(Began)
  /\ \A w \in Workers : worker[w].id <= state.id

LEMMA BeganFinite == IsFiniteSet(Began) /\ Cardinality(Began) \in Nat
                     /\ Cardinality(Began) <= Cardinality(Separations) /\ Cardinality(Separations) \in Nat
BY SeparationsAssumption, FS_Subset, FS_CardinalityType DEF Began

\* A step that numbers no task.
LEMMA NumbersKept ==
  ASSUME Types, Counted, state'.id = state.id, \A c \in Separations : sep'[c].id = sep[c].id,
         \A w \in Workers : worker'[w].id = worker[w].id \/ worker'[w].id <= state.id
  PROVE  Counted'
<1>1. Began' = Began BY DEF Began
<1> QED BY <1>1 DEF Counted

\* A task that begins has the next number and its click had none.
LEMMA BeginCounts == ASSUME IInv, Counted, NEW c \in Separations, BeginSeparation(c) PROVE Counted'
<1> USE DEF IInv
<1>1. sep \in [Separations -> SepType] /\ sep[c].at = "unborn" /\ worker' = worker
  BY DEF Types, BeginSeparation
<1>2. CASE state.active
  <2>1. state' = state /\ sep' = [sep EXCEPT ![c].at = "over", ![c].outcome = "busy"]
    BY <1>2 DEF BeginSeparation
  <2>2. \A d \in Separations : sep'[d].id = sep[d].id BY <1>1, <2>1 DEF SepType
  <2> QED BY <1>1, <2>1, <2>2, NumbersKept
<1>3. CASE ~state.active
  <2>1. PICK attempts :
          /\ state' = [id |-> state.id + 1, active |-> TRUE, process |-> NoWorker, stop |-> FALSE]
          /\ sep' = [sep EXCEPT ![c].at = "attempt", ![c].id = state.id + 1, ![c].attempts = attempts]
    BY <1>3 DEF BeginSeparation
  <2>2. state.id \in Nat BY DEF Types
  <2>3. sep'[c].id = state.id + 1 /\ \A d \in Separations \ {c} : sep'[d].id = sep[d].id
    BY <1>1, <2>1 DEF SepType
  <2>4. c \notin Began BY <1>1 DEF Ids, Began
  <2>5. Began' = Began \cup {c} BY <2>2, <2>3 DEF Began
  <2>6. Cardinality(Began') = Cardinality(Began) + 1 BY <2>4, <2>5, BeganFinite, FS_AddElement
  <2>7. \A w \in Workers : worker[w].id \in Nat BY DEF Types, WorkerType
  <2> QED BY <1>1, <2>1, <2>2, <2>6, <2>7, BeganFinite DEF Counted
<1> QED BY <1>2, <1>3

\* The other steps of a generator.
LEMMA GeneratorCounts ==
  ASSUME IInv, Counted, NEW c \in Separations, Separate(c) \/ CloseSeparation(c) PROVE Counted'
<1> USE DEF IInv
<1>1. /\ state \in [id : Nat, active : BOOLEAN, process : Workers \cup {NoWorker}, stop : BOOLEAN]
      /\ sep \in [Separations -> SepType] /\ worker \in [Workers -> WorkerType]
  BY DEF Types
<1>2. state'.id = state.id
  BY <1>1 DEF Separate, CloseSeparation, Attempt, StartWorker, RegisterWorker, ReadEnds, Reap, KillRest,
              Unregister, Result, FinishSeparation
<1>3. \A d \in Separations : sep'[d].id = sep[d].id
  <2>1. CASE CloseSeparation(c) BY <1>1, <2>1 DEF CloseSeparation, Ends, SepType
  <2>2. CASE Attempt(c) BY <1>1, <2>2 DEF Attempt, Ends, SepType
  <2>3. CASE StartWorker(c)
    <3>1. ASSUME NEW w \in Workers, sep' = [sep EXCEPT ![c].at = "register", ![c].process = w]
          PROVE  \A d \in Separations : sep'[d].id = sep[d].id
      BY <1>1, <3>1 DEF SepType
    <3>2. ASSUME NEW outcome, Ends(c, outcome) PROVE \A d \in Separations : sep'[d].id = sep[d].id
      BY <1>1, <3>2 DEF Ends, SepType
    <3> QED BY <2>3, <3>1, <3>2 DEF StartWorker, NewWorkers
  <2>4. CASE RegisterWorker(c) \/ ReadEnds(c) \/ Reap(c) \/ KillRest(c) \/ Unregister(c)
    BY <1>1, <2>4 DEF RegisterWorker, ReadEnds, Reap, KillRest, Unregister, SepType
  <2>5. CASE Result(c)
    <3>1. CASE Fallback(c) BY <1>1, <3>1 DEF Fallback, SepType
    <3>2. CASE Ends(c, Verdict(c)) BY <1>1, <3>2 DEF Ends, SepType
    <3> QED BY <2>5, <3>1, <3>2 DEF Result
  <2>6. CASE FinishSeparation(c) BY <1>1, <2>6 DEF FinishSeparation, NoTask, SepType
  <2> QED BY <2>1, <2>2, <2>3, <2>4, <2>5, <2>6 DEF Separate
<1>4. \A w \in Workers : worker'[w].id = worker[w].id \/ worker'[w].id <= state.id
  <2>1. CASE StartWorker(c)
    <3>1. sep[c].id <= state.id BY DEF Ids
    <3>2. ASSUME NEW w \in Workers, NEW half,
                 worker' = [worker EXCEPT ![w].at = "load", ![w].id = sep[c].id, ![w].half = half]
          PROVE  \A v \in Workers : worker'[v].id = worker[v].id \/ worker'[v].id <= state.id
      BY <1>1, <3>1, <3>2 DEF WorkerType
    <3> QED BY <2>1, <3>2 DEF StartWorker, NewWorkers
  <2>2. CASE RegisterWorker(c) \/ KillRest(c)
    <3>1. worker' = worker \/ worker' = KilledWorker(sep[c].process)
      BY <2>2 DEF RegisterWorker, KillRest
    <3> QED BY <3>1, KilledQuiet DEF Quiet
  <2>3. CASE worker' = worker BY <2>3
  <2> QED BY <2>1, <2>2, <2>3 DEF Separate, CloseSeparation, Attempt, ReadEnds, Reap, Unregister, Result, FinishSeparation
<1> QED BY <1>2, <1>3, <1>4, NumbersKept

\* A stop and a worker number nothing.
LEMMA OthersCount ==
  ASSUME IInv, Counted,
         \/ \E s \in PymssStops : StopSeparation(s) \/ StopperKills(s)
         \/ \E w \in Workers : WorkerLoads(w) \/ WorkerSeparates(w) \/ WorkerExits(w)
  PROVE  Counted'
<1> USE DEF IInv
<1>1. CASE \E s \in PymssStops : StopSeparation(s) \/ StopperKills(s)
  <2>1. PICK s \in PymssStops : StopSeparation(s) \/ StopperKills(s) BY <1>1
  <2>2. sep' = sep /\ state'.id = state.id BY <2>1 DEF Types, StopSeparation, StopperKills
  <2>3. worker' = worker \/ worker' = KilledWorker(stopper[s].process)
    BY <2>1 DEF StopSeparation, StopperKills
  <2>4. \A w \in Workers : worker'[w].id = worker[w].id BY <2>3, KilledQuiet DEF Quiet
  <2> QED BY <2>2, <2>4, NumbersKept
<1>2. CASE \E w \in Workers : WorkerLoads(w) \/ WorkerSeparates(w) \/ WorkerExits(w)
  <2>1. PICK w \in Workers : WorkerLoads(w) \/ WorkerSeparates(w) \/ WorkerExits(w) BY <1>2
  <2>2. sep' = sep /\ state' = state BY <2>1 DEF WorkerLoads, WorkerSeparates, WorkerExits, workerRest
  <2>3. Speaks(w) BY <2>1, WorkerSpeaks
  <2> QED BY <2>2, <2>3, NumbersKept DEF Speaks
<1> QED BY <1>1, <1>2

\* Everything keeps its type: in particular no more tasks are numbered than
\* there are clicks.
THEOREM PymssTypesCorrect == PymssSpec => []PymssTypeOK
<1>1. ASSUME PymssInit PROVE Counted
  <2>1. state.id = 0 /\ \A w \in Workers : worker[w].id = 0 BY <1>1 DEF PymssInit, Unstarted
  <2> QED BY <2>1, BeganFinite DEF Counted
<1>2. ASSUME IInv, Counted, [PymssNext]_pymssVars PROVE Counted'
  <2>1. CASE UNCHANGED pymssVars BY <1>2, <2>1, NumbersKept DEF pymssVars, IInv
  <2> QED BY <1>2, <2>1, BeginCounts, GeneratorCounts, OthersCount DEF PymssNext
<1>3. ASSUME IInv, Counted PROVE PymssTypeOK
  <2> DEFINE N == Cardinality(Separations)
  <2>1. Types BY <1>3 DEF IInv
  <2>2. state.id \in 0..N BY <1>3, <2>1, BeganFinite DEF Counted, Types
  <2>3. \A c \in Separations : sep[c].id \in 0..N
    BY <1>3, <2>1, <2>2, BeganFinite DEF Types, SepType, IInv, Ids
  <2>4. \A w \in Workers : worker[w].id \in 0..N
    BY <1>3, <2>1, <2>2, BeganFinite DEF Types, WorkerType, Counted
  <2> HIDE DEF N
  <2>5. state \in [id : 0..N, active : BOOLEAN, process : Workers \cup {NoWorker}, stop : BOOLEAN]
    BY <2>1, <2>2 DEF Types
  <2>6. sep \in [Separations ->
          [at : SepPlaces, id : 0..N, attempts : Dtypes, process : Workers \cup {NoWorker},
           cancel : BOOLEAN, closing : BOOLEAN,
           outcome : {"none", "busy", "completed", "failed", "cancelled", "closed"}]]
    BY <2>1, <2>3 DEF Types, SepType
  <2>7. worker \in [Workers ->
          [at : {"none", "load", "file", "leaving", "ended"}, id : 0..N, half : BOOLEAN,
           said : {"nothing", "retry", "fatal", "done"}, code : {"none", "ok", "bad"}]]
    BY <2>1, <2>4 DEF Types, WorkerType
  <2>8. SepPlaces = {"unborn", "attempt", "start", "register", "read", "reap", "kill", "unregister",
                     "result", "finish", "over"}
    BY DEF SepPlaces, Held
  <2> QED BY <2>1, <2>5, <2>6, <2>7, <2>8 DEF PymssTypeOK, Types, StopperType, Dtypes, N
<1> QED BY InvariantHolds, <1>1, <1>2, <1>3, PTL DEF PymssSpec
=============================================================================
