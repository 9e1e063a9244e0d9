---------------------------- MODULE MCWebuiTasks ----------------------------
(***************************************************************************)
(* The tasks of the WebUI for TLC: the training tab over its checkpoints,   *)
(* and the separation tab.  They share no variable, so that interleaving    *)
(* them would show nothing about either: a behaviour uses one of the tabs,  *)
(* the training tab with one setting of how checkpoints are saved.          *)
(***************************************************************************)
EXTENDS TrainCheckpoints, PymssTasks

VARIABLE tab

MCWidth == [stage \in Stages |-> IF stage = "hubert" THEN 2 ELSE 1]
MCAttempts == {<<"float16", "float32">>}

\* if_latest and save_every_epoch of a behaviour that trains.
Settings == {<<FALSE, 2>>, <<TRUE, 2>>}
Extracts == <<"extract">>
Pymss == <<>>

MCInit == Init /\ PymssInit /\ tab \in Settings \cup {Extracts, Pymss}

\* Bound: a behaviour trains with one setting, or extracts.
MCBound ==
  /\ \A p \in Children : trainer'[p].at # "none" => <<trainer'[p].latest, trainer'[p].every>> = tab
  /\ \A c \in Clicks : click'[c].kind = "extract" <=> tab = Extracts /\ click'[c].kind # "none"

MCNext ==
  /\ \/ tab # Pymss /\ Next /\ MCBound /\ UNCHANGED pymssVars
     \/ tab = Pymss /\ PymssNext /\ UNCHANGED vars
  /\ UNCHANGED tab

MCSpec == MCInit /\ [][MCNext]_<<vars, pymssVars, tab>> /\ TaskFairness /\ PymssFairness
=============================================================================
