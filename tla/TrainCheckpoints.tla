-------------------------- MODULE TrainCheckpoints --------------------------
(***************************************************************************)
(* The subprocess of the training stage (train/train.py) under the tasks   *)
(* of the WebUI: what it reads from and writes to the directory of one     *)
(* experiment while a stop may kill it at any step.  A checkpoint is a     *)
(* pair of files, G_<step>.pth and D_<step>.pth, written one after the     *)
(* other in place by torch.save; with "save only the latest" both are      *)
(* written under the step 2333333.  A new subprocess resumes from the pair *)
(* of newest files.                                                        *)
(***************************************************************************)
EXTENDS TrainTasks

CONSTANTS
  TotalEpoch,   \* total_epoch of the clicks
  LatestModes,  \* values of if_latest a click may pass
  Intervals,    \* values of save_every_epoch a click may pass
  Ddp,          \* more than one GPU: main() joins its ranks
  Torn          \* the content of a file whose writing was cut

ASSUME TotalEpochAssumption == TotalEpoch \in Nat \ {0}
ASSUME LatestModesAssumption == LatestModes \subseteq BOOLEAN
ASSUME IntervalsAssumption == Intervals \subseteq Nat \ {0}
ASSUME TornAssumption == Torn \notin Nat

VARIABLES
  files,     \* the checkpoints on disk: for G and D, each slot's content
  trainer,   \* each training subprocess
  mixed,     \* history: two trainings have used the slot that is overwritten
  together   \* history: two trainings have run at once

trainVars == <<files, trainer, mixed, together>>
vars == <<taskVars, trainVars>>

Epochs == 1..TotalEpoch

\* Steps are numbered in order of their epoch, and 2333333 is above them all.
Latest == TotalEpoch + 1
Slots == 1..Latest
Slot(latest, epoch) == IF latest THEN Latest ELSE epoch

NoFile == 0

\* latest_checkpoint_path: the file with the largest number, whatever its age.
Newest(net) ==
  LET there == {s \in Slots : files[net][s] # NoFile}
  IN  IF there = {} THEN NoFile
      ELSE files[net][CHOOSE s \in there : \A t \in there : t <= s]

NoTrainer == [at |-> "none", epoch |-> 0, latest |-> FALSE, every |-> 1]

Training(p) == Alive(p) /\ child[p].stage = "train"

Init ==
  /\ TaskInit
  /\ files = [net \in {"G", "D"} |-> [s \in Slots |-> NoFile]]
  /\ trainer = [p \in Children |-> NoTrainer]
  /\ mixed = FALSE /\ together = FALSE

-----------------------------------------------------------------------------
(* run(): load D, then G.  torch.load raises on a missing or a torn file,  *)
(* and any exception falls back to epoch 1 and the pretrained models.  The *)
(* epoch that was saved is trained again.                                  *)
Resumes == \A net \in {"D", "G"} : Newest(net) \in Epochs

\* A training that begins anew leaves the discriminator of an earlier one where
\* it is until its own first save; two that run at once save over each other.
AnotherTrains == \E q \in Children : trainer[q].at # "none"
Mixes == AnotherTrains \/ (~Resumes /\ Newest("D") \in Epochs)

Resume(p) ==
  /\ Training(p) /\ trainer[p].at = "none"
  /\ \E latest \in LatestModes, every \in Intervals :
       trainer' = [trainer EXCEPT ![p] =
         [at |-> "epoch", epoch |-> IF Resumes THEN Newest("G") ELSE 1,
          latest |-> latest, every |-> every]]
       /\ mixed' = (mixed \/ (latest /\ Mixes))
  /\ together' = (together \/ AnotherTrains)
  /\ UNCHANGED <<taskVars, files>>

At(p, from, to) ==
  /\ Training(p) /\ trainer[p].at = from
  /\ trainer' = [trainer EXCEPT ![p].at = to]

\* Mutant: the two files are written in the other order.
WriteSwapped(p, net, content) ==
  files' = [files EXCEPT ![IF net = "G" THEN "D" ELSE "G"]
                         [Slot(trainer[p].latest, trainer[p].epoch)] = content]

Write(p, net, content) ==
  files' = [files EXCEPT ![net][Slot(trainer[p].latest, trainer[p].epoch)] = content]

\* Mutant: a numbered step that has its file is not saved again.
DueUnlessThere(p) ==
  /\ trainer[p].epoch % trainer[p].every = 0
  /\ \A s \in Epochs : s = trainer[p].epoch /\ ~trainer[p].latest => files["G"][s] = NoFile

\* train_and_evaluate: the epoch is trained; every save_every_epoch of them,
\* save_checkpoint opens and truncates G_<step>.pth, fills it, and then D.
Due(p) == trainer[p].epoch % trainer[p].every = 0

NotDue(p) == ~Due(p) /\ At(p, "epoch", "saved") /\ UNCHANGED <<taskVars, files, mixed, together>>

OpenG(p)  == Due(p) /\ At(p, "epoch", "G") /\ Write(p, "G", Torn)
             /\ UNCHANGED <<taskVars, mixed, together>>
CloseG(p) == At(p, "G", "G saved")     /\ Write(p, "G", trainer[p].epoch)
             /\ UNCHANGED <<taskVars, mixed, together>>
OpenD(p)  == At(p, "G saved", "D")     /\ Write(p, "D", Torn)
             /\ UNCHANGED <<taskVars, mixed, together>>
CloseD(p) == At(p, "D", "saved")       /\ Write(p, "D", trainer[p].epoch)
             /\ UNCHANGED <<taskVars, mixed, together>>

\* Mutant: one epoch too many.
NextEpochTooFar(p) ==
  /\ Training(p) /\ trainer[p].at = "saved" /\ trainer[p].epoch <= TotalEpoch
  /\ trainer' = [trainer EXCEPT ![p].at = "epoch", ![p].epoch = @ + 1]
  /\ UNCHANGED <<taskVars, files, mixed, together>>

\* The end of the epoch: the next one, or the final weights and os._exit(0).
NextEpoch(p) ==
  /\ Training(p) /\ trainer[p].at = "saved" /\ trainer[p].epoch < TotalEpoch
  /\ trainer' = [trainer EXCEPT ![p].at = "epoch", ![p].epoch = @ + 1]
  /\ UNCHANGED <<taskVars, files, mixed, together>>

\* savee() returns its exceptions as text, run() logs them and exits 0: nothing
\* here depends on what it left in assets/weights.
SaveWeights(p) ==
  /\ trainer[p].epoch >= TotalEpoch
  /\ At(p, "saved", "done")
  /\ UNCHANGED <<taskVars, files, mixed, together>>

TrainerStep(p) ==
  \/ Resume(p)
  \/ NotDue(p) \/ OpenG(p) \/ CloseG(p) \/ OpenD(p) \/ CloseD(p)
  \/ NextEpoch(p) \/ SaveWeights(p)

\* A child ends by itself.  Training ends with 0 after the final weights, or,
\* with several GPUs, whatever its ranks did: main() joins them and returns.
ChildEnds(p) ==
  /\ \E status \in {"ok", "failed"} :
       /\ Exit(p, status)
       /\ child[p].stage = "train" =>
            (status = "ok") = (Ddp \/ trainer[p].at = "done")

\* A process that ended loses its memory, and leaves its files.
MemoryLost ==
  /\ trainer' = [p \in Children |->
       IF child'[p].status \in {"ok", "killed", "failed"} THEN NoTrainer ELSE trainer[p]]
  /\ UNCHANGED <<files, mixed, together>>

Next ==
  \/ WebuiStep /\ MemoryLost
  \/ \E p \in Children : ChildEnds(p) /\ MemoryLost
  \/ \E p \in Children : TrainerStep(p)

\* Nobody holds a start or a stop button down.
Spec == Init /\ [][Next]_vars

FairSpec == Spec /\ TaskFairness

-----------------------------------------------------------------------------
Contents == Epochs \cup {NoFile, Torn}

TypeOK ==
  /\ TaskTypeOK
  /\ files \in [{"G", "D"} -> [Slots -> Contents]]
  /\ trainer \in [Children ->
       [at : {"none", "epoch", "G", "G saved", "D", "saved", "done"},
        epoch : 0..TotalEpoch, latest : BOOLEAN, every : Nat]]
  /\ mixed \in BOOLEAN /\ together \in BOOLEAN

(* The generator a subprocess resumes is never older than the discriminator *)
(* it is trained against, and at most one save ahead: a kill between the    *)
(* two files is the worst it finds, when the trainings save alike and no     *)
(* two of them were mixed in the slot that each save overwrites.  A file is  *)
(* numbered by global_step, which follows the epoch as long as the data and  *)
(* the batch size stay the same.                                            *)
PairWithinOneSave ==
  [][\A p \in Children :
       Resume(p) /\ Resumes /\ ~mixed
         => Newest("G") - Newest("D") \in {0, trainer'[p].every}]_vars

\* The last epoch that ends with a save, or none.
LastSave(every) ==
  CHOOSE last \in Epochs \cup {NoFile} :
    /\ last % every = 0
    /\ \A e \in Epochs : e % every = 0 => e <= last

(* A file that a kill has cut makes every later training begin anew as long  *)
(* as it is the newest one.  A training that comes to its end ends that,      *)
(* whatever was cut before it: both newest files are whole and of its last    *)
(* save, and the next click goes on from there.  It ran alone, and the        *)
(* trainings before it passed the same parameters, as docs/cn/faq.md:81 asks  *)
(* of one that is to be continued.                                            *)
FinishedTrainingRepairs ==
  \A p \in Children :
    trainer[p].at = "done" /\ ~together
      => \A net \in {"G", "D"} : Newest(net) = LastSave(trainer[p].every)
=============================================================================
