-------------------------- MODULE TrainingCheckpoint --------------------------
(***************************************************************************)
(* extractText/train_pytorch.py: train() fetches batches from the sample   *)
(* server, updates the weights with each of them, and at the end of an     *)
(* epoch writes the weights over one checkpoint file if the mean loss is   *)
(* the best of this run.  The next run starts from that file.              *)
(***************************************************************************)
EXTENDS Integers

CONSTANTS
    EPOCHS, steps_per_epoch,
    Losses,       \* the loss of a batch
    MaxTrainings, \* bound: how often the program is started
    MaxUpsets     \* bound: errors and crashes together

ASSUME TrainingAssumption ==
    /\ EPOCHS \in Nat /\ steps_per_epoch \in Nat \ {0}
    /\ Losses \subseteq Nat \ {0}
    /\ MaxTrainings \in Nat \ {0} /\ MaxUpsets \in Nat

VARIABLES
    doing,       \* where train() is
    epoch, step,
    epoch_loss,  \* the sum of the losses of the epoch
    best_loss,   \* NoLoss, or the smallest epoch_loss of a finished epoch of the run
    updates,     \* how often the weights in memory were updated since they were random,
                 \* or since a run that could not load all of the file
    schedule,    \* the steps of the scheduler
    total_samples_trained,  \* in batches
    file,        \* WEIGHTS_PATH
    serving,     \* the sample server answers
    scratch,     \* the run could not load the file that there is, or not all of it
    fresh,       \* the optimizer's state was not loaded, in this run or one it goes on from
    saves,       \* the run has saved
    trainings, upsets

runVars == <<epoch, step, epoch_loss, best_loss>>
modelVars == <<updates, schedule, total_samples_trained, fresh>>
trainVars == <<doing, runVars, modelVars, file, serving, scratch, saves, trainings, upsets>>

NoLoss == -1
NoFile == [kind |-> "absent"]
CutFile == [kind |-> "cut"]

Upset == upsets < MaxUpsets /\ upsets' = upsets + 1
NoUpset == UNCHANGED upsets

\* The model is made and its weights loaded, with the epoch and the totals.  If that
\* raises the run counts from nothing, with random weights, among which are those of the
\* file that load_state_dict had copied before it came to one of another shape.
LoadModel ==
    /\ doing = "load"
    /\ best_loss' = NoLoss
    /\ \/ /\ file.kind = "model" /\ NoUpset
          /\ epoch' = file.epoch + 1
          /\ updates' = file.updates
          /\ total_samples_trained' = file.total_samples
          /\ scratch' = FALSE
       \/ /\ IF file.kind = "model" THEN Upset ELSE NoUpset
          /\ epoch' = 0 /\ updates' = 0 /\ total_samples_trained' = 0
          /\ scratch' = (file.kind # "absent")
    /\ doing' = "optimizer"
    /\ saves' = FALSE
    /\ UNCHANGED <<step, epoch_loss, schedule, fresh, file, serving, trainings>>

\* A bug for LoadOptimizer: the state of the scheduler is left out.
LoadOptimizer_WithoutScheduler ==
    /\ doing = "optimizer" /\ NoUpset
    /\ schedule' = 0
    /\ fresh' = (epoch > 0 /\ file.fresh)
    /\ doing' = "epoch"
    /\ UNCHANGED <<runVars, updates, total_samples_trained, file, serving, scratch, saves, trainings>>

\* The optimizer's and the scheduler's state are loaded in a try of their own.
LoadOptimizer ==
    /\ doing = "optimizer"
    /\ \/ /\ epoch > 0 /\ NoUpset
          /\ schedule' = file.schedule
          /\ fresh' = file.fresh
       \/ /\ epoch > 0 /\ Upset
          /\ schedule' = 0
          /\ fresh' = TRUE
       \/ /\ epoch = 0 /\ NoUpset
          /\ schedule' = 0
          /\ fresh' = FALSE
    /\ doing' = "epoch"
    /\ UNCHANGED <<runVars, updates, total_samples_trained, file, serving, scratch, saves, trainings>>

BeginEpoch ==
    /\ doing = "epoch"
    /\ IF epoch < EPOCHS
       THEN doing' = "batch" /\ step' = 0 /\ epoch_loss' = 0
       ELSE doing' = "finished" /\ UNCHANGED <<step, epoch_loss>>
    /\ UNCHANGED <<epoch, best_loss, modelVars, file, serving, scratch, saves, trainings, upsets>>

\* The next batch, which generate_batches asks for until the server has answered; the
\* loop of the epoch ends only when it has one batch too many.
\* A batch whose mask is empty is skipped, and counts as a step.
Batch ==
    /\ doing = "batch" /\ serving
    /\ \/ /\ step < steps_per_epoch
          /\ step' = step + 1
          /\ \E loss \in Losses : epoch_loss' = epoch_loss + loss
          /\ updates' = updates + 1
          /\ schedule' = schedule + 1
          /\ total_samples_trained' = total_samples_trained + 1
          /\ UNCHANGED doing
       \/ /\ step < steps_per_epoch
          /\ step' = step + 1
          /\ UNCHANGED <<doing, epoch_loss, updates, schedule, total_samples_trained>>
       \/ /\ step = steps_per_epoch
          /\ doing' = "end"
          /\ UNCHANGED <<step, epoch_loss, updates, schedule, total_samples_trained>>
    /\ UNCHANGED <<epoch, best_loss, fresh, file, serving, scratch, saves, trainings, upsets>>

Checkpoint ==
    [kind |-> "model", epoch |-> epoch, updates |-> updates, schedule |-> schedule,
     total_samples |-> total_samples_trained, fresh |-> fresh, best_loss |-> epoch_loss]

\* A bug for EndEpoch: every epoch that beats the first one is saved.
EndEpoch_KeepsBaseline ==
    /\ doing = "end"
    /\ IF best_loss # NoLoss /\ epoch_loss < best_loss
       THEN doing' = "save" /\ UNCHANGED <<epoch, best_loss>>
       ELSE /\ doing' = "epoch" /\ epoch' = epoch + 1
            /\ best_loss' = IF best_loss = NoLoss THEN epoch_loss ELSE best_loss
    /\ UNCHANGED <<step, epoch_loss, modelVars, file, serving, scratch, saves, trainings, upsets>>

\* The first epoch of the run is its baseline, a later one is saved if it beats all of
\* them; the mean is over steps_per_epoch, so the sums are compared.
EndEpoch ==
    /\ doing = "end"
    /\ IF best_loss # NoLoss /\ epoch_loss < best_loss
       THEN doing' = "save" /\ best_loss' = epoch_loss /\ UNCHANGED epoch
       ELSE /\ doing' = "epoch" /\ epoch' = epoch + 1
            /\ best_loss' = IF best_loss = NoLoss THEN epoch_loss ELSE best_loss
    /\ UNCHANGED <<step, epoch_loss, modelVars, file, serving, scratch, saves, trainings, upsets>>

\* torch.save writes over the file; an error half way ends the program.
Save ==
    /\ doing = "save"
    /\ \/ /\ NoUpset
          /\ file' = Checkpoint
          /\ saves' = TRUE
          /\ doing' = "epoch" /\ epoch' = epoch + 1
       \/ /\ Upset
          /\ file' = CutFile
          /\ doing' = "killed"
          /\ UNCHANGED <<saves, epoch>>
    /\ UNCHANGED <<step, epoch_loss, best_loss, modelVars, serving, scratch, trainings>>

KillTraining ==
    /\ doing \notin {"finished", "killed"} /\ Upset
    /\ doing' = "killed"
    /\ file' = IF doing = "save" THEN CutFile ELSE file
    /\ UNCHANGED <<runVars, modelVars, serving, scratch, saves, trainings>>

TrainAgain ==
    /\ doing \in {"finished", "killed"}
    /\ trainings < MaxTrainings /\ trainings' = trainings + 1
    /\ doing' = "load"
    /\ UNCHANGED <<runVars, modelVars, file, serving, scratch, saves, upsets>>

SampleServer ==
    /\ \/ serving /\ serving' = FALSE /\ Upset
       \/ ~serving /\ serving' = TRUE /\ NoUpset
    /\ UNCHANGED <<doing, runVars, modelVars, file, scratch, saves, trainings>>

TrainInit ==
    /\ doing = "load"
    /\ epoch = 0 /\ step = 0 /\ epoch_loss = 0 /\ best_loss = NoLoss
    /\ updates = 0 /\ schedule = 0 /\ total_samples_trained = 0
    /\ file = NoFile /\ serving = TRUE
    /\ scratch = FALSE /\ fresh = FALSE /\ saves = FALSE
    /\ trainings = 1 /\ upsets = 0

TrainNext ==
    \/ LoadModel \/ LoadOptimizer \/ BeginEpoch \/ Batch \/ EndEpoch \/ Save
    \/ KillTraining \/ TrainAgain \/ SampleServer

TrainSpec == TrainInit /\ [][TrainNext]_trainVars

(***************************************************************************)
(* Properties.                                                             *)
(***************************************************************************)
Models == [kind : {"model"}, epoch : 0 .. EPOCHS - 1, updates : Nat, schedule : Nat,
           total_samples : Nat, fresh : BOOLEAN, best_loss : Nat]

TrainTypeOK ==
    /\ doing \in {"load", "optimizer", "epoch", "batch", "end", "save", "finished", "killed"}
    /\ epoch \in 0..EPOCHS /\ step \in 0..steps_per_epoch
    /\ epoch_loss \in Nat /\ best_loss \in Nat \union {NoLoss}
    /\ updates \in Nat /\ schedule \in Nat /\ total_samples_trained \in Nat
    /\ file \in {NoFile, CutFile} \union Models
    /\ serving \in BOOLEAN /\ scratch \in BOOLEAN /\ fresh \in BOOLEAN /\ saves \in BOOLEAN
    /\ trainings \in 1..MaxTrainings /\ upsets \in 0..MaxUpsets

\* What the checkpoint says of its model is so, over any chain of runs that went on
\* from one another (a run that could not load the file begins a new chain): its samples
\* are those that its weights were updated with in the chain, and its
\* schedule is at the same step unless the state of the optimizer was not loaded.
\* (The counters, the weights and the schedule are loaded in two separate attempts and
\* left alone by skipped batches.)
ACheckpointCountsItsTraining ==
    file.kind = "model" =>
        /\ file.total_samples = file.updates
        /\ IF file.fresh THEN file.schedule <= file.updates ELSE file.schedule = file.updates

\* A model is replaced by one with more training and a smaller loss: by one with less
\* training only in a run that could not load it, by one with the same only after an
\* epoch whose batches were all skipped, and by one with a larger loss only in the first
\* save of a run.  (Each run takes its own first epoch for the loss to beat.)
AModelIsReplacedByABetterOne ==
    [][file.kind = "model" /\ file' # file /\ file' # CutFile =>
        /\ \/ file'.updates > file.updates
           \/ file'.updates = file.updates /\ epoch_loss = 0
           \/ scratch
        /\ file'.best_loss < file.best_loss \/ ~saves]_trainVars
=============================================================================
