------------------------------ MODULE Training ------------------------------
(***************************************************************************)
(* tb-train on a directory of episodes that tb-record-real adds to and     *)
(* tb-dataset-qc looks at: train_policy (runtime/_train.py) and            *)
(* ACTTrainer.fit (policies/act/trainer.py).  A run may be started afresh  *)
(* or from one of the checkpoints, in the same ckpt_dir; it may raise, or  *)
(* be killed at any point.  Every file is written in place: it is          *)
(* truncated first, and torn until the writing is over.                    *)
(*                                                                         *)
(* Data: of the weights the model keeps how many epochs they were trained  *)
(* and on which episodes; a loss is a number, Inf stands for inf and nan.  *)
(* Loading, the split included, happens between two recordings.            *)
(***************************************************************************)
EXTENDS Dataset

CONSTANTS Kinds,           \* the files that a recording may end with
          Begun,           \* the directories there may be before the first run
          MaxEpisodes,     \* bound: files in the directory
          ShortEpisode,    \* short_episode_threshold of quality control
          NumEpisodes,     \* task.num_episodes
          EpisodeLen,      \* task.episode_len
          TrainPercent,    \* train.train_split_ratio, in percent
          NumEpochs, ValEvery, SaveLatestEvery, CheckpointEvery,  \* train.*
          Inf,             \* bound: losses are 1 .. Inf
          MaxRuns          \* bound: runs of tb-train

ASSUME TrainingAssumption ==
    /\ {MaxEpisodes, ShortEpisode, NumEpisodes, EpisodeLen, NumEpochs, MaxRuns} \subseteq Nat
    /\ TrainPercent \in 0 .. 100 /\ Kinds \subseteq Episodes
    /\ \A d \in Begun : /\ \E n \in 0 .. MaxEpisodes : DOMAIN d = 0 .. n - 1
                       /\ Range(d) \subseteq Kinds \cup {Torn}
    /\ {ValEvery, SaveLatestEvery, CheckpointEvery, Inf} \subseteq Nat \ {0}

VARIABLES
    dir,       \* the episode files, by number
    qcClean,   \* the episodes without a warning in the newest report
    disk,      \* the files in ckpt_dir, by name
    todo,      \* the writes the program is about to do, in order
    opened,    \* the first of them has truncated its file
    pc,        \* where train_policy and fit are
    resume,    \* resume_ckpt, or NoFile
    split,     \* train_ids and val_ids
    weights,   \* the model's weights
    epoch, start, minLoss, best,   \* epoch, start_epoch, min_val_loss, best_ckpt
    runs,      \* history: runs so far
    scores,    \* history: the weights validated in this run, with their
               \* losses, and of earlier ones those that policy_best still has
    kept,      \* history: the epochs in the checkpoint this run goes on from
    ended      \* history: how the newest run ended

dataVars == <<dir, qcClean>>
fileVars == <<disk, todo, opened>>
modelVars == <<weights, minLoss, best>>
vars == <<dataVars, fileVars, modelVars, pc, resume, split, epoch, start, runs, scores,
          kept, ended>>

NoFile == <<"none", 0>>
EpochFile(e) == <<"epoch", e>>
LatestFile == <<"latest", 0>>
LastFile == <<"last", 0>>
BestFile == <<"best", 0>>
SplitFile == <<"split", 0>>
StatsFile == <<"stats", 0>>
MetaFile == <<"meta", 0>>
CkptFiles == {EpochFile(e) : e \in 0 .. NumEpochs} \cup {LatestFile, LastFile, BestFile}

Untrained == [trained |-> 0, seen |-> {}]
NoBest == [epoch |-> 0, loss |-> Inf]
NoSplit == [train |-> {}, val |-> {}]

\* The files' contents.
Whole(name) == name \in DOMAIN disk /\ disk[name].whole
Ckpt(w, e, loss) == [whole |-> TRUE, weights |-> w, epoch |-> e, loss |-> loss]
Status(status, e, loss) == [whole |-> TRUE, status |-> status, epoch |-> e, loss |-> loss]
Ids == split.train \cup split.val

Forget == /\ todo' = <<>> /\ opened' = FALSE /\ resume' = NoFile /\ split' = NoSplit
          /\ weights' = Untrained /\ epoch' = 0 /\ start' = 0 /\ minLoss' = Inf
          /\ best' = NoBest
          /\ scores' = {score \in scores : Whole(BestFile) /\ disk[BestFile].weights = score[1]}

Init == /\ dir \in Begun /\ qcClean = {} /\ disk = <<>> /\ todo = <<>> /\ opened = FALSE
        /\ pc = "off" /\ resume = NoFile /\ split = NoSplit /\ weights = Untrained
        /\ epoch = 0 /\ start = 0 /\ minLoss = Inf /\ best = NoBest /\ runs = 0
        /\ scores = {} /\ kept = 0 /\ ended = "never run"
-----------------------------------------------------------------------------
(* The episodes *)

\* The recorder opens the next file, and closes it unless it is killed before.
BeginEpisode ==
    /\ pc = "off" /\ Cardinality(DOMAIN dir) < MaxEpisodes /\ runs < MaxRuns
    /\ dir' = [id \in DOMAIN dir \cup {Cardinality(DOMAIN dir)} |->
                  IF id \in DOMAIN dir THEN dir[id] ELSE Torn]
    /\ UNCHANGED <<qcClean, fileVars, modelVars, pc, resume, split, epoch, start, runs,
                   scores, kept, ended>>

EndEpisode ==
    /\ pc = "off" /\ dir # <<>> /\ runs < MaxRuns
    /\ LET id == Max(DOMAIN dir)
       IN  ~dir[id].whole /\ \E ep \in Kinds : dir' = [dir EXCEPT ![id] = ep]
    /\ UNCHANGED <<qcClean, fileVars, modelVars, pc, resume, split, epoch, start, runs,
                   scores, kept, ended>>

\* tb-dataset-qc
RunDatasetQc ==
    /\ pc = "off" /\ Reportable(dir) /\ runs < MaxRuns
    /\ qcClean' = {id \in DOMAIN dir : Report(dir, ShortEpisode)[id] = {}}
    /\ UNCHANGED <<dir, fileVars, modelVars, pc, resume, split, epoch, start, runs, scores,
                   kept, ended>>
-----------------------------------------------------------------------------
(* Files and failures *)

Stored(name, content) ==
    [f \in DOMAIN disk \cup {name} |-> IF f = name THEN content ELSE disk[f]]

Truncate ==
    /\ todo # <<>> /\ ~opened
    /\ disk' = Stored(Head(todo)[1], Torn)
    /\ opened' = TRUE
    /\ UNCHANGED <<dataVars, todo, modelVars, pc, resume, split, epoch, start, runs, scores,
                   kept, ended>>

Write ==
    /\ opened
    /\ disk' = Stored(Head(todo)[1], Head(todo)[2])
    /\ opened' = FALSE /\ todo' = Tail(todo)
    /\ UNCHANGED <<dataVars, modelVars, pc, resume, split, epoch, start, runs, scores, kept,
                   ended>>

\* fit is running: an exception is recorded in run_metadata.json and raised again.
InFit == \/ pc = "fit" /\ todo = <<>>
         \/ pc \in {"epoch", "train", "final", "done"}

FailFit == /\ pc' = "raised" /\ opened' = FALSE
           /\ todo' = <<<<MetaFile, Status("failed", 0, Inf)>>>>

\* Out of memory, a full disk, an observation that is not in the file.
Raise ==
    /\ IF InFit
         THEN /\ FailFit
              /\ UNCHANGED <<resume, split, epoch, start, modelVars, scores, ended>>
         ELSE opened /\ pc' = "off" /\ Forget /\ ended' = "not recorded"
    /\ UNCHANGED <<dataVars, disk, runs, kept>>

Kill ==
    /\ pc # "off"
    /\ pc' = "off" /\ Forget /\ ended' = "killed"
    /\ UNCHANGED <<dataVars, disk, runs, kept>>

Exit ==
    /\ pc \in {"raised", "end"} /\ todo = <<>>
    /\ pc' = "off" /\ Forget /\ ended' = IF pc = "end" THEN "completed" ELSE "failed"
    /\ UNCHANGED <<dataVars, disk, runs, kept>>
-----------------------------------------------------------------------------
(* train_policy, up to fit *)

Launch ==
    /\ pc = "off" /\ runs < MaxRuns
    /\ pc' = "load" /\ runs' = runs + 1 /\ kept' = 0 /\ ended' = "running"
    /\ resume' \in {NoFile} \cup (CkptFiles \cap DOMAIN disk)
    /\ UNCHANGED <<dataVars, fileVars, modelVars, split, epoch, start, scores>>

LoadFails ==
    /\ pc = "load"
    /\ LET error == LoadError(dir, NumEpisodes, EpisodeLen)
       IN  \/ error # "none" /\ ended' = error
           \/ /\ error = "none" /\ SplitFile \in DOMAIN disk
              /\ ~(Whole(SplitFile)
                     /\ SplitFits(disk[SplitFile], Available(dir, NumEpisodes)))
              /\ ended' = "split"
    /\ pc' = "off" /\ Forget
    /\ UNCHANGED <<dataVars, disk, runs, kept>>

SplitContent(s) == [whole |-> TRUE, train |-> s.train, val |-> s.val]

\* Mutation of ResolveSplit: a new split every time.
ResolveSplitAnew(ids) ==
    \E s \in Splits(ids, TrainPercent) :
        split' = s /\ todo' = <<<<SplitFile, SplitContent(s)>>>>

\* _resolve_episode_split, with reuse_split
ResolveSplit(ids) ==
    IF SplitFile \in DOMAIN disk
      THEN /\ Whole(SplitFile) /\ SplitFits(disk[SplitFile], ids)
           /\ split' = [train |-> disk[SplitFile].train, val |-> disk[SplitFile].val]
           /\ todo' = <<>>
      ELSE \E s \in Splits(ids, TrainPercent) :
             split' = s /\ todo' = <<<<SplitFile, SplitContent(s)>>>>

LoadData ==
    /\ pc = "load" /\ LoadError(dir, NumEpisodes, EpisodeLen) = "none"
    /\ ResolveSplit(Available(dir, NumEpisodes))
    /\ pc' = "warm"
    /\ UNCHANGED <<dataVars, disk, opened, modelVars, resume, epoch, start, runs, scores,
                   kept, ended>>

\* The draws of an epoch can succeed, can fail.
MayDraw(ids) == \A id \in ids : dir[id].frames > 0
MayMiss(ids) == \E id \in ids : \E t0 \in 0 .. dir[id].length - 1 : ~Drawable(dir[id], t0)

\* Both data sets draw from their first episode when they are built.
WarmUpFails ==
    /\ pc = "warm" /\ todo = <<>> /\ MayMiss(Ids)
    /\ pc' = "off" /\ Forget /\ ended' = "not recorded"
    /\ UNCHANGED <<dataVars, disk, runs, kept>>

\* Mutation of Describe: the metadata is written at the end only.
DescribeAtTheEnd == <<<<StatsFile, NormStats(Available(dir, NumEpisodes))>>>>

\* dataset_stats.pkl, and run_metadata.json with status "started".
Describe == <<<<StatsFile, NormStats(Available(dir, NumEpisodes))>>,
              <<MetaFile, Status("started", 0, Inf)>>>>

WarmUp ==
    /\ pc = "warm" /\ todo = <<>>
    /\ \E t \in split.train, v \in split.val : MayDraw({t, v})
    /\ pc' = "fit" /\ todo' = Describe
    /\ UNCHANGED <<dataVars, disk, opened, modelVars, resume, split, epoch, start, runs,
                   scores, kept, ended>>
-----------------------------------------------------------------------------
(* ACTTrainer.fit *)

\* A run that goes on from a checkpoint with nothing left to train only writes it
\* out again.
BeginFit ==
    /\ pc = "fit" /\ todo = <<>>
    /\ IF resume = NoFile
         THEN /\ epoch' = 0 /\ start' = 0
              /\ UNCHANGED <<weights, minLoss, kept>>
         ELSE /\ Whole(resume)
              /\ weights' = disk[resume].weights /\ minLoss' = disk[resume].loss
              /\ epoch' = disk[resume].epoch + 1 /\ start' = disk[resume].epoch + 1
              /\ kept' = IF epoch' < NumEpochs THEN weights'.trained ELSE 0
    /\ pc' = "epoch"
    /\ UNCHANGED <<dataVars, fileVars, best, resume, split, runs, scores, ended>>

\* torch.load
ResumeFails ==
    /\ pc = "fit" /\ todo = <<>> /\ resume # NoFile /\ ~Whole(resume)
    /\ FailFit
    /\ UNCHANGED <<dataVars, disk, modelVars, resume, split, epoch, start, runs, scores,
                   kept, ended>>

ShouldValidate ==
    \/ epoch = start \/ epoch = NumEpochs - 1
    \/ (epoch - start) % ValEvery = 0

\* Validation comes before the epoch's training; nan and inf are better than nothing
\* never.
Validate ==
    /\ pc = "epoch" /\ todo = <<>> /\ epoch < NumEpochs
    /\ pc' = "train"
    /\ IF ShouldValidate
         THEN /\ MayDraw(split.val)
              /\ \E loss \in 1 .. Inf :
                   /\ scores' = scores \cup {<<weights, loss>>}
                   /\ IF loss < minLoss
                        THEN minLoss' = loss /\ best' = Ckpt(weights, epoch, loss)
                        ELSE UNCHANGED <<minLoss, best>>
         ELSE UNCHANGED <<scores, minLoss, best>>
    /\ UNCHANGED <<dataVars, fileVars, weights, resume, split, epoch, start, runs, kept,
                   ended>>

\* Mutation of SavesOf: the first epoch is not a reason for a periodic checkpoint.
SavesOfPeriodOnly(w) ==
    (IF (epoch + 1) % CheckpointEvery = 0
       THEN <<<<EpochFile(epoch), Ckpt(w, epoch, minLoss)>>>> ELSE <<>>)
    \o (IF epoch = NumEpochs - 1 \/ (epoch + 1) % SaveLatestEvery = 0
          THEN <<<<LatestFile, Ckpt(w, epoch, minLoss)>>>> ELSE <<>>)

\* What is saved after the training of an epoch.
SavesOf(w) ==
    (IF epoch = start \/ (epoch + 1) % CheckpointEvery = 0
       THEN <<<<EpochFile(epoch), Ckpt(w, epoch, minLoss)>>>> ELSE <<>>)
    \o (IF epoch = NumEpochs - 1 \/ (epoch + 1) % SaveLatestEvery = 0
          THEN <<<<LatestFile, Ckpt(w, epoch, minLoss)>>>> ELSE <<>>)

Train ==
    /\ pc = "train" /\ MayDraw(split.train)
    /\ weights' = [trained |-> weights.trained + 1, seen |-> weights.seen \cup split.train]
    /\ todo' = SavesOf(weights')
    /\ epoch' = epoch + 1 /\ pc' = "epoch"
    /\ UNCHANGED <<dataVars, disk, opened, minLoss, best, resume, split, start, runs, scores,
                   kept, ended>>

\* Nothing is trained any more.
SaveLast ==
    /\ pc = "epoch" /\ todo = <<>> /\ epoch >= NumEpochs
    /\ todo' = <<<<LatestFile, Ckpt(weights, NumEpochs - 1, minLoss)>>,
                 <<LastFile, Ckpt(weights, NumEpochs - 1, minLoss)>>>>
    /\ pc' = "final"
    /\ UNCHANGED <<dataVars, disk, opened, modelVars, resume, split, epoch, start, runs,
                   scores, kept, ended>>

\* Mutation of SaveBest: the best weights were not copied.
SaveBestLiveWeights ==
    /\ pc = "final" /\ todo = <<>>
    /\ IF best = NoBest
         THEN FailFit
         ELSE /\ todo' = LET live == [best EXCEPT !.weights = weights]
                         IN  <<<<EpochFile(best.epoch), live>>, <<BestFile, live>>>>
              /\ pc' = "done" /\ UNCHANGED opened
    /\ UNCHANGED <<dataVars, disk, modelVars, resume, split, epoch, start, runs, scores,
                   kept, ended>>

\* Without an improvement in this run there is no best checkpoint: RuntimeError.
SaveBest ==
    /\ pc = "final" /\ todo = <<>>
    /\ IF best = NoBest
         THEN FailFit
         ELSE /\ todo' = <<<<EpochFile(best.epoch), best>>, <<BestFile, best>>>>
              /\ pc' = "done" /\ UNCHANGED opened
    /\ UNCHANGED <<dataVars, disk, modelVars, resume, split, epoch, start, runs, scores,
                   kept, ended>>

Complete ==
    /\ pc = "done" /\ todo = <<>>
    /\ todo' = <<<<MetaFile, Status("completed", best.epoch, best.loss)>>>>
    /\ pc' = "end"
    /\ UNCHANGED <<dataVars, disk, opened, modelVars, resume, split, epoch, start, runs,
                   scores, kept, ended>>

Next ==
    \/ BeginEpisode \/ EndEpisode \/ RunDatasetQc
    \/ Truncate \/ Write \/ Raise \/ Kill \/ Exit
    \/ Launch \/ LoadFails \/ LoadData \/ WarmUpFails \/ WarmUp
    \/ BeginFit \/ ResumeFails \/ Validate \/ Train \/ SaveLast \/ SaveBest \/ Complete

Spec == Init /\ [][Next]_vars
-----------------------------------------------------------------------------
(***************************************************************************)
(* A run that goes on from a checkpoint, with an epoch left to train,      *)
(* never leaves the directory without a whole checkpoint trained at least  *)
(* as long, wherever it is killed: a checkpoint is rewritten in place only *)
(* while another one holds the work.                                       *)
(***************************************************************************)
ResumedWorkSurvives ==
    kept > 0 => \E f \in CkptFiles : Whole(f) /\ disk[f].weights.trained >= kept

(***************************************************************************)
(* Weights are never validated, over any sequence of runs, on an episode   *)
(* they were trained on: the split is made once and kept, however the      *)
(* directory grows.  (With a single episode both sides share it.)          *)
(***************************************************************************)
ValidationHeldOut ==
    split.train \cap split.val = {} => weights.seen \cap split.val = {}

(***************************************************************************)
(* run_metadata.json tells the truth about the directory: "completed"      *)
(* means that policy_best and policy_last are whole and that the best is   *)
(* the one named, also while later runs write; and a run that ended by     *)
(* itself after fit began does not leave "started".                        *)
(***************************************************************************)
StatusTrue ==
    /\ Whole(MetaFile) /\ disk[MetaFile].status = "completed" =>
         /\ Whole(BestFile) /\ Whole(LastFile)
         /\ disk[BestFile].epoch = disk[MetaFile].epoch /\ disk[BestFile].loss = disk[MetaFile].loss
    /\ Whole(MetaFile) /\ ended \in {"completed", "failed"} => disk[MetaFile].status = ended

(***************************************************************************)
(* The weights in policy_best.ckpt are the very ones that a validation     *)
(* scored with the loss written beside them, not what later epochs or      *)
(* runs made of them.                                                      *)
(***************************************************************************)
BestWasValidated == Whole(BestFile) => <<disk[BestFile].weights, disk[BestFile].loss>> \in scores

(***************************************************************************)
(* Quality control is worth its name: load_data takes every episode whose  *)
(* report was clean, and is not stopped by one that is unreadable or has   *)
(* the wrong joints unless the newest report warns of an episode or does   *)
(* not have it yet.                                                        *)
(***************************************************************************)
QcPassedLoads ==
    /\ pc = "load" /\ Listed(dir, NumEpisodes) \subseteq qcClean =>
         LoadError(dir, NumEpisodes, EpisodeLen) \notin {"unreadable", "no valid episodes"}
    /\ pc = "warm" => qcClean \cap Listed(dir, NumEpisodes) \subseteq Available(dir, NumEpisodes)

(***************************************************************************)
(* Every item an epoch can draw from an episode of the run teaches all the *)
(* actions from its observation on, to the end, one after the other, and   *)
(* exactly the rest of it is masked as padding: the window that begins an  *)
(* action early and the mask computed beside it agree.                     *)
(***************************************************************************)
ItemsSound ==
    \A id \in Ids : \A t0 \in 0 .. dir[id].length - 1 :
        LET item == Item(dir[id], t0, EpisodeLen)
        IN  /\ DOMAIN item.action = 1 .. EpisodeLen
            /\ \A i \in 1 .. EpisodeLen : item.isPad[i] <=> item.action[i] = 0
            /\ \A a \in t0 + 1 .. dir[id].length : \E i \in 1 .. EpisodeLen : item.action[i] = a
            /\ \A i \in 2 .. EpisodeLen :
                 item.action[i] # 0 => item.action[i - 1] # 0 /\ item.action[i] = item.action[i - 1] + 1

(***************************************************************************)
(* The learning target, observation_t -> operator command_t, as the data   *)
(* set's comment has it, "action from t0 onward": the first action of an   *)
(* item is the one that was sent at the step of its observation.           *)
(***************************************************************************)
ActionsFromObservation ==
    \A id \in Ids : \A t0 \in 0 .. dir[id].length - 1 :
        Drawable(dir[id], t0) => Item(dir[id], t0, EpisodeLen).action[1] = t0 + 1
=============================================================================
