--------------------------- MODULE LearningProofs ---------------------------
(***************************************************************************)
(* Theorems about Training and ActInference: for every directory there may *)
(* be before the first run, every number of episodes and epochs, every     *)
(* period of validation and saving, and every number of runs, each started *)
(* afresh or from any checkpoint, and killed or failing between any two    *)
(* steps; for every size of a chunk and length of an inference.            *)
(***************************************************************************)
EXTENDS Training, ActInference, FiniteSetTheorems, SequenceTheorems, TLAPS

Places == {"off", "load", "warm", "fit", "epoch", "train", "final", "done", "end", "raised"}
Fitting == {"epoch", "train", "final", "done"}

Weights == [trained : Nat, seen : SUBSET Nat]
Ckpts == [whole : {TRUE}, weights : Weights, epoch : -1 .. NumEpochs - 1, loss : 0 .. Inf]
SplitData == [train : SUBSET Nat, val : SUBSET Nat]

(***************************************************************************)
(* The files that the program writes and reads: a checkpoint of an epoch   *)
(* has its number, and what was split is a split.                          *)
(***************************************************************************)
ValidCkpt(f, c) == /\ c \in Ckpts
                   /\ \A e \in 0 .. NumEpochs : f = EpochFile(e) => c.epoch = e

DiskInv ==
    /\ \A f \in CkptFiles : Whole(f) => ValidCkpt(f, disk[f])
    /\ SplitFile \in DOMAIN disk =>
           \/ disk[SplitFile] = Torn
           \/ \E s \in SplitData : disk[SplitFile] = SplitContent(s)

TypeInv ==
    /\ pc \in Places
    /\ opened \in BOOLEAN
    /\ resume \in {NoFile} \cup CkptFiles
    /\ split \in SplitData
    /\ weights \in Weights
    /\ epoch \in 0 .. NumEpochs /\ start \in 0 .. NumEpochs
    /\ minLoss \in 0 .. Inf
    /\ best = NoBest \/ (best \in Ckpts /\ best.epoch >= 0)
    /\ kept \in Nat
    /\ epoch >= start /\ (pc = "train" => epoch < NumEpochs)

(***************************************************************************)
(* What is still to be written, in every place of the program: the rest of *)
(* one of its sequences of writes.                                         *)
(***************************************************************************)
NowCkpt == Ckpt(weights, epoch - 1, minLoss)
OfEpoch == <<EpochFile(epoch - 1), NowCkpt>>
OfLatest == <<LatestFile, NowCkpt>>
LastCkpt == Ckpt(weights, NumEpochs - 1, minLoss)

TodoInv ==
    /\ pc \in {"off", "load", "train"} => todo = <<>>
    /\ pc = "warm" => todo \in {<<>>, <<<<SplitFile, SplitContent(split)>>>>}
    /\ pc = "fit" => todo \in {Describe, <<Describe[2]>>, <<>>}
    /\ pc = "epoch" =>
         \/ todo = <<>>
         \/ epoch > start /\ todo \in {<<OfEpoch>>, <<OfLatest>>, <<OfEpoch, OfLatest>>}
    /\ pc = "final" => todo \in {<<<<LatestFile, LastCkpt>>, <<LastFile, LastCkpt>>>>,
                                 <<<<LastFile, LastCkpt>>>>, <<>>}
    /\ pc = "done" => /\ best # NoBest
                      /\ todo \in {<<<<EpochFile(best.epoch), best>>, <<BestFile, best>>>>,
                                   <<<<BestFile, best>>>>, <<>>}
    /\ pc = "end" => /\ best # NoBest
                     /\ todo \in {<<<<MetaFile, Status("completed", best.epoch, best.loss)>>>>, <<>>}
    /\ pc = "raised" => todo \in {<<<<MetaFile, Status("failed", 0, Inf)>>>>, <<>>}
    /\ opened => todo # <<>> /\ Head(todo)[1] \in DOMAIN disk /\ disk[Head(todo)[1]] = Torn

(***************************************************************************)
(* The split in memory is the one on disk, which is never written again,   *)
(* and everything that was ever trained on is on its training side.        *)
(***************************************************************************)
TrainedOn == IF Whole(SplitFile) THEN disk[SplitFile].train ELSE {}

SplitInv ==
    /\ pc \in {"off", "load"} => split = NoSplit
    /\ pc \notin {"off", "load"} =>
         IF pc = "warm" /\ todo # <<>>
           THEN ~Whole(SplitFile)
           ELSE Whole(SplitFile) /\ disk[SplitFile] = SplitContent(split)
    /\ pc \in {"off", "load", "warm", "fit"} => weights = Untrained /\ best = NoBest
    /\ weights.seen \subseteq TrainedOn
    /\ best # NoBest => best.weights.seen \subseteq TrainedOn
    /\ \A f \in CkptFiles : Whole(f) => disk[f].weights.seen \subseteq TrainedOn

ScoreInv ==
    /\ BestWasValidated
    /\ best # NoBest => <<best.weights, best.loss>> \in scores

(***************************************************************************)
(* run_metadata.json: before a checkpoint is touched it says "started".    *)
(***************************************************************************)
MetaIs(status) == Whole(MetaFile) /\ disk[MetaFile].status = status

StatusInv ==
    /\ StatusTrue
    /\ pc # "off" => ended = "running"
    /\ pc = "off" => ended # "running"
    /\ pc = "fit" /\ todo = <<>> => MetaIs("started")
    /\ pc \in Fitting => MetaIs("started")
    /\ pc = "final" /\ todo = <<>> => Whole(LastFile)
    /\ pc \in {"done", "end"} => Whole(LastFile)
    /\ pc = "done" /\ todo = <<>> => Whole(BestFile) /\ disk[BestFile] = best
    /\ pc = "end" => Whole(BestFile) /\ disk[BestFile] = best
    /\ pc = "end" => IF todo = <<>> THEN MetaIs("completed") ELSE ~MetaIs("completed")
    /\ pc = "raised" => IF todo = <<>> THEN MetaIs("failed") ELSE ~MetaIs("completed")

(***************************************************************************)
(* Where the work of the checkpoint gone on from is, in every place.       *)
(***************************************************************************)
Holds(f) == f \in CkptFiles /\ Whole(f) /\ disk[f].weights.trained >= kept

FirstSave == epoch = start + 1 /\ todo \in {<<OfEpoch>>, <<OfEpoch, OfLatest>>}

KeptInv ==
    /\ pc \in {"load", "warm", "fit"} => kept = 0
    /\ kept > 0 =>
         /\ ResumedWorkSurvives
         /\ pc \in Fitting => weights.trained >= kept /\ start < NumEpochs
         /\ pc \in {"epoch", "train"} /\ epoch = start =>
                Holds(resume) /\ disk[resume].epoch = start - 1
         /\ pc = "epoch" /\ epoch > start =>
                IF FirstSave THEN Holds(resume) /\ resume # EpochFile(start)
                             ELSE Holds(EpochFile(start))
         /\ pc = "train" /\ epoch > start => Holds(EpochFile(start))
         /\ pc = "final" => IF todo = <<>> THEN Holds(LastFile) ELSE Holds(EpochFile(start))
         /\ pc = "done" => Holds(LastFile)

(***************************************************************************)
(* The directory: files are numbered without a gap, a whole one stays as   *)
(* it is, so a clean report stays true of it.                              *)
(***************************************************************************)
DirInv ==
    /\ \E n \in Nat : DOMAIN dir = 0 .. n - 1
    /\ \A id \in DOMAIN dir : dir[id] \in Episodes \cup {Torn}
    /\ \A id \in qcClean : id \in DOMAIN dir /\ Warnings(dir[id], ShortEpisode) = {}
    /\ pc \notin {"off", "load"} => Ids \subseteq Available(dir, NumEpisodes)
    /\ pc \notin {"off", "load"} => LoadError(dir, NumEpisodes, EpisodeLen) = "none"

RunInv == /\ DiskInv /\ TypeInv /\ TodoInv /\ SplitInv /\ ScoreInv /\ StatusInv /\ KeptInv
          /\ DirInv
-----------------------------------------------------------------------------
(* Files and what is written *)

LEMMA FilesApart ==
    /\ SplitFile \notin CkptFiles /\ StatsFile \notin CkptFiles /\ MetaFile \notin CkptFiles
    /\ NoFile \notin CkptFiles
    /\ SplitFile # StatsFile /\ SplitFile # MetaFile /\ StatsFile # MetaFile
    /\ LatestFile \in CkptFiles /\ LastFile \in CkptFiles /\ BestFile \in CkptFiles
    /\ LatestFile # LastFile /\ LatestFile # BestFile /\ LastFile # BestFile
    /\ \A e \in 0 .. NumEpochs : EpochFile(e) \in CkptFiles
    /\ \A e : EpochFile(e) \notin {LatestFile, LastFile, BestFile, SplitFile, StatsFile, MetaFile}
    /\ \A e, f : EpochFile(e) = EpochFile(f) => e = f
BY DEF CkptFiles, SplitFile, StatsFile, MetaFile, NoFile, LatestFile, LastFile, BestFile, EpochFile

LEMMA Tuples ==
    /\ \A a : <<a>> # <<>> /\ Head(<<a>>) = a /\ Tail(<<a>>) = <<>>
    /\ \A a, b : <<a, b>> # <<>> /\ Head(<<a, b>>) = a /\ Tail(<<a, b>>) = <<b>>
    /\ \A a, b : <<a, b>>[1] = a /\ <<a, b>>[2] = b
    /\ \A a, b, c : <<a, b>> # <<c>>
OBVIOUS

LEMMA Bounds ==
    /\ NumEpochs \in Nat /\ Inf \in Nat /\ Inf > 0 /\ EpisodeLen \in Nat
    /\ ShortEpisode \in Nat /\ NumEpisodes \in Nat
BY TrainingAssumption

LEMMA NoBestApart == \A c \in Ckpts : c # NoBest
BY DEF Ckpts, NoBest

\* Writing changes one file.
LEMMA StoredFile ==
    ASSUME NEW f, NEW c, disk' = Stored(f, c)
    PROVE  /\ DOMAIN disk' = DOMAIN disk \cup {f}
           /\ disk'[f] = c
           /\ \A g \in DOMAIN disk \ {f} : disk'[g] = disk[g]
           /\ \A g : g # f => (Whole(g)' <=> Whole(g)) /\ (Whole(g) => disk'[g] = disk[g])
           /\ Whole(f)' <=> c.whole
BY DEF Stored, Whole
-----------------------------------------------------------------------------
(* The steps of Next, those that end a run or fit taken together *)

DataStep == pc = "off" /\ UNCHANGED <<fileVars, modelVars, pc, resume, split, epoch, start, runs,
                                      scores, kept, ended>>

EndRun == /\ pc # "off" /\ pc' = "off" /\ Forget /\ ended' # "running"
          /\ \/ ended' \notin {"completed", "failed"}
             \/ pc \in {"raised", "end"} /\ todo = <<>>
                  /\ ended' = IF pc = "end" THEN "completed" ELSE "failed"
          /\ UNCHANGED <<dataVars, disk, runs, kept>>

EndFit == /\ pc \in Fitting \/ (pc = "fit" /\ todo = <<>>)
          /\ FailFit
          /\ UNCHANGED <<dataVars, disk, runs, kept, resume, split, epoch, start, modelVars,
                         scores, ended>>

WriteBest == SaveBest /\ best # NoBest

LEMMA StepCases ==
    ASSUME TypeInv, TodoInv, Next
    PROVE  \/ DataStep \/ Truncate \/ Write \/ EndRun \/ EndFit \/ Launch \/ LoadData \/ WarmUp
           \/ BeginFit \/ Validate \/ Train \/ SaveLast \/ WriteBest \/ Complete
<1>1. CASE BeginEpisode \/ EndEpisode \/ RunDatasetQc
  BY <1>1 DEF BeginEpisode, EndEpisode, RunDatasetQc, DataStep
<1>2. CASE Raise
  <2>1. CASE InFit
    BY <1>2, <2>1 DEF Raise, InFit, EndFit, Fitting
  <2>2. CASE ~InFit
    <3>1. pc # "off"
      BY <1>2, <2>2 DEF Raise, TodoInv
    <3>. QED BY <1>2, <2>2, <3>1 DEF Raise, EndRun
  <2>. QED BY <2>1, <2>2
<1>3. CASE Kill
  BY <1>3 DEF Kill, EndRun
<1>4. CASE Exit
  BY <1>4 DEF Exit, EndRun
<1>5. CASE LoadFails
  <2>1. LoadError(dir, NumEpisodes, EpisodeLen) \in
            {"no episodes", "unreadable", "no valid episodes", "too long", "none"}
    BY DEF LoadError
  <2>. QED BY <1>5, <2>1 DEF LoadFails, EndRun
<1>6. CASE WarmUpFails
  BY <1>6 DEF WarmUpFails, EndRun
<1>7. CASE ResumeFails
  BY <1>7 DEF ResumeFails, EndFit
<1>8. CASE SaveBest
  BY <1>8 DEF SaveBest, WriteBest, EndFit, Fitting
<1> QED BY <1>1, <1>2, <1>3, <1>4, <1>5, <1>6, <1>7, <1>8 DEF Next
-----------------------------------------------------------------------------
(* Types *)

LEMMA InitialTypes ==
    /\ Untrained \in Weights /\ NoSplit \in SplitData
    /\ 0 \in 0 .. NumEpochs /\ Inf \in 0 .. Inf
BY Bounds DEF Untrained, Weights, NoSplit, SplitData

\* What is written as a checkpoint has the type of one.
LEMMA CkptType ==
    ASSUME TypeInv
    PROVE  /\ epoch > 0 => NowCkpt \in Ckpts
           /\ LastCkpt \in Ckpts
           /\ epoch < NumEpochs => \A l \in 1 .. Inf : Ckpt(weights, epoch, l) \in Ckpts
BY Bounds DEF TypeInv, NowCkpt, LastCkpt, Ckpt, Ckpts

LEMMA SplitsType ==
    ASSUME NEW ids \in SUBSET Nat, NEW s \in Splits(ids, TrainPercent)
    PROVE  s \in SplitData /\ s.train \subseteq ids /\ s.val \subseteq ids
<1>1. CASE Cardinality(ids) = 1
  <2>1. Splits(ids, TrainPercent) = {[train |-> ids, val |-> ids]}
    BY <1>1 DEF Splits
  <2>2. s = [train |-> ids, val |-> ids]
    BY <2>1
  <2>. QED BY <2>2 DEF SplitData
<1>2. CASE Cardinality(ids) # 1
  <2> PICK tr \in kSubset(TrainSize(TrainPercent, Cardinality(ids)), ids) :
              s = [train |-> tr, val |-> ids \ tr]
    BY <1>2 DEF Splits
  <2>1. tr \subseteq ids
    BY DEF kSubset
  <2>. QED BY <2>1 DEF SplitData
<1> QED BY <1>1, <1>2

LEMMA AvailableIds ==
    ASSUME DirInv
    PROVE  Available(dir, NumEpisodes) \in SUBSET Nat
<1> PICK n \in Nat : DOMAIN dir = 0 .. n - 1
  BY DEF DirInv
<1> QED BY DEF Available, Listed

LEMMA TypeStep ==
    ASSUME TypeInv, DiskInv, TodoInv, DirInv, [Next]_vars
    PROVE  TypeInv'
<1> USE DEF dataVars, fileVars, modelVars
<1>1. CASE DataStep
  BY <1>1 DEF DataStep, TypeInv, Places
<1>2. CASE Truncate
  BY <1>2 DEF Truncate, TypeInv, Places
<1>3. CASE Write
  BY <1>3 DEF Write, TypeInv, Places
<1>4. CASE EndRun
  <2>1. /\ pc' = "off" /\ opened' = FALSE /\ resume' = NoFile /\ split' = NoSplit
        /\ weights' = Untrained /\ epoch' = 0 /\ start' = 0 /\ minLoss' = Inf
        /\ best' = NoBest /\ kept' = kept
    BY <1>4 DEF EndRun, Forget
  <2>2. 0 >= 0
    OBVIOUS
  <2>. QED BY <2>1, <2>2, InitialTypes DEF TypeInv, Places
<1>5. CASE EndFit
  BY <1>5 DEF EndFit, TypeInv, Places, FailFit, Fitting
<1>6. CASE Launch
  BY <1>6 DEF Launch, TypeInv, Places
<1>7. CASE LoadData
  <2>1. split' \in SplitData
    <3>1. CASE SplitFile \in DOMAIN disk
      <4>1. Whole(SplitFile) /\ split' = [train |-> disk[SplitFile].train, val |-> disk[SplitFile].val]
        BY <1>7, <3>1 DEF LoadData, ResolveSplit
      <4>2. PICK sd \in SplitData : disk[SplitFile] = SplitContent(sd)
        BY <4>1 DEF DiskInv, Torn, Whole
      <4>. QED BY <4>1, <4>2 DEF SplitContent, SplitData
    <3>2. CASE SplitFile \notin DOMAIN disk
      <4>1. split' \in Splits(Available(dir, NumEpisodes), TrainPercent)
        BY <1>7, <3>2 DEF LoadData, ResolveSplit
      <4>. QED BY <4>1, SplitsType, AvailableIds
    <3>. QED BY <3>1, <3>2
  <2>. QED BY <1>7, <2>1 DEF LoadData, TypeInv, Places
<1>8. CASE WarmUp
  BY <1>8 DEF WarmUp, TypeInv, Places
<1>9. CASE BeginFit
  <2>1. CASE resume = NoFile
    BY <1>9, <2>1, InitialTypes DEF BeginFit, TypeInv, Places
  <2>2. CASE resume # NoFile
    <3>1. disk[resume] \in Ckpts
      BY <1>9, <2>2 DEF BeginFit, TypeInv, DiskInv, ValidCkpt
    <3>2. /\ weights' = disk[resume].weights /\ minLoss' = disk[resume].loss
          /\ epoch' = disk[resume].epoch + 1 /\ start' = epoch'
          /\ kept' \in {disk[resume].weights.trained, 0}
          /\ pc' = "epoch" /\ UNCHANGED <<best, resume, split, opened>>
      BY <1>9, <2>2 DEF BeginFit
    <3>3. weights' \in Weights /\ minLoss' \in 0 .. Inf
      BY <3>1, <3>2 DEF Ckpts
    <3>4. disk[resume].weights.trained \in Nat /\ disk[resume].epoch \in -1 .. NumEpochs - 1
      BY <3>1 DEF Ckpts, Weights
    <3>5. epoch' \in 0 .. NumEpochs /\ start' \in 0 .. NumEpochs /\ epoch' >= start'
      BY <3>2, <3>4, Bounds
    <3>. QED BY <3>2, <3>3, <3>4, <3>5 DEF TypeInv, Places
  <2>. QED BY <2>1, <2>2
<1>10. CASE Validate
  <2>1. /\ minLoss' \in 0 .. Inf
        /\ best' = NoBest \/ (best' \in Ckpts /\ best'.epoch >= 0)
    <3>1. ASSUME NEW loss \in 1 .. Inf, best' = Ckpt(weights, epoch, loss), minLoss' = loss
          PROVE  best' \in Ckpts /\ best'.epoch >= 0 /\ minLoss' \in 0 .. Inf
      BY <1>10, <3>1, CkptType, Bounds DEF Validate, TypeInv, Ckpt
    <3>. QED BY <1>10, <3>1 DEF Validate, TypeInv
  <2>. QED BY <1>10, <2>1 DEF Validate, TypeInv, Places
<1>11. CASE Train
  <2>1. weights' \in Weights
    BY <1>11 DEF Train, TypeInv, Weights, SplitData
  <2>2. epoch' \in 0 .. NumEpochs /\ epoch' >= start'
    BY <1>11, Bounds DEF Train, TypeInv
  <2>. QED BY <1>11, <2>1, <2>2 DEF Train, TypeInv, Places
<1>12. CASE SaveLast
  BY <1>12 DEF SaveLast, TypeInv, Places
<1>13. CASE WriteBest
  BY <1>13 DEF WriteBest, TypeInv, Places, SaveBest
<1>14. CASE Complete
  BY <1>14 DEF Complete, TypeInv, Places
<1>15. CASE UNCHANGED vars
  BY <1>15 DEF vars, TypeInv, Places
<1> QED BY StepCases, <1>1, <1>2, <1>3, <1>4, <1>5, <1>6, <1>7, <1>8, <1>9, <1>10, <1>11, <1>12, <1>13, <1>14, <1>15
-----------------------------------------------------------------------------
(* What is still to be written *)

LEMMA Concats ==
    ASSUME NEW a, NEW b
    PROVE  /\ <<>> \o <<>> = <<>>
           /\ <<a>> \o <<>> = <<a>>
           /\ <<>> \o <<b>> = <<b>>
           /\ <<a>> \o <<b>> = <<a, b>>
<1>1. <<a>> \in Seq({a, b}) /\ <<b>> \in Seq({a, b}) /\ <<>> \in Seq({a, b})
  OBVIOUS
<1>2. <<>> \o <<>> = <<>>
  BY <1>1, ConcatEmptySeq
<1>3. <<a>> \o <<>> = <<a>>
  BY <1>1, ConcatEmptySeq
<1>4. <<>> \o <<b>> = <<b>>
  BY <1>1, ConcatEmptySeq
<1>5. <<a>> \o <<b>> = <<a, b>>
  <2>1. /\ <<a>> \o <<b>> \in Seq({a, b}) /\ Len(<<a>> \o <<b>>) = 2
        /\ (<<a>> \o <<b>>)[1] = a /\ (<<a>> \o <<b>>)[2] = b
    BY <1>1, ConcatProperties
  <2>2. <<a, b>> \in Seq({a, b}) /\ Len(<<a, b>>) = 2 /\ <<a, b>>[1] = a /\ <<a, b>>[2] = b
    OBVIOUS
  <2> DEFINE whole == <<a>> \o <<b>>
             pair == <<a, b>>
  <2> HIDE DEF whole, pair
  <2>3. /\ whole \in Seq({a, b}) /\ Len(whole) = 2 /\ whole[1] = a /\ whole[2] = b
        /\ pair \in Seq({a, b}) /\ Len(pair) = 2 /\ pair[1] = a /\ pair[2] = b
    BY <2>1, <2>2 DEF whole, pair
  <2>4. \A i \in 1 .. Len(whole) : whole[i] = pair[i]
    BY <2>3
  <2>5. whole = pair
    BY <2>3, <2>4, SeqEqual
  <2>. QED BY <2>5 DEF whole, pair
<1> QED BY <1>2, <1>3, <1>4, <1>5

LEMMA Tails ==
    ASSUME NEW a, NEW b, NEW q \in {<<a, b>>, <<b>>, <<a>>, <<>>}, q # <<>>
    PROVE  Tail(q) \in {<<b>>, <<>>} /\ (q \in {<<b>>, <<a>>} => Tail(q) = <<>>)
BY Tuples

LEMMA TodoStep ==
    ASSUME TypeInv, TodoInv, [Next]_vars
    PROVE  TodoInv'
<1> USE DEF dataVars, fileVars, modelVars
<1>1. CASE DataStep
  BY <1>1 DEF DataStep, TodoInv
<1>2. CASE Truncate
  <2>1. /\ UNCHANGED <<dataVars, todo, modelVars, pc, split, epoch, start>>
        /\ todo # <<>> /\ opened' = TRUE
    BY <1>2 DEF Truncate
  <2>2. /\ Head(todo)[1] \in DOMAIN disk' /\ disk'[Head(todo)[1]] = Torn
    BY <1>2, StoredFile DEF Truncate
  <2>3. Describe' = Describe /\ OfEpoch' = OfEpoch /\ OfLatest' = OfLatest /\ LastCkpt' = LastCkpt
    BY <2>1 DEF Describe, OfEpoch, OfLatest, NowCkpt, LastCkpt, Status
  <2>. QED BY <2>1, <2>2, <2>3 DEF TodoInv
<1>3. CASE Write
  <2>1. /\ UNCHANGED <<dataVars, modelVars, pc, split, epoch, start>>
        /\ todo' = Tail(todo) /\ opened' = FALSE /\ todo # <<>>
    BY <1>3 DEF Write, TodoInv
  <2>2. Describe' = Describe /\ OfEpoch' = OfEpoch /\ OfLatest' = OfLatest /\ LastCkpt' = LastCkpt
    BY <2>1 DEF Describe, OfEpoch, OfLatest, NowCkpt, LastCkpt, Status
  <2>3. Tail(Describe) = <<Describe[2]>> /\ Describe # <<>>
    BY Tuples DEF Describe
  <2>4. CASE pc \in {"off", "load", "train"}
    BY <2>1, <2>4 DEF TodoInv
  <2>5. CASE pc = "warm"
    BY <2>1, <2>5, Tuples DEF TodoInv
  <2>6. CASE pc = "fit"
    BY <2>1, <2>2, <2>3, <2>6, Tuples DEF TodoInv
  <2>7. CASE pc = "epoch"
    <3>1. todo' \in {<<OfLatest>>, <<>>} /\ (todo # <<>> => epoch > start)
      BY <2>1, <2>7, Tails DEF TodoInv
    <3>. QED BY <2>1, <2>2, <2>7, <3>1 DEF TodoInv
  <2>8. CASE pc = "final"
    <3>1. todo' \in {<<<<LastFile, LastCkpt>>>>, <<>>}
      BY <2>1, <2>8, Tails DEF TodoInv
    <3>. QED BY <2>1, <2>2, <2>8, <3>1 DEF TodoInv
  <2>9. CASE pc = "done"
    <3>1. todo' \in {<<<<BestFile, best>>>>, <<>>} /\ best # NoBest
      BY <2>1, <2>9, Tails DEF TodoInv
    <3>. QED BY <2>1, <2>9, <3>1 DEF TodoInv
  <2>10. CASE pc \in {"end", "raised"}
    BY <2>1, <2>10, Tuples DEF TodoInv, Status
  <2>. QED BY <2>4, <2>5, <2>6, <2>7, <2>8, <2>9, <2>10 DEF TypeInv, Places
<1>4. CASE EndRun
  BY <1>4 DEF EndRun, Forget, TodoInv
<1>5. CASE EndFit
  BY <1>5 DEF EndFit, FailFit, TodoInv, Status
<1>6. CASE Launch
  BY <1>6 DEF Launch, TodoInv
<1>7. CASE LoadData
  <2>1. todo' \in {<<>>, <<<<SplitFile, SplitContent(split')>>>>}
    BY <1>7 DEF LoadData, ResolveSplit
  <2>2. pc' = "warm" /\ opened' = FALSE
    BY <1>7 DEF LoadData, TodoInv, TypeInv
  <2>3. SplitContent(split)' = SplitContent(split')
    OBVIOUS
  <2>. QED BY <2>1, <2>2, <2>3 DEF TodoInv
<1>8. CASE WarmUp
  <2>1. Describe' = Describe
    BY <1>8 DEF WarmUp, Describe, Status
  <2>. QED BY <1>8, <2>1 DEF WarmUp, TodoInv, TypeInv
<1>9. CASE BeginFit
  BY <1>9 DEF BeginFit, TodoInv, TypeInv
<1>10. CASE Validate
  BY <1>10 DEF Validate, TodoInv, TypeInv
<1>11. CASE Train
  <2>1. /\ epoch' - 1 = epoch /\ epoch' > start' /\ minLoss' = minLoss
    BY <1>11 DEF Train, TypeInv
  <2>2. /\ OfEpoch' = <<EpochFile(epoch), Ckpt(weights', epoch, minLoss)>>
        /\ OfLatest' = <<LatestFile, Ckpt(weights', epoch, minLoss)>>
    BY <2>1 DEF OfEpoch, OfLatest, NowCkpt
  <2>3. todo' \in {<<>>, <<OfEpoch'>>, <<OfLatest'>>, <<OfEpoch', OfLatest'>>}
    <3>2. todo' \in {<<>> \o <<>>, <<OfEpoch'>> \o <<>>, <<>> \o <<OfLatest'>>,
                     <<OfEpoch'>> \o <<OfLatest'>>}
      BY <1>11, <2>2 DEF Train, SavesOf
    <3>. QED BY <3>2, Concats
  <2>. QED BY <1>11, <2>1, <2>3 DEF Train, TodoInv, TypeInv
<1>12. CASE SaveLast
  <2>1. LastCkpt' = LastCkpt
    BY <1>12 DEF SaveLast, LastCkpt
  <2>. QED BY <1>12, <2>1 DEF SaveLast, TodoInv, TypeInv, LastCkpt
<1>13. CASE WriteBest
  BY <1>13 DEF WriteBest, SaveBest, TodoInv, TypeInv
<1>14. CASE Complete
  BY <1>14 DEF Complete, TodoInv, TypeInv, Status
<1>15. CASE UNCHANGED vars
  <2>1. /\ UNCHANGED <<dataVars, fileVars, modelVars, pc, split, epoch, start>>
    BY <1>15 DEF vars
  <2>2. Describe' = Describe /\ OfEpoch' = OfEpoch /\ OfLatest' = OfLatest /\ LastCkpt' = LastCkpt
    BY <2>1 DEF Describe, OfEpoch, OfLatest, NowCkpt, LastCkpt, Status
  <2>. QED BY <2>1, <2>2 DEF TodoInv
<1> QED BY StepCases, <1>1, <1>2, <1>3, <1>4, <1>5, <1>6, <1>7, <1>8, <1>9, <1>10, <1>11, <1>12, <1>13, <1>14, <1>15
-----------------------------------------------------------------------------
(* What is on disk *)

Target == Head(todo)[1]
Content == Head(todo)[2]

\* Which write comes next.
LEMMA Writing ==
    ASSUME TypeInv, TodoInv, todo # <<>>
    PROVE  \/ /\ pc = "warm" /\ Target = SplitFile /\ Content = SplitContent(split)
              /\ Tail(todo) = <<>>
           \/ /\ pc = "fit" /\ Target = StatsFile /\ Content.whole /\ Tail(todo) # <<>>
           \/ /\ pc = "fit" /\ Target = MetaFile /\ Content = Status("started", 0, Inf)
              /\ Tail(todo) = <<>>
           \/ /\ pc = "epoch" /\ epoch > start /\ Target = EpochFile(epoch - 1)
              /\ Content = NowCkpt
           \/ /\ pc = "epoch" /\ epoch > start /\ Target = LatestFile /\ Content = NowCkpt
              /\ todo = <<OfLatest>> /\ Tail(todo) = <<>>
           \/ /\ pc = "final" /\ Target = LatestFile /\ Content = LastCkpt /\ Tail(todo) # <<>>
           \/ /\ pc = "final" /\ Target = LastFile /\ Content = LastCkpt /\ Tail(todo) = <<>>
           \/ /\ pc = "done" /\ best # NoBest /\ Target = EpochFile(best.epoch)
              /\ Content = best /\ Tail(todo) # <<>>
           \/ /\ pc = "done" /\ best # NoBest /\ Target = BestFile /\ Content = best
              /\ Tail(todo) = <<>>
           \/ /\ pc = "end" /\ best # NoBest /\ Target = MetaFile
              /\ Content = Status("completed", best.epoch, best.loss) /\ Tail(todo) = <<>>
           \/ /\ pc = "raised" /\ Target = MetaFile /\ Content = Status("failed", 0, Inf)
              /\ Tail(todo) = <<>>
<1>1. CASE pc \in {"off", "load", "train"}
  BY <1>1 DEF TodoInv
<1>2. CASE pc = "warm"
  <2>1. todo = <<<<SplitFile, SplitContent(split)>>>>
    BY <1>2 DEF TodoInv
  <2>. QED BY <1>2, <2>1, Tuples DEF Target, Content
<1>3. CASE pc = "fit"
  <2> DEFINE stats == NormStats(Available(dir, NumEpisodes))
             started == Status("started", 0, Inf)
  <2>1. todo \in {<<<<StatsFile, stats>>, <<MetaFile, started>>>>, <<<<MetaFile, started>>>>}
    BY <1>3, Tuples DEF TodoInv, Describe
  <2>2. stats.whole
    BY DEF NormStats
  <2> HIDE DEF stats, started
  <2>3. CASE todo = <<<<StatsFile, stats>>, <<MetaFile, started>>>>
    <3>1. Head(todo) = <<StatsFile, stats>> /\ Tail(todo) # <<>>
      BY <2>3, Tuples
    <3>2. Target = StatsFile /\ Content = stats
      BY <3>1, Tuples DEF Target, Content
    <3>. QED BY <1>3, <2>2, <3>1, <3>2
  <2>4. CASE todo = <<<<MetaFile, started>>>>
    <3>1. Head(todo) = <<MetaFile, started>> /\ Tail(todo) = <<>>
      BY <2>4, Tuples
    <3>2. Target = MetaFile /\ Content = started
      BY <3>1, Tuples DEF Target, Content
    <3>. QED BY <1>3, <3>1, <3>2 DEF started
  <2>. QED BY <2>1, <2>3, <2>4
<1>4. CASE pc = "epoch"
  <2>1. epoch > start /\ todo \in {<<OfEpoch>>, <<OfLatest>>, <<OfEpoch, OfLatest>>}
    BY <1>4 DEF TodoInv
  <2>2. CASE todo = <<OfLatest>>
    BY <1>4, <2>1, <2>2, Tuples DEF Target, Content, OfLatest
  <2>3. CASE todo # <<OfLatest>>
    <3>1. Head(todo) = OfEpoch
      BY <2>1, <2>3, Tuples
    <3>. QED BY <1>4, <2>1, <3>1, Tuples DEF Target, Content, OfEpoch
  <2>. QED BY <2>2, <2>3
<1>5. CASE pc = "final"
  <2> DEFINE latest == <<LatestFile, LastCkpt>>
             last == <<LastFile, LastCkpt>>
  <2>1. todo \in {<<latest, last>>, <<last>>}
    BY <1>5 DEF TodoInv
  <2>2. latest[1] = LatestFile /\ latest[2] = LastCkpt /\ last[1] = LastFile /\ last[2] = LastCkpt
    OBVIOUS
  <2> HIDE DEF latest, last
  <2>3. CASE todo = <<latest, last>>
    <3>1. Head(todo) = latest /\ Tail(todo) # <<>>
      BY <2>3, Tuples
    <3>. QED BY <1>5, <2>2, <3>1 DEF Target, Content
  <2>4. CASE todo = <<last>>
    <3>1. Head(todo) = last /\ Tail(todo) = <<>>
      BY <2>4, Tuples
    <3>. QED BY <1>5, <2>2, <3>1 DEF Target, Content
  <2>. QED BY <2>1, <2>3, <2>4
<1>6. CASE pc = "done"
  <2> DEFINE one == <<EpochFile(best.epoch), best>>
             two == <<BestFile, best>>
  <2>1. best # NoBest /\ todo \in {<<one, two>>, <<two>>}
    BY <1>6 DEF TodoInv
  <2>2. one[1] = EpochFile(best.epoch) /\ one[2] = best /\ two[1] = BestFile /\ two[2] = best
    OBVIOUS
  <2> HIDE DEF one, two
  <2>3. CASE todo = <<one, two>>
    <3>1. Head(todo) = one /\ Tail(todo) # <<>>
      BY <2>3, Tuples
    <3>. QED BY <1>6, <2>1, <2>2, <3>1 DEF Target, Content
  <2>4. CASE todo = <<two>>
    <3>1. Head(todo) = two /\ Tail(todo) = <<>>
      BY <2>4, Tuples
    <3>. QED BY <1>6, <2>1, <2>2, <3>1 DEF Target, Content
  <2>. QED BY <2>1, <2>3, <2>4
<1>7. CASE pc = "end"
  <2> DEFINE done == <<MetaFile, Status("completed", best.epoch, best.loss)>>
  <2>1. best # NoBest /\ todo = <<done>>
    BY <1>7 DEF TodoInv
  <2>2. done[1] = MetaFile /\ done[2] = Status("completed", best.epoch, best.loss)
    OBVIOUS
  <2> HIDE DEF done
  <2>. QED BY <1>7, <2>1, <2>2, Tuples DEF Target, Content
<1>8. CASE pc = "raised"
  <2> DEFINE failed == <<MetaFile, Status("failed", 0, Inf)>>
  <2>1. todo = <<failed>>
    BY <1>8 DEF TodoInv
  <2>2. failed[1] = MetaFile /\ failed[2] = Status("failed", 0, Inf)
    OBVIOUS
  <2> HIDE DEF failed
  <2>. QED BY <1>8, <2>1, <2>2, Tuples DEF Target, Content
<1> QED BY <1>1, <1>2, <1>3, <1>4, <1>5, <1>6, <1>7, <1>8 DEF TypeInv, Places

\* What is written is whole, and a checkpoint is what its name says.
LEMMA Writable ==
    ASSUME TypeInv, TodoInv, todo # <<>>
    PROVE  Content.whole /\ (Target \in CkptFiles => ValidCkpt(Target, Content))
<1>1. NowCkpt.whole /\ LastCkpt.whole /\ \A s, e, l : Status(s, e, l).whole
  BY DEF NowCkpt, LastCkpt, Ckpt, Status
<1>2. best # NoBest => best \in Ckpts /\ best.whole
  BY DEF TypeInv, Ckpts
<1>3. SplitContent(split).whole
  BY DEF SplitContent
<1>4. Content.whole
  BY Writing, <1>1, <1>2, <1>3
<1>5. ASSUME Target \in CkptFiles
      PROVE  ValidCkpt(Target, Content)
  <2>1. CASE Target = EpochFile(epoch - 1) /\ Content = NowCkpt /\ epoch > start
    <3>1. epoch > 0
      BY <2>1 DEF TypeInv
    <3>2. NowCkpt.epoch = epoch - 1 /\ NowCkpt \in Ckpts
      BY <3>1, CkptType DEF NowCkpt, Ckpt
    <3>. QED BY <2>1, <3>2, FilesApart DEF ValidCkpt
  <2>2. CASE Target = LatestFile /\ Content = NowCkpt /\ epoch > start
    <3>1. epoch > 0
      BY <2>2 DEF TypeInv
    <3>. QED BY <2>2, <3>1, CkptType, FilesApart DEF ValidCkpt
  <2>3. CASE Target \in {LatestFile, LastFile} /\ Content = LastCkpt
    BY <2>3, CkptType, FilesApart DEF ValidCkpt
  <2>4. CASE best # NoBest /\ Target = EpochFile(best.epoch) /\ Content = best
    BY <2>4, <1>2, FilesApart DEF ValidCkpt
  <2>5. CASE best # NoBest /\ Target = BestFile /\ Content = best
    BY <2>5, <1>2, FilesApart DEF ValidCkpt
  <2>. QED BY <1>5, <2>1, <2>2, <2>3, <2>4, <2>5, Writing, FilesApart
<1> QED BY <1>4, <1>5

\* The disk changes when a file is truncated or written, and only that file.
Puts(c) ==
    /\ todo # <<>>
    /\ DOMAIN disk' = DOMAIN disk \cup {Target}
    /\ disk'[Target] = c
    /\ \A f \in DOMAIN disk \ {Target} : disk'[f] = disk[f]
    /\ \A f : f # Target => (Whole(f)' <=> Whole(f)) /\ (Whole(f) => disk'[f] = disk[f])
    /\ \A f : f = Target => (Whole(f)' <=> c.whole)

LEMMA PutsStored ==
    ASSUME NEW c, todo # <<>>, disk' = Stored(Target, c)
    PROVE  Puts(c)
<1>1. /\ DOMAIN disk' = DOMAIN disk \cup {Target}
      /\ disk'[Target] = c
      /\ \A f \in DOMAIN disk \ {Target} : disk'[f] = disk[f]
  BY DEF Stored
<1>2. \A f : f # Target => (Whole(f)' <=> Whole(f)) /\ (Whole(f) => disk'[f] = disk[f])
  BY <1>1 DEF Whole
<1>3. \A f : f = Target => (Whole(f)' <=> c.whole)
  BY <1>1 DEF Whole
<1> QED BY <1>1, <1>2, <1>3 DEF Puts

LEMMA DiskChanges ==
    ASSUME TypeInv, TodoInv, [Next]_vars
    PROVE  /\ Truncate \/ Write \/ UNCHANGED disk
           /\ Truncate => Puts(Torn) /\ ~Torn.whole
           /\ Write => Puts(Content) /\ Content.whole /\ ~Whole(Target)
<1> USE DEF fileVars
<1>1. ASSUME Truncate
      PROVE  Puts(Torn) /\ ~Torn.whole
  <2>1. todo # <<>> /\ disk' = Stored(Target, Torn)
    BY <1>1 DEF Truncate, Target
  <2>2. Puts(Torn)
    BY <2>1, PutsStored
  <2>. QED BY <1>1, <2>2 DEF Puts, Torn
<1>2. ASSUME Write
      PROVE  Puts(Content) /\ Content.whole /\ ~Whole(Target)
  <2>1. todo # <<>> /\ disk' = Stored(Target, Content) /\ disk[Target] = Torn
    BY <1>2 DEF Write, Target, Content, TodoInv
  <2>2. Puts(Content)
    BY <2>1, PutsStored
  <2>. QED BY <1>2, <2>1, <2>2, Writable DEF Puts, Torn, Whole
<1>3. ASSUME DataStep \/ EndRun \/ EndFit \/ Launch \/ LoadData \/ WarmUp
      PROVE  UNCHANGED disk
  BY <1>3 DEF DataStep, EndRun, EndFit, Launch, LoadData, WarmUp
<1>4. ASSUME BeginFit \/ Validate \/ Train \/ SaveLast \/ WriteBest \/ Complete
      PROVE  UNCHANGED disk
  BY <1>4 DEF BeginFit, Validate, Train, SaveLast, WriteBest, SaveBest, Complete
<1>5. ASSUME UNCHANGED vars
      PROVE  UNCHANGED disk
  BY <1>5 DEF vars
<1> QED BY <1>1, <1>2, <1>3, <1>4, <1>5, StepCases

LEMMA DiskStep ==
    ASSUME TypeInv, TodoInv, DiskInv, [Next]_vars
    PROVE  DiskInv'
<1>1. CASE UNCHANGED disk
  BY <1>1 DEF DiskInv, Whole
<1>2. CASE Puts(Torn) /\ ~Torn.whole
  BY <1>2 DEF DiskInv, Puts
<1>3. CASE Puts(Content)
  <2>1. \A f \in CkptFiles : Whole(f)' => ValidCkpt(f, disk'[f])
    BY <1>3, Writable DEF DiskInv, Puts
  <2>2. CASE Target = SplitFile
    <3>1. Content = SplitContent(split)
      BY <1>3, <2>2, Writing, FilesApart DEF Puts
    <3>. QED BY <1>3, <2>1, <2>2, <3>1 DEF DiskInv, TypeInv, Puts
  <2>3. CASE Target # SplitFile
    BY <1>3, <2>1, <2>3 DEF DiskInv, Puts
  <2>. QED BY <2>2, <2>3
<1> QED BY DiskChanges, <1>1, <1>2, <1>3
-----------------------------------------------------------------------------
(* Trained on and validated on *)

\* While the disk stays as it is.
LEMMA SameDisk ==
    ASSUME UNCHANGED disk, SplitInv
    PROVE  /\ TrainedOn' = TrainedOn
           /\ Whole(SplitFile)' <=> Whole(SplitFile)
           /\ \A f \in CkptFiles : Whole(f)' => disk'[f].weights.seen \subseteq TrainedOn'
BY DEF TrainedOn, Whole, SplitInv

\* A file that is not the split's is written.
LEMMA OtherFile ==
    ASSUME NEW c, Puts(c), Target # SplitFile
    PROVE  /\ TrainedOn' = TrainedOn
           /\ Whole(SplitFile)' <=> Whole(SplitFile)
           /\ Whole(SplitFile) => disk'[SplitFile] = disk[SplitFile]
BY DEF TrainedOn, Puts

LEMMA SplitStep ==
    ASSUME TypeInv, TodoInv, DiskInv, SplitInv, [Next]_vars
    PROVE  SplitInv'
<1> USE DEF dataVars, fileVars, modelVars
<1>1. CASE DataStep
  BY <1>1, SameDisk DEF DataStep, SplitInv
<1>2. CASE Truncate
  <2>. Puts(Torn) /\ ~Torn.whole
    BY <1>2, DiskChanges
  <2>1. UNCHANGED <<split, weights, best, todo, pc>>
    BY <1>2 DEF Truncate
  <2>2. TrainedOn' = TrainedOn
    <3>1. CASE Target = SplitFile
      <4>1. ~Whole(SplitFile) /\ ~Whole(SplitFile)'
        BY <1>2, <3>1, Writing, FilesApart DEF Puts, SplitInv
      <4>. QED BY <4>1 DEF TrainedOn
    <3>2. CASE Target # SplitFile
      BY <1>2, <3>2, OtherFile
    <3>. QED BY <3>1, <3>2
  <2>3. \A f \in CkptFiles : Whole(f)' => disk'[f].weights.seen \subseteq TrainedOn
    BY <1>2 DEF Puts, SplitInv
  <2>4. pc \notin {"off", "load"} =>
          IF pc = "warm" /\ todo # <<>>
            THEN ~Whole(SplitFile)'
            ELSE Whole(SplitFile)' /\ disk'[SplitFile] = SplitContent(split)
    <3>1. CASE Target = SplitFile
      BY <1>2, <3>1, Writing, FilesApart DEF Puts
    <3>2. CASE Target # SplitFile
      BY <1>2, <3>2, OtherFile DEF SplitInv
    <3>. QED BY <3>1, <3>2
  <2>. QED BY <2>1, <2>2, <2>3, <2>4 DEF SplitInv
<1>3. CASE Write
  <2>. Puts(Content) /\ Content.whole /\ ~Whole(Target)
    BY <1>3, DiskChanges
  <2>1. UNCHANGED <<split, weights, best, pc>> /\ todo' = Tail(todo) /\ todo # <<>>
    BY <1>3 DEF Write, Puts
  <2>2. Target \in CkptFiles => Content.weights \in {weights, best.weights}
                                /\ Content.weights.seen \subseteq TrainedOn
    <3>1. NowCkpt.weights = weights /\ LastCkpt.weights = weights
      BY DEF NowCkpt, LastCkpt, Ckpt
    <3>. QED BY <2>1, <3>1, Writing, FilesApart DEF SplitInv
  <2>3. CASE Target = SplitFile
    <3>1. pc = "warm" /\ Content = SplitContent(split) /\ todo' = <<>>
      BY <2>1, <2>3, Writing, FilesApart
    <3>2. Whole(SplitFile)' /\ disk'[SplitFile] = SplitContent(split)
      BY <1>3, <2>3, <3>1 DEF Puts
    <3>3. TrainedOn = {}
      BY <1>3, <2>3 DEF TrainedOn
    <3>4. \A f \in CkptFiles : Whole(f)' => disk'[f].weights.seen \subseteq TrainedOn'
      BY <1>3, <2>3, <3>3, FilesApart DEF Puts, SplitInv
    <3>. QED BY <2>1, <3>1, <3>2, <3>3, <3>4 DEF SplitInv
  <2>4. CASE Target # SplitFile
    <3>1. /\ TrainedOn' = TrainedOn
          /\ Whole(SplitFile)' <=> Whole(SplitFile)
          /\ Whole(SplitFile) => disk'[SplitFile] = disk[SplitFile]
      BY <1>3, <2>4, OtherFile
    <3>2. \A f \in CkptFiles : Whole(f)' => disk'[f].weights.seen \subseteq TrainedOn
      BY <1>3, <2>2 DEF Puts, SplitInv
    <3>3. pc # "warm"
      BY <2>1, <2>4, Writing
    <3>. QED BY <2>1, <3>1, <3>2, <3>3 DEF SplitInv
  <2>. QED BY <2>3, <2>4
<1>4. CASE EndRun
  <2>1. /\ UNCHANGED disk /\ pc' = "off" /\ split' = NoSplit /\ weights' = Untrained
        /\ best' = NoBest
    BY <1>4 DEF EndRun, Forget
  <2>. QED BY <2>1, SameDisk DEF SplitInv, Untrained
<1>5. CASE EndFit
  <2>1. UNCHANGED <<disk, split, weights, best>> /\ pc' = "raised"
        /\ pc \in {"fit", "epoch", "train", "final", "done"}
    BY <1>5 DEF EndFit, FailFit, Fitting
  <2>. QED BY <2>1, SameDisk DEF SplitInv
<1>6. CASE Launch
  BY <1>6, SameDisk DEF Launch, SplitInv
<1>7. CASE LoadData
  <2>1. UNCHANGED <<disk, weights, best>> /\ pc = "load" /\ pc' = "warm"
    BY <1>7 DEF LoadData
  <2>2. IF todo' # <<>>
          THEN ~Whole(SplitFile)'
          ELSE Whole(SplitFile)' /\ disk'[SplitFile] = SplitContent(split')
    <3>1. CASE SplitFile \in DOMAIN disk
      <4>1. /\ Whole(SplitFile) /\ todo' = <<>>
            /\ split' = [train |-> disk[SplitFile].train, val |-> disk[SplitFile].val]
        BY <1>7, <3>1 DEF LoadData, ResolveSplit
      <4>2. PICK sd \in SplitData : disk[SplitFile] = SplitContent(sd)
        BY <3>1, <4>1 DEF DiskInv, Torn, Whole
      <4>. QED BY <2>1, <4>1, <4>2, SameDisk DEF SplitContent, SplitData
    <3>2. CASE SplitFile \notin DOMAIN disk
      <4>1. todo' # <<>>
        BY <1>7, <3>2, Tuples DEF LoadData, ResolveSplit
      <4>2. ~Whole(SplitFile)
        BY <3>2 DEF Whole
      <4>. QED BY <2>1, <4>1, <4>2, SameDisk
    <3>. QED BY <3>1, <3>2
  <2>. QED BY <2>1, <2>2, SameDisk DEF SplitInv
<1>8. CASE WarmUp
  <2>1. UNCHANGED <<disk, split, weights, best>> /\ pc = "warm" /\ todo = <<>> /\ pc' = "fit"
    BY <1>8 DEF WarmUp
  <2>. QED BY <2>1, SameDisk DEF SplitInv
<1>9. CASE BeginFit
  <2>1. UNCHANGED <<disk, split, best>> /\ pc = "fit" /\ pc' = "epoch" /\ best' = NoBest
    BY <1>9 DEF BeginFit, SplitInv
  <2>2. weights'.seen \subseteq TrainedOn
    BY <1>9 DEF BeginFit, SplitInv, TypeInv
  <2>. QED BY <2>1, <2>2, SameDisk DEF SplitInv
<1>10. CASE Validate
  <2>1. UNCHANGED <<disk, split, weights>> /\ pc = "epoch" /\ pc' = "train"
    BY <1>10 DEF Validate
  <2>2. best' = best \/ best'.weights = weights
    BY <1>10 DEF Validate, Ckpt
  <2>. QED BY <2>1, <2>2, SameDisk DEF SplitInv
<1>11. CASE Train
  <2>1. UNCHANGED <<disk, split, best>> /\ pc = "train" /\ pc' = "epoch"
    BY <1>11 DEF Train
  <2>2. weights'.seen = weights.seen \cup split.train
    BY <1>11 DEF Train
  <2>3. TrainedOn = split.train
    BY <2>1 DEF SplitInv, TrainedOn, SplitContent
  <2>. QED BY <2>1, <2>2, <2>3, SameDisk DEF SplitInv
<1>12. CASE SaveLast \/ WriteBest \/ Complete
  <2>1. /\ UNCHANGED <<disk, split, weights, best>>
        /\ pc \in {"epoch", "final", "done"} /\ pc' \in {"final", "done", "end"}
    BY <1>12 DEF SaveLast, WriteBest, SaveBest, Complete
  <2>. QED BY <2>1, SameDisk DEF SplitInv
<1>13. CASE UNCHANGED vars
  BY <1>13, SameDisk DEF vars, SplitInv
<1> QED BY StepCases, <1>1, <1>2, <1>3, <1>4, <1>5, <1>6, <1>7, <1>8, <1>9, <1>10, <1>11, <1>12, <1>13
-----------------------------------------------------------------------------
(* The best weights and the status *)

\* The best checkpoint is what a validation scored.
LEMMA ScoreStep ==
    ASSUME TypeInv, TodoInv, ScoreInv, [Next]_vars
    PROVE  ScoreInv'
<1> USE DEF dataVars, fileVars, modelVars
<1>1. CASE DataStep \/ Launch \/ LoadData \/ WarmUp \/ BeginFit \/ Train
  <2>1. UNCHANGED <<disk, best, scores>>
    BY <1>1 DEF DataStep, Launch, LoadData, WarmUp, BeginFit, Train
  <2>. QED BY <2>1 DEF ScoreInv, BestWasValidated, Whole
<1>2. CASE SaveLast \/ WriteBest \/ Complete \/ EndFit \/ UNCHANGED vars
  <2>1. UNCHANGED <<disk, best, scores>>
    BY <1>2 DEF SaveLast, WriteBest, SaveBest, Complete, EndFit, vars
  <2>. QED BY <2>1 DEF ScoreInv, BestWasValidated, Whole
<1>3. CASE Truncate
  <2>1. UNCHANGED <<best, scores>> /\ Puts(Torn) /\ ~Torn.whole
    BY <1>3, DiskChanges DEF Truncate
  <2>2. Whole(BestFile)' => Whole(BestFile) /\ disk'[BestFile] = disk[BestFile]
    BY <2>1 DEF Puts
  <2>. QED BY <2>1, <2>2 DEF ScoreInv, BestWasValidated
<1>4. CASE Write
  <2>1. UNCHANGED <<best, scores>> /\ Puts(Content)
    BY <1>4, DiskChanges DEF Write
  <2>2. Target = BestFile => best # NoBest /\ Content = best
    BY <2>1, Writing, FilesApart DEF Puts
  <2>3. Whole(BestFile)' => \/ Whole(BestFile) /\ disk'[BestFile] = disk[BestFile]
                            \/ best # NoBest /\ disk'[BestFile] = best
    BY <2>1, <2>2 DEF Puts
  <2>. QED BY <2>1, <2>3 DEF ScoreInv, BestWasValidated
<1>5. CASE EndRun
  <2>1. /\ UNCHANGED disk /\ best' = NoBest
        /\ scores' = {score \in scores : Whole(BestFile) /\ disk[BestFile].weights = score[1]}
    BY <1>5 DEF EndRun, Forget
  <2>2. Whole(BestFile) =>
          <<disk[BestFile].weights, disk[BestFile].loss>> \in scores'
    BY <2>1 DEF ScoreInv, BestWasValidated
  <2>. QED BY <2>1, <2>2 DEF ScoreInv, BestWasValidated, Whole
<1>6. CASE Validate
  <2>1. UNCHANGED disk /\ scores \subseteq scores'
    BY <1>6 DEF Validate
  <2>2. best' = best \/ <<best'.weights, best'.loss>> \in scores'
    BY <1>6 DEF Validate, Ckpt
  <2>. QED BY <2>1, <2>2 DEF ScoreInv, BestWasValidated, Whole
<1> QED BY StepCases, <1>1, <1>2, <1>3, <1>4, <1>5, <1>6

\* run_metadata.json says what is true.
LEMMA StatusStep ==
    ASSUME TypeInv, TodoInv, StatusInv, [Next]_vars
    PROVE  StatusInv'
<1> USE DEF dataVars, fileVars, modelVars
<1> DEFINE SameFiles == /\ \A s : MetaIs(s)' <=> MetaIs(s)
                        /\ \A f : Whole(f)' <=> Whole(f)
                        /\ StatusTrue /\ UNCHANGED ended => StatusTrue'
<1>1. UNCHANGED disk => SameFiles
  BY DEF MetaIs, Whole, StatusTrue
<1>2. MetaIs("started") => ~MetaIs("completed")
  BY DEF MetaIs
<1>3. CASE DataStep
  <2>1. UNCHANGED <<disk, pc, todo, ended, best>>
    BY <1>3 DEF DataStep
  <2>. QED BY <1>1, <2>1 DEF StatusInv
<1>4. CASE UNCHANGED vars
  <2>1. UNCHANGED <<disk, pc, todo, ended, best>>
    BY <1>4 DEF vars
  <2>. QED BY <1>1, <2>1 DEF StatusInv
<1>5. CASE Launch \/ LoadData \/ WarmUp
  <2>1. UNCHANGED disk /\ pc' \in {"load", "warm", "fit"} /\ ended' = "running"
        /\ (pc' = "fit" => todo' # <<>>)
    BY <1>5, Tuples DEF Launch, LoadData, WarmUp, Describe, StatusInv
  <2>2. StatusTrue'
    BY <2>1 DEF StatusTrue, StatusInv, Whole
  <2>. QED BY <2>1, <2>2 DEF StatusInv, Fitting
<1>6. CASE BeginFit \/ Validate \/ Train
  <2>1. /\ UNCHANGED <<disk, ended>> /\ pc' \in {"epoch", "train"}
        /\ pc \in {"epoch", "train"} \/ (pc = "fit" /\ todo = <<>>)
    BY <1>6 DEF BeginFit, Validate, Train
  <2>2. MetaIs("started")
    BY <2>1 DEF StatusInv, Fitting
  <2>. QED BY <1>1, <2>1, <2>2 DEF StatusInv, Fitting
<1>7. CASE SaveLast \/ WriteBest \/ Complete
  <2>1. /\ UNCHANGED <<disk, ended, best>> /\ todo = <<>> /\ todo' # <<>>
        /\ <<pc, pc'>> \in {<<"epoch", "final">>, <<"final", "done">>, <<"done", "end">>}
    BY <1>7, Tuples DEF SaveLast, WriteBest, SaveBest, Complete
  <2>2. MetaIs("started")
    BY <2>1 DEF StatusInv, Fitting
  <2>. QED BY <1>1, <1>2, <2>1, <2>2 DEF StatusInv, Fitting
<1>8. CASE EndFit
  <2>1. /\ UNCHANGED <<disk, ended>> /\ todo' # <<>> /\ pc' = "raised"
        /\ pc \in Fitting \/ (pc = "fit" /\ todo = <<>>)
    BY <1>8, Tuples DEF EndFit, FailFit
  <2>2. MetaIs("started") /\ ended = "running"
    BY <2>1 DEF StatusInv, Fitting
  <2>. QED BY <1>1, <1>2, <2>1, <2>2 DEF StatusInv, Fitting
<1>9. CASE EndRun
  <2>1. /\ UNCHANGED disk /\ pc' = "off" /\ ended' # "running" /\ pc # "off"
        /\ ended' \in {"completed", "failed"} =>
             pc \in {"raised", "end"} /\ todo = <<>>
             /\ ended' = IF pc = "end" THEN "completed" ELSE "failed"
    BY <1>9 DEF EndRun
  <2>2. ended' \in {"completed", "failed"} => MetaIs(ended')
    BY <2>1 DEF StatusInv
  <2>3. StatusTrue'
    BY <2>1, <2>2 DEF StatusInv, StatusTrue, Whole, MetaIs
  <2>. QED BY <2>1, <2>3 DEF StatusInv, Fitting
<1>10. CASE Truncate
  <2>1. UNCHANGED <<best, todo, pc, ended>> /\ Puts(Torn) /\ ~Torn.whole /\ todo # <<>>
    BY <1>10, DiskChanges DEF Truncate, Puts
  <2>2. CASE Target = MetaFile
    <3>1. \A s : ~MetaIs(s)'
      BY <2>1, <2>2 DEF MetaIs, Puts
    <3>2. pc \in {"fit", "end", "raised"}
      BY <2>1, <2>2, Writing, FilesApart
    <3>3. /\ Whole(LastFile)' <=> Whole(LastFile)
          /\ Whole(BestFile)' <=> Whole(BestFile)
          /\ Whole(BestFile) => disk'[BestFile] = disk[BestFile]
      BY <2>1, <2>2, FilesApart DEF Puts
    <3>4. StatusTrue'
      BY <3>1 DEF StatusTrue, MetaIs
    <3>. QED BY <2>1, <3>1, <3>2, <3>3, <3>4 DEF StatusInv, Fitting
  <2>3. CASE Target # MetaFile
    <3>1. /\ \A s : MetaIs(s)' <=> MetaIs(s)
          /\ Whole(MetaFile)' <=> Whole(MetaFile)
          /\ Whole(MetaFile) => disk'[MetaFile] = disk[MetaFile]
      BY <2>1, <2>3 DEF MetaIs, Puts
    <3>2. CASE Target \in {LastFile, BestFile}
      <4>1. pc \in Fitting /\ (Target = LastFile => pc = "final") /\ (Target = BestFile => pc = "done")
        BY <2>1, <3>2, Writing, FilesApart DEF Fitting
      <4>2. MetaIs("started") /\ ended = "running"
        BY <4>1 DEF StatusInv, Fitting
      <4>3. StatusTrue'
        BY <2>1, <3>1, <4>2 DEF StatusTrue, MetaIs
      <4>4. pc = "done" => Whole(LastFile)'
        BY <2>1, <3>2, <4>1, FilesApart DEF Puts, StatusInv
      <4>. QED BY <2>1, <3>1, <4>1, <4>3, <4>4 DEF StatusInv, Fitting
    <3>3. CASE Target \notin {LastFile, BestFile}
      <4>1. \A f \in {LastFile, BestFile} : (Whole(f)' <=> Whole(f)) /\ (Whole(f) => disk'[f] = disk[f])
        BY <2>1, <3>3 DEF Puts
      <4>2. StatusTrue'
        BY <2>1, <3>1, <4>1 DEF StatusInv, StatusTrue
      <4>. QED BY <2>1, <3>1, <4>1, <4>2 DEF StatusInv, Fitting
    <3>. QED BY <3>2, <3>3
  <2>. QED BY <2>2, <2>3
<1>11. CASE Write
  <2>1. UNCHANGED <<best, pc, ended>> /\ todo' = Tail(todo) /\ Puts(Content) /\ Content.whole
        /\ todo # <<>>
    BY <1>11, DiskChanges DEF Write, Puts
  <2>2. CASE Target = MetaFile
    <3>1. /\ pc \in {"fit", "end", "raised"} /\ todo' = <<>>
          /\ pc = "fit" => Content = Status("started", 0, Inf)
          /\ pc = "end" => Content = Status("completed", best.epoch, best.loss)
          /\ pc = "raised" => Content = Status("failed", 0, Inf)
      BY <2>1, <2>2, Writing, FilesApart
    <3>2. /\ Whole(LastFile)' <=> Whole(LastFile)
          /\ Whole(BestFile)' <=> Whole(BestFile)
          /\ Whole(BestFile) => disk'[BestFile] = disk[BestFile]
      BY <2>1, <2>2, FilesApart DEF Puts
    <3>3. Whole(MetaFile)' /\ disk'[MetaFile] = Content
      BY <2>1, <2>2 DEF Puts
    <3>4. StatusTrue'
      BY <2>1, <3>1, <3>2, <3>3 DEF StatusInv, StatusTrue, Status
    <3>5. MetaIs(IF pc = "fit" THEN "started" ELSE IF pc = "end" THEN "completed" ELSE "failed")'
      BY <2>1, <3>1, <3>3 DEF MetaIs, Status
    <3>. QED BY <2>1, <3>1, <3>2, <3>4, <3>5 DEF StatusInv, Fitting
  <2>3. CASE Target # MetaFile
    <3>1. /\ \A s : MetaIs(s)' <=> MetaIs(s)
          /\ Whole(MetaFile)' <=> Whole(MetaFile)
          /\ Whole(MetaFile) => disk'[MetaFile] = disk[MetaFile]
      BY <2>1, <2>3 DEF MetaIs, Puts
    <3>2. CASE Target \in {LastFile, BestFile}
      <4>1. /\ pc \in Fitting /\ (Target = LastFile => pc = "final")
            /\ (Target = BestFile => pc = "done" /\ Content = best)
        BY <2>1, <3>2, Writing, FilesApart DEF Fitting
      <4>2. MetaIs("started") /\ ended = "running"
        BY <4>1 DEF StatusInv, Fitting
      <4>3. StatusTrue'
        BY <2>1, <3>1, <4>2 DEF StatusTrue, MetaIs
      <4>4. Whole(LastFile)'
        <5>1. CASE Target = LastFile
          BY <2>1, <5>1 DEF Puts
        <5>2. CASE Target = BestFile
          BY <2>1, <4>1, <5>2, FilesApart DEF Puts, StatusInv
        <5>. QED BY <3>2, <5>1, <5>2
      <4>5. pc = "done" => Whole(BestFile)' /\ disk'[BestFile] = best
        BY <2>1, <3>2, <4>1 DEF Puts
      <4>. QED BY <2>1, <3>1, <3>2, <4>1, <4>3, <4>4, <4>5 DEF StatusInv, Fitting
    <3>3. CASE Target \notin {LastFile, BestFile}
      <4>1. \A f \in {LastFile, BestFile} : (Whole(f)' <=> Whole(f)) /\ (Whole(f) => disk'[f] = disk[f])
        BY <2>1, <3>3 DEF Puts
      <4>2. StatusTrue'
        BY <2>1, <3>1, <4>1 DEF StatusInv, StatusTrue
      <4>3. pc \notin {"end", "raised"} /\ (pc \in {"final", "done", "fit"} => todo' # <<>>)
        BY <2>1, <2>3, <3>3, Writing, FilesApart
      <4>. QED BY <2>1, <3>1, <4>1, <4>2, <4>3 DEF StatusInv, Fitting
    <3>. QED BY <3>2, <3>3
  <2>. QED BY <2>2, <2>3
<1> QED BY StepCases, <1>3, <1>4, <1>5, <1>6, <1>7, <1>8, <1>9, <1>10, <1>11
-----------------------------------------------------------------------------
(* The work of the checkpoint gone on from *)

LEMMA HoldsSurvives ==
    ResumedWorkSurvives <=> (kept > 0 => \E f : Holds(f))
BY DEF ResumedWorkSurvives, Holds

\* The work is never in the file about to be rewritten only.
LEMMA HeldElsewhere ==
    ASSUME TypeInv, TodoInv, KeptInv, todo # <<>>, kept > 0
    PROVE  /\ pc \in {"epoch", "final", "done", "end", "raised"}
           /\ pc = "epoch" => epoch > start
           /\ pc = "epoch" /\ FirstSave =>
                  /\ Holds(resume) /\ resume # EpochFile(start)
                  /\ Target = EpochFile(start) /\ Content.weights = weights
           /\ pc = "epoch" /\ ~FirstSave => Holds(EpochFile(start)) /\ Target # EpochFile(start)
           /\ pc = "final" => /\ Holds(EpochFile(start)) /\ Target # EpochFile(start)
                              /\ Content.weights = weights
                              /\ Tail(todo) = <<>> => Target = LastFile
           /\ pc = "done" => Holds(LastFile) /\ Target # LastFile
           /\ \E f : Holds(f) /\ f # Target
<1>1. pc \in {"epoch", "final", "done", "end", "raised"}
  BY DEF TypeInv, Places, TodoInv, KeptInv
<1>2. NowCkpt.weights = weights /\ LastCkpt.weights = weights
  BY DEF NowCkpt, LastCkpt, Ckpt
<1>3. CASE pc = "epoch"
  <2>1. epoch > start /\ epoch \in Nat /\ start \in Nat
    BY <1>3 DEF TodoInv, TypeInv
  <2>2. CASE FirstSave
    <3>1. Target = EpochFile(start) /\ Content.weights = weights
      <4>1. epoch - 1 = start
        BY <2>1, <2>2 DEF FirstSave
      <4>2. OfEpoch # OfLatest
        BY FilesApart, Tuples DEF OfEpoch, OfLatest
      <4>3. todo # <<OfLatest>>
        BY <2>2, <4>2, Tuples DEF FirstSave
      <4>. QED BY <1>2, <1>3, <4>1, <4>3, Writing
    <3>. QED BY <1>3, <2>1, <2>2, <3>1 DEF KeptInv
  <2>3. CASE ~FirstSave
    <3>1. Holds(EpochFile(start))
      BY <1>3, <2>1, <2>3 DEF KeptInv
    <3>2. CASE todo = <<OfLatest>>
      <4>1. Target = LatestFile
        BY <3>2, Tuples DEF Target, OfLatest
      <4>. QED BY <1>3, <2>1, <2>3, <3>1, <4>1, FilesApart
    <3>3. CASE todo # <<OfLatest>>
      <4>1. Target = EpochFile(epoch - 1)
        BY <1>3, <3>3, Writing
      <4>2. todo \in {<<OfEpoch>>, <<OfEpoch, OfLatest>>}
        BY <1>3, <3>3 DEF TodoInv
      <4>3. epoch - 1 # start
        BY <2>1, <2>3, <4>2 DEF FirstSave
      <4>. QED BY <1>3, <2>1, <2>3, <3>1, <4>1, <4>3, FilesApart
    <3>. QED BY <3>2, <3>3
  <2>. QED BY <2>2, <2>3
<1>4. CASE pc = "final"
  <2>1. Holds(EpochFile(start))
    BY <1>4 DEF KeptInv
  <2>2. Target \in {LatestFile, LastFile} /\ Content.weights = weights
        /\ (Tail(todo) = <<>> => Target = LastFile)
    BY <1>2, <1>4, Writing
  <2>. QED BY <1>4, <2>1, <2>2, FilesApart
<1>5. CASE pc = "done"
  <2>1. Holds(LastFile)
    BY <1>5 DEF KeptInv
  <2>2. Target # LastFile
    BY <1>5, Writing, FilesApart
  <2>. QED BY <1>5, <2>1, <2>2
<1>6. CASE pc \in {"end", "raised"}
  <2>1. \E f : Holds(f)
    BY HoldsSurvives DEF KeptInv
  <2>2. Target = MetaFile
    BY <1>6, Writing
  <2>3. \A f : Holds(f) => f # Target
    BY <2>2, FilesApart DEF Holds
  <2>. QED BY <1>6, <2>1, <2>3
<1> QED BY <1>1, <1>3, <1>4, <1>5, <1>6

LEMMA KeptStep ==
    ASSUME TypeInv, TodoInv, DiskInv, KeptInv, [Next]_vars
    PROVE  KeptInv'
<1> USE DEF dataVars, fileVars, modelVars
<1>1. UNCHANGED <<disk, kept>> => ResumedWorkSurvives' /\ \A f : Holds(f) => Holds(f)'
  BY DEF KeptInv, ResumedWorkSurvives, Holds, Whole
<1>2. CASE DataStep
  <2>1. UNCHANGED <<disk, kept, pc, todo, weights, epoch, start, resume, minLoss>>
    BY <1>2 DEF DataStep
  <2>2. pc = "off"
    BY <1>2 DEF DataStep
  <2>. QED BY <1>1, <2>1, <2>2 DEF KeptInv, Fitting
<1>3. CASE UNCHANGED vars
  <2>1. UNCHANGED <<disk, kept, pc, todo, weights, epoch, start, resume, minLoss>>
    BY <1>3 DEF vars
  <2>2. FirstSave' = FirstSave
    BY <2>1 DEF FirstSave, OfEpoch, OfLatest, NowCkpt
  <2>. QED BY <1>1, <2>1, <2>2 DEF KeptInv, Fitting, Holds, Whole
<1>4. CASE EndRun \/ EndFit
  <2>1. UNCHANGED <<disk, kept>> /\ pc' \in {"off", "raised"}
    BY <1>4 DEF EndRun, EndFit, FailFit
  <2>. QED BY <1>1, <2>1 DEF KeptInv, Fitting
<1>5. CASE Launch \/ LoadData \/ WarmUp
  <2>1. kept' = 0 /\ pc' \in {"load", "warm", "fit"}
    BY <1>5 DEF Launch, LoadData, WarmUp, KeptInv
  <2>. QED BY <2>1 DEF KeptInv
<1>6. CASE BeginFit
  <2>1. /\ pc' = "epoch" /\ epoch' = start' /\ UNCHANGED <<disk, resume>>
        /\ \/ kept' = kept
           \/ /\ resume # NoFile /\ Whole(resume) /\ weights' = disk[resume].weights
              /\ start' = disk[resume].epoch + 1
              /\ kept' = IF epoch' < NumEpochs THEN weights'.trained ELSE 0
    BY <1>6 DEF BeginFit
  <2>2. kept = 0
    BY <1>6 DEF BeginFit, KeptInv
  <2>3. ASSUME kept' > 0
        PROVE  /\ weights'.trained >= kept' /\ start' < NumEpochs /\ start' \in Int
               /\ Holds(resume)' /\ disk'[resume'].epoch = start' - 1
    <3>1. /\ resume # NoFile /\ Whole(resume) /\ weights' = disk[resume].weights
          /\ start' = disk[resume].epoch + 1 /\ epoch' < NumEpochs /\ kept' = weights'.trained
      BY <2>1, <2>2, <2>3
    <3>2. resume \in CkptFiles /\ disk[resume] \in Ckpts
      BY <3>1 DEF TypeInv, DiskInv, ValidCkpt
    <3>3. weights'.trained \in Nat /\ disk[resume].epoch \in Int
      <4>1. disk[resume].weights \in Weights /\ disk[resume].epoch \in -1 .. NumEpochs - 1
        BY <3>2 DEF Ckpts
      <4>. QED BY <3>1, <4>1, Bounds DEF Weights
    <3>. QED BY <2>1, <3>1, <3>2, <3>3 DEF Holds, Whole
  <2>4. ResumedWorkSurvives'
    BY <2>3 DEF ResumedWorkSurvives, Holds, Whole
  <2>. QED BY <2>1, <2>3, <2>4 DEF KeptInv, Fitting
<1>7. CASE Validate
  <2>1. /\ UNCHANGED <<disk, kept, weights, epoch, start, resume, todo>>
        /\ pc = "epoch" /\ pc' = "train" /\ todo = <<>>
    BY <1>7 DEF Validate
  <2>2. ~FirstSave
    BY <2>1, Tuples DEF FirstSave
  <2>3. epoch # start => epoch > start
    BY DEF TypeInv
  <2>. QED BY <1>1, <2>1, <2>2, <2>3 DEF KeptInv, Fitting, Holds, Whole
<1>8. CASE Train
  <2>1. /\ UNCHANGED <<disk, kept, start, resume, minLoss>> /\ pc = "train" /\ pc' = "epoch"
        /\ epoch' = epoch + 1 /\ weights'.trained = weights.trained + 1
    BY <1>8 DEF Train
  <2>2. epoch \in Nat /\ start \in Nat /\ epoch >= start /\ weights.trained \in Nat /\ kept \in Nat
    BY DEF TypeInv, Weights
  <2>3. CASE epoch = start
    <3>1. FirstSave'
      <4>1. todo' \in {<<OfEpoch'>>, <<OfEpoch', OfLatest'>>}
        <5>1. /\ OfEpoch' = <<EpochFile(epoch), Ckpt(weights', epoch, minLoss)>>
              /\ OfLatest' = <<LatestFile, Ckpt(weights', epoch, minLoss)>>
          BY <2>1, <2>2 DEF OfEpoch, OfLatest, NowCkpt
        <5>2. todo' \in {<<OfEpoch'>> \o <<>>, <<OfEpoch'>> \o <<OfLatest'>>}
          BY <1>8, <2>3, <5>1 DEF Train, SavesOf
        <5>. QED BY <5>2, Concats
      <4>. QED BY <2>1, <2>2, <2>3, <4>1 DEF FirstSave
    <3>2. ASSUME kept > 0
          PROVE  Holds(resume) /\ resume # EpochFile(start)
      <4>1. Holds(resume) /\ disk[resume].epoch = start - 1
        BY <2>1, <2>3, <3>2 DEF KeptInv
      <4>2. resume = EpochFile(start) => disk[resume].epoch = start
        BY <4>1 DEF Holds, DiskInv, ValidCkpt, TypeInv
      <4>. QED BY <2>2, <4>1, <4>2
    <3>. QED BY <1>1, <2>1, <2>2, <2>3, <3>1, <3>2 DEF KeptInv, Fitting, Holds, Whole
  <2>4. CASE epoch > start
    <3>1. ~FirstSave'
      BY <2>1, <2>2, <2>4 DEF FirstSave
    <3>. QED BY <1>1, <2>1, <2>2, <2>4, <3>1 DEF KeptInv, Fitting, Holds, Whole
  <2>. QED BY <2>2, <2>3, <2>4
<1>9. CASE SaveLast
  <2>1. /\ UNCHANGED <<disk, kept, weights, epoch, start, resume>> /\ pc = "epoch"
        /\ pc' = "final" /\ todo = <<>> /\ epoch >= NumEpochs /\ todo' # <<>>
    BY <1>9, Tuples DEF SaveLast
  <2>2. ~FirstSave
    BY <2>1, Tuples DEF FirstSave
  <2>3. kept > 0 => epoch > start
    BY <2>1, Bounds DEF KeptInv, Fitting, TypeInv
  <2>. QED BY <1>1, <2>1, <2>2, <2>3 DEF KeptInv, Fitting, Holds, Whole
<1>10. CASE WriteBest \/ Complete
  <2>1. /\ UNCHANGED <<disk, kept, weights, epoch, start, resume>> /\ todo = <<>>
        /\ <<pc, pc'>> \in {<<"final", "done">>, <<"done", "end">>}
    BY <1>10 DEF WriteBest, SaveBest, Complete
  <2>. QED BY <1>1, <2>1 DEF KeptInv, Fitting, Holds, Whole
<1>11. CASE Truncate
  <2>1. /\ UNCHANGED <<kept, pc, todo, weights, epoch, start, resume, minLoss>> /\ Puts(Torn)
        /\ todo # <<>>
    BY <1>11, DiskChanges DEF Truncate, Puts
  <2>2. \A f : Holds(f) /\ f # Target => Holds(f)'
    BY <2>1 DEF Puts, Holds
  <2>3. FirstSave' = FirstSave
    BY <2>1 DEF FirstSave, OfEpoch, OfLatest, NowCkpt
  <2>4. ResumedWorkSurvives'
    BY <2>1, <2>2, HeldElsewhere DEF ResumedWorkSurvives, Holds
  <2>5. ASSUME kept > 0
        PROVE  /\ pc = "epoch" /\ FirstSave => Holds(resume)' /\ resume # EpochFile(start)
               /\ pc = "epoch" /\ ~FirstSave => Holds(EpochFile(start))'
               /\ pc = "final" => Holds(EpochFile(start))'
               /\ pc = "done" => Holds(LastFile)'
               /\ pc = "epoch" => epoch > start
               /\ pc \in {"epoch", "final", "done", "end", "raised"}
    <3>1. Holds(resume) /\ resume # Target => Holds(resume)'
      BY <2>1, <2>2 DEF Holds, Whole
    <3>2. Holds(EpochFile(start)) /\ EpochFile(start) # Target => Holds(EpochFile(start))'
      BY <2>1, <2>2 DEF Holds, Whole
    <3>3. Holds(LastFile) /\ LastFile # Target => Holds(LastFile)'
      BY <2>2
    <3>. QED BY <2>1, <2>5, <3>1, <3>2, <3>3, HeldElsewhere
  <2>. QED BY <2>1, <2>3, <2>4, <2>5 DEF KeptInv, Fitting, TypeInv
<1>12. CASE Write
  <2>1. /\ UNCHANGED <<kept, pc, weights, epoch, start, resume, minLoss>> /\ Puts(Content)
        /\ todo # <<>> /\ todo' = Tail(todo) /\ Content.whole
    BY <1>12, DiskChanges DEF Write, Puts
  <2>2. \A f : Holds(f) /\ f # Target => Holds(f)'
    BY <2>1 DEF Puts, Holds
  <2>4. ResumedWorkSurvives'
    BY <2>1, <2>2, HeldElsewhere DEF ResumedWorkSurvives, Holds
  <2>5. ASSUME kept > 0
        PROVE  /\ pc = "epoch" => Holds(EpochFile(start))' /\ ~FirstSave'
               /\ pc = "final" => Holds(EpochFile(start))'
               /\ pc = "final" /\ todo' = <<>> => Holds(LastFile)'
               /\ pc = "done" => Holds(LastFile)'
               /\ pc = "epoch" => epoch > start
               /\ pc \in {"epoch", "final", "done", "end", "raised"}
    <3>1. ASSUME NEW f \in CkptFiles, f = Target, Content.weights = weights, pc \in Fitting
          PROVE  Holds(f)'
      <4>1. weights.trained >= kept
        BY <2>5, <3>1 DEF KeptInv
      <4>. QED BY <2>1, <3>1, <4>1 DEF Holds, Puts, Whole
    <3>2. Holds(EpochFile(start)) /\ EpochFile(start) # Target => Holds(EpochFile(start))'
      BY <2>1, <2>2 DEF Holds, Whole
    <3>3. Holds(LastFile) /\ LastFile # Target => Holds(LastFile)'
      BY <2>2
    <3>4. pc = "epoch" /\ FirstSave => Holds(EpochFile(start))'
      <4>1. EpochFile(start) \in CkptFiles
        BY FilesApart DEF TypeInv
      <4>. QED BY <2>1, <2>5, <3>1, <4>1, HeldElsewhere DEF Fitting, Holds, Whole
    <3>5. pc = "final" /\ todo' = <<>> => Holds(LastFile)'
      BY <2>1, <2>5, <3>1, HeldElsewhere, FilesApart DEF Fitting
    <3>6. pc = "epoch" => ~FirstSave'
      <4>1. OfEpoch' = OfEpoch /\ OfLatest' = OfLatest
        BY <2>1 DEF OfEpoch, OfLatest, NowCkpt
      <4>2. OfEpoch # OfLatest
        BY FilesApart, Tuples DEF OfEpoch, OfLatest
      <4>3. pc = "epoch" => todo' \in {<<OfLatest>>, <<>>}
        BY <2>1, Tails DEF TodoInv
      <4>. QED BY <4>1, <4>2, <4>3, Tuples DEF FirstSave
    <3>. QED BY <2>1, <2>5, <3>2, <3>3, <3>4, <3>5, <3>6, HeldElsewhere
  <2>. QED BY <2>1, <2>4, <2>5 DEF KeptInv, Fitting, TypeInv
<1> QED BY StepCases, <1>2, <1>3, <1>4, <1>5, <1>6, <1>7, <1>8, <1>9, <1>10, <1>11, <1>12
-----------------------------------------------------------------------------
(* The directory and its reports *)

LEMMA CleanMeans ==
    ASSUME NEW ep, Warnings(ep, ShortEpisode) = {}
    PROVE  ep.whole /\ ~OffContract(ep)
<1>1. ep.whole
  BY DEF Warnings, Readable
<1>2. ~("real_contract_shape_mismatch" \in Warnings(ep, ShortEpisode))
  OBVIOUS
<1> QED BY <1>1, <1>2 DEF Warnings, Readable

LEMMA LoadErrorNone ==
    ASSUME LoadError(dir, NumEpisodes, EpisodeLen) = "none"
    PROVE  /\ \A id \in Listed(dir, NumEpisodes) : dir[id].whole
           /\ \A id \in Available(dir, NumEpisodes) : ~(dir[id].length > EpisodeLen)
BY DEF LoadError

LEMMA SplitFrom ==
    ASSUME DirInv, LoadData
    PROVE  split'.train \cup split'.val \subseteq Available(dir, NumEpisodes)
<1>1. CASE SplitFile \in DOMAIN disk
  BY <1>1 DEF LoadData, ResolveSplit, SplitFits
<1>2. CASE SplitFile \notin DOMAIN disk
  <2>1. split' \in Splits(Available(dir, NumEpisodes), TrainPercent)
    BY <1>2 DEF LoadData, ResolveSplit
  <2>. QED BY <2>1, SplitsType, AvailableIds
<1> QED BY <1>1, <1>2

LEMMA DirStep ==
    ASSUME TypeInv, TodoInv, DirInv, [Next]_vars
    PROVE  DirInv'
<1> USE DEF dataVars, fileVars, modelVars
<1>1. CASE BeginEpisode
  <2> PICK n \in Nat : DOMAIN dir = 0 .. n - 1
    BY DEF DirInv
  <2>1. Cardinality(DOMAIN dir) = n
    <3>1. Cardinality(0 .. n - 1) = IF 0 > n - 1 THEN 0 ELSE (n - 1) - 0 + 1
      BY FS_Interval
    <3>. QED BY <3>1
  <2>2. /\ DOMAIN dir' = DOMAIN dir \cup {n}
        /\ \A id \in DOMAIN dir : dir'[id] = dir[id]
        /\ dir'[n] = Torn
    <3>1. n \notin DOMAIN dir
      OBVIOUS
    <3>. QED BY <1>1, <2>1, <3>1 DEF BeginEpisode
  <2>3. n + 1 \in Nat /\ DOMAIN dir' = 0 .. (n + 1) - 1
    BY <2>2
  <2>4. pc' = "off" /\ qcClean' = qcClean
    BY <1>1 DEF BeginEpisode
  <2>. QED BY <2>2, <2>3, <2>4 DEF DirInv
<1>2. CASE EndEpisode
  <2> DEFINE new == Max(DOMAIN dir)
  <2>1. /\ ~dir[new].whole /\ pc' = "off" /\ qcClean' = qcClean
        /\ \E ep \in Kinds : dir' = [dir EXCEPT ![new] = ep]
    BY <1>2 DEF EndEpisode
  <2> HIDE DEF new
  <2> PICK ep \in Kinds : dir' = [dir EXCEPT ![new] = ep]
    BY <2>1
  <2>2. ep \in Episodes
    BY TrainingAssumption
  <2>3. /\ DOMAIN dir' = DOMAIN dir
        /\ \A id \in DOMAIN dir : dir'[id] = IF id = new THEN ep ELSE dir[id]
    OBVIOUS
  <2>4. \A id \in qcClean : id # new
    BY <2>1, CleanMeans DEF DirInv
  <2>. QED BY <2>1, <2>2, <2>3, <2>4 DEF DirInv
<1>3. CASE RunDatasetQc
  <2>1. \A id \in qcClean' : id \in DOMAIN dir' /\ Warnings(dir'[id], ShortEpisode) = {}
    BY <1>3 DEF RunDatasetQc, Report
  <2>2. UNCHANGED dir /\ pc' = "off"
    BY <1>3 DEF RunDatasetQc
  <2>. QED BY <2>1, <2>2 DEF DirInv
<1>4. CASE LoadData
  <2>1. UNCHANGED <<dir, qcClean>> /\ LoadError(dir, NumEpisodes, EpisodeLen) = "none"
    BY <1>4 DEF LoadData
  <2>. QED BY <1>4, <2>1, SplitFrom DEF DirInv, Ids
<1>5. CASE Launch \/ EndRun
  <2>1. UNCHANGED <<dir, qcClean>> /\ pc' \in {"off", "load"}
    BY <1>5 DEF Launch, EndRun
  <2>. QED BY <2>1 DEF DirInv
<1>6. CASE Truncate \/ Write \/ UNCHANGED vars
  <2>1. UNCHANGED <<dir, qcClean, split, pc>>
    BY <1>6 DEF Truncate, Write, vars
  <2>. QED BY <2>1 DEF DirInv, Ids
<1>7. CASE EndFit \/ WarmUp \/ BeginFit \/ Validate \/ Train
  <2>1. UNCHANGED <<dir, qcClean, split>> /\ pc \notin {"off", "load"}
    BY <1>7 DEF EndFit, WarmUp, BeginFit, Validate, Train, Fitting
  <2>. QED BY <2>1 DEF DirInv, Ids
<1>8. CASE SaveLast \/ WriteBest \/ Complete
  <2>1. UNCHANGED <<dir, qcClean, split>> /\ pc \notin {"off", "load"}
    BY <1>8 DEF SaveLast, WriteBest, SaveBest, Complete
  <2>. QED BY <2>1 DEF DirInv, Ids
<1>9. Next => BeginEpisode \/ EndEpisode \/ RunDatasetQc \/ pc # "off" \/ Launch
  BY DEF Next, Truncate, Write, Raise, InFit, Kill, Exit, LoadFails, LoadData, WarmUpFails, WarmUp,
         BeginFit, ResumeFails, Validate, Train, SaveLast, SaveBest, Complete, TodoInv
<1>10. DataStep => pc = "off"
  BY DEF DataStep
<1> QED BY StepCases, <1>1, <1>2, <1>3, <1>4, <1>5, <1>6, <1>7, <1>8, <1>9, <1>10

\* Every whole episode under a clean report is one that load_data takes.
LEMMA QcFact ==
    ASSUME DirInv
    PROVE  QcPassedLoads
<1>1. \A id \in qcClean : dir[id].whole /\ dir[id].axes.action = dir[id].axes.qpos
  <2> TAKE id \in qcClean
  <2>1. dir[id].whole /\ ~OffContract(dir[id])
    BY CleanMeans DEF DirInv
  <2>2. dir[id] \in Episodes
    BY <2>1 DEF DirInv, Torn
  <2>3. dir[id].axes \in [action : Nat, qpos : Nat, qvel : Nat]
    BY <2>2 DEF Episodes
  <2>. QED BY <2>1, <2>3 DEF OffContract
<1>2. qcClean \cap Listed(dir, NumEpisodes) \subseteq Available(dir, NumEpisodes)
  BY <1>1 DEF Available
<1>3. ASSUME Listed(dir, NumEpisodes) \subseteq qcClean
      PROVE  LoadError(dir, NumEpisodes, EpisodeLen) \notin {"unreadable", "no valid episodes"}
  <2>1. CASE Listed(dir, NumEpisodes) = {}
    BY <2>1 DEF LoadError
  <2>2. CASE Listed(dir, NumEpisodes) # {}
    <3>1. Available(dir, NumEpisodes) # {} /\ \A id \in Listed(dir, NumEpisodes) : dir[id].whole
      BY <1>1, <1>2, <1>3, <2>2
    <3>. QED BY <2>2, <3>1 DEF LoadError
  <2>. QED BY <2>1, <2>2
<1> QED BY <1>2, <1>3 DEF QcPassedLoads
-----------------------------------------------------------------------------
(* The items of an episode *)

\* EpisodicDataset pads to the length asked for; nothing is cut off and the padding
\* comes after the actions.
LEMMA PaddedActions ==
    ASSUME NEW first \in Nat, NEW length \in Nat, NEW n \in Nat, first <= length,
           length - first <= n
    PROVE  LET item == Padded([i \in 1 .. length - first |-> first + i], n)
           IN  /\ DOMAIN item = 1 .. n
               /\ \A i \in 1 .. n : item[i] = IF i <= length - first THEN first + i ELSE 0
<1> DEFINE action == [i \in 1 .. length - first |-> first + i]
           padding == [i \in 1 .. n - Len(action) |-> 0]
<1>1. action \in Seq(Nat) /\ Len(action) = length - first
  <2>1. length - first \in Nat /\ \A i \in 1 .. length - first : first + i \in Nat
    OBVIOUS
  <2>. QED BY <2>1, LenProperties
<1>2. padding \in Seq(Nat) /\ Len(padding) = n - (length - first)
  BY <1>1, LenProperties
<1>3. \A i \in 1 .. Len(action) : action[i] = first + i
  BY <1>1
<1>4. \A i \in 1 .. Len(padding) : padding[i] = 0
  BY <1>1, <1>2
<1>5. Padded(action, n) = action \o padding
  BY DEF Padded
<1> HIDE DEF action, padding
<1>6. /\ action \o padding \in Seq(Nat) /\ Len(action \o padding) = n
      /\ \A i \in 1 .. n : (action \o padding)[i] =
             IF i <= Len(action) THEN action[i] ELSE padding[i - Len(action)]
  <2>1. Len(action) + Len(padding) = n
    BY <1>1, <1>2
  <2>. QED BY <1>1, <1>2, <2>1, ConcatProperties
<1>7. DOMAIN (action \o padding) = 1 .. n
  BY <1>6, LenProperties
<1>8. \A i \in 1 .. n : (action \o padding)[i] = IF i <= length - first THEN first + i ELSE 0
  <2> TAKE i \in 1 .. n
  <2>1. CASE i <= length - first
    <3>1. i \in 1 .. Len(action)
      BY <1>1, <2>1
    <3>. QED BY <1>1, <1>3, <1>6, <2>1, <3>1
  <2>2. CASE ~(i <= length - first)
    <3>1. i - Len(action) \in 1 .. Len(padding)
      BY <1>1, <1>2, <2>2
    <3>. QED BY <1>1, <1>4, <1>6, <2>2, <3>1
  <2>. QED BY <2>1, <2>2
<1> QED BY <1>5, <1>7, <1>8 DEF action

LEMMA FirstBounds ==
    ASSUME NEW ep, NEW t0 \in Nat
    PROVE  First(ep, t0) \in 0 .. t0
<1>1. Max({0, t0 - 1}) \in 0 .. t0
  <2> DEFINE m == IF t0 = 0 THEN 0 ELSE t0 - 1
  <2>1. m \in {0, t0 - 1} /\ \A y \in {0, t0 - 1} : m >= y
    OBVIOUS
  <2>2. Max({0, t0 - 1}) \in {0, t0 - 1} /\ \A y \in {0, t0 - 1} : Max({0, t0 - 1}) >= y
    BY <2>1 DEF Max
  <2>. QED BY <2>2
<1> QED BY <1>1 DEF First

LEMMA ItemsFact ==
    ASSUME TypeInv, SplitInv, DirInv
    PROVE  ItemsSound
<1> SUFFICES ASSUME NEW id \in Ids, NEW t0 \in 0 .. dir[id].length - 1
             PROVE  LET item == Item(dir[id], t0, EpisodeLen)
                    IN  /\ DOMAIN item.action = 1 .. EpisodeLen
                        /\ \A i \in 1 .. EpisodeLen : item.isPad[i] <=> item.action[i] = 0
                        /\ \A a \in t0 + 1 .. dir[id].length :
                              \E i \in 1 .. EpisodeLen : item.action[i] = a
                        /\ \A i \in 2 .. EpisodeLen : item.action[i] # 0 =>
                              item.action[i - 1] # 0 /\ item.action[i] = item.action[i - 1] + 1
  BY DEF ItemsSound
<1>1. pc \notin {"off", "load"}
  BY DEF SplitInv, NoSplit, Ids
<1>2. id \in Available(dir, NumEpisodes) /\ LoadError(dir, NumEpisodes, EpisodeLen) = "none"
  BY <1>1 DEF DirInv
<1>3. dir[id].length \in Nat /\ dir[id].length <= EpisodeLen
  <2>1. dir[id].whole /\ id \in DOMAIN dir
    BY <1>2, LoadErrorNone DEF Available, Listed
  <2>2. dir[id] \in Episodes
    BY <2>1 DEF DirInv, Torn
  <2>3. dir[id].length \in Nat /\ ~(dir[id].length > EpisodeLen)
    BY <1>2, <2>2, LoadErrorNone DEF Episodes
  <2>. QED BY <2>3, Bounds
<1> DEFINE length == dir[id].length
           first == First(dir[id], t0)
           action == Padded([i \in 1 .. length - first |-> first + i], EpisodeLen)
<1>4. first \in 0 .. t0
  BY <1>3, FirstBounds
<1>5. /\ Item(dir[id], t0, EpisodeLen).action = action
      /\ Item(dir[id], t0, EpisodeLen).isPad = [i \in 1 .. EpisodeLen |-> i > length - first]
  BY DEF Item
<1>6. length \in Nat /\ first \in Nat /\ t0 \in Nat /\ t0 < length /\ first <= t0
      /\ EpisodeLen \in Nat /\ length <= EpisodeLen
  BY <1>3, <1>4, Bounds
<1> HIDE DEF length, first
<1>7. /\ DOMAIN action = 1 .. EpisodeLen
      /\ \A i \in 1 .. EpisodeLen : action[i] = IF i <= length - first THEN first + i ELSE 0
  <2>1. first <= length /\ length - first <= EpisodeLen
    BY <1>6
  <2>. QED BY <1>6, <2>1, PaddedActions
<1> HIDE DEF action
<1>8. \A i \in 1 .. EpisodeLen : (i > length - first) <=> action[i] = 0
  BY <1>6, <1>7
<1>9. \A a \in t0 + 1 .. length : \E i \in 1 .. EpisodeLen : action[i] = a
  <2> TAKE a \in t0 + 1 .. length
  <2>1. a - first \in 1 .. EpisodeLen /\ a - first <= length - first /\ first + (a - first) = a
    BY <1>6
  <2>. QED BY <1>7, <2>1
<1>10. \A i \in 2 .. EpisodeLen : action[i] # 0 =>
           action[i - 1] # 0 /\ action[i] = action[i - 1] + 1
  <2> SUFFICES ASSUME NEW i \in 2 .. EpisodeLen, action[i] # 0
               PROVE  action[i - 1] # 0 /\ action[i] = action[i - 1] + 1
    OBVIOUS
  <2>1. i \in 1 .. EpisodeLen /\ i - 1 \in 1 .. EpisodeLen
    BY <1>6
  <2>2. i <= length - first /\ action[i] = first + i /\ action[i - 1] = first + (i - 1)
    BY <1>6, <1>7, <2>1
  <2>. QED BY <1>6, <2>1, <2>2
<1> QED BY <1>5, <1>7, <1>8, <1>9, <1>10 DEF length
-----------------------------------------------------------------------------
(* The theorems about Training *)

LEMMA RunInit ==
    ASSUME Init
    PROVE  RunInv
<1>0. /\ disk = <<>> /\ todo = <<>> /\ opened = FALSE /\ pc = "off" /\ resume = NoFile
      /\ split = NoSplit /\ weights = Untrained /\ epoch = 0 /\ start = 0 /\ minLoss = Inf
      /\ best = NoBest /\ kept = 0
  BY DEF Init
<1>1. DOMAIN disk = {}
  BY <1>0
<1>2. \A f : ~Whole(f)
  BY <1>1 DEF Whole
<1>3. DiskInv /\ TodoInv
  BY <1>1, <1>2 DEF Init, DiskInv, TodoInv
<1>4. TypeInv
  <2>1. 0 >= 0 /\ 0 \in Nat
    OBVIOUS
  <2>2. opened \in BOOLEAN
    BY <1>0
  <2>. QED BY <1>0, <2>1, <2>2, InitialTypes DEF TypeInv, Places
<1>5. SplitInv
  BY <1>2 DEF Init, SplitInv, Untrained
<1>6. ScoreInv /\ StatusInv
  BY <1>2 DEF Init, ScoreInv, BestWasValidated, StatusInv, StatusTrue, Fitting
<1>7. KeptInv
  <2>1. ~(kept > 0)
    BY <1>0
  <2>. QED BY <1>0, <2>1 DEF KeptInv
<1>8. DirInv
  <2>1. dir \in Begun /\ pc = "off" /\ qcClean = {}
    BY DEF Init
  <2> PICK n \in 0 .. MaxEpisodes : DOMAIN dir = 0 .. n - 1
    BY <2>1, TrainingAssumption
  <2>2. n \in Nat
    BY TrainingAssumption
  <2>3. \A id \in DOMAIN dir : dir[id] \in Range(dir)
    BY DEF Range
  <2>4. \A id \in DOMAIN dir : dir[id] \in Episodes \cup {Torn}
    BY <2>1, <2>3, TrainingAssumption
  <2>. QED BY <2>1, <2>2, <2>4 DEF DirInv
<1> QED BY <1>3, <1>4, <1>5, <1>6, <1>7, <1>8 DEF RunInv

LEMMA RunInvariant == Spec => []RunInv
<1>1. RunInv /\ [Next]_vars => RunInv'
  BY DiskStep, TypeStep, TodoStep, SplitStep, ScoreStep, StatusStep, KeptStep, DirStep DEF RunInv
<1> QED BY RunInit, <1>1, PTL DEF Spec

(***************************************************************************)
(* A run that goes on from a checkpoint never leaves the directory without *)
(* a whole checkpoint trained at least as long, for every period of saving *)
(* and wherever it is killed.                                              *)
(***************************************************************************)
THEOREM ResumeCorrect == Spec => []ResumedWorkSurvives
<1>1. RunInv => ResumedWorkSurvives
  BY HoldsSurvives DEF RunInv, KeptInv, TypeInv, ResumedWorkSurvives
<1> QED BY RunInvariant, <1>1, PTL

(***************************************************************************)
(* Over any sequence of runs on a growing directory, weights are never     *)
(* validated on an episode they were trained on.                           *)
(***************************************************************************)
THEOREM SplitCorrect == Spec => []ValidationHeldOut
<1>1. RunInv => ValidationHeldOut
  <2> SUFFICES ASSUME RunInv, split.train \cap split.val = {}
               PROVE  weights.seen \cap split.val = {}
    BY DEF ValidationHeldOut
  <2>1. CASE pc \in {"off", "load", "warm", "fit"}
    BY <2>1 DEF RunInv, SplitInv, Untrained
  <2>2. CASE pc \notin {"off", "load", "warm", "fit"}
    <3>1. TrainedOn = split.train
      BY <2>2 DEF RunInv, SplitInv, TrainedOn, SplitContent
    <3>2. weights.seen \subseteq split.train
      BY <3>1 DEF RunInv, SplitInv
    <3>. QED BY <3>2
  <2>. QED BY <2>1, <2>2
<1> QED BY RunInvariant, <1>1, PTL

(***************************************************************************)
(* run_metadata.json tells the truth about the directory, also while later *)
(* runs write and whenever one is killed.                                  *)
(***************************************************************************)
THEOREM StatusCorrect == Spec => []StatusTrue
<1>1. RunInv => StatusTrue
  BY DEF RunInv, StatusInv
<1> QED BY RunInvariant, <1>1, PTL

(***************************************************************************)
(* The weights in policy_best.ckpt are those that a validation scored with *)
(* the loss beside them.                                                   *)
(***************************************************************************)
THEOREM BestCorrect == Spec => []BestWasValidated
<1>1. RunInv => BestWasValidated
  BY DEF RunInv, ScoreInv
<1> QED BY RunInvariant, <1>1, PTL

(***************************************************************************)
(* load_data takes every episode whose report was clean, whatever else is  *)
(* in the directory and however files are added to it after the report.    *)
(***************************************************************************)
THEOREM QcCorrect == Spec => []QcPassedLoads
<1>1. RunInv => QcPassedLoads
  BY QcFact DEF RunInv
<1> QED BY RunInvariant, <1>1, PTL

(***************************************************************************)
(* Every item of every episode of a run teaches all the actions from its   *)
(* observation on, to the end, and masks exactly the rest.                 *)
(***************************************************************************)
THEOREM ItemsCorrect == Spec => []ItemsSound
<1>1. RunInv => ItemsSound
  BY ItemsFact DEF RunInv
<1> QED BY RunInvariant, <1>1, PTL
-----------------------------------------------------------------------------
(* The theorem about ActInference *)

(***************************************************************************)
(* The step count and the history agree; the chunk in use was predicted at *)
(* the last multiple of its length, in this episode; the table has a chunk *)
(* for every step so far and no other.                                     *)
(***************************************************************************)
Place == t % ChunkSize

ChunkInv ==
    /\ temporalAgg \in BOOLEAN /\ t \in Nat /\ steps = t
    /\ ~temporalAgg /\ Place # 0 => cached = [episode |-> episode, at |-> t - Place]
    /\ table.rows \in Nat
    /\ temporalAgg =>
         /\ table.rows = 0 => t = 0
         /\ DOMAIN table.row = 0 .. t - 1
         /\ \A i \in 0 .. t - 1 : table.row[i] = [episode |-> episode, at |-> i]
    /\ ChunksAligned

LEMMA MaxOfTwo ==
    ASSUME NEW a \in Int, NEW b \in Int
    PROVE  Max({a, b}) = IF a >= b THEN a ELSE b
<1> DEFINE m == IF a >= b THEN a ELSE b
<1>1. m \in {a, b} /\ \A y \in {a, b} : m >= y
  OBVIOUS
<1>2. Max({a, b}) \in {a, b} /\ \A y \in {a, b} : Max({a, b}) >= y
  BY <1>1 DEF Max
<1> QED BY <1>2

LEMMA Modulo ==
    ASSUME NEW x \in Nat, NEW n \in Nat \ {0}
    PROVE  /\ x % n \in 0 .. n - 1
           /\ (x + 1) % n # 0 => (x + 1) % n = (x % n) + 1
OBVIOUS

LEMMA Sizes == ChunkSize \in Nat \ {0} /\ MaxEpisodeLen \in Nat \ {0}
BY ActInferenceAssumption

\* Making the table, or making it larger, keeps its rows.
LEMMA AllocatedKeeps ==
    ASSUME ChunkInv, temporalAgg
    PROVE  /\ Allocated.rows \in Nat \ {0}
           /\ DOMAIN Allocated.row = 0 .. t - 1
           /\ \A i \in 0 .. t - 1 : Allocated.row[i] = table.row[i]
<1> DEFINE new == IF table.rows = 0
                    THEN [rows |-> Max({MaxEpisodeLen, t + ChunkSize}), row |-> <<>>]
                    ELSE table
<1>1. new.rows \in Nat \ {0}
  BY Sizes, MaxOfTwo DEF ChunkInv
<1>2. DOMAIN new.row = 0 .. t - 1 /\ \A i \in 0 .. t - 1 : new.row[i] = table.row[i]
  <2>1. CASE table.rows = 0
    <3>1. t = 0
      BY <2>1 DEF ChunkInv
    <3>2. new.row = <<>> /\ DOMAIN new.row = {} /\ 0 .. 0 - 1 = {}
      BY <2>1
    <3>. QED BY <3>1, <3>2
  <2>2. CASE table.rows # 0
    BY <2>2 DEF ChunkInv
  <2>. QED BY <2>1, <2>2
<1> DEFINE larger == Max({t + ChunkSize, 2 * new.rows})
<1>3. Allocated = IF t + ChunkSize > new.rows + ChunkSize THEN [new EXCEPT !.rows = larger] ELSE new
  BY DEF Allocated
<1>4. larger \in Nat \ {0}
  <2> HIDE DEF new
  <2>. QED BY <1>1, Sizes, MaxOfTwo DEF ChunkInv
<1>5. Allocated.row = new.row /\ Allocated.rows \in {larger, new.rows}
  <2>1. [new EXCEPT !.rows = larger].row = new.row
    OBVIOUS
  <2>2. [new EXCEPT !.rows = larger].rows \in {larger, new.rows}
    OBVIOUS
  <2> HIDE DEF new, larger
  <2>. QED BY <1>3, <2>1, <2>2
<1> HIDE DEF new, larger
<1> QED BY <1>1, <1>2, <1>4, <1>5

LEMMA ChunkStep ==
    ASSUME ChunkInv, [NextInference]_actVars
    PROVE  ChunkInv'
<1>1. CASE Reset
  BY <1>1, Sizes, Modulo DEF Reset, ChunkInv, ChunksAligned, NoTable, Place
<1>2. CASE PredictChunk
  <2> DEFINE chunk == [episode |-> episode, at |-> t - Place]
  <2>1. /\ ~temporalAgg /\ t \in Nat /\ steps = t /\ table.rows \in Nat
        /\ Place # 0 => cached = chunk
    BY <1>2 DEF PredictChunk, ChunkInv
  <2>2. /\ cached' = IF Place = 0 THEN [episode |-> episode, at |-> steps] ELSE cached
        /\ used' = {[chunk |-> cached', place |-> Place]}
        /\ t' = t + 1 /\ steps' = steps + 1 /\ UNCHANGED <<temporalAgg, table, episode>>
    BY <1>2 DEF PredictChunk, Place
  <2>3. Place \in Nat /\ (Place' # 0 => Place' = Place + 1)
    <3>1. Place = t % ChunkSize /\ Place' = (t + 1) % ChunkSize
      BY <2>2 DEF Place
    <3>2. t % ChunkSize \in 0 .. ChunkSize - 1
          /\ ((t + 1) % ChunkSize # 0 => (t + 1) % ChunkSize = (t % ChunkSize) + 1)
      BY <2>1, Sizes, Modulo
    <3>3. Place \in 0 .. ChunkSize - 1
      BY <3>1, <3>2, Zenon
    <3>4. Place' # 0 => Place' = Place + 1
      BY <3>1, <3>2, Zenon
    <3>. QED BY <3>3, <3>4, Sizes
  <2>4. cached' = chunk
    BY <2>1, <2>2, <2>3
  <2>5. \A u \in used' : u.chunk.episode = episode' /\ u.chunk.at + u.place = steps' - 1
    BY <2>1, <2>2, <2>3, <2>4
  <2>6. Place' # 0 => cached' = [episode |-> episode', at |-> t' - Place']
    <3>1. Place' # 0 => t' - Place' = t - Place
      BY <2>1, <2>2, <2>3
    <3>. QED BY <2>2, <2>4, <3>1
  <2>7. ~temporalAgg' /\ temporalAgg' \in BOOLEAN /\ t' \in Nat /\ steps' = t' /\ table'.rows \in Nat
    BY <1>2, <2>1, <2>2 DEF ChunkInv
  <2>8. ChunksAligned'
    BY <2>5, <2>7 DEF ChunksAligned
  <2>. QED BY <2>6, <2>7, <2>8 DEF ChunkInv
<1>3. CASE PredictAverage
  <2> DEFINE row == [i \in DOMAIN Allocated.row \cup {t} |->
                       IF i = t THEN [episode |-> episode, at |-> steps] ELSE Allocated.row[i]]
  <2>1. /\ temporalAgg /\ table' = [rows |-> Allocated.rows, row |-> row]
        /\ used' = {[chunk |-> row[i], place |-> t - i] : i \in Covering(row)}
        /\ t' = t + 1 /\ steps' = steps + 1 /\ UNCHANGED <<temporalAgg, cached, episode>>
    BY <1>3 DEF PredictAverage
  <2>2. /\ t \in Nat /\ steps = t
        /\ \A i \in 0 .. t - 1 : table.row[i] = [episode |-> episode, at |-> i]
    BY <2>1 DEF ChunkInv
  <2>3. /\ DOMAIN row = 0 .. t
        /\ \A i \in 0 .. t : row[i] = [episode |-> episode, at |-> i]
    <3>1. /\ DOMAIN Allocated.row = 0 .. t - 1
          /\ \A i \in 0 .. t - 1 : Allocated.row[i] = [episode |-> episode, at |-> i]
      BY <2>1, <2>2, AllocatedKeeps
    <3>2. (0 .. t - 1) \cup {t} = 0 .. t
      BY <2>2
    <3>. QED BY <2>2, <3>1, <3>2
  <2>4. Covering(row) = {i \in 0 .. t : t \in i .. i + ChunkSize - 1}
    BY <2>3 DEF Covering
  <2> HIDE DEF row
  <2>5. /\ table'.rows \in Nat \ {0} /\ table'.row = row /\ t' - 1 = t
    BY <2>1, <2>2, AllocatedKeeps
  <2>6. \A u \in used' : u.chunk.episode = episode' /\ u.chunk.at + u.place = steps' - 1
    BY <2>1, <2>2, <2>3, <2>4
  <2>7. {u.chunk.at : u \in used'} = Max({0, steps' - ChunkSize}) .. steps' - 1
    <3>1. {u.chunk.at : u \in used'} = Covering(row)
      <4>1. \A i \in Covering(row) : row[i].at = i
        BY <2>3, <2>4
      <4>2. \A i \in Covering(row) : [chunk |-> row[i], place |-> t - i] \in used'
        BY <2>1
      <4>3. \A u \in used' : \E i \in Covering(row) : u.chunk = row[i]
        BY <2>1
      <4>4. \A i \in Covering(row) : i \in {u.chunk.at : u \in used'}
        <5> TAKE i \in Covering(row)
        <5>1. [chunk |-> row[i], place |-> t - i].chunk.at = i
          BY <4>1
        <5>. QED BY <4>2, <5>1
      <4>5. \A u \in used' : u.chunk.at \in Covering(row)
        BY <4>1, <4>3
      <4>. QED BY <4>4, <4>5
    <3>2. Max({0, steps' - ChunkSize}) = IF 0 >= steps' - ChunkSize THEN 0 ELSE steps' - ChunkSize
      BY <2>1, <2>2, Sizes, MaxOfTwo
    <3>3. Covering(row) = Max({0, steps' - ChunkSize}) .. steps' - 1
      BY <2>1, <2>2, <2>4, <3>2, Sizes
    <3>. QED BY <3>1, <3>3
  <2>8. ChunksAligned'
    BY <2>1, <2>6, <2>7 DEF ChunksAligned
  <2>. QED BY <2>1, <2>2, <2>3, <2>5, <2>8 DEF ChunkInv
<1>4. CASE PredictBeyond
  BY <1>4, AllocatedKeeps DEF PredictBeyond, ChunkInv, ChunksAligned
<1>5. CASE UNCHANGED actVars
  BY <1>5 DEF actVars, ChunkInv, ChunksAligned, Place
<1> QED BY <1>1, <1>2, <1>3, <1>4, <1>5 DEF NextInference

(***************************************************************************)
(* Every action is made of predictions for its own step of its own         *)
(* episode; with aggregation every chunk that reaches the step counts.     *)
(***************************************************************************)
THEOREM ChunksCorrect == SpecInference => []ChunksAligned
<1>1. InitInference => ChunkInv
  BY Sizes, Modulo DEF InitInference, ChunkInv, ChunksAligned, NoTable, Place
<1>2. ChunkInv => ChunksAligned
  BY DEF ChunkInv
<1> QED BY <1>1, <1>2, ChunkStep, PTL DEF SpecInference
=============================================================================
