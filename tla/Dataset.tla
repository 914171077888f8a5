------------------------------ MODULE Dataset ------------------------------
(***************************************************************************)
(* The episode files: what EpisodeRecorder and write_episode make of the   *)
(* steps of an episode (data/recorder.py, data/hdf5_io.py), what           *)
(* tb-dataset-qc says of a file (data/qc.py), which files load_data takes, *)
(* how it divides them into training and validation episodes, and the      *)
(* items EpisodicDataset draws from one (data/dataset.py).                 *)
(*                                                                         *)
(* Data: of a file the model keeps the lengths and widths of its arrays    *)
(* and, as truth values, what quality control asks of its attributes.  The *)
(* actions of an episode are numbered from 1; 0 is the padding.            *)
(***************************************************************************)
EXTENDS Integers, FiniteSetsExt, SequencesExt

Axes == 4

\* A file whose writing was cut short: h5py cannot open it.
Torn == [whole |-> FALSE]

\* A file that can be read: as many frames and environment states as there are.
Episodes == [whole : {TRUE}, length : Nat, rows : Nat, frames : Nat, env : Nat, ns : BOOLEAN,
             rising : BOOLEAN, real : BOOLEAN, axes : [action : Nat, qpos : Nat, qvel : Nat],
             platform : BOOLEAN, hydraulic : BOOLEAN, units : BOOLEAN, diagnosed : BOOLEAN,
             finite : BOOLEAN]

\* What the recorder is given at one step: whether the camera's picture and the
\* environment state are among the observations, and whether the clock was read.
Steps == [image : BOOLEAN, env : BOOLEAN, ns : BOOLEAN]

\* record and save: actions and joint values are kept at every step, a picture or
\* an environment state only when there is one; step_ns is left out when all are 0.
\* The metadata and diagnostics are those tb-record-real gives.
Recorded(steps) ==
    [whole |-> TRUE, length |-> Len(steps), rows |-> Len(steps),
     frames |-> Cardinality({i \in DOMAIN steps : steps[i].image}),
     env |-> Cardinality({i \in DOMAIN steps : steps[i].env}),
     ns |-> \E i \in DOMAIN steps : steps[i].ns,
     rising |-> TRUE, real |-> TRUE, axes |-> [action |-> Axes, qpos |-> Axes, qvel |-> Axes],
     platform |-> TRUE, hydraulic |-> FALSE, units |-> TRUE, diagnosed |-> TRUE,
     finite |-> TRUE]
-----------------------------------------------------------------------------
(* Quality control *)

\* read_episode: what is there is read, what is missing is left out, but for the
\* actions and joint values.
Readable(ep) == ep.whole

MisShaped(ep) ==
    \/ ep.rows # ep.length
    \/ ep.env > 0 /\ ep.env # ep.length

\* Mutation of OffContract: the joint values are not looked at.
OffContractActionOnly(ep) == ep.axes.action # Axes

\* real_contract_ok: four columns each
OffContract(ep) == \E array \in DOMAIN ep.axes : ep.axes[array] # Axes

\* The warnings of run_dataset_qc for one file.
Warnings(ep, short) ==
    IF ~Readable(ep)
      THEN {"unreadable_episode"}
      ELSE {w \in {"short_episode", "missing_images", "missing_step_ns",
                   "non_monotonic_step_id", "shape_mismatch",
                   "real_contract_shape_mismatch", "real_metadata_mismatch",
                   "hydraulic_cylinder_marked_available", "real_units_mismatch",
                   "real_diagnostics_missing", "nan_or_inf"} :
              \/ w = "short_episode" /\ ep.length < short
              \/ w = "missing_images" /\ ep.frames = 0
              \/ w = "missing_step_ns" /\ ~ep.ns
              \/ w = "non_monotonic_step_id" /\ ~ep.rising
              \/ w = "shape_mismatch" /\ MisShaped(ep)
              \/ w = "real_contract_shape_mismatch" /\ OffContract(ep)
              \/ w = "real_metadata_mismatch" /\ ~(ep.real /\ ep.platform)
              \/ w = "hydraulic_cylinder_marked_available" /\ ep.hydraulic
              \/ w = "real_units_mismatch" /\ ~ep.units
              \/ w = "real_diagnostics_missing" /\ ~ep.diagnosed
              \/ w = "nan_or_inf" /\ ~ep.finite}

\* run_dataset_qc raises when there is no file, or none can be read; otherwise it
\* writes one row per file.
Reportable(dir) == \E id \in DOMAIN dir : Readable(dir[id])
Report(dir, short) == [id \in DOMAIN dir |-> Warnings(dir[id], short)]
-----------------------------------------------------------------------------
(* load_data *)

\* The episodes asked for, and those of them whose actions have one column per
\* recorded joint.
Listed(dir, number) == {id \in DOMAIN dir : id < number}
Available(dir, number) ==
    {id \in Listed(dir, number) : dir[id].axes.action = dir[id].axes.qpos}

\* get_norm_stats: means and deviations over all episodes, those for validation too.
NormStats(ids) == [whole |-> TRUE, ids |-> ids]

\* Why load_data raises before it divides the episodes, or "none".
LoadError(dir, number, episodeLen) ==
    IF Listed(dir, number) = {} THEN "no episodes"
    ELSE IF \E id \in Listed(dir, number) : ~dir[id].whole THEN "unreadable"
    ELSE IF Available(dir, number) = {} THEN "no valid episodes"
    ELSE IF \E id \in Available(dir, number) : dir[id].length > episodeLen THEN "too long"
    ELSE "none"

\* int(round(ratio * n)), ratio in percent, a half to the even neighbour; at least
\* one episode on each side.
Rounded(percent, n) ==
    LET whole == (percent * n) \div 100
        rest == (percent * n) % 100
    IN  IF rest > 50 \/ (rest = 50 /\ whole % 2 = 1) THEN whole + 1 ELSE whole
TrainSize(percent, n) == Min({Max({Rounded(percent, n), 1}), n - 1})

\* _generate_episode_split: the seed decides which; a single episode is on both sides.
Splits(ids, percent) ==
    IF Cardinality(ids) = 1
      THEN {[train |-> ids, val |-> ids]}
      ELSE {[train |-> t, val |-> ids \ t] :
              t \in kSubset(TrainSize(percent, Cardinality(ids)), ids)}

\* _validate_saved_split
SplitFits(split, ids) ==
    split.train # {} /\ split.val # {} /\ split.train \cup split.val \subseteq ids
-----------------------------------------------------------------------------
(* EpisodicDataset.__getitem__ *)

\* h5py raises for an observation that is not there.
Drawable(ep, t0) == t0 < ep.rows /\ t0 < ep.frames

Padded(actions, n) == actions \o [i \in 1 .. n - Len(actions) |-> 0]

\* The action that goes first: in a recording of the real machine the one before.
First(ep, t0) == IF ep.real THEN Max({0, t0 - 1}) ELSE t0

\* Mutation of Item: the length is that of the documentation.
ItemByObservation(ep, t0, targetLen) ==
    LET start == First(ep, t0)
        action == [i \in 1 .. ep.length - start |-> start + i]
        n == ep.length - t0
    IN  [obs |-> t0, action |-> Padded(SubSeq(action, 1, n), targetLen),
         isPad |-> [i \in 1 .. targetLen |-> i > n]]

\* The observation of step t0 (from 0) with the actions to the end of the episode,
\* padded to the length of the data set.
Item(ep, t0, targetLen) ==
    LET start == First(ep, t0)
        action == [i \in 1 .. ep.length - start |-> start + i]
    IN  [obs |-> t0, action |-> Padded(action, targetLen),
         isPad |-> [i \in 1 .. targetLen |-> i > ep.length - start]]
=============================================================================
