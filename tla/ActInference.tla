---------------------------- MODULE ActInference ----------------------------
(***************************************************************************)
(* ACTAdapter at inference (policies/act/adapter.py): predict asks the     *)
(* network for a chunk of the next ChunkSize actions and takes one action  *)
(* of it, or averages what all the chunks so far say of the present step.  *)
(* reset begins a new episode.                                             *)
(*                                                                         *)
(* Data: a chunk is known by the episode and the step it was predicted at; *)
(* an action by its chunk and its place in it.  No prediction is exactly   *)
(* zero, _aggregate would take it for a place nobody has filled.           *)
(***************************************************************************)
EXTENDS Integers, FiniteSetsExt

CONSTANTS ChunkSize,       \* num_queries
          MaxEpisodeLen,   \* max_episode_len; bound: steps of an episode
          MaxInferences    \* bound: episodes

ASSUME ActInferenceAssumption ==
    {ChunkSize, MaxEpisodeLen, MaxInferences} \subseteq Nat \ {0}

VARIABLES
    temporalAgg,   \* temporal_agg
    t,             \* _t
    cached,        \* _cached_actions: the chunk in use
    table,         \* _all_time_actions: its filled rows, a chunk each; or none
    episode,       \* history: the episode
    steps,         \* history: the actions given in it
    used           \* history: what the newest action was made of

actVars == <<temporalAgg, t, cached, table, episode, steps, used>>

NoTable == [rows |-> 0, row |-> <<>>]

InitInference ==
    /\ temporalAgg \in BOOLEAN
    /\ t = 0 /\ cached = [episode |-> 0, at |-> 0] /\ table = NoTable
    /\ episode = 0 /\ steps = 0 /\ used = {}

\* Mutation of Reset: _t goes on.
ResetKeepsTime ==
    /\ episode < MaxInferences
    /\ table' = NoTable
    /\ episode' = episode + 1 /\ steps' = 0 /\ used' = {}
    /\ UNCHANGED <<temporalAgg, t, cached>>

\* reset: the cached chunk stays, its first use is preceded by a new one.
Reset ==
    /\ episode < MaxInferences
    /\ t' = 0 /\ table' = NoTable
    /\ episode' = episode + 1 /\ steps' = 0 /\ used' = {}
    /\ UNCHANGED <<temporalAgg, cached>>

\* predict without aggregation: one chunk after the other.
PredictChunk ==
    /\ ~temporalAgg /\ steps <= MaxEpisodeLen
    /\ cached' = IF t % ChunkSize = 0 THEN [episode |-> episode, at |-> steps] ELSE cached
    /\ used' = {[chunk |-> cached', place |-> t % ChunkSize]}
    /\ t' = t + 1 /\ steps' = steps + 1
    /\ UNCHANGED <<temporalAgg, table, episode>>

\* The table is made for max_episode_len steps at the first call; it has ChunkSize
\* columns more than rows and is made larger when the columns do not suffice.
Allocated ==
    LET new == IF table.rows = 0
                 THEN [rows |-> Max({MaxEpisodeLen, t + ChunkSize}), row |-> <<>>]
                 ELSE table
    IN  IF t + ChunkSize > new.rows + ChunkSize
          THEN [new EXCEPT !.rows = Max({t + ChunkSize, 2 * new.rows})]
          ELSE new

\* The rows whose chunk covers step t, the others being zero there.
Covering(rows) == {i \in DOMAIN rows : t \in i .. i + ChunkSize - 1}

\* predict with aggregation.
PredictAverage ==
    /\ temporalAgg /\ t < Allocated.rows
    /\ LET row == [i \in DOMAIN Allocated.row \cup {t} |->
                     IF i = t THEN [episode |-> episode, at |-> steps]
                              ELSE Allocated.row[i]]
       IN  /\ table' = [rows |-> Allocated.rows, row |-> row]
           /\ used' = {[chunk |-> row[i], place |-> t - i] : i \in Covering(row)}
    /\ t' = t + 1 /\ steps' = steps + 1
    /\ UNCHANGED <<temporalAgg, cached, episode>>

\* The step after the last row: the columns still suffice, the table is not made
\* larger, and the index is out of range.  From here on every predict raises.
PredictBeyond ==
    /\ temporalAgg /\ t >= Allocated.rows
    /\ table' = Allocated
    /\ used' = {}
    /\ UNCHANGED <<temporalAgg, t, cached, episode, steps>>

NextInference == Reset \/ PredictChunk \/ PredictAverage \/ PredictBeyond

SpecInference == InitInference /\ [][NextInference]_actVars
-----------------------------------------------------------------------------
(***************************************************************************)
(* The action given at step n of an episode is made of predictions for     *)
(* step n of this very episode: the place in the chunk is how long ago it  *)
(* was predicted, no chunk of an earlier episode is left, and with         *)
(* aggregation every chunk that reaches step n has its say.                *)
(***************************************************************************)
ChunksAligned ==
    /\ \A u \in used : u.chunk.episode = episode /\ u.chunk.at + u.place = steps - 1
    /\ temporalAgg /\ used # {} =>
         {u.chunk.at : u \in used} = Max({0, steps - ChunkSize}) .. steps - 1
=============================================================================
