---------------------------- MODULE RecordSession ----------------------------
(***************************************************************************)
(* tb-record-real (testbed/testbed/cli/record_real.py) in a session over   *)
(* the bridge: the operator's action goes through ActionGuard, the backend *)
(* sends it and reads the next observation, the recorder keeps the pair,   *)
(* and what was recorded becomes an episode file.                          *)
(*                                                                         *)
(* Any request may fail: JsonTcpBridgeClient raises after its timeout, and *)
(* the bridge may carry the request out all the same, later.  The process  *)
(* may be interrupted (Ctrl+C), fail, or be killed, also while it writes a *)
(* file, and is started again on the same directory.                       *)
(*                                                                         *)
(* Data: an action is one axis in steps of the rate limit's unit, negative *)
(* for backwards; the guard treats the four axes alike and zeroes them     *)
(* together.  Of an observation the model keeps the step id, the e-stop    *)
(* bit of the status and whether the values in it are outdated; of a file  *)
(* who wrote it, whether it is complete and how many steps it has.         *)
(***************************************************************************)
EXTENDS Integers, Sequences, FiniteSetsExt

CONSTANTS Clip,         \* safety.action_clip
          Delta,        \* safety.max_delta_per_step
          Full,         \* the 1.0 that as_real_action clips to
          Reach,        \* the operator's device asks for -Reach .. Reach
          Outdated,     \* whether the joint values of an observation may be older
                        \* than safety.sensor_timeout_s: {FALSE} or BOOLEAN
          MaxSteps,     \* task.max_steps
          NumEpisodes,  \* teleop.num_episodes
          Leftover,     \* an episode that is in the directory from before, or none is
          MaxSessions   \* bound: times the program is started

ASSUME RecordSessionAssumption ==
    /\ Clip \in Nat /\ Delta \in Nat /\ Full \in Nat /\ Clip <= Full
    /\ Reach \in Nat /\ Outdated \subseteq BOOLEAN /\ Leftover \in Nat
    /\ MaxSteps \in Nat /\ NumEpisodes \in Nat /\ MaxSessions \in Nat

VARIABLES
    pc,        \* where main() is
    index,     \* episode_idx
    saved,     \* how many episodes this session has saved
    abort,     \* abort
    discard,   \* discard
    rows,      \* the recorder's buffers
    obs,       \* ts.observation
    stepId,    \* _step_id of the backend
    last,      \* _last_action of the guard, which check() returns
    files,     \* the episode files in the directory
    wire,      \* action requests the bridge has not handled yet
    linked,    \* the client is connected
    force,     \* the newest command of the bridge
    bridged,   \* history: what the bridge has handled on this connection since the reset
    cut,       \* history: the watchdog has struck since the last of them
    estop,     \* the e-stop bit of the published status
    overrun,   \* history: actions handled since then that still moved
    sessions   \* history: how often the program has been started

episodeVars == <<index, saved, discard, rows>>
stepVars == <<obs, stepId, last>>
bridgeVars == <<wire, linked, force, bridged, cut>>
plantVars == <<estop, overrun>>
vars == <<pc, abort, files, sessions, episodeVars, stepVars, bridgeVars, plantVars>>

NoObservation == [id |-> 0, estop |-> FALSE, outdated |-> FALSE]
Torn(session) == [by |-> session, done |-> FALSE, steps |-> 0]
Complete(session, steps) == [by |-> session, done |-> TRUE, steps |-> steps]

Init == /\ pc = "off" /\ index = 0 /\ saved = 0 /\ abort = FALSE /\ discard = FALSE
        /\ rows = <<>> /\ stepId = 0 /\ last = 0 /\ obs = NoObservation
        /\ \E L \in {{}, {Leftover}} : files = [i \in L |-> Torn(0)]
        /\ wire = <<>> /\ linked = FALSE /\ force = 0 /\ bridged = <<>> /\ cut = FALSE
        /\ estop = FALSE /\ overrun = 0 /\ sessions = 0
-----------------------------------------------------------------------------
(* ActionGuard *)

Clamp(v, low, high) == IF v < low THEN low ELSE IF v > high THEN high ELSE v

\* check: clip, rate limit against the guard's own last output, then the
\* reasons to stop.  late: the observation's time stamp is too old.
Guarded(raw, late) ==
    IF obs.estop \/ late
      THEN 0
      ELSE Clamp(Clamp(raw, -Clip, Clip), last - Delta, last + Delta)

\* as_real_action, on the way to the bridge.
Commanded(a) == Clamp(a, -Full, Full)
-----------------------------------------------------------------------------
(* The session *)

\* Mutation of NextIndex: the number of files there are.
NextIndexCounts(dir) == Cardinality(DOMAIN dir)

\* _next_episode_idx
NextIndex(dir) == IF DOMAIN dir = {} THEN 0 ELSE Max(DOMAIN dir) + 1

\* main(), up to the loop over the episodes.
StartSession ==
    /\ pc = "off" /\ sessions < MaxSessions
    /\ sessions' = sessions + 1
    /\ index' = NextIndex(files)
    /\ pc' = "episodes"
    /\ UNCHANGED <<files, abort, saved, discard, rows, stepVars, bridgeVars, plantVars>>

\* Mutation of NextEpisode: the outer loop does not look at abort.
NextEpisodeUnlessDone ==
    /\ pc = "episodes"
    /\ IF saved < NumEpisodes
         THEN pc' = "start" /\ rows' = <<>>
         ELSE pc' = "finished" /\ UNCHANGED rows
    /\ UNCHANGED <<abort, files, sessions, index, saved, discard, stepVars, bridgeVars,
                   plantVars>>

\* Mutation of NextEpisode: the recorder is reused as it is.
NextEpisodeSameRecorder ==
    /\ pc = "episodes"
    /\ pc' = IF saved < NumEpisodes /\ ~abort THEN "start" ELSE "finished"
    /\ UNCHANGED <<abort, files, sessions, episodeVars, stepVars, bridgeVars, plantVars>>

\* The loop over the episodes; each has a new recorder.
NextEpisode ==
    /\ pc = "episodes"
    /\ IF saved < NumEpisodes /\ ~abort
         THEN pc' = "start" /\ rows' = <<>>
         ELSE pc' = "finished" /\ UNCHANGED rows
    /\ UNCHANGED <<abort, files, sessions, index, saved, discard, stepVars, bridgeVars,
                   plantVars>>

\* start_episode: the client connects, and the bridge zeroes the machine.  It
\* serves one client at a time, what an earlier one has sent comes first.
ResetBridge ==
    /\ pc = "start" /\ wire = <<>>
    /\ pc' = "first" /\ stepId' = 0
    /\ linked' = TRUE /\ force' = 0 /\ bridged' = <<>> /\ cut' = FALSE
    /\ UNCHANGED <<abort, files, sessions, episodeVars, obs, last, wire, plantVars>>

\* read_state: the bridge stamps every sample with the time of the request.
Observations(id) == [id : {id}, estop : {estop}, outdated : Outdated]

\* Mutation of FirstObservation: the guard is not reset.
FirstObservationKeepsGuard ==
    /\ pc = "first"
    /\ pc' = "loop" /\ discard' = FALSE
    /\ obs' \in Observations(stepId)
    /\ UNCHANGED <<abort, files, sessions, index, saved, rows, stepId, last, bridgeVars,
                   plantVars>>

\* The first read_state, and the resets that follow it.
FirstObservation ==
    /\ pc = "first"
    /\ pc' = "loop" /\ discard' = FALSE
    /\ obs' \in Observations(stepId) /\ last' = 0
    /\ UNCHANGED <<abort, files, sessions, index, saved, rows, stepId, bridgeVars,
                   plantVars>>

\* The loop over the steps: each turn that stays in it records one row.
Over == Len(rows) >= MaxSteps \/ abort

LeaveLoop ==
    /\ pc = "loop" /\ Over
    /\ pc' = "after"
    /\ UNCHANGED <<abort, files, sessions, episodeVars, stepVars, bridgeVars, plantVars>>

\* The window is closed, or the quit key or button is pressed.
Quit ==
    /\ pc = "loop" /\ ~Over
    /\ pc' = "after" /\ abort' = TRUE
    /\ UNCHANGED <<files, sessions, episodeVars, stepVars, bridgeVars, plantVars>>

\* The discard key, or the reset or discard button.
Discard ==
    /\ pc = "loop" /\ ~Over
    /\ pc' = "after" /\ discard' = TRUE
    /\ UNCHANGED <<abort, files, sessions, index, saved, rows, stepVars, bridgeVars,
                   plantVars>>

\* next_action and guard.check.
CheckAction ==
    /\ pc = "loop" /\ ~Over
    /\ \E raw \in -Reach .. Reach, late \in BOOLEAN : last' = Guarded(raw, late)
    /\ pc' = "send"
    /\ UNCHANGED <<abort, files, sessions, episodeVars, obs, stepId, bridgeVars, plantVars>>

SendAction ==
    /\ pc = "send"
    /\ wire' = Append(wire, Commanded(last))
    /\ pc' = "sent"
    /\ UNCHANGED <<abort, files, sessions, episodeVars, stepVars, linked, force, bridged, cut,
                   plantVars>>

ReadReply ==
    /\ pc = "sent" /\ wire = <<>>
    /\ stepId' = stepId + 1
    /\ pc' = "read"
    /\ UNCHANGED <<abort, files, sessions, episodeVars, obs, last, bridgeVars, plantVars>>

Row(o) == [id |-> o.id, estop |-> o.estop, act |-> last]

\* Mutation of Record: the action is stored with the observation after it.
RecordNext ==
    /\ pc = "read"
    /\ obs' \in Observations(stepId)
    /\ rows' = Append(rows, Row(obs'))
    /\ pc' = "loop"
    /\ UNCHANGED <<abort, files, sessions, index, saved, discard, stepId, last, bridgeVars,
                   plantVars>>

\* Mutation of Record: ts = ts_next is missing.
RecordSameObservation ==
    /\ pc = "read"
    /\ rows' = Append(rows, Row(obs))
    /\ pc' = "loop"
    /\ UNCHANGED <<abort, files, sessions, index, saved, discard, stepVars, bridgeVars,
                   plantVars>>

\* step returns the next observation, record keeps the one before.
Record ==
    /\ pc = "read"
    /\ obs' \in Observations(stepId)
    /\ rows' = Append(rows, Row(obs))
    /\ pc' = "loop"
    /\ UNCHANGED <<abort, files, sessions, index, saved, discard, stepId, last, bridgeVars,
                   plantVars>>

\* Mutation of Keep: an aborted episode is not saved.
KeepUnlessAborted == ~discard /\ rows # <<>> /\ ~abort

Keep == ~discard /\ rows # <<>>

\* After the steps: recorder.save opens the file, which empties it.
EndEpisode ==
    /\ pc = "after"
    /\ IF Keep
         THEN /\ pc' = "saving"
              /\ files' = [i \in DOMAIN files \cup {index} |->
                              IF i = index THEN Torn(sessions) ELSE files[i]]
         ELSE pc' = "episodes" /\ UNCHANGED files
    /\ UNCHANGED <<abort, sessions, episodeVars, stepVars, bridgeVars, plantVars>>

Save ==
    /\ pc = "saving"
    /\ files' = [files EXCEPT ![index] = Complete(sessions, Len(rows))]
    /\ saved' = saved + 1 /\ index' = index + 1
    /\ pc' = "episodes"
    /\ UNCHANGED <<abort, sessions, discard, rows, stepVars, bridgeVars, plantVars>>

\* A request times out or is refused, or the file cannot be written: the
\* exception leaves all loops.
Raise ==
    /\ pc \in {"start", "first", "send", "sent", "read", "saving"}
    /\ pc' = "raised"
    /\ UNCHANGED <<abort, files, sessions, episodeVars, stepVars, bridgeVars, plantVars>>

\* The process ends, and with it its memory and its connection.
EndProcess ==
    /\ pc' = "off" /\ linked' = FALSE /\ bridged' = <<>>
    /\ index' = 0 /\ saved' = 0 /\ abort' = FALSE /\ discard' = FALSE /\ rows' = <<>>
    /\ obs' = NoObservation /\ stepId' = 0 /\ last' = 0
    /\ UNCHANGED <<files, sessions, wire, force, cut, plantVars>>

\* finally: backend.close.
CloseSession == pc \in {"finished", "raised"} /\ EndProcess

Program == \/ NextEpisode \/ ResetBridge \/ FirstObservation \/ LeaveLoop \/ Quit \/ Discard
           \/ CheckAction \/ SendAction \/ ReadReply \/ Record \/ EndEpisode \/ Save
           \/ Raise \/ CloseSession

\* Ctrl+C: the handler only sets the flag, whatever main() is doing.
Interrupt ==
    /\ pc # "off" /\ ~abort
    /\ abort' = TRUE
    /\ UNCHANGED <<pc, files, sessions, episodeVars, stepVars, bridgeVars, plantVars>>

Kill == pc # "off" /\ EndProcess
-----------------------------------------------------------------------------
(* The bridge (module Bridge) and the machine *)

\* handleSendAction, be it after the client has given up.
Handle ==
    /\ wire # <<>>
    /\ wire' = Tail(wire)
    /\ force' = Head(wire) /\ cut' = FALSE
    /\ bridged' = IF linked THEN Append(bridged, Head(wire)) ELSE bridged
    /\ overrun' = IF estop /\ Head(wire) # 0 THEN overrun + 1 ELSE overrun
    /\ UNCHANGED <<pc, abort, files, sessions, episodeVars, stepVars, linked, estop>>

\* The connection breaks before the bridge has read the request.
Lose ==
    /\ wire # <<>> /\ ~linked
    /\ wire' = <<>>
    /\ UNCHANGED <<pc, abort, files, sessions, episodeVars, stepVars, linked, force, bridged,
                   cut, plantVars>>

\* checkWatchdog: a connected client has been silent for too long.
Watchdog ==
    /\ linked /\ force # 0
    /\ force' = 0 /\ cut' = TRUE
    /\ UNCHANGED <<pc, abort, files, sessions, episodeVars, stepVars, wire, linked, bridged,
                   plantVars>>

Estop ==
    /\ estop' = ~estop /\ overrun' = 0
    /\ UNCHANGED <<pc, abort, files, sessions, episodeVars, stepVars, bridgeVars>>

Next == \/ StartSession \/ Program \/ Interrupt \/ Kill
        \/ Handle \/ Lose \/ Watchdog \/ Estop

Spec == Init /\ [][Next]_vars

\* The program runs; a request that is not answered ends in its timeout.
FairSpec == Spec /\ WF_vars(Program)
-----------------------------------------------------------------------------
(* Properties *)

RowActions == [k \in DOMAIN rows |-> rows[k].act]

\* What the recorder has is what the bridge was given since the reset, action
\* by action, neither fewer nor more (main, RealExcavatorBackend.step).
RecordIsWhatWasDone ==
    /\ pc \in {"loop", "send", "after", "saving"} => bridged = RowActions
    /\ pc = "read" => bridged = Append(RowActions, last)

\* What goes into a file are the steps 0, 1, 2, ... of one episode, each action
\* with the observation it answers: none moves the machine in spite of the
\* e-stop (step_id of the backend, main, EpisodeRecorder.record).
EpisodesSound ==
    \A k \in DOMAIN rows :
        /\ rows[k].id = k - 1
        /\ rows[k].estop => rows[k].act = 0

\* No file is ever written again, complete or not, by this session or a later
\* one, save the one being written (_next_episode_idx, recorder.save).
FilesStay ==
    [][\A i \in DOMAIN files :
           /\ i \in DOMAIN files'
           /\ files'[i] = files[i] \/ (i = index /\ pc = "saving")]_vars

\* However the loops are left without an exception, an episode with data that
\* was not discarded is on disk (main, after the loop over the steps).
EndedMeansSaved ==
    pc \in {"episodes", "finished"} /\ rows # <<>> /\ ~discard =>
        /\ index - 1 \in DOMAIN files
        /\ files[index - 1] = Complete(sessions, Len(rows))

Distance(a, b) == IF a > b THEN a - b ELSE b - a

\* The rate limit reaches the machine, over the ends of episodes and sessions
\* and with requests that arrive late: its command changes by at most Delta, to
\* zero, or after the watchdog has cut it (ActionGuard.reset, start_episode).
CommandChangesGently ==
    [][force' # force => force' = 0 \/ cut \/ Distance(force, force') <= Delta]_vars

\* Once the e-stop is published, at most one more action moves the machine.
EstopStopsMachine == overrun <= 1

\* Ctrl+C, or quitting, ends the session, whatever the bridge does.
AbortEnds == abort ~> pc = "off"

\* What testbed/docs/realworld_v1_plan.md:65 says: a sensor age above the timeout
\* forces a zero action.
OutdatedForcesZero == [][pc = "loop" /\ pc' = "send" /\ obs.outdated => last' = 0]_vars
=============================================================================
