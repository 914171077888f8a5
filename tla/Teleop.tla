-------------------------------- MODULE Teleop --------------------------------
(***************************************************************************)
(* The operator's end of tb-record-real: the action sources of testbed/    *)
(* testbed/actions (gamepad with its response smoothing, keyboard, OEM     *)
(* remote), and how the loop over the steps polls them, hands the action   *)
(* to the guard, and lets keys and buttons end an episode or the session.  *)
(* RecordSession models what happens to the action afterwards.             *)
(*                                                                         *)
(* Data: one axis, in units of Full, the lever of the gamepad in units of  *)
(* Travel; a configured device number may stand for a device that is not   *)
(* connected.  Of a row the model keeps the buttons that were down when it *)
(* was polled.                                                             *)
(***************************************************************************)
EXTENDS RealAction, Sequences

CONSTANTS Travel, Deadzone,           \* of the lever
          Attack, Release, Recenter,  \* response_profile.*_rate, per control period
          ScaleNum, ScaleDen,         \* joystick.scale
          SourceClip,                 \* joystick.clip
          KeySpeed,                   \* keyboard.key_speed
          Clip, Delta,                \* safety.action_clip, safety.max_delta_per_step
          Ids,                        \* joystick_ids
          Buttons,                    \* those configured, of reset, discard, quit
          MaxLag,                     \* bound: a step takes 1 .. MaxLag control periods
          MaxSteps,                   \* task.max_steps
          NumEpisodes                 \* teleop.num_episodes

ASSUME TeleopAssumption ==
    /\ {Travel, Deadzone, SourceClip, KeySpeed, Clip, MaxLag, MaxSteps, NumEpisodes} \subseteq Nat
    /\ {Attack, Release, Recenter, Delta, ScaleNum, ScaleDen} \subseteq Nat \ {0}
    /\ Deadzone < Travel /\ Ids \subseteq Nat
    /\ Buttons \subseteq {"reset", "discard", "quit"}

VARIABLES
    input,     \* teleop.input; an OEM remote may have no reader (stub)
    profile,   \* response_profile: none, or the dt it uses
    devices,   \* joysticks that pygame found
    pc,        \* where main() is
    abort,     \* abort
    saved,     \* saved
    rows,      \* the recorder's buffers
    current,   \* _current of the smoother
    pressed,   \* the keys of _button_states that are True
    last,      \* _last_action of the guard
    still      \* history: polls since the operator asked for a movement

sessionVars == <<abort, saved>>
deviceVars == <<input, profile, devices>>
sourceVars == <<current, pressed>>
teleopVars == <<deviceVars, pc, sessionVars, rows, sourceVars, last, still>>

\* An OEM remote without a reader must have been allowed.
Inputs == {"joystick", "keyboard", "oem_remote", "oem_stub", "zero"}
Profiles == {"none", "fixed", "measured"}

\* The devices are opened when the source is built.
InitTeleop ==
    /\ input \in Inputs
    /\ profile \in IF input = "joystick" THEN Profiles ELSE {"none"}
    /\ devices \in IF input = "joystick" THEN 0 .. 2 ELSE {0}
    /\ pc = "episodes" /\ abort = FALSE /\ saved = 0 /\ rows = <<>>
    /\ current = 0 /\ pressed = {} /\ last = 0 /\ still = 0
-----------------------------------------------------------------------------
(* AxisResponseProfile *)

\* remap, with exponent 1: nothing in the dead zone, and from there to the full
\* command at the end of the travel.
Remap(lever) ==
    IF Magnitude(lever) <= Deadzone THEN 0
    ELSE Proportion(lever - SignOf(lever) * Deadzone, Full, Travel - Deadzone)

Rate(target, from) ==
    IF target = 0 THEN Recenter
    ELSE IF Magnitude(target) > Magnitude(from) THEN Attack ELSE Release

\* Mutation of MoveTowards: a whole step, however near the target is.
MoveTowardsByStep(from, target, maxDelta) == from + SignOf(target - from) * maxDelta

MoveTowards(from, target, maxDelta) == Clamp(target, from - maxDelta, from + maxDelta)

\* apply, of an axis
Smoothed(lever, from, dt) ==
    MoveTowards(from, Remap(lever), Rate(Remap(lever), from) * dt)

\* _resolve_dt: measured or not, the first step after a reset has the default.
StepTimes == IF profile = "measured" /\ rows # <<>> THEN 1 .. MaxLag ELSE {1}

Scaled(v) == Clamp(Proportion(v, ScaleNum, ScaleDen), -SourceClip, SourceClip)
-----------------------------------------------------------------------------
(* Buttons *)

\* _init_pygame: a device number that does not exist means the first device.
Actual(id) == IF id < devices THEN id ELSE 0

Down(held) == {key \in Ids \X Buttons : devices > 0 /\ <<Actual(key[1]), key[2]>> \in held}

\* _button_edge: any of the devices, under its configured number.
Edges(held) == {key[2] : key \in Down(held) \ pressed}

\* _action_control_flags: the remote's reader may set the flags as well.
Requests(held) ==
    CASE input = "joystick" -> Edges(held)
      [] input = "oem_remote" -> {h[2] : h \in held}
      [] OTHER -> {}

\* The sets of buttons that can be down on the devices there are.
HeldSets == IF input = "oem_remote" THEN SUBSET ({0} \X Buttons)
            ELSE SUBSET ((0 .. devices - 1) \X Buttons)
-----------------------------------------------------------------------------
(* The loop over the episodes *)

\* Mutation of ResetSource: the states of the buttons stay.
ResetSourceKeepsStates == current' = 0 /\ UNCHANGED pressed

\* reset, which does more for a gamepad than its comment says.
ResetSource == current' = 0 /\ pressed' = {}

\* A new recorder, action_source.reset and guard.reset.
BeginEpisode ==
    /\ pc = "episodes" /\ saved < NumEpisodes /\ ~abort
    /\ pc' = "loop" /\ rows' = <<>> /\ last' = 0 /\ still' = 0
    /\ ResetSource
    /\ UNCHANGED <<deviceVars, sessionVars>>

EndSession ==
    /\ pc = "episodes" /\ (saved >= NumEpisodes \/ abort)
    /\ pc' = "ended"
    /\ UNCHANGED <<deviceVars, sessionVars, rows, sourceVars, last, still>>

\* Ctrl+C
Interrupt ==
    /\ pc # "ended" /\ ~abort
    /\ abort' = TRUE
    /\ UNCHANGED <<deviceVars, pc, saved, rows, sourceVars, last, still>>

Over == Len(rows) >= MaxSteps \/ abort

LeaveLoop ==
    /\ pc = "loop" /\ Over
    /\ pc' = "after"
    /\ UNCHANGED <<deviceVars, sessionVars, rows, sourceVars, last, still>>

\* _check_pygame_events: closing the window, then Q, then D.
SeeWindow ==
    /\ pc = "loop" /\ ~Over /\ input # "zero"
    /\ \/ pc' = "after" /\ abort' = TRUE
       \/ pc' = "discarded" /\ UNCHANGED abort
    /\ UNCHANGED <<deviceVars, saved, rows, sourceVars, last, still>>

\* What becomes of an episode: an empty one is no file.
Finish ==
    /\ pc \in {"after", "discarded"}
    /\ saved' = IF pc = "after" /\ rows # <<>> THEN saved + 1 ELSE saved
    /\ pc' = "episodes"
    /\ UNCHANGED <<deviceVars, abort, rows, sourceVars, last, still>>
-----------------------------------------------------------------------------
(* next_action of the sources *)

\* ActionGuard.check: clip, rate limit, and the reasons to stop.
Guarded(raw, stop) ==
    IF stop THEN 0 ELSE Clamp(Clamp(raw, -Clip, Clip), last - Delta, last + Delta)

\* What the operator can ask for: a position of the lever, the keys of one axis, or
\* whatever the remote's reader delivers.
Wishes ==
    CASE input = "joystick" /\ devices > 0 -> -Travel .. Travel
      [] input = "keyboard" -> SUBSET {"minus", "plus"}
      [] input = "oem_remote" -> {-Full - 1, -1, 0, Full + 1}
      [] OTHER -> {0}

\* Both keys together cancel each other.
KeyAction(keys) ==
    LET step(key) == IF key \in keys THEN KeySpeed ELSE 0
    IN  Clamp(step("plus") - step("minus"), -Full, Full)

\* _parse_remote_result: nothing but the clip.
RemoteAction(delivered) == AsRealAction(delivered)

AtRest(wish) ==
    CASE input = "joystick" -> Remap(wish) = 0
      [] input = "keyboard" -> KeyAction(wish) = 0
      [] OTHER -> wish = 0

\* current' is what the smoother makes of the lever, where there is one.
NextAction(wish) ==
    CASE input = "joystick" -> Scaled(IF profile = "none" THEN Remap(wish) ELSE current')
      [] input = "keyboard" -> KeyAction(wish)
      [] input = "oem_remote" -> RemoteAction(wish)
      [] OTHER -> 0

Smooth(wish) ==
    IF profile # "none" /\ devices > 0
      THEN \E dt \in StepTimes : current' = Smoothed(wish, current, dt)
      ELSE UNCHANGED current

\* Every poll samples all the buttons; a request ends the episode before its action
\* is used, a quit before a discard.
Poll ==
    /\ pc = "loop" /\ ~Over
    /\ \E wish \in Wishes, held \in HeldSets :
         /\ Smooth(wish)
         /\ pressed' = IF input = "joystick" THEN Down(held) ELSE pressed
         /\ \/ /\ "quit" \in Requests(held)
               /\ pc' = "after" /\ abort' = TRUE
               /\ UNCHANGED <<rows, last, still>>
            \/ /\ "quit" \notin Requests(held) /\ Requests(held) # {}
               /\ pc' = "discarded"
               /\ UNCHANGED <<abort, rows, last, still>>
            \/ /\ Requests(held) = {}
               /\ \E stop \in BOOLEAN : last' = Guarded(NextAction(wish), stop)
               /\ rows' = Append(rows, IF input = "joystick" THEN Down(held) ELSE held)
               /\ still' = IF AtRest(wish) THEN still + 1 ELSE 0
               /\ UNCHANGED <<pc, abort>>
    /\ UNCHANGED <<deviceVars, saved>>

\* The remote's reader raises: what was recorded is lost.
RemoteFails ==
    /\ pc = "loop" /\ ~Over /\ input = "oem_remote"
    /\ pc' = "ended"
    /\ UNCHANGED <<deviceVars, sessionVars, rows, sourceVars, last, still>>

NextTeleop == \/ BeginEpisode \/ EndSession \/ Interrupt \/ LeaveLoop
              \/ SeeWindow \/ Finish \/ Poll \/ RemoteFails

SpecTeleop == InitTeleop /\ [][NextTeleop]_teleopVars
-----------------------------------------------------------------------------
\* In how many steps the smoother is back at neutral from the full command, and the
\* guard from its limit.
Settled == (Full + Recenter - 1) \div Recenter + (Clip + Delta - 1) \div Delta

(***************************************************************************)
(* An operator who lets go stops the machine: after Settled polls without  *)
(* a wish the guarded action is zero and stays so, whatever the lever did  *)
(* before and however long the steps take.  The smoother neither overshoots*)
(* nor keeps a remainder, and the guard's rate limit only adds its own time*)
(***************************************************************************)
ReleasedStickStops == still >= Settled => last = 0

(***************************************************************************)
(* No step is recorded while a control button is down, on any of the       *)
(* configured devices: the first poll that sees it ends the episode, also  *)
(* when it was pressed before the episode began, or is held from an        *)
(* earlier one.                                                            *)
(***************************************************************************)
RowsWithoutButtons == \A i \in 1 .. Len(rows) : rows[i] = {}
=============================================================================
