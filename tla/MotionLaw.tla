------------------------------ MODULE MotionLaw ------------------------------
(***************************************************************************)
(* What the laws of control/src/excavator/excavator_control.cpp make of    *)
(* the command in force, cycle by cycle: the speed that goes to the motor, *)
(* the zero drift that one of the laws learns, and what a change of the    *)
(* mode or a restart leaves of both.  ServoLoop models which command and   *)
(* which law meet in a cycle.                                              *)
(*                                                                         *)
(* Data: one joint; its commands in units of which a scalar of 1.0 has     *)
(* Full, its motor's speed as the distance from neutral.  A quotient is    *)
(* rounded toward zero.  plan_rpm, the only result of the PID terms and of *)
(* the learned drift of the measured velocity, is sent to no motor and     *)
(* left out, and so is the sign that one of the joints has turned.         *)
(***************************************************************************)
EXTENDS RealAction

CONSTANTS HalfSpan,     \* from neutral to full speed
          SlewStep,     \* kFfRpmSlewFraction of it
          Deadband,     \* kFfScalarDeadband
          Threshold,    \* feedforward_scalar_threshold
          BiasCycles,   \* kInitialBiasCycles
          Scalars, Velocities, Positions  \* the commands; bound on positions

ASSUME MotionLawAssumption ==
    /\ {HalfSpan, SlewStep, BiasCycles} \subseteq Nat \ {0}
    /\ Deadband \in 0 .. Full - 1 /\ Threshold \in 0 .. Full
    /\ Scalars \cup Velocities \cup Positions \subseteq Int

VARIABLES
    mode,       \* the mode of the channel
    lastMode,   \* last_mode_: that of the newest cycle
    inForce,    \* the command that takeServoCmd gives, or NoCommand
    speed,      \* motor_rpm of the published reference
    position,   \* its position
    driftSum, driftCount,  \* ref_scalar_bias_sum_, zero_drift_count_
    atRest,     \* history: the newest cycle had a scalar of zero
    cycles, allZero   \* history: the cycles that count for the drift since the mode
                      \* was entered, and whether all their scalars were zero

driftVars == <<driftSum, driftCount>>
lawHistory == <<atRest, cycles, allZero>>
lawVars == <<mode, lastMode, inForce, speed, position, driftVars, lawHistory>>

LawModes == {"open", "position", "velocity", "scalar"}
NoCommand == [kind |-> "none", value |-> 0]

InitLaw ==
    /\ mode = "open" /\ lastMode = "open" /\ inForce = NoCommand
    /\ speed = 0 /\ position = 0 /\ driftSum = 0 /\ driftCount = 0
    /\ atRest = TRUE /\ cycles = 0 /\ allZero = TRUE
-----------------------------------------------------------------------------
(* The numbers *)

\* scalar_to_motor_rpm
MotorSpeed(scalar) == Proportion(Clamp(scalar, -Full, Full), HalfSpan, Full)

\* map_scalar_for_feedforward and the motor's speed for it: nothing is mapped inside
\* the deadband, outside of it the rest of the range begins at the threshold.
FeedForward(scalar) ==
    IF Magnitude(scalar) <= Deadband THEN MotorSpeed(scalar)
    ELSE SignOf(scalar) *
           (((Threshold * (Full - Deadband)
                + (Full - Threshold) * (Magnitude(scalar) - Deadband)) * HalfSpan)
              \div (Full * (Full - Deadband)))

\* Mutation of Slewed: the two sides of neutral are not told apart.
SlewedOneSided(target, prev) ==
    IF target < prev THEN target
    ELSE Clamp(prev + Clamp(target - prev, -SlewStep, SlewStep), -HalfSpan, HalfSpan)

\* slew_feedforward_motor_rpm: a target nearer to neutral is taken over at once, on
\* whichever side it is.
Slewed(target, prev) ==
    IF Magnitude(target) < Magnitude(prev) THEN Clamp(target, -HalfSpan, HalfSpan)
    ELSE Clamp(prev + Clamp(target - prev, -SlewStep, SlewStep), -HalfSpan, HalfSpan)

\* What the command in force has for a law; the fields that it does not set are zero.
Given(kind) == IF inForce.kind = kind THEN inForce.value ELSE 0
-----------------------------------------------------------------------------
(* The program *)

\* setControlMode
SetMode(m) ==
    /\ mode' = m
    /\ UNCHANGED <<lastMode, inForce, speed, position, driftVars, lawHistory>>

\* sendCommand, for the modes that admit the type.
Send(kind, value) ==
    /\ mode \in IF kind = "scalar" THEN {"open", "scalar"} ELSE {kind}
    /\ inForce' = [kind |-> kind, value |-> value]
    /\ UNCHANGED <<mode, lastMode, speed, position, driftVars, lawHistory>>

\* stop and start: init publishes a fresh reference, the controller and the queue
\* stay as they are.
Restart ==
    /\ speed' = 0 /\ position' = 0
    /\ UNCHANGED <<mode, lastMode, inForce, driftVars, lawHistory>>
-----------------------------------------------------------------------------
(* A cycle of the worker *)

\* Mutation of Remembered: a change of the mode keeps what was learned.
RememberedAlways(learned) == learned

\* updateRef forgets what was learned when the mode is another than a cycle ago.
Remembered(learned) == IF mode = lastMode THEN learned ELSE 0

Learning == Remembered(driftCount) < BiasCycles

\* applyZeroDriftCompensation, of the commanded scalar: the cycle that completes the
\* mean uses it.
Bias == IF driftCount' = BiasCycles THEN Proportion(driftSum', 1, BiasCycles) ELSE 0
Compensated(raw) == Clamp(raw - Bias, -Full, Full)

Learn(raw) ==
    /\ driftSum' = Remembered(driftSum) + (IF Learning THEN raw ELSE 0)
    /\ driftCount' = Remembered(driftCount) + (IF Learning THEN 1 ELSE 0)
Forget == driftSum' = Remembered(driftSum) /\ driftCount' = Remembered(driftCount)

\* Without a command the closed loops leave the reference, which has been neutral so far.
NoLaw == speed' = speed /\ position' = position /\ Forget

\* Without a command it takes the scalar of the reference, zero so far.
OpenLoopMotorSpeed ==
    /\ speed' = MotorSpeed(Given("scalar"))
    /\ position' \in Positions /\ Forget

\* The command of a closed loop is the way to the new position in one cycle: given
\* again, it is none.
ClosedLoopJointPosition ==
    /\ position' = Given("position")
    /\ speed' = MotorSpeed(position' - position) /\ Forget

\* Where the next two leave the reference depends on where the machine was: any of
\* the positions.
ClosedLoopJointVelocity ==
    /\ speed' = MotorSpeed(Given("velocity"))
    /\ position' \in Positions /\ Forget

ClosedLoopVelocityScalar ==
    LET raw == Clamp(Given("scalar"), -Full, Full)
    IN  /\ Learn(raw)
        /\ speed' = Slewed(FeedForward(Compensated(raw)), speed)
        /\ position' \in Positions

UpdateReference ==
    \/ mode = "open" /\ OpenLoopMotorSpeed
    \/ mode # "open" /\ inForce = NoCommand /\ NoLaw
    \/ /\ inForce # NoCommand
       /\ \/ mode = "position" /\ ClosedLoopJointPosition
          \/ mode = "velocity" /\ ClosedLoopJointVelocity
          \/ mode = "scalar" /\ ClosedLoopVelocityScalar

\* What is observed of a cycle, apart from the learning itself.
CyclesBefore == IF mode = lastMode THEN cycles ELSE 0
Counts == mode = "scalar" /\ inForce # NoCommand /\ CyclesBefore < BiasCycles
Observed ==
    /\ atRest' = (Given("scalar") = 0)
    /\ cycles' = CyclesBefore + (IF Counts THEN 1 ELSE 0)
    /\ allZero' = ((mode = lastMode => allZero) /\ (Counts => Given("scalar") = 0))

\* updateRef
Cycle ==
    /\ UpdateReference /\ Observed
    /\ lastMode' = mode
    /\ UNCHANGED <<mode, inForce>>

NextLaw ==
    \/ \E m \in LawModes : SetMode(m)
    \/ \E value \in Scalars : Send("scalar", value)
    \/ \E value \in Velocities : Send("velocity", value)
    \/ \E value \in Positions : Send("position", value)
    \/ Restart \/ Cycle

SpecLaw == InitLaw /\ [][NextLaw]_lawVars
-----------------------------------------------------------------------------
(***************************************************************************)
(* A scalar of zero makes the motor neutral within the cycle, from any     *)
(* speed and after any changes of the mode and restarts, if in the law     *)
(* that learns a drift the first BiasCycles commands since the mode was    *)
(* entered were zero: that law takes them for the lever at rest, whatever  *)
(* they are.                                                               *)
(***************************************************************************)
ZeroIsNeutral ==
    atRest /\ (lastMode = "open" \/ (lastMode = "scalar" /\ allZero)) => speed = 0

(***************************************************************************)
(* The law of the velocity scalar never lets the motor run away from       *)
(* neutral by more than a step per cycle: not when it is entered from      *)
(* another law, nor when the drift takes effect all at once, nor when the  *)
(* direction is turned.                                                    *)
(***************************************************************************)
AwayFromNeutralGently ==
    [][lastMode' = "scalar" => Magnitude(speed') <= Magnitude(speed) + SlewStep]_lawVars
=============================================================================
