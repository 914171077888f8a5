------------------------------ MODULE MCParts -------------------------------
(***************************************************************************)
(* The operator's devices, the backend in its modes, the sample buffers,   *)
(* the IMU's shared memory and the laws of motion have no variable in      *)
(* common: part says which of them a behaviour is about, and the others    *)
(* stay as they are at first.                                              *)
(***************************************************************************)
EXTENDS Teleop, RealBackend, SampleBuffer, ImuShm, MotionLaw

VARIABLE part

ScalarsDef == {-6, 0, 2, 6}
VelocitiesDef == {-6, 3}
PositionsDef == {-6, 0, 3}

InitParts ==
    /\ part \in {"teleop", "backend", "buffer", "imu", "law"}
    /\ InitTeleop /\ InitBackend /\ InitBuffer /\ InitImu /\ InitLaw
    /\ part # "teleop" => input = "zero"
    /\ part # "backend" => ~oneShot
    /\ part # "imu" => base = 0 /\ ~simulation /\ ~rereads

NextParts ==
    /\ UNCHANGED part
    /\ \/ part = "teleop" /\ NextTeleop
          /\ UNCHANGED <<backendVars, bufferVars, imuVars, lawVars>>
       \/ part = "backend" /\ NextBackend
          /\ UNCHANGED <<teleopVars, bufferVars, imuVars, lawVars>>
       \/ part = "buffer" /\ NextBuffer
          /\ UNCHANGED <<teleopVars, backendVars, imuVars, lawVars>>
       \/ part = "imu" /\ NextImu
          /\ UNCHANGED <<teleopVars, backendVars, bufferVars, lawVars>>
       \/ part = "law" /\ NextLaw
          /\ UNCHANGED <<teleopVars, backendVars, bufferVars, imuVars>>

SpecParts ==
    InitParts /\ [][NextParts]_<<part, teleopVars, backendVars, bufferVars, imuVars, lawVars>>
=============================================================================
