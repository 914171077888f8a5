------------------------------- MODULE ImuShm -------------------------------
(***************************************************************************)
(* The IMU's way to the client: ImuCanLib (can/imu_canlib.cpp) collects    *)
(* the frames of the devices and publishes them in shared memory, without  *)
(* a lock and with a sequence number that is raised after the writing;     *)
(* ExcavatorCommunication::read (excavator/excavator_comm.cpp) copies them *)
(* and looks at that number before and after.                              *)
(*                                                                         *)
(* Data: of a device's readings only the attitude is kept, as the device   *)
(* it came from and the publication it was part of.  The online and valid  *)
(* flags are left out: nobody reads them.  So are the other processes that *)
(* may own the mapping, and its magic number, which is always right here.  *)
(***************************************************************************)
EXTENDS Integers

CONSTANTS DeviceCount,     \* kImuDeviceCount, and how many devices are on the bus
          CreateMapping,   \* create_mapping: a start clears the mapping
          MaxSequence,     \* bound: publications of a run
          MaxRuns          \* bound: starts of the runtime

ASSUME ImuAssumption ==
    /\ DeviceCount \in Nat \ {0} /\ CreateMapping \in BOOLEAN
    /\ MaxSequence \in Nat /\ MaxRuns \in Nat

Slots == 1 .. DeviceCount

VARIABLES
    base,        \* the devices' own addressing: the first has address 0, or 1
    simulation,  \* simulation_enabled
    rereads,     \* the program reads sequence again after the copying
    addrMode,    \* addr_mode: 0 unknown, 1 zero-based, 2 one-based
    partials,    \* whose attitude each accumulator holds, 0 for nobody's
    imus,        \* the blocks in shared memory: device and publication of each
    sequence,
    writing,     \* publish_shm: the next block, 0 between publications
    reading,     \* read: the next block, 0 outside of it
    s1, snap, attempt,   \* its locals
    imuView,     \* the client has the mapping
    hwState,     \* hw_state_.imu
    hasValidImu,
    running, runs   \* the runtime is started; history: how often it was

senderVars == <<base, simulation, addrMode, partials>>
shmVars == <<imus, sequence, writing>>
copyVars == <<reading, s1, snap, attempt>>
heldVars == <<hwState, hasValidImu>>
startVars == <<rereads, imuView, running, runs>>
imuVars == <<senderVars, shmVars, copyVars, heldVars, startVars>>

Cleared == [i \in Slots |-> [device |-> 0, pub |-> 0]]

(* The build decides whether read compares two readings of the number or one
   with itself: nothing forbids the compiler to read it once. *)
InitImu ==
    /\ base \in {0, 1} /\ simulation \in BOOLEAN /\ rereads \in BOOLEAN
    /\ addrMode = 0 /\ partials = [i \in Slots |-> 0]
    /\ imus = Cleared /\ sequence = 0 /\ writing = 0
    /\ reading = 0 /\ s1 = 0 /\ snap = Cleared /\ attempt = 1
    /\ imuView = FALSE /\ hwState = Cleared /\ hasValidImu = FALSE
    /\ running = FALSE /\ runs = 0
-----------------------------------------------------------------------------
(* ImuCanLib *)

\* The mode that an address tells, and the accumulator that it selects then.
ModeAfter(addr) ==
    CASE addr = 0 -> 1
      [] addr = DeviceCount -> 2
      [] OTHER -> addrMode
Index(addr) == IF ModeAfter(addr) = 1 THEN addr + 1 ELSE addr

\* drain_can hands a device's frame to parseFrame, before a publication.  Frames
\* of other kinds leave the attitude alone, but their address counts.
ParseFrame(device, attitude) ==
    LET addr == device - 1 + base
    IN  /\ running /\ writing = 0 /\ ~simulation
        /\ addrMode' = ModeAfter(addr)
        /\ IF attitude /\ Index(addr) \in Slots
             THEN partials' = [partials EXCEPT ![Index(addr)] = device]
             ELSE UNCHANGED partials
        /\ UNCHANGED <<base, simulation, shmVars, copyVars, heldVars, startVars>>

\* publish_shm begins; the thread may be asked to stop only after it.
BeginPublish ==
    /\ running /\ writing = 0 /\ sequence < MaxSequence
    /\ writing' = 1
    /\ UNCHANGED <<senderVars, imus, sequence, copyVars, heldVars, startVars>>

\* One block; without has_euler, and in a simulation, its attitude stays zero.
WriteBlock ==
    /\ writing \in Slots
    /\ imus' = [imus EXCEPT ![writing] =
                  [device |-> CASE simulation -> 0
                                [] partials[writing] = 0 -> @.device
                                [] OTHER -> partials[writing],
                   pub |-> sequence + 1]]
    /\ writing' = writing + 1
    /\ UNCHANGED <<senderVars, sequence, copyVars, heldVars, startVars>>

EndPublish ==
    /\ writing = DeviceCount + 1
    /\ sequence' = sequence + 1 /\ writing' = 0
    /\ UNCHANGED <<senderVars, imus, copyVars, heldVars, startVars>>
-----------------------------------------------------------------------------
(* ExcavatorCommunication::read, in each cycle of the client's worker *)

BeginCopy(n) == reading' = 1 /\ s1' = sequence /\ snap' = Cleared /\ attempt' = n
LeaveRead == reading' = 0 /\ s1' = 0 /\ snap' = Cleared /\ attempt' = 1

\* Without the mapping, or without a whole copy, the last values stay.
KeepLast == IF hasValidImu THEN UNCHANGED hwState ELSE hwState' = Cleared

BeginRead ==
    /\ running /\ imuView /\ reading = 0
    /\ BeginCopy(1)
    /\ UNCHANGED <<senderVars, shmVars, heldVars, startVars>>

ReadUnmapped ==
    /\ running /\ ~imuView
    /\ KeepLast
    /\ UNCHANGED <<senderVars, shmVars, copyVars, hasValidImu, startVars>>

CopyBlock ==
    /\ reading \in Slots
    /\ snap' = [snap EXCEPT ![reading] = imus[reading]]
    /\ reading' = reading + 1
    /\ UNCHANGED <<senderVars, shmVars, s1, attempt, heldVars, startVars>>

\* Mutation of Whole: the number is not looked at.
WholeAlways == TRUE

Whole == rereads => s1 = sequence

\* A copy that is not whole is taken once more.
EndCopy ==
    /\ reading = DeviceCount + 1
    /\ \/ /\ Whole
          /\ hwState' = snap /\ hasValidImu' = TRUE
          /\ LeaveRead
       \/ /\ ~Whole /\ attempt = 1
          /\ BeginCopy(2)
          /\ UNCHANGED heldVars
       \/ /\ ~Whole /\ attempt = 2
          /\ KeepLast /\ UNCHANGED hasValidImu
          /\ LeaveRead
    /\ UNCHANGED <<senderVars, shmVars, startVars>>
-----------------------------------------------------------------------------
(* ExcavatorRuntime *)

\* Mutation of StartImu: the addressing has to be recognised anew.
StartImuForgets ==
    /\ ~running /\ runs < MaxRuns
    /\ running' = TRUE /\ runs' = runs + 1
    /\ IF CreateMapping
         THEN imus' = Cleared /\ sequence' = 0
         ELSE UNCHANGED <<imus, sequence>>
    /\ imuView' \in BOOLEAN /\ hasValidImu' = FALSE /\ addrMode' = 0
    /\ UNCHANGED <<base, simulation, partials, writing, copyVars, hwState, rereads>>

\* start: what the frames have told, the accumulators and hw_state_ survive a
\* restart; open of the client forgets only that they were valid.
StartImu ==
    /\ ~running /\ runs < MaxRuns
    /\ running' = TRUE /\ runs' = runs + 1
    /\ IF CreateMapping
         THEN imus' = Cleared /\ sequence' = 0
         ELSE UNCHANGED <<imus, sequence>>
    /\ imuView' \in BOOLEAN /\ hasValidImu' = FALSE
    /\ UNCHANGED <<senderVars, writing, copyVars, hwState, rereads>>

\* stop joins the client's worker and then this one, each after its cycle.
StopImu ==
    /\ running /\ writing = 0 /\ reading = 0
    /\ running' = FALSE
    /\ UNCHANGED <<senderVars, shmVars, copyVars, heldVars, rereads, imuView, runs>>

NextImu ==
    \/ \E device \in Slots, attitude \in BOOLEAN : ParseFrame(device, attitude)
    \/ BeginPublish \/ WriteBlock \/ EndPublish
    \/ BeginRead \/ ReadUnmapped \/ CopyBlock \/ EndCopy
    \/ StartImu \/ StopImu

SpecImu == InitImu /\ [][NextImu]_imuVars
-----------------------------------------------------------------------------
(***************************************************************************)
(* The number is raised after the writing, so a copy taken in the middle   *)
(* passes the comparison.  But what the joints are computed from mixes two *)
(* successive publications at most, provided that the number is read       *)
(* twice.                                                                  *)
(***************************************************************************)
NearlyWhole ==
    rereads => \A i, j \in Slots : hwState[i].pub <= hwState[j].pub + 1

(***************************************************************************)
(* Before the addressing is recognised an axis may show its neighbour.     *)
(* Once it has shown its own device it never shows another's, whatever     *)
(* frames come in which order, and over restarts.                          *)
(***************************************************************************)
OwnAxisStays ==
    [][\A i \in Slots : hwState[i].device = i => hwState'[i].device \in {0, i}]_imuVars
=============================================================================
